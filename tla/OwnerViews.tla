----------------------------- MODULE OwnerViews -----------------------------
(***************************************************************************)
(* The commands that only report: `session info`, `config approval get`    *)
(* and `status`, `secret show-allowlist` and `validate`, `vars status`     *)
(* (src/cli/session_info.rs, config_approval.rs, secret.rs, vars.rs).      *)
(*                                                                         *)
(* Each reads several files, one after the other and without a lock, and   *)
(* judges them by code of its own, in which the owner, or an agent that is *)
(* kept from the files themselves, reads what the server would do.  The    *)
(* judgements of the server stand beside them.  What is on disk is         *)
(* abstracted to what either of them tells apart: an HMAC is the text it   *)
(* was computed from, a session is known by what becomes of it.            *)
(***************************************************************************)
EXTENDS ApprovalPolicy, FiniteSets

CONSTANTS Workspace,   \* workspace ids, natural numbers in the order of their names
          MaxChanges   \* bound on what the other commands change

ASSUME ViewConstants == Workspace \subseteq Nat /\ IsFiniteSet(Workspace) /\ MaxChanges \in Nat

VARIABLES
  disk,      \* the files of the home and the environment of the shell
  view,      \* the command that reports, and what it has read
  signed,    \* the texts that set-allowlist has signed for their own profile
  signing,   \* the text of a set-allowlist between its two files, or Nothing
  quiet,     \* has nothing changed since the command began?
  changes    \* changes made

wvars == <<disk, view, signed, signing, quiet, changes>>

Nothing == [of |-> "nobody", fit |-> "none"]

(* An allowlist: the profile it names, and whether it is sound, has a date  *)
(* that is over, or a level of audit that nobody knows.                     *)
Allowlist == [of : {"asked", "other"}, fit : {"sound", "lapsed", "level"}]

(* A session is rejected by load, loads but does not open this vault, or    *)
(* opens it.                                                                *)
Config == [file : {"absent", "signed", "edited"}, mode : Mode, downgrade : BOOLEAN]

Disk == [vault : BOOLEAN, session : {"none", "rejected", "foreign", "usable"},
         config : Config, text : Allowlist \cup {Nothing}, hmac : Allowlist \cup {Nothing},
         variable : {"none", "good", "unverified", "invalid"},
         tokens : SUBSET Workspace, pro : BOOLEAN,
         password : {Unset, "right", "wrong"}, mode : ModeOrUnset, chosen : Workspace \cup {0}]

Command == {"info", "approval", "show", "validate", "vars"}

View == [command : Command, at : {"begin", "local", "pro", "token", "again", "config", "hmac",
                                  "key", "text", "print", "shown"},
         text : Allowlist \cup {Nothing}, hmac : Allowlist \cup {Nothing},
         list : SUBSET Workspace, opened : BOOLEAN, pro : BOOLEAN, mode : Mode, workspace : Workspace \cup {0},
         said : {"none", "yes", "no", "unverified", "refused", "panic"}]

Asked(command) ==
  [command |-> command, at |-> "begin", text |-> Nothing, hmac |-> Nothing, list |-> {},
   opened |-> FALSE, pro |-> FALSE, mode |-> "ask", workspace |-> 0, said |-> "none"]

ViewTypeOK ==
  /\ disk \in Disk /\ view \in View /\ signing \in Allowlist \cup {Nothing}
  /\ signed \subseteq Allowlist /\ quiet \in BOOLEAN /\ changes \in 0..MaxChanges

------------------------------------------------------------------------------
(* What the server makes of the same files.                                *)

Loads(d)  == d.session \in {"foreign", "usable"}
Opens(d)  == d.vault /\ d.session = "usable"

(* load_inner with a key; config.toml may be missing.                      *)
Verifies(d) == d.config.file # "edited"

Default == [file |-> "absent", mode |-> "ask-destructive", downgrade |-> FALSE]
ConfigOf(d) == IF d.config.file = "absent" THEN Default ELSE d.config

Resolved(d, c) == resolve_mode_ratcheted(d.mode, Unset, c.mode, c.downgrade)

(* The mode of a server launched on these files, for a profile that does   *)
(* not override it: a configuration that does not verify is replaced by    *)
(* the defaults (serve_with_vault, unwrap_or_default).                     *)
ServedMode(d) == Resolved(d, IF Verifies(d) THEN ConfigOf(d) ELSE Default)

(* The first steps of enforce_allowlist, and the date.                     *)
Accepts(d) == d.text # Nothing /\ d.hmac = d.text /\ d.text.of = "asked"
Serves(d)  == Accepts(d) /\ d.text.fit # "lapsed"

Resolves(d) == Opens(d) /\ d.variable = "good"

(* The workspace whose secrets a server launched now hands out: 0 stands   *)
(* for the local vault.                                                    *)
Bound(d) ==
  IF d.tokens = {} THEN {0}
  ELSE IF Cardinality(d.tokens) = 1 THEN d.tokens
  ELSE {d.chosen} \cap d.tokens

------------------------------------------------------------------------------
(* The commands, reading by reading.                                       *)

At(command, step) == view.command = command /\ view.at = step
Sees(v) == view' = v /\ UNCHANGED <<disk, signed, signing, quiet, changes>>
Says(what) == Sees([view EXCEPT !.at = "shown", !.said = what])

YesNo(b) == IF b THEN "yes" ELSE "no"

(* session info.                                                           *)
ListSessions ==
  /\ At("info", "begin")
  /\ Sees([view EXCEPT !.at = "local", !.list = disk.tokens])

ReadLocal ==
  /\ At("info", "local")
  /\ Sees([view EXCEPT !.at = "pro", !.opened = Loads(disk)])

(* Without a workspace that is all.                                        *)
ReadPro ==
  /\ At("info", "pro")
  /\ Sees([view EXCEPT !.at = IF view.list = {} THEN "shown" ELSE "token",
                       !.pro = disk.pro,
                       !.said = IF view.list = {} THEN "yes" ELSE "none"])

First(S) == CHOOSE w \in S : \A v \in S : w <= v
Pick(S) == IF Cardinality(S) > 1 /\ disk.chosen \in S THEN disk.chosen ELSE First(S)

(* `expect("present, just listed")`: it may be gone.                       *)
TokenGone ==
  /\ view.command = "info" /\ view.at \in {"token", "again"}
  /\ Pick(view.list) \notin disk.tokens
  /\ Says("panic")

(* --json reads the token a second time.                                   *)
LoadToken(json) ==
  /\ At("info", "token") /\ Pick(view.list) \in disk.tokens
  /\ Sees([view EXCEPT !.workspace = Pick(view.list),
                       !.at = IF json THEN "again" ELSE "shown",
                       !.said = IF json THEN "none" ELSE "yes"])

LoadAgain ==
  /\ At("info", "again") /\ Pick(view.list) \in disk.tokens
  /\ Sees([view EXCEPT !.workspace = Pick(view.list), !.at = "shown", !.said = "yes"])

(* config approval get, status: unlocked by the password of the            *)
(* environment, where there is one, or else by the session.                *)
WrongPassword ==
  /\ At("approval", "begin") /\ disk.vault /\ disk.password = "wrong"
  /\ Says("refused")

TryUnlock ==
  /\ At("approval", "begin") /\ ~(disk.vault /\ disk.password = "wrong")
  /\ Sees([view EXCEPT !.at = "config",
                       !.opened = \/ disk.vault /\ disk.password = "right"
                                  \/ disk.password = Unset /\ Opens(disk)])

LoadForDisplay ==
  /\ At("approval", "config") /\ (view.opened => Verifies(disk))
  /\ Sees([view EXCEPT !.at = "shown", !.mode = Resolved(disk, ConfigOf(disk)),
                       !.said = IF view.opened THEN "yes" ELSE "unverified"])

RefuseTampered ==
  /\ At("approval", "config") /\ view.opened /\ ~Verifies(disk)
  /\ Says("refused")

(* secret show-allowlist: the text, the profile, the session, and the      *)
(* session once more for the values to mask.                               *)
ReadText ==
  /\ At("show", "begin")
  /\ IF disk.text = Nothing
       THEN Says("refused")
       ELSE Sees([view EXCEPT !.at = "hmac", !.text = disk.text])

ReadHmac ==
  /\ At("show", "hmac")
  /\ Sees([view EXCEPT !.at = "key", !.hmac = disk.hmac])

TryKey ==
  /\ At("show", "key")
  /\ Sees([view EXCEPT !.at = "print", !.opened = Opens(disk)])

(* Variant: the HMAC decides alone.                                        *)
hmac_state_unbound(v) ==
  IF ~v.opened THEN "unverified"
    ELSE YesNo(v.hmac # Nothing /\ v.hmac = v.text)

(* VALID, TAMPERED or NO_HMAC, UNVERIFIED.                                 *)
allowlist_hmac_state(v) ==
  IF ~v.opened THEN "unverified"
    ELSE YesNo(v.hmac # Nothing /\ v.hmac = v.text /\ v.text.of = "asked")

PrintText == At("show", "print") /\ Says(allowlist_hmac_state(view))

(* secret validate: the profile, the text, no key.                         *)
ReadProfile ==
  /\ At("validate", "begin")
  /\ Sees([view EXCEPT !.at = "text", !.hmac = disk.hmac])

ValidateText ==
  /\ At("validate", "text")
  /\ Sees([view EXCEPT !.at = "shown", !.text = disk.text, !.said = YesNo(disk.text.fit = "sound")])

(* vars status.                                                            *)
TryVars ==
  /\ At("vars", "begin")
  /\ IF Opens(disk) THEN Sees([view EXCEPT !.at = "print", !.opened = TRUE]) ELSE Says("refused")

PrintVars == At("vars", "print") /\ Says(YesNo(disk.variable = "good"))

------------------------------------------------------------------------------
(* The other commands, and hands.                                          *)

Becomes(d) ==
  /\ changes < MaxChanges /\ view.at # "shown"
  /\ disk' = d /\ d # disk /\ quiet' = FALSE /\ changes' = changes + 1
  /\ UNCHANGED view

SessionTurns(s) ==
  Becomes([disk EXCEPT !.session = s]) /\ UNCHANGED <<signed, signing>>

ConfigTurns(c) ==
  Becomes([disk EXCEPT !.config = c]) /\ UNCHANGED <<signed, signing>>

VariableTurns(v) ==
  Becomes([disk EXCEPT !.variable = v]) /\ UNCHANGED <<signed, signing>>

TokensTurn(w) ==
  /\ Becomes([disk EXCEPT !.tokens = IF w \in @ THEN @ \ {w} ELSE @ \cup {w}])
  /\ UNCHANGED <<signed, signing>>

EditText(t) == Becomes([disk EXCEPT !.text = t]) /\ UNCHANGED <<signed, signing>>

(* set-allowlist: the text, and then its HMAC; nothing but its own profile *)
(* is signed.                                                              *)
WriteText(t) ==
  /\ signing = Nothing /\ t.of = "asked"
  /\ Becomes([disk EXCEPT !.text = t])
  /\ signing' = t /\ UNCHANGED signed

WriteHmac ==
  /\ signing # Nothing
  /\ disk' = [disk EXCEPT !.hmac = signing]
  /\ signed' = signed \cup {signing} /\ signing' = Nothing /\ quiet' = FALSE
  /\ UNCHANGED <<view, changes>>

------------------------------------------------------------------------------
ViewInit ==
  /\ disk \in Disk
  /\ disk.config.file = "absent" => disk.config = Default
  /\ \E command \in Command : view = Asked(command)
  /\ signed = {disk.hmac} \ {Nothing} /\ signing = Nothing
  /\ quiet = TRUE /\ changes = 0

Reports ==
  \/ ListSessions \/ ReadLocal \/ ReadPro \/ TokenGone \/ LoadAgain
  \/ \E json \in BOOLEAN : LoadToken(json)
  \/ WrongPassword \/ TryUnlock \/ LoadForDisplay \/ RefuseTampered
  \/ ReadText \/ ReadHmac \/ TryKey \/ PrintText
  \/ ReadProfile \/ ValidateText \/ TryVars \/ PrintVars

Others ==
  \/ \E s \in {"none", "rejected", "foreign", "usable"} : SessionTurns(s)
  \/ \E c \in Config : ConfigTurns(c)
  \/ \E v \in {"none", "good", "unverified", "invalid"} : VariableTurns(v)
  \/ \E w \in Workspace : TokensTurn(w)
  \/ \E t \in Allowlist : EditText(t) \/ WriteText(t)
  \/ WriteHmac

ViewNext == Reports \/ Others
ViewSpec == ViewInit /\ [][ViewNext]_wvars

------------------------------------------------------------------------------
(* Properties.                                                             *)

(* A report made while nothing changes says what a server launched on the  *)
(* same files does: which session opens the vault, which workspace it is   *)
(* bound to unless it refuses to choose, the mode it asks in, whether an   *)
(* allowlist is accepted, and whether a variable is resolved.              *)
Agrees ==
  CASE view.command = "info" ->
         /\ view.said # "panic"
         /\ Opens(disk) => view.opened
         /\ view.opened => Opens(disk) \/ disk.session = "foreign" \/ ~disk.vault
         /\ Bound(disk) # {} => view.workspace \in Bound(disk)
    [] view.command = "approval" ->
         /\ view.said = "yes" => view.mode = ServedMode(disk)
         /\ view.said = "refused" => ~Verifies(disk) \/ disk.password = "wrong"
         /\ view.said = "unverified" => ~Opens(disk)
    [] view.command = "show" ->
         /\ view.said = "yes" => Accepts(disk)
         /\ view.said = "no" => ~Accepts(disk)
         /\ view.said = "unverified" => ~Opens(disk)
    [] view.command = "validate" ->
         /\ view.said = "yes" /\ Accepts(disk) => Serves(disk)
         /\ view.said = "no" => ~Serves(disk) \/ disk.text.fit = "level"
    [] view.command = "vars" -> (view.said = "yes") <=> Resolves(disk)

(* Whatever changes meanwhile, a text is reported VALID only if it was     *)
(* signed for the profile asked about.                                     *)
ReportedAsServed ==
  view.at = "shown" =>
    /\ quiet => Agrees
    /\ view.command = "show" /\ view.said = "yes" => view.text \in signed /\ view.text.of = "asked"
==============================================================================
