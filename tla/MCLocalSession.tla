---------------------------- MODULE MCLocalSession ----------------------------
(***************************************************************************)
(* Small instances of LocalSession, two processes and two machine names,   *)
(* of ServeBoot, two passwords and a client that launches one server, and  *)
(* of OwnerViews, two workspaces.  LocalSession has the files of the       *)
(* session one by one; the other two ask only what becomes of a session,   *)
(* and have what else decides whether a server opens the vault, and what   *)
(* the owner is told: a behaviour is one of one of them.                   *)
(***************************************************************************)
EXTENDS LocalSession, ServeBoot, OwnerViews

CONSTANTS w1, w2

VARIABLE part

SessionAtRest == SessionInit /\ host = CHOOSE h \in Host : TRUE

BootAtRest ==
  /\ BootInit /\ ~macos /\ derived = None /\ sentinel = w1 /\ client.env = w1

(* What a command does not read is as it is in a fresh home.               *)
Fresh ==
  [vault |-> TRUE, session |-> "usable", config |-> Default, text |-> Nothing, hmac |-> Nothing,
   variable |-> "none", tokens |-> {}, pro |-> FALSE, password |-> Unset, mode |-> Unset, chosen |-> 0]

Sessions == {"none", "rejected", "foreign", "usable"}
Texts == Allowlist \cup {Nothing}

Disks(command) ==
  CASE command = "info" ->
         {[Fresh EXCEPT !.vault = v, !.session = s, !.tokens = t, !.chosen = w, !.pro = p] :
            v \in BOOLEAN, s \in Sessions, t \in SUBSET Workspace, w \in Workspace \cup {0}, p \in BOOLEAN}
    [] command = "approval" ->
         {[Fresh EXCEPT !.vault = v, !.session = s, !.config = c, !.password = p, !.mode = m] :
            v \in BOOLEAN, s \in Sessions, c \in Config, p \in {Unset, "right", "wrong"}, m \in ModeOrUnset}
    [] command \in {"show", "validate"} ->
         {[Fresh EXCEPT !.session = s, !.text = t, !.hmac = h] : s \in Sessions, t \in Texts, h \in Texts}
    [] command = "vars" ->
         {[Fresh EXCEPT !.session = s, !.variable = v] :
            s \in Sessions, v \in {"none", "good", "unverified", "invalid"}}

ViewsAtRest == disk = Fresh /\ view = Asked("vars") /\ ViewInit

MCInit ==
  \/ part = "session" /\ SessionInit /\ BootAtRest /\ ViewsAtRest
  \/ part = "boot" /\ BootInit /\ SessionAtRest /\ ViewsAtRest
  \/ /\ part = "views" /\ SessionAtRest /\ BootAtRest
     /\ \E command \in Command : disk \in Disks(command) /\ view = Asked(command) /\ ViewInit

MCNext ==
  \/ part = "session" /\ SessionNext /\ UNCHANGED <<bvars, wvars, part>>
  \/ part = "boot" /\ BootNext /\ UNCHANGED <<svars, wvars, part>>
  \/ part = "views" /\ ViewNext /\ UNCHANGED <<svars, bvars, part>>

MCSpec ==
  /\ MCInit /\ [][MCNext]_<<svars, bvars, wvars, part>>
  /\ \A p \in Proc :
       SF_<<svars, bvars, wvars, part>>(SessionStep(p) /\ UNCHANGED <<bvars, wvars, part>>)
===============================================================================
