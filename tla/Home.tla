---------------------------------- MODULE Home ----------------------------------
(***************************************************************************)
(* The files that anchor a vault to its directory: the sentinel, the       *)
(* recovery codes and the signed configuration, and the commands that      *)
(* write them: init (src/cli/init.rs), config rebind-home                  *)
(* (src/cli/config_rebind.rs), config recovery-codes regenerate            *)
(* (src/cli/config_recovery_codes.rs) and the config commands that change  *)
(* one setting (src/cli/config_cmd.rs, config_approval.rs,                 *)
(* config_telemetry.rs), over src/config.rs and src/vault/recovery.rs.     *)
(*                                                                         *)
(* A command reads what it needs and then works through its side effects   *)
(* in order.  Nobody locks; codes and configuration go through a temporary *)
(* file of a fixed name, except in init.  The owner may copy a vault to    *)
(* another home, edit a configuration by hand or move it aside.            *)
(***************************************************************************)
EXTENDS Naturals, Sequences, SequencesExt, TLC

CONSTANTS Home,        \* directories KVENDRA_HOME may name, all existing
          Terminal,    \* terminals running a kvendra command
          Slot,        \* positions of a set of recovery codes
          Field,       \* settings, each on or off; all off by default
          Absent,      \* a file that does not exist
          Torn,        \* a file truncated and not written yet
          Nobody,      \* no key, no home
          MaxCommands, \* bound on the commands begun
          MaxOverlaps, \* bound on those begun while another was at work
          MaxCopies,   \* bound on the copies of a vault
          MaxEdits     \* bound on the edits and removals by hand

VARIABLES
  sentinel,    \* per home: sentinel.blob, as the vault's key
  codes,       \* per home: recovery_codes.json
  config,      \* per home: config.toml
  codesTmp,    \* per home: recovery_codes.json.tmp
  configTmp,   \* per home: config.toml.tmp
  work,        \* per terminal: what its command is doing
  commands, overlaps, copies, edits, \* so far
  shown,       \* ghost: the sets of codes the owner has seen
  blind,       \* ghost: the sets of codes a regenerate died without showing
  spent,       \* ghost: per home, the codes a rebind has consumed there
  twice,       \* ghost: the homes where a code was consumed again
  rebound,     \* ghost: the homes a code has been consumed for
  wanted,      \* ghost: per home, the settings as the last complete commands left them
  crowd        \* ghost: per home, the files two commands had in hand at once

disk   == <<sentinel, codes, config, codesTmp, configTmp>>
bounds == <<commands, overlaps, copies, edits>>
ghosts == <<shown, blind, spent, twice, rebound, wanted, crowd>>
vars   == <<disk, work, bounds, ghosts>>

Default == [f \in Field |-> FALSE]

(* Config: the key it is signed with, home_canonical, the settings, and (not *)
(* in the file) the home where its settings began.                           *)
Config == [key : Nat \cup {Nobody}, home : Home \cup {Nobody}, set : [Field -> BOOLEAN],
           line : Home \cup {Nobody}]

DefaultConfig == [key |-> Nobody, home |-> Nobody, set |-> Default, line |-> Nobody]

(* RecoveryCodesFile: which set of codes it is, and the slots used. *)
RecoveryCodesFile == [gen : Nat, used : SUBSET Slot]

FreshCodes(g) == [gen |-> g, used |-> {}]

(* The marks for no file, a torn file and nobody are told from what they are *)
(* the absence of.                                                           *)
ASSUME HomeConstants ==
  /\ Absent # Torn /\ {Absent, Torn} \cap (Nat \cup Config \cup RecoveryCodesFile) = {}
  /\ Nobody \notin Nat \cup Home

Readable(file) == file \notin {Absent, Torn}

Idle == [op |-> "none", at |-> "idle", home |-> Nobody, todo |-> <<>>]

------------------------------------------------------------------------------
(* The side effects of each command, in their order.                         *)

InitEffects == <<"codes", "sentinel", "unlock", "config">>

(* Variant: the configuration is saved before the code is consumed. *)
RebindEffectsConfigFirst == <<"config", "codes">>

RebindEffects == <<"codes", "config">>

(* Its audit row comes before the codes are shown; without it they are not. *)
RegenerateEffects == <<"codes", "show">>

(* The files a command has in hand: those it may still write, and for init   *)
(* the codes until the vault they belong to is there.                        *)
Held(w) ==
  {<<x, w.home>> : x \in {"codes", "config"} \cap ToSet(w.todo)}
    \cup {<<"codes", w.home>> : x \in {"sentinel"} \cap ToSet(w.todo)}
    \cup (IF w.op = "rebind" /\ "config" \in ToSet(w.todo) THEN {<<"config", w.to>>} ELSE {})

(* A command begins with its home, what it is after and its effects.         *)
Begin(p, w) ==
  /\ commands' = commands + 1
  /\ overlaps' = IF \A q \in Terminal : work[q] = Idle THEN overlaps ELSE overlaps + 1
  /\ overlaps' <= MaxOverlaps
  /\ work' = [work EXCEPT ![p] = w]
  /\ crowd' = crowd \cup UNION {Held(work[q]) \cap Held(w) : q \in Terminal \ {p}}
  /\ UNCHANGED <<disk, copies, edits, blind, spent, twice, rebound, wanted>>

Go(p, at) == work' = [work EXCEPT ![p].at = at]

(* The effect is complete: on to the next.                                   *)
Following(w) == IF Len(w.todo) = 1 THEN Idle ELSE [w EXCEPT !.at = w.todo[2], !.todo = Tail(w.todo)]

Done(p) == work' = [work EXCEPT ![p] = Following(work[p])]

Fail(p) ==
  /\ work' = [work EXCEPT ![p] = Idle]
  /\ blind' = IF work[p].op = "regenerate" /\ "codes" \notin ToSet(work[p].todo)
              THEN blind \cup {work[p].codes.gen} ELSE blind
  /\ UNCHANGED <<disk, bounds, shown, spent, twice, rebound, wanted, crowd>>

------------------------------------------------------------------------------
(* config.rs.                                                                *)

(* Variant: a configuration without a valid signature is adopted, as         *)
(* auto_migrate_config_if_needed does. *)
VerifiedOrUnsigned(c, key) == Readable(c) /\ c.key \in {key, Nobody}

Verified(c, key) == Readable(c) /\ c.key = key

HomeMatches(c, h) == c.home \in {h, Nobody}

(* load_for_update; load_for_rebind does not compare the home. *)
Loads(h, key, check_home) ==
  config[h] = Absent \/ (Verified(config[h], key) /\ (check_home => HomeMatches(config[h], h)))

Loaded(h) == IF config[h] = Absent THEN DefaultConfig ELSE config[h]

(* save: signed, and stamped with the home unless it names one already. *)
Saved(c, key, h) ==
  LET home == IF c.home = Nobody THEN h ELSE c.home
  IN  [c EXCEPT !.key = key, !.home = home, !.line = IF @ = Nobody THEN home ELSE @]

------------------------------------------------------------------------------
(* init.                                                                     *)

(* The codes are shown and one of them typed in before anything is written.  *)
InitVault(p, h) ==
  /\ sentinel[h] = Absent
  /\ Begin(p, [op |-> "init", at |-> InitEffects[1], home |-> h, todo |-> InitEffects,
               codes |-> FreshCodes(commands + 1), key |-> commands + 1, config |-> DefaultConfig])
  /\ shown' = shown \cup {commands + 1}

TruncateCodes(p) ==
  /\ work[p].op = "init" /\ work[p].at = "codes"
  /\ codes' = [codes EXCEPT ![work[p].home] = Torn]
  /\ Go(p, "write-codes")
  /\ UNCHANGED <<sentinel, config, codesTmp, configTmp, bounds, ghosts>>

WriteCodes(p) ==
  /\ work[p].op = "init" /\ work[p].at = "write-codes"
  /\ codes' = [codes EXCEPT ![work[p].home] = work[p].codes]
  /\ Done(p)
  /\ UNCHANGED <<sentinel, config, codesTmp, configTmp, bounds, ghosts>>

(* create: it looks again, derives the key and writes.                       *)
Create(p) ==
  /\ work[p].at = "sentinel" /\ sentinel[work[p].home] = Absent
  /\ Go(p, "truncate-sentinel")
  /\ UNCHANGED <<disk, bounds, ghosts>>

AlreadyInitialized(p) ==
  /\ work[p].at = "sentinel" /\ sentinel[work[p].home] # Absent
  /\ Fail(p)

TruncateSentinel(p) ==
  /\ work[p].at = "truncate-sentinel"
  /\ sentinel' = [sentinel EXCEPT ![work[p].home] = Torn]
  /\ Go(p, "write-sentinel")
  /\ UNCHANGED <<codes, config, codesTmp, configTmp, bounds, ghosts>>

WriteSentinel(p) ==
  /\ work[p].at = "write-sentinel"
  /\ sentinel' = [sentinel EXCEPT ![work[p].home] = work[p].key]
  /\ Done(p)
  /\ UNCHANGED <<codes, config, codesTmp, configTmp, bounds, ghosts>>

(* The vault_created row, and the unlock with the password just set. *)
UnlockNew(p) ==
  /\ work[p].at = "unlock"
  /\ Readable(sentinel[work[p].home])
  /\ work' = [work EXCEPT ![p] = [Following(work[p]) EXCEPT !.key = sentinel[work[p].home]]]
  /\ UNCHANGED <<disk, bounds, ghosts>>

------------------------------------------------------------------------------
(* rebind-home from h to n with the code in slot s of the set g, which the   *)
(* owner has been shown.                                                     *)

RebindHome(p, h, n, g, s) ==
  /\ Readable(sentinel[h])
  /\ Begin(p, [op |-> "rebind", at |-> "read-codes", home |-> h, to |-> n, todo |-> RebindEffects,
               codes |-> Absent, gen |-> g, slot |-> s, key |-> sentinel[h], config |-> DefaultConfig])
  /\ UNCHANGED shown

(* validate_code_unconsumed. *)
Unconsumed(c, g, s) == Readable(c) /\ c.gen = g /\ s \notin c.used

mark_code_consumed(c, s) == [c EXCEPT !.used = @ \cup {s}]

(* The file is read and the code found unused in it.                         *)
ReadCodes(p) ==
  LET w == work[p] c == codes[w.home] IN
  /\ w.op = "rebind" /\ w.at = "read-codes"
  /\ Unconsumed(c, w.gen, w.slot)
  /\ work' = [work EXCEPT ![p].at = "load-config", ![p].codes = c]
  /\ UNCHANGED <<disk, bounds, ghosts>>

(* A wrong or used code, and a path retyped wrongly. *)
RefuseCode(p) ==
  /\ work[p].op = "rebind" /\ work[p].at = "read-codes"
  /\ Fail(p)

(* The configuration of the vault moved to n, or the one still at h.  Once   *)
(* it is found good, the code is marked in the copy of the codes read before. *)
LoadForRebind(p) ==
  LET w == work[p]
      moved == sentinel[w.to] # Absent
      at == IF moved THEN w.to ELSE w.home
      key == IF moved THEN sentinel[w.to] ELSE w.key IN
  /\ w.op = "rebind" /\ w.at = "load-config"
  /\ key # Torn /\ Loads(at, key, ~moved)
  /\ work' = [work EXCEPT ![p].at = RebindEffects[1], ![p].key = key, ![p].to = at,
                          ![p].config = [Loaded(at) EXCEPT !.home = w.to],
                          ![p].codes = mark_code_consumed(w.codes, w.slot)]
  /\ UNCHANGED <<disk, bounds, ghosts>>

RefuseConfig(p) ==
  LET w == work[p] IN
  /\ w.op = "rebind" /\ w.at = "load-config"
  /\ IF sentinel[w.to] # Absent THEN sentinel[w.to] = Torn \/ ~Loads(w.to, sentinel[w.to], FALSE)
     ELSE ~Loads(w.home, w.key, TRUE)
  /\ Fail(p)

------------------------------------------------------------------------------
(* recovery-codes regenerate, once it is acknowledged.                       *)

Regenerate(p, h) ==
  /\ Readable(sentinel[h]) /\ codes[h] # Torn
  /\ Begin(p, [op |-> "regenerate", at |-> RegenerateEffects[1], home |-> h, todo |-> RegenerateEffects,
               codes |-> FreshCodes(commands + 1)])
  /\ UNCHANGED shown

Show(p) ==
  /\ work[p].at = "show"
  /\ shown' = shown \cup {work[p].codes.gen}
  /\ Done(p)
  /\ UNCHANGED <<disk, bounds, blind, spent, twice, rebound, wanted, crowd>>

------------------------------------------------------------------------------
(* keychain, approval and telemetry change one setting, after the vault has  *)
(* opened with the master password.                                          *)
unlock_for_config(h) == Readable(sentinel[h])

ChangeSetting(p, h, f, on) ==
  /\ unlock_for_config(h)
  /\ Begin(p, [op |-> "set", at |-> "load-config", home |-> h, todo |-> <<"config">>, field |-> f, on |-> on,
               key |-> sentinel[h], config |-> DefaultConfig])
  /\ UNCHANGED shown

LoadForUpdate(p) ==
  LET w == work[p] IN
  /\ w.op = "set" /\ w.at = "load-config"
  /\ Loads(w.home, w.key, TRUE)
  /\ work' = [work EXCEPT ![p].at = "config", ![p].config = [Loaded(w.home) EXCEPT !.set[w.field] = w.on]]
  /\ UNCHANGED <<disk, bounds, ghosts>>

RefuseUpdate(p) ==
  /\ work[p].op = "set" /\ work[p].at = "load-config"
  /\ ~Loads(work[p].home, work[p].key, TRUE)
  /\ Fail(p)

------------------------------------------------------------------------------
(* Writing through the temporary file: truncate it, write it, rename it.     *)

SaveHome(p) == IF work[p].op = "rebind" THEN work[p].to ELSE work[p].home

TruncateTmp(p) ==
  \/ /\ work[p].op # "init" /\ work[p].at = "codes"
     /\ codesTmp' = [codesTmp EXCEPT ![work[p].home] = Torn]
     /\ Go(p, "write-codes-tmp")
     /\ UNCHANGED <<sentinel, codes, config, configTmp, bounds, ghosts>>
  \/ /\ work[p].at = "config"
     /\ configTmp' = [configTmp EXCEPT ![SaveHome(p)] = Torn]
     /\ Go(p, "write-config-tmp")
     /\ UNCHANGED <<sentinel, codes, config, codesTmp, bounds, ghosts>>

WriteTmp(p) ==
  \/ /\ work[p].at = "write-codes-tmp"
     /\ codesTmp' = [codesTmp EXCEPT ![work[p].home] = work[p].codes]
     /\ Go(p, "rename-codes")
     /\ UNCHANGED <<sentinel, codes, config, configTmp, bounds, ghosts>>
  \/ /\ work[p].at = "write-config-tmp"
     /\ configTmp' = [configTmp EXCEPT ![SaveHome(p)] = Saved(work[p].config, work[p].key, SaveHome(p))]
     /\ Go(p, "rename-config")
     /\ UNCHANGED <<sentinel, codes, config, codesTmp, bounds, ghosts>>

(* What is renamed is whatever the temporary file now holds.                 *)
RenameCodes(p) ==
  LET w == work[p] h == w.home code == <<h, w.gen, w.slot>> IN
  /\ w.at = "rename-codes" /\ codesTmp[h] # Absent
  /\ codes' = [codes EXCEPT ![h] = codesTmp[h]]
  /\ codesTmp' = [codesTmp EXCEPT ![h] = Absent]
  /\ IF w.op = "rebind"
     THEN /\ spent' = spent \cup {code}
          /\ twice' = IF code \in spent THEN twice \cup {h} ELSE twice
          /\ rebound' = rebound \cup {w.config.home}
     ELSE UNCHANGED <<spent, twice, rebound>>
  /\ Done(p)
  /\ UNCHANGED <<sentinel, config, configTmp, bounds, shown, blind, wanted, crowd>>

RenameConfig(p) ==
  LET w == work[p] h == SaveHome(p) IN
  /\ w.at = "rename-config" /\ configTmp[h] # Absent
  /\ config' = [config EXCEPT ![h] = configTmp[h]]
  /\ configTmp' = [configTmp EXCEPT ![h] = Absent]
  /\ wanted' = [wanted EXCEPT ![h] = IF w.op = "set" THEN [@ EXCEPT ![w.field] = w.on]
                                     ELSE IF w.op = "init" THEN Default ELSE @]
  /\ Done(p)
  /\ UNCHANGED <<sentinel, codes, codesTmp, bounds, shown, blind, spent, twice, rebound, crowd>>

(* A step fails, the temporary file of another having been renamed away,     *)
(* say, or the process dies.                                                 *)
Dies(p) == work[p] # Idle /\ Fail(p)

------------------------------------------------------------------------------
(* The owner.                                                                *)

(* A vault is copied, or restored, to a home that has none, nobody at work. *)
Copy(h, n) ==
  /\ copies < MaxCopies /\ copies' = copies + 1
  /\ \A p \in Terminal : work[p] = Idle
  /\ Readable(sentinel[h]) /\ sentinel[n] = Absent
  /\ sentinel' = [sentinel EXCEPT ![n] = sentinel[h]]
  /\ codes' = [codes EXCEPT ![n] = codes[h]]
  /\ config' = [config EXCEPT ![n] = config[h]]
  /\ codesTmp' = [codesTmp EXCEPT ![n] = codesTmp[h]]
  /\ configTmp' = [configTmp EXCEPT ![n] = configTmp[h]]
  /\ spent' = {c \in spent : c[1] # n} \cup {<<n, c[2], c[3]>> : c \in {d \in spent : d[1] = h}}
  /\ twice' = (twice \ {n}) \cup {x \in {n} : h \in twice}
  /\ wanted' = [wanted EXCEPT ![n] = wanted[h]]
  /\ crowd' = {x \in crowd : x[2] # n} \cup {<<x[1], n>> : x \in {y \in crowd : y[2] = h}}
  /\ UNCHANGED <<work, commands, overlaps, edits, shown, blind, rebound>>

(* A setting is changed by hand; the signature no longer verifies. *)
EditConfig(h, f) ==
  /\ edits < MaxEdits /\ edits' = edits + 1
  /\ Readable(config[h])
  /\ config' = [config EXCEPT ![h].key = Nobody, ![h].set[f] = ~@]
  /\ UNCHANGED <<sentinel, codes, codesTmp, configTmp, work, commands, overlaps, copies, ghosts>>

(* It is moved aside: the defaults hold again. *)
MoveAside(h) ==
  /\ edits < MaxEdits /\ edits' = edits + 1
  /\ config[h] # Absent
  /\ config' = [config EXCEPT ![h] = Absent]
  /\ wanted' = [wanted EXCEPT ![h] = Default]
  /\ crowd' = crowd \cup UNION {Held(work[p]) \cap {<<"config", h>>} : p \in Terminal}
  /\ UNCHANGED <<sentinel, codes, codesTmp, configTmp, work, commands, overlaps, copies,
                 shown, blind, spent, twice, rebound>>

------------------------------------------------------------------------------
(* Every home is empty, or init has come to its end in one of them.          *)
Init ==
  /\ \E born \in SUBSET Home :
       /\ \A x, y \in born : x = y
       /\ sentinel = [h \in Home |-> IF h \in born THEN 0 ELSE Absent]
       /\ codes = [h \in Home |-> IF h \in born THEN FreshCodes(0) ELSE Absent]
       /\ config = [h \in Home |-> IF h \in born THEN Saved(DefaultConfig, 0, h) ELSE Absent]
       /\ shown = IF born = {} THEN {} ELSE {0}
  /\ codesTmp = [h \in Home |-> Absent] /\ configTmp = [h \in Home |-> Absent]
  /\ work = [p \in Terminal |-> Idle]
  /\ commands = 0 /\ overlaps = 0 /\ copies = 0 /\ edits = 0
  /\ blind = {} /\ spent = {} /\ twice = {} /\ rebound = {} /\ crowd = {}
  /\ wanted = [h \in Home |-> Default]

Command(p) ==
  /\ work[p] = Idle /\ commands < MaxCommands
  /\ \E h \in Home :
       \/ InitVault(p, h) \/ Regenerate(p, h)
       \/ \E n \in Home, g \in shown, s \in Slot : RebindHome(p, h, n, g, s)
       \/ \E f \in Field, on \in BOOLEAN : ChangeSetting(p, h, f, on)

CommandStep(p) ==
  \/ TruncateCodes(p) \/ WriteCodes(p) \/ Create(p) \/ AlreadyInitialized(p)
  \/ TruncateSentinel(p) \/ WriteSentinel(p) \/ UnlockNew(p)
  \/ ReadCodes(p) \/ RefuseCode(p) \/ LoadForRebind(p) \/ RefuseConfig(p)
  \/ Show(p) \/ LoadForUpdate(p) \/ RefuseUpdate(p)
  \/ TruncateTmp(p) \/ WriteTmp(p) \/ RenameCodes(p) \/ RenameConfig(p) \/ Dies(p)

ByHand == \E h \in Home :
  \/ \E n \in Home : Copy(h, n)
  \/ \E f \in Field : EditConfig(h, f)
  \/ MoveAside(h)

Next == (\E p \in Terminal : Command(p) \/ CommandStep(p)) \/ ByHand

Spec == Init /\ [][Next]_vars

(* Homes, terminals, codes and settings are told apart by nothing but what   *)
(* is done with them.                                                        *)
Symmetry == Permutations(Home) \cup Permutations(Terminal) \cup Permutations(Slot) \cup Permutations(Field)

------------------------------------------------------------------------------
(* Properties.                                                               *)

(* Within one home a code is consumed by one rebind-home, across failures,   *)
(* deaths, copies and later sets of codes, unless two commands had the file  *)
(* of codes in hand at once (config_rebind.rs:215, read before the barriers  *)
(* and written back whole).                                                  *)
CodeSpentOnce == \A h \in twice : <<"codes", h>> \in crowd

(* A home with a vault has the whole of a set of codes, and the owner has    *)
(* seen it, wherever init stopped, unless the regenerate that made it has    *)
(* not come to showing it (config_recovery_codes.rs:119) or two commands had *)
(* the codes in hand at once (init.rs:176).                                  *)
VaultHasItsCodes == \A h \in Home :
  sentinel[h] = Absent \/ <<"codes", h>> \in crowd
  \/ /\ Readable(codes[h])
     /\ \/ codes[h].gen \in shown \cup blind
        \/ \E p \in Terminal : work[p].op = "regenerate" /\ work[p].codes.gen = codes[h].gen

(* Settings made in one home hold in another, into which the vault was       *)
(* moved, only once a code has been consumed for it, whatever rebind-home    *)
(* died of on the way.                                                       *)
CarriedOnlyByCode == \A h \in Home :
  Readable(sentinel[h]) /\ Verified(config[h], sentinel[h]) /\ HomeMatches(config[h], h)
    /\ config[h].line # h => h \in rebound

(* A vault has codes that its owner knows, a move of it costs one of them,   *)
(* and a code pays for one move.                                             *)
CodesHonoured == VaultHasItsCodes /\ CodeSpentOnce /\ CarriedOnlyByCode

(* The settings that verify are those the complete commands left, none lost  *)
(* by a command that failed or died and none that was edited by hand, unless *)
(* two commands had the configuration in hand at once.                       *)
SettingsKept == \A h \in Home :
  Readable(sentinel[h]) /\ Verified(config[h], sentinel[h]) /\ <<"config", h>> \notin crowd
    => config[h].set = wanted[h]
=================================================================================
