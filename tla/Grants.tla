-------------------------------- MODULE Grants --------------------------------
(***************************************************************************)
(* Break-glass grants (src/grant/, cli/bypass.rs, cli/lock.rs): bypass     *)
(* signs a grant and places it under the workspace's lock file, protect    *)
(* and lock remove it, verify-grant decides for the hook, without a        *)
(* password and without the lock, whether it applies.  The key pair that   *)
(* signs is two files that no lock protects.                               *)
(*                                                                         *)
(* One grant file: the roots in Root are workspaces of one base name.      *)
(* Keys and grants are numbered as they are made, and a signature holds    *)
(* what it was computed over.                                              *)
(***************************************************************************)
EXTENDS Integers, UnlinkableLock

CONSTANTS
  Root,        \* workspace roots that share a grant file
  Op,          \* operations a grant may relax
  IdleCap,     \* idle timeout of the vault, the longest life of a grant
  NoGrant,     \* no grant file
  Torn,        \* a key file truncated and not written
  MaxTime,     \* bound on the clock
  MaxGrant,    \* bound on the bypasses and on the pairs they make
  MaxVerdict   \* bound on the verdicts under way at once

ASSUME GrantConstants ==
  /\ IdleCap \in Nat /\ MaxTime \in Nat
  /\ MaxGrant \in Nat /\ MaxVerdict \in Nat
  /\ Torn \notin Nat

VARIABLES
  now,        \* the wall clock
  session,    \* is a local session active?
  grant,      \* <workspace>.bypass
  priv,       \* grant_sign.key, by the number of the pair, 0 when missing
  pub,        \* grant_sign.pub
  keys,       \* pairs generated so far
  granted,    \* grants signed so far
  pc,         \* per command: its next step
  cmd,        \* per command: what it is
  want,       \* per command: its arguments
  key,        \* per command: the pair in memory
  mine,       \* per command: the grant in memory
  before,     \* per revocation: the grant it found when it began
  crowd,      \* bypasses that ran beside another one
  disturbed   \* were the three files left by a crowd or a death?

NoKey   == 0
Key     == Nat \ {NoKey}
Payload == [id : Nat \ {0}, root : Root, ops : SUBSET Op, issued : Nat, expires : Nat,
            key : Key]
Grant   == [payload : Payload, by : Key, over : Payload]
Bypass  == [root : Root, ops : SUBSET Op \ {{}}, ttl : 1..IdleCap]
Request == [root : Root, op : Op, key : Key, at : Nat]

ASSUME NoGrantIsNone == NoGrant \notin Grant

files    == <<grant, priv, pub>>
commands == <<pc, cmd, want, key, mine, before>>
ghosts   == <<granted, crowd, disturbed>>
allvars  == <<now, session, files, keys, commands, ghosts, lock>>

Running(name) == {p \in Proc : cmd[p] = name}
Goto(p, step) == pc' = [pc EXCEPT ![p] = step]

GrantsInit ==
  /\ now = 0 /\ session = FALSE
  /\ grant = NoGrant /\ priv = NoKey /\ pub = NoKey /\ keys = 0
  /\ granted = 0 /\ crowd = {} /\ disturbed = FALSE
  /\ pc = [p \in Proc |-> "idle"] /\ cmd = [p \in Proc |-> "none"]
  /\ want = [p \in Proc |-> NoGrant] /\ mine = [p \in Proc |-> NoGrant]
  /\ key = [p \in Proc |-> NoKey] /\ before = [p \in Proc |-> 0]
  /\ LockInit

(* A command ends; its lock file is closed. *)
End(p) ==
  /\ Goto(p, "idle")
  /\ cmd' = [cmd EXCEPT ![p] = "none"] /\ want' = [want EXCEPT ![p] = NoGrant]
  /\ key' = [key EXCEPT ![p] = NoKey] /\ mine' = [mine EXCEPT ![p] = NoGrant]
  /\ before' = [before EXCEPT ![p] = 0] /\ crowd' = crowd \ {p}
  /\ CloseLock(p)

Begin(p, name, args, step) ==
  /\ pc[p] = "idle"
  /\ Goto(p, step)
  /\ cmd' = [cmd EXCEPT ![p] = name] /\ want' = [want EXCEPT ![p] = args]
  /\ UNCHANGED <<now, session, files, keys, key, mine, granted, disturbed, lock>>

------------------------------------------------------------------------------
(* bypass: the password is asked for every time, the scope is not empty and  *)
(* the time is capped; whether a session is active is not asked.             *)
BeginBypass(p, args, rotate) ==
  /\ Begin(p, "bypass", args, IF rotate THEN "rotate" ELSE "keys")
  /\ granted + Cardinality(Running("bypass")) < MaxGrant
  /\ keys + granted + Cardinality(Running("bypass")) <= MaxGrant
  /\ crowd' = IF Running("bypass") = {} THEN crowd ELSE crowd \cup Running("bypass") \cup {p}
  /\ UNCHANGED before

HasKeys == priv # NoKey /\ pub # NoKey

LoadKey(p) ==
  /\ pc[p] = "keys" /\ HasKeys /\ priv # Torn
  /\ key' = [key EXCEPT ![p] = priv]
  /\ Goto(p, "sign")
  /\ UNCHANGED <<now, session, files, keys, cmd, want, mine, before, ghosts, lock>>

KeyUnreadable(p) ==
  /\ pc[p] = "keys" /\ HasKeys /\ priv = Torn
  /\ End(p)
  /\ UNCHANGED <<now, session, files, keys, granted, disturbed, lockfile>>

Generate(p) ==
  /\ (pc[p] = "keys" /\ ~HasKeys) \/ pc[p] = "rotate"
  /\ keys' = keys + 1
  /\ key' = [key EXCEPT ![p] = keys + 1]
  /\ Goto(p, "write-key")
  /\ UNCHANGED <<now, session, files, cmd, want, mine, before, ghosts, lock>>

WriteKey(p) ==
  /\ pc[p] = "write-key"
  /\ priv' = key[p]
  /\ disturbed' = (disturbed \/ p \in crowd)
  /\ Goto(p, "write-pub")
  /\ UNCHANGED <<now, session, grant, pub, keys, cmd, want, key, mine, before, granted, crowd, lock>>

(* Variant: a public key that exists already is kept. *)
WritePubOnce(p) ==
  /\ pc[p] = "write-pub"
  /\ pub' = IF pub = NoKey THEN key[p] ELSE pub
  /\ disturbed' = (p \in crowd)
  /\ Goto(p, "sign")
  /\ UNCHANGED <<now, session, grant, priv, keys, cmd, want, key, mine, before, granted, crowd, lock>>

(* Both files are new: what was wrong with them is over. *)
WritePub(p) ==
  /\ pc[p] = "write-pub"
  /\ pub' = key[p]
  /\ disturbed' = (p \in crowd)
  /\ Goto(p, "sign")
  /\ UNCHANGED <<now, session, grant, priv, keys, cmd, want, key, mine, before, granted, crowd, lock>>

Sign(p) ==
  LET payload == [id |-> granted + 1, root |-> want[p].root, ops |-> want[p].ops,
                  issued |-> now, expires |-> now + want[p].ttl, key |-> key[p]]
  IN  /\ pc[p] = "sign"
      /\ mine' = [mine EXCEPT ![p] = [payload |-> payload, by |-> key[p], over |-> payload]]
      /\ granted' = granted + 1
      /\ want' = [want EXCEPT ![p] = NoGrant] /\ key' = [key EXCEPT ![p] = NoKey]
      /\ Goto(p, "open-lock")
      /\ UNCHANGED <<now, session, files, keys, cmd, before, crowd, disturbed, lock>>

(* persist_atomic: under the lock the rename replaces any earlier grant. *)
Place(p) ==
  /\ pc[p] = "place"
  /\ grant' = mine[p]
  /\ disturbed' = (disturbed \/ p \in crowd)
  /\ End(p)
  /\ UNCHANGED <<now, session, priv, pub, keys, granted, lockfile>>

------------------------------------------------------------------------------
(* The lock file of the workspace's grant.                                   *)

TakeLockFile(p) ==
  /\ pc[p] = "open-lock"
  /\ OpenLock(p)
  /\ Goto(p, "flock")
  /\ UNCHANGED <<now, session, files, keys, cmd, want, key, mine, before, ghosts>>

WaitForLock(p) ==
  /\ pc[p] = "flock"
  /\ Flock(p)
  /\ Goto(p, IF cmd[p] = "bypass" THEN "place" ELSE "find")
  /\ UNCHANGED <<now, session, files, keys, cmd, want, key, mine, before, ghosts>>

------------------------------------------------------------------------------
(* protect and lock.                                                         *)

GrantId == IF grant = NoGrant THEN 0 ELSE grant.over.id

BeginProtect(p) ==
  /\ Begin(p, "protect", NoGrant, "open-lock")
  /\ before' = [before EXCEPT ![p] = GrantId]
  /\ UNCHANGED crowd

BeginLock(p) ==
  /\ Begin(p, "lock", NoGrant, "list")
  /\ before' = [before EXCEPT ![p] = GrantId]
  /\ UNCHANGED crowd

(* revoke_all goes through the grants it finds in the directory. *)
ListGrants(p) ==
  /\ pc[p] = "list"
  /\ Goto(p, IF grant = NoGrant THEN "end-session" ELSE "open-lock")
  /\ UNCHANGED <<now, session, files, keys, cmd, want, key, mine, before, ghosts, lock>>

(* Variant: what is past its time is left to the clock. *)
FindLiveGrant(p) ==
  /\ pc[p] = "find"
  /\ Goto(p, IF grant # NoGrant /\ now < grant.payload.expires THEN "remove" ELSE "unlink")
  /\ UNCHANGED <<now, session, files, keys, cmd, want, key, mine, before, ghosts, lock>>

FindGrant(p) ==
  /\ pc[p] = "find"
  /\ Goto(p, IF grant = NoGrant THEN "unlink" ELSE "remove")
  /\ UNCHANGED <<now, session, files, keys, cmd, want, key, mine, before, ghosts, lock>>

RemoveGrant(p) ==
  /\ pc[p] = "remove" /\ grant # NoGrant
  /\ grant' = NoGrant
  /\ Goto(p, "unlink")
  /\ UNCHANGED <<now, session, priv, pub, keys, cmd, want, key, mine, before, ghosts, lock>>

(* lock takes an error of revoke_all for nothing revoked, and goes on. *)
LockGoesOn(p) ==
  /\ Goto(p, "end-session")
  /\ before' = [before EXCEPT ![p] = 0]
  /\ CloseLock(p)
  /\ UNCHANGED <<now, session, files, keys, cmd, want, key, mine, ghosts, lockfile>>

(* Another revocation, with another lock file, was faster: an error. *)
AlreadyGone(p) ==
  /\ pc[p] = "remove" /\ grant = NoGrant
  /\ \/ cmd[p] = "lock" /\ LockGoesOn(p)
     \/ cmd[p] = "protect" /\ End(p)
          /\ UNCHANGED <<now, session, files, keys, granted, disturbed, lockfile>>

UnlinkProtect(p) ==
  /\ pc[p] = "unlink" /\ cmd[p] = "protect"
  /\ Unlink
  /\ End(p)
  /\ UNCHANGED <<now, session, files, keys, granted, disturbed>>

UnlinkLock(p) ==
  /\ pc[p] = "unlink" /\ cmd[p] = "lock"
  /\ Unlink
  /\ CloseLock(p)
  /\ Goto(p, "end-session")
  /\ UNCHANGED <<now, session, files, keys, cmd, want, key, mine, before, ghosts>>

EndSession(p) ==
  /\ pc[p] = "end-session"
  /\ session' = FALSE
  /\ End(p)
  /\ UNCHANGED <<now, files, keys, granted, disturbed, lockfile>>

------------------------------------------------------------------------------
(* verify-grant, with the public key that the hook has pinned.  The clock is *)
(* read first, then the grant, then the session.                             *)

BeginVerify(p, root, op, pin) ==
  /\ Begin(p, "verify", [root |-> root, op |-> op, key |-> pin, at |-> now], "read-grant")
  /\ Cardinality(Running("verify")) < MaxVerdict
  /\ UNCHANGED <<before, crowd>>

verify_signature(g, pin) == g.over = g.payload /\ g.by = pin

(* Variant: the file name stands for the workspace. *)
GrantGoodForSlug(g, req) ==
  /\ verify_signature(g, req.key) /\ g.payload.key = req.key
  /\ req.at < g.payload.expires

GrantGood(g, req) ==
  /\ verify_signature(g, req.key) /\ g.payload.key = req.key
  /\ g.payload.root = req.root
  /\ req.at < g.payload.expires

GrantFound(p) == grant # NoGrant /\ GrantGood(grant, want[p])

ReadGrant(p) ==
  /\ pc[p] = "read-grant" /\ GrantFound(p)
  /\ mine' = [mine EXCEPT ![p] = grant]
  /\ Goto(p, "read-session")
  /\ UNCHANGED <<now, session, files, keys, cmd, want, key, before, ghosts, lock>>

Relaxed(p) == session /\ want[p].op \in mine[p].payload.ops

ReadSession(p) ==
  /\ pc[p] = "read-session" /\ Relaxed(p)
  /\ Goto(p, "apply")
  /\ UNCHANGED <<now, session, files, keys, cmd, want, key, mine, before, ghosts, lock>>

(* Exit with the verdict: 0 after "apply", else 2. *)
Answer(p) ==
  /\ \/ pc[p] = "read-grant" /\ ~GrantFound(p)
     \/ pc[p] = "read-session" /\ ~Relaxed(p)
     \/ pc[p] = "apply"
  /\ End(p)
  /\ UNCHANGED <<now, session, files, keys, granted, disturbed, lockfile>>

------------------------------------------------------------------------------
(* What else happens.                                                        *)

(* A command dies, or a step of it fails; a key file may be left truncated.  *)
LeavesHalf(p) ==
  \/ pc[p] \in {"write-key", "write-pub"}
  \/ pc[p] = "sign" /\ grant # NoGrant /\ grant.by # key[p]
  \/ pc[p] \in {"open-lock", "flock", "place"} /\ cmd[p] = "bypass"
       /\ grant # NoGrant /\ grant.by # mine[p].by

Fail(p) ==
  /\ pc[p] # "idle"
  /\ priv' \in {priv} \cup (IF pc[p] = "write-key" THEN {Torn} ELSE {})
  /\ pub' \in {pub} \cup (IF pc[p] = "write-pub" THEN {Torn} ELSE {})
  /\ disturbed' = (disturbed \/ LeavesHalf(p))
  /\ End(p)
  /\ UNCHANGED <<now, session, grant, keys, granted, lockfile>>

FailRevokeAll(p) ==
  /\ cmd[p] = "lock" /\ pc[p] # "end-session"
  /\ LockGoesOn(p)

(* unlock, and the end of a session's time: LocalSession has them.           *)
SessionChanges ==
  /\ session' = ~session
  /\ UNCHANGED <<now, files, keys, commands, ghosts, lock>>

(* Somebody edits the payload of a grant; the signature stays. *)
EditGrant(payload) ==
  /\ grant # NoGrant /\ grant.payload = grant.over
  /\ grant' = [grant EXCEPT !.payload = payload]
  /\ UNCHANGED <<now, session, priv, pub, keys, commands, ghosts, lock>>

Tick ==
  /\ now < MaxTime /\ now' = now + 1
  /\ UNCHANGED <<session, files, keys, commands, ghosts, lock>>

------------------------------------------------------------------------------
CommandStep(p) ==
  \/ LoadKey(p) \/ KeyUnreadable(p) \/ Generate(p) \/ WriteKey(p) \/ WritePub(p) \/ Sign(p)
  \/ TakeLockFile(p) \/ WaitForLock(p) \/ Place(p)
  \/ ListGrants(p) \/ FindGrant(p) \/ RemoveGrant(p) \/ AlreadyGone(p)
  \/ UnlinkProtect(p) \/ UnlinkLock(p) \/ EndSession(p)
  \/ ReadGrant(p) \/ ReadSession(p) \/ Answer(p)

Command(p) ==
  \/ \E args \in Bypass, rotate \in BOOLEAN : BeginBypass(p, args, rotate)
  \/ BeginProtect(p) \/ BeginLock(p)
  \/ \E root \in Root, op \in Op, pin \in 1..keys : BeginVerify(p, root, op, pin)

Edited(g) == {[g.payload EXCEPT !.ops = Op, !.expires = MaxTime + 1, !.root = r] :
                  r \in Root \ {g.payload.root}}

GrantsNext ==
  \/ \E p \in Proc : Command(p) \/ CommandStep(p) \/ Fail(p) \/ FailRevokeAll(p)
  \/ SessionChanges \/ Tick
  \/ grant # NoGrant /\ \E payload \in Edited(grant) : EditGrant(payload)

GrantsSpec == GrantsInit /\ [][GrantsNext]_allvars

------------------------------------------------------------------------------
(* Properties.                                                               *)

Label == {"idle", "keys", "rotate", "write-key", "write-pub", "sign", "open-lock", "flock", "place",
          "list", "find", "remove", "unlink", "end-session", "read-grant", "read-session", "apply"}
Holding == {"place", "find", "remove", "unlink"}

(* Every variable holds a value of its kind; whoever places or removes a     *)
(* grant holds the flock of a lock file it opened, and nobody else of the    *)
(* same one (store.rs, GrantLockGuard).                                      *)
GrantTypeOK ==
  /\ now \in 0..MaxTime /\ session \in BOOLEAN /\ keys \in Nat
  /\ grant \in Grant \cup {NoGrant}
  /\ priv \in Nat \cup {Torn} /\ pub \in Nat \cup {Torn}
  /\ granted \in Nat /\ crowd \subseteq Proc /\ disturbed \in BOOLEAN
  /\ pc \in [Proc -> Label]
  /\ cmd \in [Proc -> {"none", "bypass", "protect", "lock", "verify"}]
  /\ want \in [Proc -> Bypass \cup Request \cup {NoGrant}]
  /\ key \in [Proc -> Nat] /\ mine \in [Proc -> Grant \cup {NoGrant}]
  /\ before \in [Proc -> Nat]
  /\ LockTypeOK
  /\ \A p \in Proc : pc[p] \in Holding <=> p \in flocked
  /\ \A p \in Proc : pc[p] \in Holding \cup {"flock"} <=> opened[p] # NoInode
  /\ HoldersDiffer

(* A verdict of apply rests on a grant that somebody with the password has   *)
(* signed for this very workspace, this operation and a time not over when   *)
(* the clock was read, never longer than the idle timeout after signing,     *)
(* with the key that the hook has pinned: not on an edited file, on another  *)
(* workspace of the same base name, or on a pair rotated away (verify.rs).   *)
AppliesOnlyAsIssued ==
  \A p \in Proc : pc[p] = "apply" =>
    LET signed == mine[p].over
    IN  /\ mine[p].payload = signed /\ mine[p].by = want[p].key
        /\ signed.root = want[p].root /\ want[p].op \in signed.ops
        /\ want[p].at < signed.expires /\ signed.expires <= signed.issued + IdleCap

(* The two key files are one pair, and the grant on disk verifies with it,   *)
(* whenever no bypass is at work, unless two of them ran at once or one died *)
(* half way; a complete rotation on its own puts that right (keypair.rs).    *)
KeysAgree ==
  Running("bypass") = {} /\ ~disturbed =>
    priv = pub /\ (grant # NoGrant => grant.by = pub)

(* Once protect or lock has come past the removal without an error, the      *)
(* grant that was on disk when it began is gone for good, although the lock  *)
(* file is unlinked under others that wait for it (store.rs, revoke).        *)
RevokedIsGone ==
  \A p \in Proc : pc[p] \in {"unlink", "end-session"} /\ grant # NoGrant =>
    grant.over.id # before[p]
===============================================================================
