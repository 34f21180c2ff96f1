----------------------------- MODULE LocalSession -----------------------------
(***************************************************************************)
(* The local master session on disk (src/session/local.rs) and the CLI     *)
(* commands and server that share it: unlock and unlock --extend write it, *)
(* lock removes it, mcp serve, session status and verify-grant load it.    *)
(*                                                                         *)
(* The session is two files, the encrypted blob and an HMAC sidecar.       *)
(* Writers and lock hold an exclusive flock on a third file and touch the  *)
(* two one after the other; load takes no lock.  Ciphertext and key are    *)
(* abstracted to what load can tell: when the session expires, when it     *)
(* was created, which machine name keyed it, and a nonce that makes every  *)
(* written blob unique.                                                    *)
(***************************************************************************)
EXTENDS Integers, FiniteSets

CONSTANTS Proc,        \* processes running a kvendra command
          Nobody,      \* the flock is free
          NoFile,      \* a file that does not exist
          Host,        \* names the machine may have (hostname keys the MAC)
          Ttl,         \* lifetimes a user may ask for with --ttl
          MinTtl, MaxTtl, DefaultTtl,  \* those of ttl.rs and of the configuration
          MaxTime,     \* bound on the clock
          MaxWrites    \* bound on the sessions written

ASSUME SessionConstants ==
  /\ Ttl \subseteq Nat /\ MinTtl \in Nat \ {0}
  /\ MaxTtl \in Nat /\ DefaultTtl \in Nat
  /\ MaxTime \in Nat /\ MaxWrites \in Nat
  /\ Nobody \notin Proc

VARIABLES
  now,      \* the wall clock
  host,     \* the machine's present name
  blob,     \* active.blob
  sidecar,  \* active.blob.hmac
  flock,    \* holder of active.blob.lock
  pc,       \* per process: the next step of its command
  cmd,      \* per process: the command it runs
  mine,     \* per process: the session it is about to write
  seen,     \* per process: the blob load has read
  answer,   \* per process: what its load has found
  writes,   \* number of sessions built so far
  torn      \* did a writer die or fail between its two files?

locals  == <<pc, cmd, mine, seen, answer>>
session == <<blob, sidecar, flock, torn>>
svars   == <<now, host, session, locals, writes>>

Session == [expires : Nat, created : Nat, host : Host, nonce : Nat]
MacTag  == [key : Host, of : Session]

ASSUME NoFileIsNoSession == NoFile \notin Session

(* The sidecar of blob b under the wrap key of a machine called h. *)
MacUnder(h, b) == [key |-> h, of |-> b]

Reject  == {"NotInitialized", "Corrupt", "HmacMismatch", "MachineMismatch", "Expired"}
Answer  == Reject \cup {"none", "Active"}

(* The checks of load, in their order, on a blob that was read, the sidecar  *)
(* read after it, the machine's name and the clock.                          *)
Verdict(b, mac, h, t) ==
  CASE mac = NoFile         -> "Corrupt"
    [] mac # MacUnder(h, b) -> "HmacMismatch"
    [] b.host # h           -> "MachineMismatch"
    [] b.expires <= t       -> "Expired"
    [] OTHER                -> "Active"

(* A lifetime asked for is refused when it is zero, too short or too long,   *)
(* never shortened; without --ttl it is the configured one, which nobody     *)
(* compares with the longest that --ttl may ask for.                         *)
parse_ttl   == Ttl \ {0}
cap_ttl     == {ttl \in parse_ttl : MinTtl <= ttl /\ ttl <= MaxTtl}
resolve_ttl == cap_ttl \cup {DefaultTtl}
LongestTtl  == IF DefaultTtl <= MaxTtl THEN MaxTtl ELSE DefaultTtl

SessionInit ==
  /\ now = 0
  /\ host \in Host
  /\ blob = NoFile /\ sidecar = NoFile /\ flock = Nobody /\ torn = FALSE
  /\ pc = [p \in Proc |-> "idle"]
  /\ cmd = [p \in Proc |-> "none"]
  /\ mine = [p \in Proc |-> NoFile]
  /\ seen = [p \in Proc |-> NoFile]
  /\ answer = [p \in Proc |-> "none"]
  /\ writes = 0

------------------------------------------------------------------------------
(* Control flow shared by the commands.                                      *)

Goto(p, label) == pc' = [pc EXCEPT ![p] = label]

Begin(p, command, label) ==
  /\ pc[p] = "idle"
  /\ Goto(p, label)
  /\ cmd' = [cmd EXCEPT ![p] = command]
  /\ UNCHANGED <<seen, answer>>

End(p) ==
  /\ Goto(p, "idle")
  /\ cmd' = [cmd EXCEPT ![p] = "none"]
  /\ mine' = [mine EXCEPT ![p] = NoFile]
  /\ seen' = [seen EXCEPT ![p] = NoFile]
  /\ answer' = [answer EXCEPT ![p] = "none"]

------------------------------------------------------------------------------
(* The commands.                                                             *)

(* The bound on writers: sessions built, and those running extends may build. *)
WritesLeft ==
  writes + Cardinality({p \in Proc : cmd[p] = "extend" /\ mine[p] = NoFile})
    < MaxWrites

(* unlock: the password was right; build the session and go and persist it.  *)
Unlock(p, ttl) ==
  /\ WritesLeft
  /\ Begin(p, "unlock", "lock-to-write")
  /\ mine' = [mine EXCEPT ![p] = [expires |-> now + ttl, created |-> now,
                                  host |-> host, nonce |-> writes + 1]]
  /\ writes' = writes + 1
  /\ UNCHANGED <<now, host, session>>

(* unlock --extend, session status, mcp serve, verify-grant begin with load. *)
StartLoad(p, command) ==
  /\ command = "extend" => WritesLeft
  /\ Begin(p, command, "find-blob")
  /\ UNCHANGED <<now, host, session, mine, writes>>

Lock(p) ==
  /\ Begin(p, "lock", "lock-to-delete")
  /\ UNCHANGED <<now, host, session, mine, writes>>

(* load returned.  status and serve are done; extend rebuilds the loaded     *)
(* session with a new expiry counted from now and persists it.               *)
StatusKnown(p) ==
  /\ pc[p] = "loaded" /\ cmd[p] = "load"
  /\ End(p)
  /\ UNCHANGED <<now, host, session, writes>>

ExtendRefused(p) ==
  /\ pc[p] = "loaded" /\ cmd[p] = "extend"
  /\ answer[p] # "Active"
  /\ End(p)
  /\ UNCHANGED <<now, host, session, writes>>

(* Variant: the new lifetime is added to what is left of the old one. *)
ExtendFromExpiry(p, ttl) ==
  /\ pc[p] = "loaded" /\ cmd[p] = "extend"
  /\ answer[p] = "Active"
  /\ Goto(p, "lock-to-write")
  /\ mine' = [mine EXCEPT ![p] = [seen[p] EXCEPT !.expires = @ + ttl, !.nonce = writes + 1]]
  /\ writes' = writes + 1
  /\ UNCHANGED <<now, host, session, cmd, seen, answer>>

Extend(p, ttl) ==
  /\ pc[p] = "loaded" /\ cmd[p] = "extend"
  /\ answer[p] = "Active"
  /\ Goto(p, "lock-to-write")
  /\ mine' = [mine EXCEPT ![p] = [seen[p] EXCEPT !.expires = now + ttl, !.nonce = writes + 1]]
  /\ writes' = writes + 1
  /\ UNCHANGED <<now, host, session, cmd, seen, answer>>

------------------------------------------------------------------------------
(* load: no lock, one file after the other.                                  *)

Loaded(p, result) ==
  /\ Goto(p, "loaded")
  /\ answer' = [answer EXCEPT ![p] = result]

FindBlob(p) ==
  /\ pc[p] = "find-blob"
  /\ IF blob = NoFile THEN Loaded(p, "NotInitialized")
                      ELSE Goto(p, "read-blob") /\ UNCHANGED answer
  /\ UNCHANGED <<now, host, session, cmd, mine, seen, writes>>

ReadBlob(p) ==
  /\ pc[p] = "read-blob"
  /\ IF blob = NoFile THEN Loaded(p, "Corrupt")
                      ELSE Goto(p, "read-sidecar") /\ UNCHANGED answer
  /\ seen' = [seen EXCEPT ![p] = blob]
  /\ UNCHANGED <<now, host, session, cmd, mine, writes>>

ReadSidecar(p) ==
  /\ pc[p] = "read-sidecar"
  /\ Loaded(p, Verdict(seen[p], sidecar, host, now))
  /\ UNCHANGED <<now, host, session, cmd, mine, seen, writes>>

------------------------------------------------------------------------------
(* persist_atomic and delete, under the flock.                               *)

(* Variant: the flock is advisory and nobody asks for it. *)
AcquireUnasked(p, from, to) == pc[p] = from /\ flock' = p /\ Goto(p, to)

Acquire(p, from, to) ==
  /\ pc[p] = from
  /\ flock = Nobody
  /\ flock' = p
  /\ Goto(p, to)

AcquireToWrite(p) ==
  /\ Acquire(p, "lock-to-write", "place-blob")
  /\ UNCHANGED <<now, host, blob, sidecar, torn, cmd, mine, seen, answer, writes>>

AcquireToDelete(p) ==
  /\ Acquire(p, "lock-to-delete", "remove-blob")
  /\ UNCHANGED <<now, host, blob, sidecar, torn, cmd, mine, seen, answer, writes>>

(* The machine was renamed since the session was built: refuse to write. *)
RefuseForeign(p) ==
  /\ pc[p] = "place-blob"
  /\ mine[p].host # host
  /\ flock' = Nobody
  /\ End(p)
  /\ UNCHANGED <<now, host, blob, sidecar, torn, writes>>

PlaceBlob(p) ==
  /\ pc[p] = "place-blob"
  /\ mine[p].host = host
  /\ blob' = mine[p]
  /\ Goto(p, "place-sidecar")
  /\ UNCHANGED <<now, host, sidecar, flock, torn, cmd, mine, seen, answer, writes>>

(* The wrap key was derived before the blob was written: the key of mine's host. *)
PlaceSidecar(p) ==
  /\ pc[p] = "place-sidecar"
  /\ sidecar' = MacUnder(mine[p].host, mine[p])
  /\ flock' = Nobody
  /\ torn' = FALSE
  /\ End(p)
  /\ UNCHANGED <<now, host, blob, writes>>

RemoveBlob(p) ==
  /\ pc[p] = "remove-blob"
  /\ blob' = NoFile
  /\ Goto(p, "remove-sidecar")
  /\ UNCHANGED <<now, host, sidecar, flock, torn, cmd, mine, seen, answer, writes>>

(* Variant: the guard is leaked and the flock stays taken. *)
RemoveSidecarHeld(p) ==
  /\ pc[p] = "remove-sidecar"
  /\ sidecar' = NoFile
  /\ torn' = FALSE
  /\ End(p)
  /\ UNCHANGED <<now, host, blob, flock, writes>>

RemoveSidecar(p) ==
  /\ pc[p] = "remove-sidecar"
  /\ sidecar' = NoFile
  /\ flock' = Nobody
  /\ torn' = FALSE
  /\ End(p)
  /\ UNCHANGED <<now, host, blob, writes>>

(* A file operation fails, or the process dies: the flock is given back and  *)
(* whatever was already renamed or removed stays that way.                   *)
HalfDone(p) == pc[p] \in {"place-sidecar", "remove-sidecar"}

Fail(p) ==
  /\ pc[p] # "idle"
  /\ flock' = IF flock = p THEN Nobody ELSE flock
  /\ torn' = (torn \/ HalfDone(p))
  /\ End(p)
  /\ UNCHANGED <<now, host, blob, sidecar, writes>>

------------------------------------------------------------------------------
(* The environment: time passes, the machine gets another name.              *)

Tick ==
  /\ now < MaxTime
  /\ now' = now + 1
  /\ UNCHANGED <<host, session, locals, writes>>

Rename(h) ==
  /\ h # host
  /\ host' = h
  /\ UNCHANGED <<now, session, locals, writes>>

------------------------------------------------------------------------------
LoadSteps(p)   == FindBlob(p) \/ ReadBlob(p) \/ ReadSidecar(p)
WriteSteps(p)  == AcquireToWrite(p) \/ RefuseForeign(p) \/ PlaceBlob(p) \/ PlaceSidecar(p)
DeleteSteps(p) == AcquireToDelete(p) \/ RemoveBlob(p) \/ RemoveSidecar(p)
AfterLoad(p)   == StatusKnown(p) \/ ExtendRefused(p) \/ \E ttl \in resolve_ttl : Extend(p, ttl)

SessionStep(p) == LoadSteps(p) \/ WriteSteps(p) \/ DeleteSteps(p) \/ AfterLoad(p)

StartCommand(p) ==
  \/ \E ttl \in resolve_ttl : Unlock(p, ttl)
  \/ \E command \in {"load", "extend"} : StartLoad(p, command)
  \/ Lock(p)

Environment == Tick \/ \E h \in Host : Rename(h)

SessionNext ==
  \/ \E p \in Proc : StartCommand(p) \/ SessionStep(p) \/ Fail(p)
  \/ Environment

(* A running command keeps running, and one that waits for the flock, which  *)
(* others take and give back meanwhile, is served in turn: the kernel queues *)
(* the waiters.  That is strong fairness of every command's own steps.       *)
SessionSpec ==
  /\ SessionInit /\ [][SessionNext]_svars
  /\ \A p \in Proc : SF_svars(SessionStep(p))

------------------------------------------------------------------------------
(* Properties.                                                               *)

Label == {"idle", "find-blob", "read-blob", "read-sidecar", "loaded", "lock-to-write",
          "place-blob", "place-sidecar", "lock-to-delete", "remove-blob", "remove-sidecar"}

Holding == {"place-blob", "place-sidecar", "remove-blob", "remove-sidecar"}

(* Every variable holds a value of its kind; exactly the process inside      *)
(* persist_atomic or delete holds the flock.                                 *)
SessionTypeOK ==
  /\ now \in 0..MaxTime /\ host \in Host /\ writes \in Nat /\ torn \in BOOLEAN
  /\ blob \in Session \cup {NoFile} /\ sidecar \in MacTag \cup {NoFile}
  /\ flock \in Proc \cup {Nobody}
  /\ pc \in [Proc -> Label] /\ answer \in [Proc -> Answer]
  /\ cmd \in [Proc -> {"none", "unlock", "load", "extend", "lock"}]
  /\ mine \in [Proc -> Session \cup {NoFile}]
  /\ seen \in [Proc -> Session \cup {NoFile}]
  /\ \A p \in Proc : pc[p] \in Holding <=> flock = p

(* What load would say now. *)
LoadNow == IF blob = NoFile THEN "NotInitialized" ELSE Verdict(blob, sidecar, host, now)

PairMatches ==
  IF blob = NoFile THEN sidecar = NoFile ELSE sidecar = MacUnder(blob.host, blob)

(* Blob and sidecar belong together whenever no writer is at work: two       *)
(* unlocks, an extend and a lock never interleave their files, and only a    *)
(* writer that died or failed half way leaves a mismatched pair behind,      *)
(* which the next complete unlock or lock repairs (local.rs, "holds an       *)
(* exclusive flock for the whole operation").                                *)
FilesAgree == flock = Nobody /\ ~torn => PairMatches

(* No session on disk is good for longer than the longest lifetime one      *)
(* command may give, counted from now, however often it is extended          *)
(* (unlock.rs, finding A1; ttl.rs).                                          *)
WithinMaxTtl == blob # NoFile => blob.expires <= now + LongestTtl

(* Every command started ends: nobody waits for the flock for ever.          *)
EveryCommandEnds == \A p \in Proc : pc[p] # "idle" ~> pc[p] = "idle"
==============================================================================
