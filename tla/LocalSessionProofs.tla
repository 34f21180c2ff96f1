-------------------------- MODULE LocalSessionProofs --------------------------
(***************************************************************************)
(* Proofs about LocalSession, for every set of processes, machine names    *)
(* and lifetimes: the state stays well formed and the two session files    *)
(* belong together whenever nobody is writing them.  About ServeBoot, for  *)
(* every set of passwords: a launched server comes up; about OwnerViews,   *)
(* for every set of workspaces: reports say what a server does.            *)
(***************************************************************************)
EXTENDS LocalSession, ServeBoot, OwnerViews, FiniteSetTheorems, WellFoundedInduction, TLAPS


Writing == {"lock-to-write", "place-blob", "place-sidecar"}

(* A command that is to write a session has one, and one that inspects what  *)
(* it read has read it.                                                      *)
HasWhatItNeeds(p) ==
  /\ pc[p] \in Writing => mine[p] \in Session
  /\ pc[p] = "read-sidecar" => seen[p] \in Session
  /\ pc[p] = "loaded" /\ answer[p] = "Active" => seen[p] \in Session

(* What the holder of the flock has done to the two files so far. *)
HalfWritten(p) ==
  /\ pc[p] = "place-sidecar" => blob = mine[p]
  /\ pc[p] = "remove-sidecar" => blob = NoFile
  /\ pc[p] \in {"place-blob", "remove-blob"} /\ ~torn => PairMatches

SessionInv ==
  /\ SessionTypeOK
  /\ FilesAgree
  /\ \A p \in Proc : HasWhatItNeeds(p) /\ HalfWritten(p)

(* No lifetime a command accepts is longer than the longest.                 *)
LEMMA TtlRange == LongestTtl \in Nat /\ \A ttl \in resolve_ttl : ttl \in Nat /\ ttl <= LongestTtl
BY SessionConstants DEF resolve_ttl, cap_ttl, parse_ttl, LongestTtl

(* load never answers anything but one of its outcomes. *)
LEMMA VerdictType ==
  ASSUME NEW b, NEW mac, NEW h, NEW t
  PROVE  Verdict(b, mac, h, t) \in Answer
BY Zenon DEF Verdict, Answer, Reject

(* Before the first command there are no files and nobody holds the flock.   *)
LEMMA InitSessionInv == SessionInit => SessionInv
<1> SUFFICES ASSUME SessionInit PROVE SessionInv
  OBVIOUS
<1>1. pc \in [Proc -> Label] /\ answer \in [Proc -> Answer]
  BY DEF SessionInit, Label, Answer
<1>2. /\ cmd \in [Proc -> {"none", "unlock", "load", "extend", "lock"}]
      /\ mine \in [Proc -> Session \cup {NoFile}]
      /\ seen \in [Proc -> Session \cup {NoFile}]
  BY DEF SessionInit
<1>3. \A p \in Proc : pc[p] \in Holding <=> flock = p
  BY SessionConstants DEF SessionInit, Holding
<1>4. now \in 0..MaxTime /\ writes \in Nat /\ flock \in Proc \cup {Nobody}
  BY SessionConstants DEF SessionInit
<1>8. torn \in BOOLEAN
  BY Zenon DEF SessionInit
<1>5. host \in Host /\ blob \in Session \cup {NoFile} /\ sidecar \in MacTag \cup {NoFile}
  BY DEF SessionInit
<1>6. SessionTypeOK
  BY <1>1, <1>2, <1>3, <1>4, <1>5, <1>8 DEF SessionTypeOK
<1>7. FilesAgree /\ \A p \in Proc : HasWhatItNeeds(p) /\ HalfWritten(p)
  BY DEF SessionInit, FilesAgree, PairMatches, HasWhatItNeeds, HalfWritten, Writing
<1> QED
  BY <1>6, <1>7 DEF SessionInv

------------------------------------------------------------------------------
(* A step of a command that leaves files and flock alone, before it asks for *)
(* the flock: only its own locals change.                                    *)
Free == Label \ Holding

LocalStep(p) ==
  /\ pc[p] \in Free /\ pc'[p] \in Free
  /\ pc' \in [Proc -> Label] /\ answer' \in [Proc -> Answer]
  /\ cmd' \in [Proc -> {"none", "unlock", "load", "extend", "lock"}]
  /\ mine' \in [Proc -> Session \cup {NoFile}]
  /\ seen' \in [Proc -> Session \cup {NoFile}]
  /\ \A q \in Proc \ {p} : /\ pc'[q] = pc[q] /\ answer'[q] = answer[q]
                          /\ mine'[q] = mine[q] /\ seen'[q] = seen[q]
  /\ writes' \in Nat
  /\ UNCHANGED <<now, host, session>>

(* Such a step keeps the invariant if it leaves p with what p needs next.    *)
LEMMA LocalStepKeeps ==
  ASSUME SessionInv, NEW p \in Proc, LocalStep(p), HasWhatItNeeds(p)'
  PROVE  SessionInv'
<1> USE DEF LocalStep, session
<1>3. \A q \in Proc : pc'[q] \in Holding <=> flock' = q
  BY DEF SessionInv, SessionTypeOK, Free
<1>4. SessionTypeOK'
  BY <1>3 DEF SessionInv, SessionTypeOK
<1>5. FilesAgree'
  BY DEF SessionInv, FilesAgree, PairMatches
<1>6. ASSUME NEW q \in Proc PROVE HasWhatItNeeds(q)' /\ HalfWritten(q)'
  <2>1. CASE q = p
    BY <2>1 DEF HalfWritten, Free, Holding, SessionInv, SessionTypeOK
  <2>2. CASE q # p
    <3>1. /\ pc'[q] = pc[q] /\ mine'[q] = mine[q] /\ seen'[q] = seen[q]
          /\ answer'[q] = answer[q]
      BY <2>2 DEF SessionInv, SessionTypeOK
    <3> QED
      BY <3>1 DEF SessionInv, HasWhatItNeeds, HalfWritten, PairMatches
  <2> QED
    BY <2>1, <2>2
<1> QED
  BY <1>4, <1>5, <1>6 DEF SessionInv

(* Steps that touch no lock and no file: a command starts. *)
LEMMA StartKeeps ==
  ASSUME SessionInv, NEW p \in Proc, StartCommand(p)
  PROVE  SessionInv'
<1> USE DEF SessionInv, SessionTypeOK, Begin, Goto
<1>1. CASE \E ttl \in resolve_ttl : Unlock(p, ttl)
  <2> PICK ttl \in resolve_ttl : Unlock(p, ttl)
    BY <1>1
  <2> DEFINE s == [expires |-> now + ttl, created |-> now, host |-> host, nonce |-> writes + 1]
  <2>1. now \in Nat /\ ttl \in Nat
    BY SessionConstants, TtlRange
  <2>2. s \in Session
    BY <2>1 DEF Session
  <2>3. mine' = [mine EXCEPT ![p] = s] /\ writes' \in Nat
    BY DEF Unlock
  <2>4. LocalStep(p)
    <3> HIDE DEF s
    <3> QED
      BY <2>2, <2>3 DEF Unlock, LocalStep, Free, Label, Holding, session
  <2>5. HasWhatItNeeds(p)'
    <3> HIDE DEF s
    <3> QED
      BY <2>2, <2>3 DEF Unlock, HasWhatItNeeds, Writing
  <2> QED
    BY <2>4, <2>5, LocalStepKeeps
<1>2. CASE \E command \in {"load", "extend"} : StartLoad(p, command)
  <2>1. LocalStep(p)
    BY <1>2 DEF StartLoad, LocalStep, Free, Label, Holding, session
  <2>2. HasWhatItNeeds(p)'
    BY <1>2 DEF StartLoad, HasWhatItNeeds, Writing
  <2> QED
    BY <2>1, <2>2, LocalStepKeeps
<1>3. CASE Lock(p)
  <2>1. LocalStep(p)
    BY <1>3 DEF Lock, LocalStep, Free, Label, Holding, session
  <2>2. HasWhatItNeeds(p)'
    BY <1>3 DEF Lock, HasWhatItNeeds, Writing
  <2> QED
    BY <2>1, <2>2, LocalStepKeeps
<1> QED
  BY <1>1, <1>2, <1>3 DEF StartCommand

(* load: no lock, one file after the other. *)
LEMMA LoadKeeps ==
  ASSUME SessionInv, NEW p \in Proc, LoadSteps(p)
  PROVE  SessionInv'
<1> USE DEF SessionInv, SessionTypeOK, Goto, Loaded
<1> DEFINE verdict == Verdict(seen[p], sidecar, host, now)
<1>1. verdict \in Answer /\ "NotInitialized" \in Answer /\ "Corrupt" \in Answer
  <2>1. verdict \in Answer
    BY VerdictType
  <2> QED
    BY <2>1 DEF Answer, Reject
<1> HIDE DEF verdict
<1>2. CASE FindBlob(p)
  <2>1. LocalStep(p)
    BY <1>1, <1>2 DEF FindBlob, LocalStep, Free, Label, Holding, session
  <2>2. HasWhatItNeeds(p)'
    BY <1>2 DEF FindBlob, HasWhatItNeeds, Writing
  <2> QED
    BY <2>1, <2>2, LocalStepKeeps
<1>3. CASE ReadBlob(p)
  <2>1. LocalStep(p)
    BY <1>1, <1>3 DEF ReadBlob, LocalStep, Free, Label, Holding, session
  <2>2. HasWhatItNeeds(p)'
    BY <1>3 DEF ReadBlob, HasWhatItNeeds, Writing
  <2> QED
    BY <2>1, <2>2, LocalStepKeeps
<1>4. CASE ReadSidecar(p)
  <2>1. answer' = [answer EXCEPT ![p] = verdict]
    BY <1>4 DEF ReadSidecar, verdict
  <2>2. LocalStep(p)
    BY <1>1, <1>4, <2>1 DEF ReadSidecar, LocalStep, Free, Label, Holding, session
  <2>3. HasWhatItNeeds(p)'
    BY <1>4 DEF ReadSidecar, HasWhatItNeeds, Writing
  <2> QED
    BY <2>2, <2>3, LocalStepKeeps
<1> QED
  BY <1>2, <1>3, <1>4 DEF LoadSteps

(* Extending changes a session's expiry, not its shape. *)
LEMMA BumpedSession ==
  ASSUME NEW s \in Session, NEW t \in Nat, NEW n \in Nat
  PROVE  /\ [s EXCEPT !.expires = t, !.nonce = n] \in Session
         /\ [s EXCEPT !.expires = t, !.nonce = n].expires = t
<1>1. [s EXCEPT !.expires = t] \in Session /\ [s EXCEPT !.expires = t].expires = t
  BY DEF Session
<1> QED
  BY <1>1 DEF Session

(* What status and unlock --extend do with the answer of load.               *)
LEMMA AfterLoadKeeps ==
  ASSUME SessionInv, NEW p \in Proc, AfterLoad(p)
  PROVE  SessionInv'
<1> USE DEF SessionInv, SessionTypeOK, Goto
<1>1. CASE StatusKnown(p) \/ ExtendRefused(p)
  <2>3. pc[p] = "loaded" /\ End(p) /\ UNCHANGED <<now, host, session, writes>>
    BY <1>1 DEF StatusKnown, ExtendRefused
  <2>1. LocalStep(p)
    BY <2>3 DEF End, LocalStep, Free, Label, Holding, Answer, session
  <2>2. HasWhatItNeeds(p)'
    BY <2>3 DEF End, HasWhatItNeeds, Writing
  <2> QED
    BY <2>1, <2>2, LocalStepKeeps
<1>2. CASE \E ttl \in resolve_ttl : Extend(p, ttl)
  <2> PICK ttl \in resolve_ttl : Extend(p, ttl)
    BY <1>2
  <2> DEFINE s == [seen[p] EXCEPT !.expires = now + ttl, !.nonce = writes + 1]
  <2>1. now \in Nat /\ ttl \in Nat /\ seen[p] \in Session
    BY SessionConstants, TtlRange DEF Extend, HasWhatItNeeds
  <2>6. now + ttl \in Nat /\ writes + 1 \in Nat
    BY <2>1
  <2>2. s \in Session
    BY <2>1, <2>6, BumpedSession
  <2>3. mine' = [mine EXCEPT ![p] = s] /\ writes' \in Nat
    BY DEF Extend
  <2> HIDE DEF s
  <2>4. LocalStep(p)
    BY <2>2, <2>3 DEF Extend, LocalStep, Free, Label, Holding, session
  <2>5. HasWhatItNeeds(p)'
    BY <2>2, <2>3 DEF Extend, HasWhatItNeeds, Writing
  <2> QED
    BY <2>4, <2>5, LocalStepKeeps
<1> QED
  BY <1>1, <1>2 DEF AfterLoad

------------------------------------------------------------------------------
(* Steps of the holder of the flock, and taking it.                          *)

(* A step of p that keeps types and other processes' locals, and agrees with *)
(* the invariant about who holds the flock.                                  *)
LockedStep(p) ==
  /\ pc' \in [Proc -> Label] /\ answer' \in [Proc -> Answer]
  /\ cmd' \in [Proc -> {"none", "unlock", "load", "extend", "lock"}]
  /\ mine' \in [Proc -> Session \cup {NoFile}]
  /\ seen' \in [Proc -> Session \cup {NoFile}]
  /\ blob' \in Session \cup {NoFile} /\ sidecar' \in MacTag \cup {NoFile}
  /\ \A q \in Proc \ {p} : /\ pc'[q] = pc[q] /\ answer'[q] = answer[q]
                          /\ mine'[q] = mine[q] /\ seen'[q] = seen[q]
  /\ flock \in {p, Nobody} /\ flock' = IF pc'[p] \in Holding THEN p ELSE Nobody
  /\ torn' \in BOOLEAN
  /\ UNCHANGED <<now, host, writes>>

(* Such a step keeps the invariant if p keeps its own part of it.             *)
LEMMA LockedStepKeeps ==
  ASSUME SessionInv, NEW p \in Proc, LockedStep(p),
         HasWhatItNeeds(p)', HalfWritten(p)', FilesAgree'
  PROVE  SessionInv'
<1> USE DEF LockedStep
<1>1. \A q \in Proc : pc'[q] \in Holding <=> flock' = q
  BY SessionConstants DEF SessionInv, SessionTypeOK
<1>2. SessionTypeOK'
  BY <1>1 DEF SessionInv, SessionTypeOK
<1>3. ASSUME NEW q \in Proc, q # p PROVE HasWhatItNeeds(q)' /\ HalfWritten(q)'
  <2>1. /\ pc'[q] = pc[q] /\ mine'[q] = mine[q] /\ seen'[q] = seen[q]
        /\ answer'[q] = answer[q]
    BY <1>3
  <2>2. pc[q] \notin Holding
    BY <1>3, SessionConstants DEF SessionInv, SessionTypeOK
  <2> QED
    BY <2>1, <2>2 DEF SessionInv, HasWhatItNeeds, HalfWritten, Holding
<1> QED
  BY <1>2, <1>3 DEF SessionInv

(* persist_atomic: the flock, the check of the machine, the two renames.     *)
LEMMA WriteKeeps ==
  ASSUME SessionInv, NEW p \in Proc, WriteSteps(p)
  PROVE  SessionInv'
<1> USE DEF SessionInv, SessionTypeOK, Goto
<1> USE SessionConstants, NoFileIsNoSession
<1>1. CASE AcquireToWrite(p)
  <2> USE <1>1 DEF AcquireToWrite, Acquire
  <2>1. LockedStep(p)
    BY DEF LockedStep, Label, Holding
  <2>2. HasWhatItNeeds(p)' /\ HalfWritten(p)' /\ FilesAgree'
    BY DEF HasWhatItNeeds, HalfWritten, FilesAgree, PairMatches, Writing
  <2> QED
    BY <2>1, <2>2, LockedStepKeeps
<1>2. CASE RefuseForeign(p)
  <2> USE <1>2 DEF RefuseForeign, End
  <2>1. LockedStep(p)
    BY DEF LockedStep, Label, Holding, Answer
  <2>2. HasWhatItNeeds(p)' /\ HalfWritten(p)' /\ FilesAgree'
    BY DEF HasWhatItNeeds, HalfWritten, FilesAgree, PairMatches, Writing
  <2> QED
    BY <2>1, <2>2, LockedStepKeeps
<1>3. CASE PlaceBlob(p)
  <2> USE <1>3 DEF PlaceBlob
  <2>1. LockedStep(p)
    BY DEF LockedStep, Label, Holding, HasWhatItNeeds, Writing
  <2>2. HasWhatItNeeds(p)' /\ HalfWritten(p)' /\ FilesAgree'
    BY DEF HasWhatItNeeds, HalfWritten, FilesAgree, PairMatches, Writing, Holding
  <2> QED
    BY <2>1, <2>2, LockedStepKeeps
<1>4. CASE PlaceSidecar(p)
  <2> USE <1>4 DEF PlaceSidecar, End
  <2>0. mine[p] \in Session /\ blob = mine[p] /\ sidecar' = MacUnder(mine[p].host, mine[p])
    BY DEF HasWhatItNeeds, HalfWritten, Writing
  <2>1. sidecar' \in MacTag
    BY <2>0 DEF MacUnder, MacTag, Session
  <2>2. LockedStep(p)
    BY <2>1 DEF LockedStep, Label, Holding, Answer
  <2>3. HasWhatItNeeds(p)' /\ HalfWritten(p)' /\ FilesAgree'
    BY <2>0 DEF HasWhatItNeeds, HalfWritten, FilesAgree, PairMatches, Writing
  <2> QED
    BY <2>2, <2>3, LockedStepKeeps
<1> QED
  BY <1>1, <1>2, <1>3, <1>4 DEF WriteSteps

(* delete: the flock and the two removals. *)
LEMMA DeleteKeeps ==
  ASSUME SessionInv, NEW p \in Proc, DeleteSteps(p)
  PROVE  SessionInv'
<1> USE DEF SessionInv, SessionTypeOK, Goto
<1> USE SessionConstants
<1>1. CASE AcquireToDelete(p)
  <2> USE <1>1 DEF AcquireToDelete, Acquire
  <2>1. LockedStep(p)
    BY DEF LockedStep, Label, Holding
  <2>2. HasWhatItNeeds(p)' /\ HalfWritten(p)' /\ FilesAgree'
    BY DEF HasWhatItNeeds, HalfWritten, FilesAgree, PairMatches, Writing
  <2> QED
    BY <2>1, <2>2, LockedStepKeeps
<1>2. CASE RemoveBlob(p)
  <2> USE <1>2 DEF RemoveBlob
  <2>1. LockedStep(p)
    BY DEF LockedStep, Label, Holding
  <2>2. HasWhatItNeeds(p)' /\ HalfWritten(p)' /\ FilesAgree'
    BY DEF HasWhatItNeeds, HalfWritten, FilesAgree, Writing, Holding
  <2> QED
    BY <2>1, <2>2, LockedStepKeeps
<1>3. CASE RemoveSidecar(p)
  <2> USE <1>3 DEF RemoveSidecar, End
  <2>1. LockedStep(p)
    BY DEF LockedStep, Label, Holding, Answer
  <2>2. HasWhatItNeeds(p)' /\ HalfWritten(p)' /\ FilesAgree'
    BY DEF HasWhatItNeeds, HalfWritten, FilesAgree, PairMatches, Writing
  <2> QED
    BY <2>1, <2>2, LockedStepKeeps
<1> QED
  BY <1>1, <1>2, <1>3 DEF DeleteSteps

(* A command that fails or dies gives the flock back and, between its two    *)
(* files, leaves the pair torn.                                              *)
LEMMA FailKeeps ==
  ASSUME SessionInv, NEW p \in Proc, Fail(p)
  PROVE  SessionInv'
<1> USE SessionConstants DEF SessionInv, SessionTypeOK, Goto, Fail, End
<1>1. torn' \in BOOLEAN
  BY DEF HalfDone
<1>2. HasWhatItNeeds(p)' /\ HalfWritten(p)'
  BY DEF HasWhatItNeeds, HalfWritten, Writing
<1>3. CASE pc[p] \in Holding
  <2>1. flock = p /\ flock' = Nobody
    BY <1>3
  <2>2. LockedStep(p)
    BY <1>1, <2>1 DEF LockedStep, Label, Holding, Answer
  <2>3. FilesAgree'
    BY <1>3 DEF FilesAgree, PairMatches, HalfWritten, HalfDone, Holding
  <2> QED
    BY <1>2, <2>2, <2>3, LockedStepKeeps
<1>4. CASE pc[p] \notin Holding
  <2>1. flock' = flock /\ torn' = torn
    BY <1>4 DEF HalfDone, Holding
  <2>2. LocalStep(p)
    BY <1>4, <2>1 DEF LocalStep, Free, Label, Holding, Answer, session
  <2> QED
    BY <1>2, <2>2, LocalStepKeeps
<1> QED
  BY <1>3, <1>4

(* The clock and the machine's name are no part of what the files agree on.  *)
LEMMA EnvironmentKeeps == SessionInv /\ Environment => SessionInv'
<1> SUFFICES ASSUME SessionInv, Environment PROVE SessionInv'
  OBVIOUS
<1>1. /\ UNCHANGED <<session, locals, writes>>
      /\ now' \in 0..MaxTime /\ host' \in Host
  BY SessionConstants DEF Environment, Tick, Rename, SessionInv, SessionTypeOK
<1>2. SessionTypeOK'
  BY <1>1 DEF SessionInv, SessionTypeOK, session, locals
<1>3. FilesAgree'
  BY <1>1 DEF SessionInv, FilesAgree, PairMatches, session
<1>4. \A p \in Proc : HasWhatItNeeds(p)' /\ HalfWritten(p)'
  BY <1>1 DEF SessionInv, HasWhatItNeeds, HalfWritten, PairMatches, session, locals
<1> QED
  BY <1>2, <1>3, <1>4 DEF SessionInv

(* Nothing changes, nothing breaks. *)
LEMMA StutterKeeps == SessionInv /\ UNCHANGED svars => SessionInv'
BY DEF SessionInv, SessionTypeOK, FilesAgree, HasWhatItNeeds, HalfWritten, PairMatches,
       svars, session, locals

(* The inductive invariant holds at every instant. *)
LEMMA SessionInvariant == SessionSpec => []SessionInv
<1>1. SessionInv /\ [SessionNext]_svars => SessionInv'
  <2> SUFFICES ASSUME SessionInv, [SessionNext]_svars PROVE SessionInv'
    OBVIOUS
  <2>1. ASSUME NEW p \in Proc, StartCommand(p) \/ SessionStep(p) \/ Fail(p)
        PROVE  SessionInv'
    BY <2>1, StartKeeps, LoadKeeps, WriteKeeps, DeleteKeeps, AfterLoadKeeps, FailKeeps
       DEF SessionStep
  <2> QED
    BY <2>1, EnvironmentKeeps, StutterKeeps DEF SessionNext
<1> QED
  BY <1>1, InitSessionInv, PTL DEF SessionSpec

------------------------------------------------------------------------------
(* Whatever commands run, fail or die, every file and every command is in a  *)
(* state of its kind, and exactly the command inside persist_atomic or       *)
(* delete holds the flock (local.rs, acquire_lock).                          *)
THEOREM SessionTypeCorrect == SessionSpec => []SessionTypeOK
<1>1. SessionInv => SessionTypeOK
  BY DEF SessionInv
<1> QED
  BY <1>1, SessionInvariant, PTL

(* Blob and sidecar belong together whenever nobody is at work on them and   *)
(* no writer died between the two, for any number of concurrent commands     *)
(* (local.rs, persist_atomic and delete).                                    *)
THEOREM SessionFilesAgree == SessionSpec => []FilesAgree
<1>1. SessionInv => FilesAgree
  BY DEF SessionInv
<1> QED
  BY <1>1, SessionInvariant, PTL

------------------------------------------------------------------------------
(* Lifetimes.                                                                *)

(* A session nobody may outlive by more than one lifetime counted from now. *)
Bounded(s) == s # NoFile => s.expires <= now + LongestTtl

(* WithinMaxTtl is not inductive: what a command has built and is yet to     *)
(* write, possibly much later, must be bounded as well.                      *)
TtlInv == Bounded(blob) /\ \A p \in Proc : Bounded(mine[p])

LEMMA InitTtlInv == SessionInit => TtlInv
BY DEF SessionInit, TtlInv, Bounded

(* A step that builds no session and places none keeps the lifetimes. *)
LEMMA TtlFrame ==
  ASSUME SessionInv, TtlInv, now' \in {now, now + 1},
         blob' = NoFile \/ blob' = blob \/ \E p \in Proc : blob' = mine[p],
         \A p \in Proc : mine'[p] \in {mine[p], NoFile}
  PROVE  TtlInv'
<1>1. now \in Nat
  BY SessionConstants DEF SessionInv, SessionTypeOK
<1>2. ASSUME NEW s \in Session \cup {NoFile}, Bounded(s)
      PROVE  s # NoFile => s.expires <= now' + LongestTtl
  <2>1. SUFFICES ASSUME s # NoFile PROVE s.expires <= now' + LongestTtl
    OBVIOUS
  <2>2. s.expires <= now + LongestTtl
    BY <1>2, <2>1 DEF Bounded
  <2>3. LongestTtl \in Nat /\ s.expires \in Nat
    BY <2>1, SessionConstants, TtlRange DEF Session
  <2> QED
    BY <1>1, <2>2, <2>3
<1>3. /\ blob \in Session \cup {NoFile} /\ Bounded(blob)
      /\ \A p \in Proc : mine[p] \in Session \cup {NoFile} /\ Bounded(mine[p])
  BY DEF SessionInv, SessionTypeOK, TtlInv
<1> QED
  BY <1>2, <1>3 DEF TtlInv, Bounded

(* A step that gives p a session that ends one lifetime from now. *)
LEMMA TtlBuilt ==
  ASSUME SessionInv, TtlInv, UNCHANGED <<now, blob>>, NEW p \in Proc, NEW ttl \in resolve_ttl,
         NEW s \in Session, s.expires = now + ttl, mine' = [mine EXCEPT ![p] = s]
  PROVE  TtlInv'
<1>1. s.expires <= now + LongestTtl
  BY SessionConstants, TtlRange DEF SessionInv, SessionTypeOK
<1> QED
  BY <1>1 DEF TtlInv, Bounded, SessionInv, SessionTypeOK

LEMMA NextTtlInv == SessionInv /\ TtlInv /\ [SessionNext]_svars => TtlInv'
<1> SUFFICES ASSUME SessionInv, TtlInv, [SessionNext]_svars PROVE TtlInv'
  OBVIOUS
<1> USE DEF SessionInv, SessionTypeOK
<1>0. mine \in [Proc -> Session \cup {NoFile}] /\ now \in Nat
  BY SessionConstants
<1>1. CASE UNCHANGED svars
  BY <1>1, TtlFrame DEF svars, session, locals
<1>2. ASSUME NEW p \in Proc, NEW ttl \in resolve_ttl, Unlock(p, ttl) PROVE TtlInv'
  <2> DEFINE s == [expires |-> now + ttl, created |-> now, host |-> host, nonce |-> writes + 1]
  <2>1. ttl \in Nat
    BY TtlRange
  <2>2. s \in Session /\ s.expires = now + ttl
    BY <1>0, <2>1 DEF Session
  <2>3. mine' = [mine EXCEPT ![p] = s] /\ UNCHANGED <<now, blob>>
    BY <1>2 DEF Unlock, session
  <2> HIDE DEF s
  <2> QED
    BY <2>2, <2>3, TtlBuilt
<1>3. ASSUME NEW p \in Proc, NEW ttl \in resolve_ttl, Extend(p, ttl) PROVE TtlInv'
  <2> DEFINE s == [seen[p] EXCEPT !.expires = now + ttl, !.nonce = writes + 1]
  <2>1. ttl \in Nat /\ seen[p] \in Session
    BY <1>3, TtlRange DEF Extend, HasWhatItNeeds
  <2>2. s \in Session /\ s.expires = now + ttl
    <3>1. now + ttl \in Nat /\ writes + 1 \in Nat
      BY <1>0, <2>1
    <3> QED
      BY <2>1, <3>1, BumpedSession
  <2>3. mine' = [mine EXCEPT ![p] = s] /\ UNCHANGED <<now, blob>>
    BY <1>3 DEF Extend, session
  <2> HIDE DEF s
  <2> QED
    BY <2>2, <2>3, TtlBuilt
<1>4. ASSUME NEW p \in Proc,
             \/ \E command \in {"load", "extend"} : StartLoad(p, command)
             \/ Lock(p) \/ LoadSteps(p) \/ StatusKnown(p) \/ ExtendRefused(p)
             \/ AcquireToWrite(p) \/ RefuseForeign(p) \/ PlaceSidecar(p) \/ DeleteSteps(p) \/ Fail(p)
      PROVE  TtlInv'
  <2>1. /\ UNCHANGED now /\ (UNCHANGED blob \/ blob' = NoFile)
        /\ UNCHANGED mine \/ mine' = [mine EXCEPT ![p] = NoFile]
    BY <1>4 DEF StartLoad, Lock, LoadSteps, FindBlob, ReadBlob, ReadSidecar, StatusKnown,
                ExtendRefused, AcquireToWrite, RefuseForeign, PlaceSidecar, DeleteSteps,
                AcquireToDelete, RemoveBlob, RemoveSidecar, Fail, End, session
  <2> QED
    BY <1>0, <2>1, TtlFrame
<1>5. ASSUME NEW p \in Proc, PlaceBlob(p) PROVE TtlInv'
  BY <1>0, <1>5, TtlFrame DEF PlaceBlob
<1>6. CASE Environment
  BY <1>0, <1>6, TtlFrame DEF Environment, Tick, Rename, session, locals
<1> QED
  BY <1>1, <1>2, <1>3, <1>4, <1>5, <1>6
     DEF SessionNext, StartCommand, SessionStep, AfterLoad, WriteSteps

(* No session on disk is good for longer than one lifetime counted from now, *)
(* whatever commands extend, fail or wait with what they have built.         *)
THEOREM NoSessionOutlivesTtl == SessionSpec => []WithinMaxTtl
<1>1. TtlInv => WithinMaxTtl
  BY DEF TtlInv, Bounded, WithinMaxTtl
<1> QED
  BY <1>1, SessionInvariant, InitTtlInv, NextTtlInv, PTL DEF SessionSpec

------------------------------------------------------------------------------
(* The launch of a server and the MCP password.                            *)

(* Nothing but the keychain and the vault's own password is asked for.     *)
Uses(c) == c # Torn /\ c.use_keychain

Known == {None, sentinel}

(* What a migration has read, and the steps after the item is in place.    *)
ToolShape ==
  /\ tool.does = "migrate" <=> tool.read # Torn
  /\ tool.at # "idle" => tool.does # "none"
  /\ tool.at \in {"prompt", "add"} => tool.does # "disable"
  /\ tool.at \in {"backup", "truncate", "write"} => tool.does = "migrate"
  /\ tool.at \in {"delete", "add"} /\ tool.does = "enable" => tool.pw # None

(* Whoever names a password source has the vault's password there: only a  *)
(* configuration that has no other source is migrated, and one that names  *)
(* the keychain is never migrated again.                                   *)
PasswordsTrue ==
  /\ item \in Known /\ tool.pw \in Known /\ server.env \in Known
  /\ \A c \in {client, tool.read} \cup backups : c # Torn => c.env \in Known

KeychainHolds ==
  /\ Uses(client) => /\ client.env = None /\ client.command = "kvendra" /\ macos
                     /\ item # None \/ tool.at = "add"
  /\ \A c \in backups : ~Uses(c)
  /\ server.use_keychain => Uses(client)

ToolSound ==
  /\ tool.does = "migrate" /\ tool.at \in {"prompt", "delete", "add", "backup", "truncate"} =>
       client # Torn /\ ~client.use_keychain
  /\ tool.at \in {"delete", "add"} /\ tool.does # "disable" => Secret # None
  /\ tool.at = "add" => macos
  /\ tool.at \in {"backup", "truncate", "write"} => macos /\ item # None

ServerSound ==
  /\ server.at = "password" /\ ~server.use_keychain => server.env # None
  /\ server.at = "open" => server.pw = sentinel
  /\ server.at # "refused"

BootSound == PasswordsTrue /\ KeychainHolds /\ ToolSound /\ ServerSound

BootInv == BootTypeOK /\ ToolShape /\ (excuses = {} => BootSound)

LEMMA NoneIsNoPassword == BootTypeOK => sentinel # None /\ sentinel \in Key
BY BootConstants DEF BootTypeOK, Key

LEMMA TornIsNoClient == Torn \notin Client
BY DEF Torn, Client

LEMMA StartInv ==
  ASSUME BootInv, Enable \/ Migrate \/ Disable
  PROVE  BootInv'
<1> USE BootConstants, TornIsNoClient DEF BootInv
<1>1. PICK does \in {"enable", "migrate", "disable"}, at \in {"prompt", "delete"}, c \in Client \cup {Torn} :
        /\ Start(does, at, c)
        /\ does = "migrate" <=> c # Torn
        /\ at = "prompt" => does # "disable"
        /\ c # Torn => c = client /\ (c.env # None \/ c.command = "wrapper") /\ (at = "delete" => c.env # None)
        /\ at = "delete" => does # "enable"
  <2>1. CASE Enable
    BY <2>1 DEF Enable
  <2>2. CASE Migrate
    BY <2>2 DEF Migrate, BootTypeOK
  <2>3. CASE Disable
    BY <2>3 DEF Disable
  <2> QED BY <2>1, <2>2, <2>3
<1>2. /\ tool' = [at |-> at, does |-> does, read |-> c, pw |-> None] /\ tool.at = "idle"
      /\ UNCHANGED <<macos, files, server, launches, edits, excuses>>
      /\ commands' = commands + 1 /\ commands < MaxCommands
  BY <1>1 DEF Start
<1>3. BootTypeOK'
  BY <1>2 DEF BootTypeOK, Tool, Key, files
<1>4. ToolShape'
  BY <1>1, <1>2 DEF ToolShape
<1>5. ASSUME excuses' = {} PROVE BootSound'
  <2>1. BootSound
    BY <1>2, <1>5
  <2>2. PasswordsTrue' /\ ServerSound'
    BY <1>1, <1>2, <2>1 DEF BootSound, PasswordsTrue, ServerSound, Known, files
  <2>3. KeychainHolds'
    BY <1>2, <2>1 DEF BootSound, KeychainHolds, Uses, files
  <2>4. ToolSound'
    BY <1>1, <1>2, <2>1 DEF BootSound, KeychainHolds, ToolSound, Secret, Uses, files, BootTypeOK, Client
  <2> QED BY <2>2, <2>3, <2>4 DEF BootSound
<1> QED BY <1>3, <1>4, <1>5

LEMMA TypedInv ==
  ASSUME BootInv, NEW pw \in Key, Typed(pw)
  PROVE  BootInv'
<1> USE BootConstants, TornIsNoClient DEF BootInv
<1>1. /\ tool.at = "prompt" /\ UNCHANGED <<macos, files, server, count>>
      /\ tool' = Resting \/ (pw # None /\ tool' = [tool EXCEPT !.at = "delete", !.pw = pw])
      /\ excuses' = {} => excuses = {} /\ pw \in Known
  BY DEF Typed, Ends, Blame, Key, Known
<1>2. CASE tool' = Resting
  <2>1. BootTypeOK' /\ ToolShape'
    BY <1>1, <1>2 DEF BootTypeOK, Tool, Resting, files, count, Key, ToolShape
  <2>2. ASSUME excuses' = {} PROVE BootSound'
    <3>1. BootSound
      BY <1>1, <2>2
    <3>2. PasswordsTrue' /\ ServerSound'
      BY <1>1, <1>2, <3>1 DEF BootSound, PasswordsTrue, ServerSound, Known, files, Resting
    <3>3. KeychainHolds' /\ ToolSound'
      BY <1>1, <1>2, <3>1 DEF BootSound, KeychainHolds, ToolSound, Uses, files, Resting
    <3> QED BY <3>2, <3>3 DEF BootSound
  <2> QED BY <2>1, <2>2
<1>3. CASE pw # None /\ tool' = [tool EXCEPT !.at = "delete", !.pw = pw]
  <2>1. /\ tool' \in Tool /\ tool'.at = "delete" /\ tool'.pw = pw
        /\ tool'.does = tool.does /\ tool'.read = tool.read
    BY <1>3 DEF BootTypeOK, Tool
  <2>2. BootTypeOK' /\ ToolShape'
    BY <1>1, <1>3, <2>1 DEF BootTypeOK, files, count, ToolShape
  <2>3. ASSUME excuses' = {} PROVE BootSound'
    <3>1. BootSound /\ pw \in Known
      BY <1>1, <2>3
    <3>2. PasswordsTrue' /\ ServerSound'
      BY <1>1, <2>1, <3>1 DEF BootSound, PasswordsTrue, ServerSound, Known, files
    <3>3. KeychainHolds' /\ ToolSound'
      BY <1>1, <1>3, <2>1, <3>1 DEF BootSound, KeychainHolds, ToolSound, Secret, Uses, files
    <3> QED BY <3>2, <3>3 DEF BootSound
  <2> QED BY <2>2, <2>3
<1> QED BY <1>1, <1>2, <1>3

(* The steps that replace the item.                                        *)
LEMMA ItemInv ==
  ASSUME BootInv, DeleteItem \/ AddItem \/ AddFails \/ Interrupted
  PROVE  BootInv'
<1> USE BootConstants, TornIsNoClient DEF BootInv
<1>1. CASE DeleteItem
  <2>1. /\ tool.at = "delete" /\ UNCHANGED <<macos, sentinel, derived, client, wrapper, backups, server, count>>
        /\ \/ macos /\ item' = None /\ tool' = [tool EXCEPT !.at = IF tool.does = "disable" THEN "unwrap" ELSE "add"]
           \/ tool.does = "disable" /\ item' = item /\ tool' = [tool EXCEPT !.at = "unwrap"]
           \/ item' = item /\ tool' = Resting
        /\ excuses' = {} => excuses = {} /\ tool.does # "disable"
    BY <1>1 DEF DeleteItem, Ends, Blame
  <2>2. BootTypeOK' /\ ToolShape'
    BY <2>1 DEF BootTypeOK, Tool, Resting, count, Key, ToolShape
  <2>3. ASSUME excuses' = {} PROVE BootSound'
    <3>1. BootSound /\ tool.does # "disable"
      BY <2>1, <2>3
    <3>2. PasswordsTrue' /\ ServerSound'
      BY <2>1, <3>1 DEF BootSound, PasswordsTrue, ServerSound, Known, Resting, BootTypeOK, Tool
    <3>3. KeychainHolds' /\ ToolSound'
      BY <2>1, <3>1 DEF BootSound, KeychainHolds, ToolSound, Secret, Uses, Resting, BootTypeOK, Tool
    <3> QED BY <3>2, <3>3 DEF BootSound
  <2> QED BY <2>2, <2>3
<1>2. CASE AddItem
  <2>1. /\ tool.at = "add" /\ item' = Secret
        /\ UNCHANGED <<macos, sentinel, derived, client, wrapper, backups, server, count, excuses>>
        /\ tool' = IF tool.does = "enable" THEN Resting ELSE [tool EXCEPT !.at = "backup"]
    BY <1>2 DEF AddItem, Ends
  <2>2. Secret \in Key
    <3>1. tool.pw \in Key /\ (tool.pw = None => tool.read \in Client)
      BY <2>1 DEF BootTypeOK, ToolShape, Tool
    <3>2. \A c \in Client : c.env \in Key
      BY DEF Client
    <3> QED BY <3>1, <3>2 DEF Secret
  <2>3. tool.does \in {"enable", "migrate"}
    BY <2>1 DEF BootTypeOK, ToolShape, Tool
  <2>4. BootTypeOK' /\ ToolShape'
    BY <2>1, <2>2, <2>3 DEF BootTypeOK, Tool, Resting, count, ToolShape, Key
  <2>5. ASSUME excuses' = {} PROVE BootSound'
    <3>1. BootSound
      BY <2>1, <2>5
    <3>2. Secret \in Known \ {None}
      <4>1. tool.pw \in Known /\ (tool.pw = None => tool.read # Torn /\ tool.read.env \in Known)
        BY <2>1, <2>3, <3>1 DEF BootSound, PasswordsTrue, ToolShape
      <4>2. Secret # None
        BY <2>1, <2>3, <3>1 DEF BootSound, ToolSound
      <4> QED BY <4>1, <4>2 DEF Secret
    <3>3. PasswordsTrue' /\ ServerSound'
      BY <2>1, <3>1, <3>2 DEF BootSound, PasswordsTrue, ServerSound, Known, Resting, BootTypeOK, Tool
    <3>4. KeychainHolds' /\ ToolSound'
      BY <2>1, <2>3, <3>1, <3>2 DEF BootSound, KeychainHolds, ToolSound, Uses, Resting, BootTypeOK, Tool
    <3> QED BY <3>3, <3>4 DEF BootSound
  <2> QED BY <2>4, <2>5
<1>3. CASE AddFails \/ Interrupted
  <2>1. /\ tool.at # "idle" /\ tool' = Resting /\ UNCHANGED <<macos, files, server, count>>
        /\ excuses' = {} => excuses = {} /\ (tool.at = "add" => ~OnlyInKeychain)
    BY <1>3 DEF AddFails, Interrupted, Ends, Blame
  <2>2. BootTypeOK' /\ ToolShape'
    BY <2>1 DEF BootTypeOK, Tool, Resting, files, count, ToolShape, Key
  <2>3. ASSUME excuses' = {} PROVE BootSound'
    <3>1. BootSound /\ (tool.at = "add" => ~Uses(client))
      BY <2>1, <2>3 DEF OnlyInKeychain, BootSound, ToolSound, ToolShape, Uses
    <3>2. PasswordsTrue' /\ ServerSound'
      BY <2>1, <3>1 DEF BootSound, PasswordsTrue, ServerSound, Known, Resting, files
    <3>3. KeychainHolds' /\ ToolSound'
      BY <2>1, <3>1 DEF BootSound, KeychainHolds, ToolSound, Uses, Resting, files
    <3> QED BY <3>2, <3>3 DEF BootSound
  <2> QED BY <2>2, <2>3
<1> QED BY <1>1, <1>2, <1>3

(* The steps that replace the client's file.                               *)
LEMMA ClientInv ==
  ASSUME BootInv,
         \/ BackupClient \/ TruncateClient \/ WriteClient \/ RemoveWrapper \/ ClientSaves
         \/ \E c \in backups : RestoreClient(c)
  PROVE  BootInv'
<1> USE BootConstants, TornIsNoClient DEF BootInv
<1>1. CASE BackupClient
  <2>1. /\ tool.at = "backup" /\ backups' = backups \cup {client} /\ tool' = [tool EXCEPT !.at = "truncate"]
        /\ UNCHANGED <<macos, sentinel, derived, item, client, wrapper, server, count, excuses>>
    BY <1>1 DEF BackupClient
  <2>2. BootTypeOK' /\ ToolShape'
    BY <2>1 DEF BootTypeOK, Tool, count, ToolShape
  <2>3. ASSUME BootSound PROVE BootSound'
    <3>1. PasswordsTrue' /\ ServerSound'
      BY <2>1, <2>3 DEF BootSound, PasswordsTrue, ServerSound, Known, BootTypeOK, Tool
    <3>2. KeychainHolds' /\ ToolSound'
      BY <2>1, <2>3 DEF BootSound, KeychainHolds, ToolSound, ToolShape, Uses, BootTypeOK, Tool
    <3> QED BY <3>1, <3>2 DEF BootSound
  <2> QED BY <2>1, <2>2, <2>3
<1>2. CASE TruncateClient
  <2>1. /\ tool.at = "truncate" /\ client' = Torn /\ tool' = [tool EXCEPT !.at = "write"]
        /\ UNCHANGED <<macos, sentinel, derived, item, wrapper, backups, server, count, excuses>>
    BY <1>2 DEF TruncateClient
  <2>2. BootTypeOK' /\ ToolShape'
    BY <2>1 DEF BootTypeOK, Tool, count, ToolShape
  <2>3. ASSUME BootSound PROVE BootSound'
    <3>1. PasswordsTrue' /\ ServerSound'
      BY <2>1, <2>3 DEF BootSound, PasswordsTrue, ServerSound, Known, BootTypeOK, Tool
    <3>2. KeychainHolds' /\ ToolSound'
      BY <2>1, <2>3 DEF BootSound, KeychainHolds, ToolSound, ToolShape, Uses, BootTypeOK, Tool
    <3> QED BY <3>1, <3>2 DEF BootSound
  <2> QED BY <2>1, <2>2, <2>3
<1>3. CASE WriteClient
  <2>1. /\ tool.at = "write" /\ client' = Migrated(tool.read) /\ tool' = [tool EXCEPT !.at = "unwrap"]
        /\ UNCHANGED <<macos, sentinel, derived, item, wrapper, backups, server, count, excuses>>
    BY <1>3 DEF WriteClient
  <2>2. tool.read \in Client
    BY <2>1 DEF ToolShape, BootTypeOK, Tool
  <2>3. /\ client' \in Client /\ client'.use_keychain /\ client'.env = None /\ client'.command = "kvendra"
    BY <2>1, <2>2 DEF Migrated, Client, Key
  <2>4. BootTypeOK' /\ ToolShape'
    BY <2>1, <2>3 DEF BootTypeOK, Tool, count, ToolShape
  <2>5. ASSUME BootSound PROVE BootSound'
    <3>1. PasswordsTrue' /\ ServerSound'
      BY <2>1, <2>3, <2>5 DEF BootSound, PasswordsTrue, ServerSound, Known, BootTypeOK, Tool
    <3>2. KeychainHolds' /\ ToolSound'
      BY <2>1, <2>3, <2>5 DEF BootSound, KeychainHolds, ToolSound, Uses, BootTypeOK, Tool
    <3> QED BY <3>1, <3>2 DEF BootSound
  <2> QED BY <2>1, <2>4, <2>5
<1>4. CASE RemoveWrapper
  <2>1. /\ tool.at = "unwrap" /\ tool' = Resting /\ wrapper' = FALSE
        /\ UNCHANGED <<macos, sentinel, derived, item, client, backups, server, count, excuses>>
    BY <1>4 DEF RemoveWrapper, Ends
  <2>2. BootTypeOK' /\ ToolShape'
    BY <2>1 DEF BootTypeOK, Tool, Resting, count, ToolShape, Key
  <2>3. ASSUME BootSound PROVE BootSound'
    <3>1. PasswordsTrue' /\ ServerSound'
      BY <2>1, <2>3 DEF BootSound, PasswordsTrue, ServerSound, Known, Resting
    <3>2. KeychainHolds' /\ ToolSound'
      BY <2>1, <2>3 DEF BootSound, KeychainHolds, ToolSound, Uses, Resting
    <3> QED BY <3>1, <3>2 DEF BootSound
  <2> QED BY <2>1, <2>2, <2>3
<1>5. CASE ClientSaves
  <2>1. /\ client # Torn /\ client' = [client EXCEPT !.other = edits + 1] /\ edits' = edits + 1 /\ edits < MaxEdits
        /\ UNCHANGED <<macos, sentinel, derived, item, wrapper, backups, tool, server, commands, launches, excuses>>
    BY <1>5 DEF ClientSaves
  <2>2. client \in Client /\ edits + 1 \in 0..MaxEdits
    BY <2>1 DEF BootTypeOK
  <2>3. /\ client' \in Client /\ client'.use_keychain = client.use_keychain /\ client'.env = client.env
        /\ client'.command = client.command
    BY <2>1, <2>2 DEF Client
  <2>4. BootTypeOK' /\ ToolShape'
    BY <2>1, <2>2, <2>3 DEF BootTypeOK, ToolShape
  <2>5. ASSUME BootSound PROVE BootSound'
    <3>1. PasswordsTrue' /\ ServerSound'
      BY <2>1, <2>3, <2>5 DEF BootSound, PasswordsTrue, ServerSound, Known
    <3>2. KeychainHolds' /\ ToolSound'
      BY <2>1, <2>3, <2>5 DEF BootSound, KeychainHolds, ToolSound, Secret, Uses
    <3> QED BY <3>1, <3>2 DEF BootSound
  <2> QED BY <2>1, <2>4, <2>5
<1>6. ASSUME NEW c \in backups, RestoreClient(c) PROVE BootInv'
  <2>1. /\ tool.at = "idle" /\ client = Torn /\ c # Torn /\ client' = c
        /\ UNCHANGED <<macos, sentinel, derived, item, wrapper, backups, tool, server, count, excuses>>
    BY <1>6 DEF RestoreClient
  <2>2. BootTypeOK' /\ ToolShape'
    BY <2>1 DEF BootTypeOK, count, ToolShape
  <2>3. ASSUME BootSound PROVE BootSound'
    <3>1. PasswordsTrue' /\ ServerSound'
      BY <2>1, <2>3 DEF BootSound, PasswordsTrue, ServerSound, Known
    <3>2. KeychainHolds' /\ ToolSound'
      BY <2>1, <2>3 DEF BootSound, KeychainHolds, ToolSound, Uses
    <3> QED BY <3>1, <3>2 DEF BootSound
  <2> QED BY <2>1, <2>2, <2>3
<1> QED BY <1>1, <1>2, <1>3, <1>4, <1>5, <1>6

LEMMA VaultInv ==
  ASSUME BootInv, (\E key \in Key : SessionBecomes(key)) \/ (\E pw \in Password : Recreated(pw))
  PROVE  BootInv'
<1> USE BootConstants DEF BootInv
<1>1. CASE \E key \in Key : SessionBecomes(key)
  <2>1. derived' \in Key /\ UNCHANGED <<macos, sentinel, item, client, wrapper, backups, tool, server, count, excuses>>
    BY <1>1 DEF SessionBecomes
  <2> QED BY <2>1 DEF BootTypeOK, count, ToolShape, BootSound, PasswordsTrue, KeychainHolds, ToolSound,
              ServerSound, Known, Uses, Secret
<1>2. CASE \E pw \in Password : Recreated(pw)
  <2>1. sentinel' \in Password /\ excuses' # {} /\ UNCHANGED <<macos, derived, item, client, wrapper, backups, tool, server, count>>
    BY <1>2 DEF Recreated, Blame
  <2> QED BY <2>1 DEF BootTypeOK, count, ToolShape
<1> QED BY <1>1, <1>2

(* The launched server.                                                    *)
LEMMA ServerInv ==
  ASSUME BootInv, Launch \/ TrySession \/ TakePassword \/ PopupDismissed \/ Open
  PROVE  BootInv'
<1> USE BootConstants, TornIsNoClient DEF BootInv
<1>1. ASSUME server' \in Server, UNCHANGED <<macos, files, tool, commands, edits>>, launches' \in 0..MaxLaunches
      PROVE  BootTypeOK' /\ ToolShape'
  BY <1>1 DEF BootTypeOK, ToolShape, files
<1>2. ASSUME BootSound, UNCHANGED <<macos, files, tool>>, server'.use_keychain => Uses(client),
             server'.env \in Known, ServerSound'
      PROVE  BootSound'
  BY <1>2 DEF BootSound, PasswordsTrue, KeychainHolds, ToolSound, Known, Uses, Secret, files
<1>3. CASE Launch
  <2>1. /\ client \in Client /\ UNCHANGED <<macos, files, tool, commands, edits, excuses>>
        /\ launches' = launches + 1 /\ launches < MaxLaunches
        /\ server' = [at |-> IF client.use_keychain /\ client.env # None THEN "refused" ELSE "session",
                      use_keychain |-> client.use_keychain, env |-> client.env, pw |-> None, asked |-> FALSE]
    BY <1>3 DEF Launch, BootTypeOK
  <2>2. server' \in Server /\ launches' \in 0..MaxLaunches
    BY <2>1 DEF Server, Client, Key, BootTypeOK
  <2>3. ASSUME BootSound PROVE BootSound'
    BY <1>2, <2>1, <2>3 DEF BootSound, KeychainHolds, PasswordsTrue, ServerSound, Uses
  <2> QED BY <1>1, <2>1, <2>2, <2>3
<1>4. CASE TrySession
  <2>1. /\ server.at = "session" /\ UNCHANGED <<macos, files, tool, count, excuses>>
        /\ \/ server' = [server EXCEPT !.at = "unlocked", !.pw = derived]
           \/ server' = [server EXCEPT !.at = "password"] /\ (server.use_keychain \/ server.env # None)
           \/ server' = [server EXCEPT !.at = "pending"]
    BY <1>4 DEF TrySession
  <2>2. server' \in Server
    BY <2>1 DEF BootTypeOK, Server
  <2>3. ASSUME BootSound PROVE BootSound'
    <3>1. server'.use_keychain = server.use_keychain /\ server'.env = server.env /\ ServerSound'
      BY <2>1, <2>3 DEF BootTypeOK, Server, BootSound, ServerSound
    <3> QED BY <1>2, <2>1, <2>3, <3>1 DEF BootSound, KeychainHolds, PasswordsTrue
  <2> QED BY <1>1, <2>1, <2>2, <2>3 DEF count, BootTypeOK
<1>5. CASE TakePassword
  <2>1. /\ server.at = "password" /\ UNCHANGED <<macos, files, tool, count>>
        /\ \/ ~server.use_keychain /\ server' = [server EXCEPT !.at = "open", !.pw = server.env]
           \/ item # None /\ server' = [server EXCEPT !.at = "open", !.pw = item, !.asked = TRUE]
           \/ server.use_keychain /\ (~macos \/ item = None) /\ server' = [server EXCEPT !.at = "refused"]
        /\ excuses' = {} => excuses = {} /\ (server.use_keychain /\ item = None => tool.at # "add")
    BY <1>5 DEF TakePassword, Blame
  <2>2. server' \in Server
    BY <2>1 DEF BootTypeOK, Server
  <2>3. ASSUME excuses' = {} PROVE BootSound'
    <3>1. BootSound /\ (server.use_keychain => macos /\ item # None)
      BY <2>1, <2>3 DEF BootSound, KeychainHolds
    <3>2. server'.use_keychain = server.use_keychain /\ server'.env = server.env
      BY <2>1 DEF BootTypeOK, Server
    <3>3. ServerSound'
      BY <2>1, <3>1 DEF BootTypeOK, Server, BootSound, ServerSound, PasswordsTrue, Known, files
    <3> QED BY <1>2, <2>1, <3>1, <3>2, <3>3 DEF BootSound, KeychainHolds, PasswordsTrue
  <2> QED BY <1>1, <2>1, <2>2, <2>3 DEF count, BootTypeOK
<1>6. CASE PopupDismissed
  <2>1. /\ UNCHANGED <<macos, files, tool, count>> /\ excuses' # {}
        /\ server' = [server EXCEPT !.at = "refused", !.asked = TRUE]
    BY <1>6 DEF PopupDismissed, Blame
  <2>2. server' \in Server
    BY <2>1 DEF BootTypeOK, Server
  <2> QED BY <1>1, <2>1, <2>2 DEF count, BootTypeOK
<1>7. CASE Open
  <2>1. /\ server.at = "open" /\ UNCHANGED <<macos, files, tool, count, excuses>>
        /\ server' = [server EXCEPT !.at = IF server.pw = sentinel THEN "unlocked" ELSE "refused"]
    BY <1>7 DEF Open, OpensByPassword
  <2>2. server' \in Server
    BY <2>1 DEF BootTypeOK, Server
  <2>3. ASSUME BootSound PROVE BootSound'
    <3>1. server'.use_keychain = server.use_keychain /\ server'.env = server.env /\ ServerSound'
      BY <2>1, <2>3 DEF BootTypeOK, Server, BootSound, ServerSound
    <3> QED BY <1>2, <2>1, <2>3, <3>1 DEF BootSound, KeychainHolds, PasswordsTrue
  <2> QED BY <1>1, <2>1, <2>2, <2>3 DEF count, BootTypeOK
<1> QED BY <1>3, <1>4, <1>5, <1>6, <1>7

LEMMA InitBootInv == BootInit => BootInv
<1> SUFFICES ASSUME BootInit PROVE BootInv
  OBVIOUS
<1>1. client \in Client /\ item \in Key /\ sentinel # None
  BY BootConstants DEF BootInit, Client, Key
<1>2. BootTypeOK /\ ToolShape
  BY <1>1, BootConstants DEF BootInit, BootTypeOK, ToolShape, Tool, Resting, Server, Absent, Key
<1>3. BootSound
  BY <1>1 DEF BootInit, Resting, Absent, BootSound, PasswordsTrue, KeychainHolds, ToolSound, ServerSound, Known, Uses,
              Torn, Client
<1> QED BY <1>2, <1>3 DEF BootInv

(* A client whose file names a password source gets a server that comes    *)
(* up, for any passwords and any number of commands, launches and edits,   *)
(* wherever a migration is interrupted, unless one of the named excuses    *)
(* has happened (cli/mcp.rs, cli/config_mcp_password.rs).                  *)
THEOREM ServerAlwaysComesUp == BootSpec => []ServerComesUp
<1>1. BootInit => BootInv
  BY InitBootInv
<1>2. BootInv /\ [BootNext]_bvars => BootInv'
  <2> SUFFICES ASSUME BootInv, [BootNext]_bvars PROVE BootInv'
    OBVIOUS
  <2>1. CASE UNCHANGED bvars
    BY <2>1 DEF bvars, files, count, BootInv, BootTypeOK, ToolShape, BootSound, PasswordsTrue, KeychainHolds,
                ToolSound, ServerSound, Known, Uses, Secret
  <2> QED BY <2>1, StartInv, TypedInv, ItemInv, ClientInv, VaultInv, ServerInv DEF BootNext
<1>3. BootInv => ServerComesUp
  BY DEF BootInv, BootSound, ServerSound, ServerComesUp
<1> QED BY <1>1, <1>2, <1>3, PTL DEF BootSpec

------------------------------------------------------------------------------
(* The commands that only report.                                          *)

(* Is the vault open for `config approval get`?                            *)
Unlocks(d) == (d.vault /\ d.password = "right") \/ (d.password = Unset /\ Opens(d))

(* What a report has read is what is there, as long as nothing changes.    *)
ReadInfo ==
  /\ view.at # "begin" => view.list = disk.tokens
  /\ view.at \in {"pro", "token", "again"} => view.opened = Loads(disk)
  /\ view.at \in {"token", "again"} => view.list # {}
  /\ view.at \in {"begin", "local", "pro"} => view.workspace = 0

ReadApproval ==
  view.at = "config" => /\ ~(disk.vault /\ disk.password = "wrong")
                        /\ view.opened = Unlocks(disk)

ReadShown ==
  /\ view.at \in {"hmac", "key", "print"} => view.text = disk.text
  /\ view.at \in {"key", "print"} => view.hmac = disk.hmac
  /\ view.at = "print" => view.opened = Opens(disk)

Read ==
  /\ view.command = "info" => ReadInfo
  /\ view.command = "approval" => ReadApproval
  /\ view.command = "show" => ReadShown
  /\ view.command = "vars" /\ view.at = "print" => Opens(disk)
  /\ view.at = "shown" => Agrees

(* Every HMAC there is was made by set-allowlist.                          *)
Made ==
  /\ disk.hmac \in signed \cup {Nothing}
  /\ view.command = "show" =>
       /\ view.at \in {"key", "print"} => view.hmac \in signed \cup {Nothing}
       /\ view.at = "shown" /\ view.said = "yes" => view.text \in signed /\ view.text.of = "asked"

ViewInv == ViewTypeOK /\ Made /\ (quiet => Read)

LEMMA NothingIsNoText == Nothing \notin Allowlist /\ Nothing.fit = "none"
BY DEF Nothing, Allowlist

(* The workspace taken is one of those listed.                             *)
LEMMA PickListed ==
  ASSUME NEW S \in SUBSET Workspace, S # {}
  PROVE  Pick(S) \in S
<1>1. S \subseteq Nat
  BY ViewConstants
<1>2. PICK k \in S : \A l \in S : ~(<<l, k>> \in OpToRel(<, Nat))
  BY <1>1, NatLessThanWellFounded, WFMin
<1>3. ASSUME NEW l \in S PROVE k <= l
  <2>1. ~(l < k)
    BY <1>1, <1>2 DEF OpToRel
  <2> QED BY <1>1, <2>1
<1>4. First(S) \in S
  BY <1>3 DEF First
<1> QED BY <1>4 DEF Pick

LEMMA PickBound ==
  ASSUME NEW d, d.tokens \in SUBSET Workspace, d.tokens # {}, Bound(d) # {}, disk = d
  PROVE  Pick(d.tokens) \in Bound(d)
<1> DEFINE S == d.tokens
<1>1. Pick(S) \in S
  BY PickListed
<1>2. IsFiniteSet(S) /\ Cardinality(S) \in Nat /\ Cardinality(S) # 0
  BY ViewConstants, FS_Subset, FS_CardinalityType, FS_EmptySet
<1>3. CASE Cardinality(S) = 1
  <2>1. Bound(d) = S
    BY <1>3 DEF Bound
  <2> QED BY <1>1, <2>1
<1>4. CASE Cardinality(S) # 1
  <2>1. Bound(d) = {d.chosen} \cap S
    BY <1>4 DEF Bound
  <2>2. d.chosen \in S /\ Cardinality(S) > 1
    BY <1>2, <1>4, <2>1
  <2>3. Pick(S) = d.chosen
    BY <2>2 DEF Pick
  <2> QED BY <2>1, <2>2, <2>3
<1> QED BY <1>3, <1>4

LEMMA ModeTyped ==
  ASSUME ViewTypeOK
  PROVE  Resolved(disk, ConfigOf(disk)) \in Mode
<1>1. ConfigOf(disk).mode \in Mode /\ disk.mode \in ModeOrUnset
  BY DEF ViewTypeOK, Disk, Config, ConfigOf, Default, Mode
<1> QED BY <1>1 DEF Resolved, resolve_mode_ratcheted, SignedMode, EnvWins, ModeOrUnset

(* A report changes only what it has seen.                                 *)
LEMMA SeesInv ==
  ASSUME ViewInv, NEW v \in View, Sees(v), v.command = view.command,
         v.command = "show" =>
           /\ v.at \in {"key", "print"} => v.hmac \in signed \cup {Nothing}
           /\ v.at = "shown" /\ v.said = "yes" => v.text \in signed /\ v.text.of = "asked",
         quiet => Read'
  PROVE  ViewInv'
BY DEF ViewInv, ViewTypeOK, Made, Sees

LEMMA InfoInv ==
  ASSUME ViewInv,
         ListSessions \/ ReadLocal \/ ReadPro \/ TokenGone \/ LoadAgain \/ \E json \in BOOLEAN : LoadToken(json)
  PROVE  ViewInv'
<1>0. view \in View /\ disk \in Disk /\ disk.tokens \in SUBSET Workspace /\ view.command = "info"
  BY DEF ViewInv, ViewTypeOK, Disk, ListSessions, ReadLocal, ReadPro, TokenGone, LoadAgain, LoadToken, At
<1>1. CASE ListSessions
  <2> DEFINE v == [view EXCEPT !.at = "local", !.list = disk.tokens]
  <2>1. Sees(v) /\ view.at = "begin"
    BY <1>1 DEF ListSessions, At
  <2>2. /\ v \in View /\ v.command = "info" /\ v.at = "local" /\ v.list = disk.tokens
        /\ v.workspace = view.workspace
    BY <1>0 DEF View
  <2>3. quiet => Read'
    BY <1>0, <2>1, <2>2 DEF Sees, ViewInv, Read, ReadInfo, ReadShown
  <2> QED BY <1>0, <2>1, <2>2, <2>3, SeesInv
<1>2. CASE ReadLocal
  <2> DEFINE v == [view EXCEPT !.at = "pro", !.opened = Loads(disk)]
  <2>1. Sees(v) /\ view.at = "local"
    BY <1>2 DEF ReadLocal, At
  <2>2. /\ v \in View /\ v.command = "info" /\ v.at = "pro" /\ v.list = view.list
        /\ v.workspace = view.workspace /\ v.opened = Loads(disk)
    <3>1. Loads(disk) \in BOOLEAN
      BY DEF Loads
    <3> QED BY <1>0, <3>1 DEF View
  <2>3. quiet => Read'
    BY <1>0, <2>1, <2>2 DEF Sees, ViewInv, Read, ReadInfo, ReadShown
  <2> QED BY <1>0, <2>1, <2>2, <2>3, SeesInv
<1>3. CASE ReadPro
  <2> DEFINE v == [view EXCEPT !.at = IF view.list = {} THEN "shown" ELSE "token", !.pro = disk.pro,
                               !.said = IF view.list = {} THEN "yes" ELSE "none"]
  <2>1. Sees(v) /\ view.at = "pro"
    BY <1>3 DEF ReadPro, At
  <2>2. /\ v \in View /\ v.command = "info" /\ v.list = view.list /\ v.opened = view.opened
        /\ v.workspace = view.workspace /\ v.at = IF view.list = {} THEN "shown" ELSE "token"
        /\ v.said = IF view.list = {} THEN "yes" ELSE "none"
    BY <1>0 DEF View, Disk
  <2>3. ASSUME quiet PROVE Read'
    <3>1. view.list = disk.tokens /\ view.opened = Loads(disk) /\ view.workspace = 0
      BY <1>0, <2>1, <2>3 DEF ViewInv, Read, ReadInfo, ReadApproval, ReadShown
    <3>2. view' = v /\ disk' = disk
      BY <2>1 DEF Sees
    <3>3. disk.tokens = {} => Agrees'
      <4>1. disk.tokens = {} => Bound(disk) = {0}
        BY DEF Bound
      <4> HIDE DEF v
      <4> QED BY <1>0, <2>2, <3>1, <3>2, <4>1 DEF Agrees, Opens, Loads, Disk
    <3> HIDE DEF v
    <3> QED BY <2>2, <3>1, <3>2, <3>3 DEF Read, ReadInfo
  <2> QED BY <1>0, <2>1, <2>2, <2>3, SeesInv
<1>4. CASE TokenGone
  <2> DEFINE v == [view EXCEPT !.at = "shown", !.said = "panic"]
  <2>1. Sees(v) /\ view.at \in {"token", "again"} /\ Pick(view.list) \notin disk.tokens
    BY <1>4 DEF TokenGone, Says
  <2>2. v \in View /\ v.command = "info"
    BY <1>0 DEF View
  <2>3. ~quiet
    BY <1>0, <2>1, PickListed DEF ViewInv, Read, ReadInfo, ReadApproval, ReadShown
  <2> QED BY <1>0, <2>1, <2>2, <2>3, SeesInv
<1>5. ASSUME NEW json \in BOOLEAN,
             \/ At("info", "token") /\ Pick(view.list) \in disk.tokens
                  /\ Sees([view EXCEPT !.workspace = Pick(view.list), !.at = IF json THEN "again" ELSE "shown",
                                       !.said = IF json THEN "none" ELSE "yes"])
             \/ ~json /\ LoadAgain
      PROVE  ViewInv'
  <2>1. PICK v \in View : /\ Sees(v) /\ v.command = "info" /\ v.list = view.list /\ v.opened = view.opened
                          /\ v.workspace = Pick(view.list) /\ v.at \in {"again", "shown"}
                          /\ v.said = IF v.at = "shown" THEN "yes" ELSE "none"
    <3>1. CASE LoadAgain
      <4> DEFINE v == [view EXCEPT !.workspace = Pick(view.list), !.at = "shown", !.said = "yes"]
      <4>1. Sees(v) /\ Pick(view.list) \in Workspace
        BY <1>0, <3>1 DEF LoadAgain
      <4>2. v \in View /\ v.command = "info" /\ v.list = view.list /\ v.opened = view.opened
            /\ v.workspace = Pick(view.list) /\ v.at = "shown" /\ v.said = "yes"
        BY <1>0, <4>1 DEF View
      <4> QED BY <4>1, <4>2
    <3>2. CASE ~LoadAgain
      <4> DEFINE v == [view EXCEPT !.workspace = Pick(view.list), !.at = IF json THEN "again" ELSE "shown",
                                   !.said = IF json THEN "none" ELSE "yes"]
      <4>1. Sees(v) /\ Pick(view.list) \in Workspace
        BY <1>0, <1>5, <3>2
      <4>2. v \in View /\ v.command = "info" /\ v.list = view.list /\ v.opened = view.opened
            /\ v.workspace = Pick(view.list) /\ v.at \in {"again", "shown"}
            /\ v.said = IF v.at = "shown" THEN "yes" ELSE "none"
        BY <1>0, <4>1 DEF View
      <4> QED BY <4>1, <4>2
    <3> QED BY <3>1, <3>2
  <2>2. view.at \in {"token", "again"}
    BY <1>5 DEF LoadAgain, At
  <2>3. ASSUME quiet PROVE Read'
    <3>1. view.list = disk.tokens /\ view.opened = Loads(disk) /\ view.list # {}
      BY <1>0, <2>2, <2>3 DEF ViewInv, Read, ReadInfo, ReadApproval, ReadShown
    <3>2. view' = v /\ disk' = disk
      BY <2>1 DEF Sees
    <3>3. Bound(disk) # {} => Pick(disk.tokens) \in Bound(disk)
      BY <1>0, <3>1, PickBound
    <3>4. v.at = "shown" => Agrees'
      BY <1>0, <2>1, <3>1, <3>2, <3>3 DEF Agrees, Opens, Loads, Disk
    <3> QED BY <2>1, <3>1, <3>2, <3>4 DEF Read, ReadInfo
  <2> QED BY <1>0, <2>1, <2>3, SeesInv
<1>6. CASE \E json \in BOOLEAN : LoadToken(json)
  BY <1>5, <1>6 DEF LoadToken
<1>7. CASE LoadAgain
  BY <1>5, <1>7
<1> QED BY <1>1, <1>2, <1>3, <1>4, <1>6, <1>7

LEMMA ApprovalInv ==
  ASSUME ViewInv, WrongPassword \/ TryUnlock \/ LoadForDisplay \/ RefuseTampered
  PROVE  ViewInv'
<1>0. view \in View /\ disk \in Disk /\ view.command = "approval"
  BY DEF ViewInv, ViewTypeOK, WrongPassword, TryUnlock, LoadForDisplay, RefuseTampered, At
<1>1. CASE WrongPassword \/ RefuseTampered
  <2> DEFINE v == [view EXCEPT !.at = "shown", !.said = "refused"]
  <2>1. Sees(v) /\ (~Verifies(disk) \/ disk.password = "wrong")
    BY <1>1 DEF WrongPassword, RefuseTampered, Says
  <2>2. v \in View /\ v.command = "approval" /\ v.at = "shown" /\ v.said = "refused"
    BY <1>0 DEF View
  <2>3. Agrees' /\ Read'
    BY <2>1, <2>2 DEF Sees, Agrees, Read, ReadApproval, ReadShown
  <2> QED BY <1>0, <2>1, <2>2, <2>3, SeesInv
<1>2. CASE TryUnlock
  <2> DEFINE b == Unlocks(disk)
             v == [view EXCEPT !.at = "config", !.opened = b]
  <2>1. Sees(v) /\ ~(disk.vault /\ disk.password = "wrong")
    BY <1>2 DEF TryUnlock, Unlocks
  <2>2. b \in BOOLEAN
    BY DEF Unlocks
  <2>3. v \in View /\ v.command = "approval" /\ v.at = "config" /\ v.opened = b
    BY <1>0, <2>2 DEF View
  <2>4. Read'
    <3>1. view' = v /\ disk' = disk
      BY <2>1 DEF Sees
    <3> HIDE DEF v
    <3> QED BY <2>1, <2>3, <3>1 DEF Read, ReadApproval
  <2> QED BY <1>0, <2>1, <2>3, <2>4, SeesInv
<1>3. CASE LoadForDisplay
  <2> DEFINE m == Resolved(disk, ConfigOf(disk))
             v == [view EXCEPT !.at = "shown", !.mode = m, !.said = IF view.opened THEN "yes" ELSE "unverified"]
  <2>1. Sees(v) /\ view.at = "config" /\ (view.opened => Verifies(disk))
    BY <1>3 DEF LoadForDisplay, At
  <2>2. m \in Mode
    BY ModeTyped DEF ViewInv
  <2>3. /\ v \in View /\ v.command = "approval" /\ v.at = "shown" /\ v.mode = m
        /\ v.said = IF view.opened THEN "yes" ELSE "unverified"
    BY <1>0, <2>2 DEF View
  <2>4. ASSUME quiet PROVE Agrees'
    <3>1. ~(disk.vault /\ disk.password = "wrong") /\ view.opened = Unlocks(disk)
      BY <1>0, <2>1, <2>4 DEF ViewInv, Read, ReadInfo, ReadApproval, ReadShown
    <3>2. ~view.opened => ~Opens(disk)
      BY <1>0, <3>1 DEF Unlocks, Opens, Disk
    <3>3. view.opened => m = ServedMode(disk)
      BY <2>1 DEF ServedMode
    <3>4. view' = v /\ disk' = disk
      BY <2>1 DEF Sees
    <3> HIDE DEF v, m
    <3> QED BY <2>3, <3>2, <3>3, <3>4 DEF Agrees
  <2>5. quiet => Read'
    BY <2>1, <2>3, <2>4 DEF Sees, Read, ReadApproval, ReadShown
  <2> QED BY <1>0, <2>1, <2>3, <2>5, SeesInv
<1> QED BY <1>1, <1>2, <1>3

LEMMA ShowInv ==
  ASSUME ViewInv, ReadText \/ ReadHmac \/ TryKey \/ PrintText
  PROVE  ViewInv'
<1>0. view \in View /\ disk \in Disk /\ view.command = "show" /\ disk.hmac \in signed \cup {Nothing}
  BY DEF ViewInv, ViewTypeOK, Made, ReadText, ReadHmac, TryKey, PrintText, At
<1>1. CASE ReadText
  <2>1. CASE disk.text = Nothing
    <3> DEFINE v == [view EXCEPT !.at = "shown", !.said = "refused"]
    <3>1. Sees(v)
      BY <1>1, <2>1 DEF ReadText, Says
    <3>2. v \in View /\ v.command = "show" /\ v.at = "shown" /\ v.said = "refused" /\ v.hmac = view.hmac
      BY <1>0 DEF View
    <3>3. Read'
      BY <3>1, <3>2 DEF Sees, Agrees, Read, ReadApproval, ReadShown
    <3> QED BY <1>0, <3>1, <3>2, <3>3, SeesInv
  <2>2. CASE disk.text # Nothing
    <3> DEFINE v == [view EXCEPT !.at = "hmac", !.text = disk.text]
    <3>1. Sees(v)
      BY <1>1, <2>2 DEF ReadText
    <3>2. v \in View /\ v.command = "show" /\ v.at = "hmac" /\ v.text = disk.text
      BY <1>0 DEF View, Disk
    <3>3. Read'
      BY <3>1, <3>2 DEF Sees, Read, ReadApproval, ReadShown
    <3> QED BY <1>0, <3>1, <3>2, <3>3, SeesInv
  <2> QED BY <2>1, <2>2
<1>2. CASE ReadHmac
  <2> DEFINE v == [view EXCEPT !.at = "key", !.hmac = disk.hmac]
  <2>1. Sees(v) /\ view.at = "hmac"
    BY <1>2 DEF ReadHmac, At
  <2>2. v \in View /\ v.command = "show" /\ v.at = "key" /\ v.text = view.text /\ v.hmac = disk.hmac
    BY <1>0 DEF View, Disk
  <2>3. quiet => Read'
    BY <1>0, <2>1, <2>2 DEF Sees, ViewInv, Read, ReadInfo, ReadShown
  <2> QED BY <1>0, <2>1, <2>2, <2>3, SeesInv
<1>3. CASE TryKey
  <2> DEFINE v == [view EXCEPT !.at = "print", !.opened = Opens(disk)]
  <2>1. Sees(v) /\ view.at = "key" /\ view.hmac \in signed \cup {Nothing}
    BY <1>0, <1>3 DEF TryKey, At, ViewInv, Made
  <2>2. Opens(disk) \in BOOLEAN
    BY <1>0 DEF Opens, Disk
  <2>3. v \in View /\ v.command = "show" /\ v.at = "print" /\ v.text = view.text /\ v.hmac = view.hmac /\ v.opened = Opens(disk)
    BY <1>0, <2>2 DEF View
  <2>4. quiet => Read'
    BY <1>0, <2>1, <2>3 DEF Sees, ViewInv, Read, ReadInfo, ReadShown
  <2> QED BY <1>0, <2>1, <2>3, <2>4, SeesInv
<1>4. CASE PrintText
  <2> DEFINE v == [view EXCEPT !.at = "shown", !.said = allowlist_hmac_state(view)]
  <2>1. Sees(v) /\ view.at = "print" /\ view.hmac \in signed \cup {Nothing}
    BY <1>0, <1>4 DEF PrintText, Says, At, ViewInv, Made
  <2>2. allowlist_hmac_state(view) \in {"yes", "no", "unverified"}
    BY DEF allowlist_hmac_state, YesNo
  <2>3. /\ v \in View /\ v.command = "show" /\ v.at = "shown" /\ v.text = view.text /\ v.hmac = view.hmac
        /\ v.said = allowlist_hmac_state(view)
    BY <1>0, <2>2 DEF View
  <2>4. v.said = "yes" => v.text \in signed /\ v.text.of = "asked"
    BY <2>1, <2>3 DEF allowlist_hmac_state, YesNo
  <2>5. ASSUME quiet PROVE Agrees'
    <3>1. view.text = disk.text /\ view.hmac = disk.hmac /\ (view.opened <=> Opens(disk))
      BY <1>0, <2>1, <2>5 DEF ViewInv, Read, ReadInfo, ReadApproval, ReadShown
    <3>2. /\ v.said = "yes" => Accepts(disk)
          /\ v.said = "no" => ~Accepts(disk)
          /\ v.said = "unverified" => ~Opens(disk)
      BY <2>3, <3>1 DEF allowlist_hmac_state, YesNo, Accepts
    <3> QED BY <2>1, <2>3, <3>2 DEF Sees, Agrees
  <2>6. quiet => Read'
    BY <2>1, <2>3, <2>5 DEF Sees, Read, ReadApproval, ReadShown
  <2> QED BY <1>0, <2>1, <2>3, <2>4, <2>6, SeesInv
<1> QED BY <1>1, <1>2, <1>3, <1>4

LEMMA OtherReportsInv ==
  ASSUME ViewInv, ReadProfile \/ ValidateText \/ TryVars \/ PrintVars
  PROVE  ViewInv'
<1>0. view \in View /\ disk \in Disk /\ view.command # "show"
  BY DEF ViewInv, ViewTypeOK, ReadProfile, ValidateText, TryVars, PrintVars, At
<1>1. CASE ReadProfile
  <2> DEFINE v == [view EXCEPT !.at = "text", !.hmac = disk.hmac]
  <2>1. Sees(v) /\ view.command = "validate"
    BY <1>1 DEF ReadProfile, At
  <2>2. v \in View /\ v.command = "validate" /\ v.at = "text"
    BY <1>0, <2>1 DEF View, Disk
  <2>3. Read'
    BY <2>1, <2>2 DEF Sees, Read, ReadApproval, ReadShown
  <2> QED BY <1>0, <2>1, <2>2, <2>3, SeesInv
<1>2. CASE ValidateText
  <2> DEFINE v == [view EXCEPT !.at = "shown", !.text = disk.text, !.said = YesNo(disk.text.fit = "sound")]
  <2>1. Sees(v) /\ view.command = "validate"
    BY <1>2 DEF ValidateText, At
  <2>2. v \in View /\ v.command = "validate" /\ v.at = "shown" /\ v.said = YesNo(disk.text.fit = "sound")
    BY <1>0, <2>1 DEF View, Disk, YesNo
  <2>3. disk.text \in Allowlist \cup {Nothing}
    BY <1>0 DEF Disk
  <2>4. Agrees'
    <3>1. v.said = "yes" /\ Accepts(disk) => Serves(disk)
      BY <2>2 DEF YesNo, Serves
    <3>2. v.said = "no" => ~Serves(disk) \/ disk.text.fit = "level"
      BY <2>2, <2>3 DEF YesNo, Serves, Accepts, Allowlist
    <3> QED BY <2>1, <2>2, <3>1, <3>2 DEF Sees, Agrees
  <2>5. Read'
    BY <2>1, <2>2, <2>4 DEF Sees, Read, ReadApproval, ReadShown
  <2> QED BY <1>0, <2>1, <2>2, <2>5, SeesInv
<1>3. CASE TryVars
  <2>1. view.command = "vars"
    BY <1>3 DEF TryVars, At
  <2>2. CASE Opens(disk)
    <3> DEFINE v == [view EXCEPT !.at = "print", !.opened = TRUE]
    <3>1. Sees(v)
      BY <1>3, <2>2 DEF TryVars
    <3>2. v \in View /\ v.command = "vars" /\ v.at = "print"
      BY <1>0, <2>1 DEF View
    <3>3. Read'
      BY <2>2, <3>1, <3>2 DEF Sees, Read, ReadApproval, ReadShown
    <3> QED BY <1>0, <2>1, <3>1, <3>2, <3>3, SeesInv
  <2>3. CASE ~Opens(disk)
    <3> DEFINE v == [view EXCEPT !.at = "shown", !.said = "refused"]
    <3>1. Sees(v)
      BY <1>3, <2>3 DEF TryVars, Says
    <3>2. v \in View /\ v.command = "vars" /\ v.at = "shown" /\ v.said = "refused"
      BY <1>0, <2>1 DEF View
    <3>3. Agrees' /\ Read'
      BY <2>3, <3>1, <3>2 DEF Sees, Read, Agrees, Resolves
    <3> QED BY <1>0, <2>1, <3>1, <3>2, <3>3, SeesInv
  <2> QED BY <2>2, <2>3
<1>4. CASE PrintVars
  <2> DEFINE v == [view EXCEPT !.at = "shown", !.said = YesNo(disk.variable = "good")]
  <2>1. Sees(v) /\ view.command = "vars" /\ view.at = "print"
    BY <1>4 DEF PrintVars, Says, At
  <2>2. v \in View /\ v.command = "vars" /\ v.at = "shown" /\ v.said = YesNo(disk.variable = "good")
    BY <1>0, <2>1 DEF View, YesNo
  <2>3. ASSUME quiet PROVE Agrees'
    <3>1. Opens(disk)
      BY <2>1, <2>3 DEF ViewInv, Read, ReadInfo, ReadApproval, ReadShown
    <3>2. view' = v /\ disk' = disk
      BY <2>1 DEF Sees
    <3>3. v.said = "yes" <=> Resolves(disk)
      BY <2>2, <3>1 DEF Resolves, YesNo
    <3> HIDE DEF v
    <3> QED BY <2>2, <3>2, <3>3 DEF Agrees
  <2>4. quiet => Read'
    BY <2>1, <2>2, <2>3 DEF Sees, Read, ReadApproval, ReadShown
  <2> QED BY <1>0, <2>1, <2>2, <2>4, SeesInv
<1> QED BY <1>1, <1>2, <1>3, <1>4

LEMMA OthersInv ==
  ASSUME ViewInv, Others
  PROVE  ViewInv'
<1>0. disk \in Disk /\ ViewTypeOK /\ Made
  BY DEF ViewInv, ViewTypeOK
<1>1. ASSUME NEW d \in Disk, Becomes(d), d.hmac = disk.hmac, signed' = signed, signing' \in Allowlist \cup {Nothing}
      PROVE  ViewInv'
  <2>1. disk' = d /\ quiet' = FALSE /\ view' = view /\ changes' = changes + 1 /\ changes < MaxChanges
    BY <1>1 DEF Becomes
  <2>2. changes' \in 0..MaxChanges
    BY <1>0, <2>1, ViewConstants DEF ViewTypeOK
  <2>3. ViewTypeOK'
    BY <1>0, <1>1, <2>1, <2>2 DEF ViewTypeOK
  <2>4. Made'
    BY <1>0, <1>1, <2>1 DEF Made
  <2> QED BY <2>1, <2>3, <2>4 DEF ViewInv
<1>2. ASSUME NEW s \in {"none", "rejected", "foreign", "usable"}, SessionTurns(s) PROVE ViewInv'
  <2>1. [disk EXCEPT !.session = s] \in Disk /\ [disk EXCEPT !.session = s].hmac = disk.hmac
    BY <1>0 DEF Disk
  <2> QED BY <1>0, <1>1, <1>2, <2>1 DEF SessionTurns, ViewTypeOK
<1>3. ASSUME NEW c \in Config, ConfigTurns(c) PROVE ViewInv'
  <2>1. [disk EXCEPT !.config = c] \in Disk /\ [disk EXCEPT !.config = c].hmac = disk.hmac
    BY <1>0 DEF Disk
  <2> QED BY <1>0, <1>1, <1>3, <2>1 DEF ConfigTurns, ViewTypeOK
<1>4. ASSUME NEW v \in {"none", "good", "unverified", "invalid"}, VariableTurns(v) PROVE ViewInv'
  <2>1. [disk EXCEPT !.variable = v] \in Disk /\ [disk EXCEPT !.variable = v].hmac = disk.hmac
    BY <1>0 DEF Disk
  <2> QED BY <1>0, <1>1, <1>4, <2>1 DEF VariableTurns, ViewTypeOK
<1>5. ASSUME NEW w \in Workspace, TokensTurn(w) PROVE ViewInv'
  <2> DEFINE d == [disk EXCEPT !.tokens = IF w \in @ THEN @ \ {w} ELSE @ \cup {w}]
  <2>1. d \in Disk /\ d.hmac = disk.hmac
    BY <1>0 DEF Disk
  <2> QED BY <1>0, <1>1, <1>5, <2>1 DEF TokensTurn, ViewTypeOK
<1>6. ASSUME NEW t \in Allowlist, EditText(t) \/ WriteText(t) PROVE ViewInv'
  <2>1. [disk EXCEPT !.text = t] \in Disk /\ [disk EXCEPT !.text = t].hmac = disk.hmac
    BY <1>0 DEF Disk
  <2> QED BY <1>0, <1>1, <1>6, <2>1 DEF EditText, WriteText, ViewTypeOK
<1>7. CASE WriteHmac
  <2>1. signing \in Allowlist /\ disk' = [disk EXCEPT !.hmac = signing] /\ signed' = signed \cup {signing}
        /\ signing' = Nothing /\ quiet' = FALSE /\ UNCHANGED <<view, changes>>
    BY <1>0, <1>7 DEF WriteHmac, ViewTypeOK
  <2>2. disk' \in Disk /\ disk'.hmac = signing
    BY <1>0, <2>1 DEF Disk
  <2>3. ViewTypeOK'
    BY <1>0, <2>1, <2>2 DEF ViewTypeOK
  <2>4. Made'
    BY <1>0, <2>1, <2>2 DEF Made
  <2> QED BY <2>1, <2>3, <2>4 DEF ViewInv
<1> QED BY <1>2, <1>3, <1>4, <1>5, <1>6, <1>7 DEF Others

LEMMA InitViewInv == ViewInit => ViewInv
<1> SUFFICES ASSUME ViewInit PROVE ViewInv
  OBVIOUS
<1>1. PICK command \in Command : view = Asked(command)
  BY DEF ViewInit
<1>2. view \in View /\ view.command = command /\ view.at = "begin" /\ view.workspace = 0
  BY <1>1 DEF Asked, View, Mode
<1>3. ViewTypeOK
  BY <1>2, ViewConstants DEF ViewInit, ViewTypeOK, Disk
<1>4. Made
  BY <1>2 DEF ViewInit, Made
<1>5. Read
  BY <1>2 DEF Read, ReadInfo, ReadApproval, ReadShown
<1> QED BY <1>3, <1>4, <1>5 DEF ViewInv

(* Whatever a report read while nothing changed, it says what a server     *)
(* does with the same files, and a text is never reported VALID that was   *)
(* not signed for the profile asked about, for any number of workspaces    *)
(* and changes (cli/session_info.rs, config_approval.rs, secret.rs).       *)
THEOREM ReportsAreTrue == ViewSpec => []ReportedAsServed
<1>1. ViewInit => ViewInv
  BY InitViewInv
<1>2. ViewInv /\ [ViewNext]_wvars => ViewInv'
  <2> SUFFICES ASSUME ViewInv, [ViewNext]_wvars PROVE ViewInv'
    OBVIOUS
  <2>1. CASE UNCHANGED wvars
    <3>1. Agrees' = Agrees
      BY <2>1 DEF wvars, Agrees
    <3> QED BY <2>1, <3>1 DEF wvars, ViewInv, ViewTypeOK, Made, Read, ReadInfo, ReadApproval, ReadShown
  <2> QED BY <2>1, InfoInv, ApprovalInv, ShowInv, OtherReportsInv, OthersInv DEF ViewNext, Reports
<1>3. ViewInv => ReportedAsServed
  <2> SUFFICES ASSUME ViewInv, view.at = "shown" PROVE ReportedAsServed
    BY DEF ReportedAsServed
  <2>1. quiet => Agrees
    <3>1. view.command \in Command
      BY DEF ViewInv, ViewTypeOK, View
    <3> QED BY <3>1 DEF ViewInv, Read, Command
  <2> QED BY <2>1 DEF ViewInv, Made, ReportedAsServed
<1> QED BY <1>1, <1>2, <1>3, PTL DEF ViewSpec
=============================================================================
