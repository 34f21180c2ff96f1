------------------------------- MODULE VarsProofs -------------------------------
(***************************************************************************)
(* Proofs about the local variables.  VarsStore and Backup, for every      *)
(* number of terminals, variables, values, commands and backups: what is   *)
(* verified was confirmed on this machine, and what a human did is lost    *)
(* only by overlap.  OutputFilter, for every document of variables and     *)
(* whatever a primitive says: no value leaves the server unmasked.         *)
(***************************************************************************)
EXTENDS Backup, OutputFilter, SequenceTheorems, FiniteSetTheorems, WellFoundedInduction, TLAPS

USE DEF VARS_BACKUP_COPIES

Label == {"idle", "ask", "mark", "save", "rotate", "copy", "place", "read-etag", "upload",
          "store-etag", "extract", "mark-restored", "reseal"}

Asking == {"ask", "mark"}

JobFields == {"op", "key", "doc", "shown", "todo", "at"}

(* A document of which nothing is verified. *)
Cleared(d) == d \in VarsDoc /\ \A k \in Key : d[k] = Unset \/ ~d[k].verified

(* What the job of a process is at each of its steps. *)
IsJob(p) ==
  /\ DOMAIN job[p] = JobFields
  /\ pc[p] \in Asking => job[p].op = "verify"
  /\ pc[p] = "mark" => job[p].todo # {}
  /\ pc[p] \in Saving => /\ job[p].op \in {"set", "unset", "verify"}
                         /\ job[p].key \in Key /\ job[p].doc \in VarsDoc
  /\ pc[p] \in Asking \cup Saving /\ job[p].op = "verify" =>
       job[p].shown \in VarsDoc /\ job[p].todo \subseteq Key /\ job[p].at \in Nat
  /\ pc[p] \in {"read-etag", "upload", "extract"} => job[p].doc \in VarsDoc \cup {NoFile}
  /\ pc[p] \in {"upload", "store-etag"} => job[p].at \in Nat
  /\ pc[p] = "reseal" => Cleared(job[p].doc)

StoreTypes ==
  /\ file \in VarsDoc \cup {NoFile}
  /\ DOMAIN copies = 1..VARS_BACKUP_COPIES
  /\ saves \in Nat /\ rotations \in 0..VARS_BACKUP_COPIES

Entry == [version : Nat, doc : VarsDoc \cup {NoFile}, own : BOOLEAN]

BackupTypes ==
  /\ remote \in Seq(Entry) /\ pushed \in Nat /\ etag \in Nat
  /\ staging \in VarsDoc \cup {NoFile, Torn, NoDir} /\ halfway \in BOOLEAN
  /\ Restored => staging = NoFile \/ Cleared(staging)

Types ==
  /\ StoreTypes /\ BackupTypes
  /\ pc \in [Proc -> Label] /\ DOMAIN job = Proc
  /\ \A p \in Proc : IsJob(p)

(* Only one process moves.                                                 *)
Moves(p, label) ==
  /\ pc' = [pc EXCEPT ![p] = label]
  /\ DOMAIN job' = Proc /\ \A q \in Proc \ {p} : job'[q] = job[q]

LEMMA Moved ==
  ASSUME Types, NEW p \in Proc, NEW label \in Label, Moves(p, label)
  PROVE  /\ pc' \in [Proc -> Label] /\ pc'[p] = label
         /\ \A q \in Proc \ {p} : pc'[q] = pc[q] /\ job'[q] = job[q]
         /\ IsJob(p)' => \A q \in Proc : IsJob(q)'
<1>1. pc' \in [Proc -> Label] /\ pc'[p] = label
  BY DEF Types, Moves
<1>2. \A q \in Proc \ {p} : pc'[q] = pc[q] /\ job'[q] = job[q]
  BY DEF Types, Moves
<1>3. \A q \in Proc \ {p} : IsJob(q)'
  BY <1>2 DEF Types, IsJob
<1> QED BY <1>1, <1>2, <1>3

(* Documents.                                                              *)
LEMMA DocFacts ==
  /\ Nothing \in VarsDoc
  /\ ForeignDoc \in VarsDoc
  /\ \A d \in VarsDoc : d # NoFile /\ d # Torn /\ d # NoDir
  /\ \A d \in VarsDoc : \A k \in Key : d[k] \in LocalVar \cup {Unset}
  /\ Unset \notin LocalVar
<1>1. Nothing \in VarsDoc
  BY DEF Nothing, VarsDoc
<1>2. ForeignDoc \in VarsDoc
  BY BackupConstants DEF ForeignDoc, VarsDoc, LocalVar
<1> QED BY <1>1, <1>2, NoDocuments, BackupConstants, VarsConstants DEF VarsDoc, LocalVar

LEMMA LoadTyped == StoreTypes => load \in VarsDoc /\ Readable
BY DocFacts, NoDocuments DEF StoreTypes, load, Readable

LEMMA ChangesTyped ==
  ASSUME StoreTypes, NEW k \in Key
  PROVE  /\ \A v \in Value, yes \in BOOLEAN : set_var(k, v, yes) \in VarsDoc
         /\ unset_var(k) \in VarsDoc
         /\ load[k] # Unset => mark_verified(k) \in VarsDoc
<1> USE LoadTyped DEF VarsDoc
<1>1. ASSUME NEW v \in Value, NEW yes \in BOOLEAN PROVE set_var(k, v, yes) \in VarsDoc
  BY DEF set_var, LocalVar
<1>2. unset_var(k) \in VarsDoc
  BY DEF unset_var
<1>3. ASSUME load[k] # Unset PROVE mark_verified(k) \in VarsDoc
  <2>1. load[k] \in LocalVar
    BY <1>3
  <2>2. [load[k] EXCEPT !.verified = TRUE] \in LocalVar
    BY <2>1 DEF LocalVar
  <2>3. mark_verified(k) = [load EXCEPT ![k] = [load[k] EXCEPT !.verified = TRUE]]
    BY DEF mark_verified
  <2> QED BY <2>2, <2>3
<1> QED BY <1>1, <1>2, <1>3

LEMMA UnverifiedTyped ==
  ASSUME NEW d \in VarsDoc
  PROVE  Cleared(Unverified(d))
<1>1. ASSUME NEW k \in Key, d[k] # Unset
      PROVE  /\ [d[k] EXCEPT !.verified = FALSE, !.origin = "restore"] \in LocalVar
             /\ [d[k] EXCEPT !.verified = FALSE, !.origin = "restore"].verified = FALSE
  <2>1. d[k] \in LocalVar
    BY <1>1 DEF VarsDoc
  <2> QED BY <2>1 DEF LocalVar
<1> QED BY <1>1 DEF Unverified, VarsDoc, Cleared

(* The key that verify asks about next is one of those left.               *)
LEMMA NextKeyLeft ==
  ASSUME NEW p \in Proc, job[p].todo \subseteq Key, job[p].todo # {}
  PROVE  NextKey(p) \in job[p].todo
<1>1. job[p].todo \subseteq Nat
  BY VarsConstants
<1>2. PICK k \in job[p].todo : \A l \in job[p].todo : ~(<<l, k>> \in OpToRel(<, Nat))
  BY <1>1, NatLessThanWellFounded, WFMin
<1>3. \A l \in job[p].todo : k <= l
  <2> SUFFICES ASSUME NEW l \in job[p].todo PROVE k <= l
    OBVIOUS
  <2>1. ~(l < k)
    BY <1>1, <1>2 DEF OpToRel
  <2> QED BY <1>1, <2>1
<1> QED BY <1>3 DEF NextKey

------------------------------------------------------------------------------
(* Types.                                                                  *)

(* A step that leaves the staging directory and the service alone.         *)
LEMMA Elsewhere ==
  ASSUME Types, NEW p \in Proc, NEW label \in Label, Moves(p, label),
         ~Pulling(p), UNCHANGED bvars
  PROVE  BackupTypes'
<1>1. \A q \in Proc : Pulling(q) => Pulling(q)'
  BY Moved DEF Pulling
<1>2. Restored' => Restored
  BY <1>1 DEF Restored, bvars
<1> QED BY <1>2 DEF Types, BackupTypes, bvars, Cleared

LEMMA CommandTypes ==
  ASSUME Types, NEW p \in Proc, VarsCommand(p), UNCHANGED bvars
  PROVE  Types'
<1>0. load \in VarsDoc /\ Readable
  BY LoadTyped DEF Types
<1>1. ASSUME NEW k \in Key, NEW v \in Value, NEW yes \in BOOLEAN, Set(p, k, v, yes)
      PROVE  Types'
  <2> DEFINE d == set_var(k, v, yes)
  <2>1. Moves(p, "save")
    BY <1>1 DEF Set, Goto, Moves, Types
  <2>2. job'[p] = [NoJob EXCEPT !.op = "set", !.key = k, !.doc = d]
    BY <1>1 DEF Set, Types
  <2>3. /\ DOMAIN job'[p] = JobFields /\ job'[p].op = "set" /\ job'[p].key = k /\ job'[p].doc = d
    BY <2>2 DEF NoJob, JobFields
  <2>4. d \in VarsDoc
    BY ChangesTyped DEF Types
  <2>5. IsJob(p)'
    BY <2>1, <2>3, <2>4, Moved DEF IsJob, Asking, Saving, Label
  <2>6. StoreTypes'
    BY <1>1 DEF Set, Types, StoreTypes
  <2>7. BackupTypes'
    BY <1>1, <2>1, Elsewhere DEF Set, Begin, Pulling, Label
  <2> QED BY <2>1, <2>5, <2>6, <2>7, Moved DEF Types, Label, Moves
<1>2. ASSUME NEW k \in Key, UnsetVar(p, k)
      PROVE  Types'
  <2> DEFINE d == unset_var(k)
  <2>1. Moves(p, "save")
    BY <1>2 DEF UnsetVar, Goto, Moves, Types
  <2>2. job'[p] = [NoJob EXCEPT !.op = "unset", !.key = k, !.doc = d]
    BY <1>2 DEF UnsetVar, Types
  <2>3. /\ DOMAIN job'[p] = JobFields /\ job'[p].op = "unset" /\ job'[p].key = k /\ job'[p].doc = d
    BY <2>2 DEF NoJob, JobFields
  <2>4. d \in VarsDoc
    BY ChangesTyped DEF Types
  <2>5. IsJob(p)'
    BY <2>1, <2>3, <2>4, Moved DEF IsJob, Asking, Saving, Label
  <2>6. StoreTypes'
    BY <1>2 DEF UnsetVar, Types, StoreTypes
  <2>7. BackupTypes'
    BY <1>2, <2>1, Elsewhere DEF UnsetVar, Begin, Pulling, Label
  <2> QED BY <2>1, <2>5, <2>6, <2>7, Moved DEF Types, Label, Moves
<1>3. ASSUME NEW keys \in SUBSET Key, Verify(p, keys)
      PROVE  Types'
  <2>1. Moves(p, "ask")
    BY <1>3 DEF Verify, Goto, Moves, Types
  <2>2. job'[p] = [NoJob EXCEPT !.op = "verify", !.shown = load, !.todo = keys, !.at = saves]
    BY <1>3 DEF Verify, Types
  <2>3. /\ DOMAIN job'[p] = JobFields /\ job'[p].op = "verify" /\ job'[p].shown = load
        /\ job'[p].todo = keys /\ job'[p].at = saves
    BY <2>2 DEF NoJob, JobFields
  <2>5. IsJob(p)'
    BY <1>0, <2>1, <2>3, Moved DEF IsJob, Asking, Saving, Label, Types, StoreTypes
  <2>6. StoreTypes'
    BY <1>3 DEF Verify, Types, StoreTypes, vghosts
  <2>7. BackupTypes'
    BY <1>3, <2>1, Elsewhere DEF Verify, Begin, Pulling, Label
  <2> QED BY <2>1, <2>5, <2>6, <2>7, Moved DEF Types, Label, Moves
<1> QED BY <1>1, <1>2, <1>3 DEF VarsCommand

(* A job is over.                                                          *)
LEMMA FinishTypes ==
  ASSUME Types, NEW p \in Proc, Finish(p)
  PROVE  /\ Moves(p, "idle") /\ IsJob(p)'
         /\ pc' \in [Proc -> Label] /\ DOMAIN job' = Proc /\ \A q \in Proc : IsJob(q)'
<1>1. Moves(p, "idle")
  BY DEF Finish, Goto, Moves, Types
<1>2. pc'[p] = "idle" /\ job'[p] = NoJob
  BY DEF Finish, Goto, Types
<1>3. IsJob(p)'
  BY <1>2 DEF IsJob, NoJob, JobFields, Asking, Saving
<1> QED BY <1>1, <1>3, Moved DEF Label, Moves

LEMMA VerifyTypes ==
  ASSUME Types, NEW p \in Proc, UNCHANGED bvars,
         Skip(p) \/ Confirm(p) \/ MarkVerified(p) \/ MarkRefused(p) \/ VerifyDone(p)
  PROVE  Types'
<1>0. load \in VarsDoc /\ IsJob(p)
  BY LoadTyped DEF Types
<1>1. CASE Skip(p)
  <2>1. /\ Moves(p, "ask") /\ pc[p] = "ask"
    BY <1>1 DEF Skip, NextQuestion, Moves, Types
  <2>2. job'[p] = [job[p] EXCEPT !.todo = @ \ {NextKey(p)}]
    BY <1>1 DEF Skip, Types
  <2>3. IsJob(p)'
    BY <1>0, <2>1, <2>2, Moved DEF IsJob, JobFields, Asking, Saving, Label
  <2>4. StoreTypes'
    BY <1>1 DEF Skip, Types, StoreTypes, vghosts
  <2>5. BackupTypes'
    BY <2>1, Elsewhere DEF Pulling, Label
  <2> QED BY <2>1, <2>3, <2>4, <2>5, Moved DEF Types, Label, Moves
<1>2. CASE Confirm(p)
  <2>1. Moves(p, "mark") /\ pc[p] = "ask" /\ job[p].todo # {} /\ job' = job
    BY <1>2 DEF Confirm, NextQuestion, Goto, Moves, Types
  <2>3. IsJob(p)'
    BY <1>0, <2>1, Moved DEF IsJob, Asking, Saving, Label
  <2>4. StoreTypes'
    BY <1>2 DEF Confirm, Types, StoreTypes
  <2>5. BackupTypes'
    BY <2>1, Elsewhere DEF Pulling, Label
  <2> QED BY <2>1, <2>3, <2>4, <2>5, Moved DEF Types, Label, Moves
<1>3. CASE MarkVerified(p)
  <2> DEFINE k == NextKey(p)
  <2>1. Moves(p, "save") /\ pc[p] = "mark"
    BY <1>3 DEF MarkVerified, Goto, Moves, Types
  <2>2. job'[p] = [job[p] EXCEPT !.key = k, !.doc = mark_verified(k)]
    BY <1>3 DEF MarkVerified, Types
  <2>3. k \in Key /\ load[k] # Unset
    <3>1. job[p].todo \subseteq Key /\ job[p].todo # {}
      BY <1>0, <2>1 DEF IsJob, Asking
    <3> QED BY <1>3, <3>1, NextKeyLeft DEF MarkVerified
  <2>4. mark_verified(k) \in VarsDoc
    BY <2>3, ChangesTyped DEF Types
  <2>5. IsJob(p)'
    BY <1>0, <2>1, <2>2, <2>3, <2>4, Moved DEF IsJob, JobFields, Asking, Saving, Label
  <2>6. StoreTypes'
    BY <1>3 DEF MarkVerified, Types, StoreTypes
  <2>7. BackupTypes'
    BY <2>1, Elsewhere DEF Pulling, Label
  <2> QED BY <2>1, <2>5, <2>6, <2>7, Moved DEF Types, Label, Moves
<1>4. CASE MarkRefused(p) \/ VerifyDone(p)
  <2>1. Finish(p) /\ pc[p] \in Asking /\ UNCHANGED <<file, copies, saves, vghosts>>
    BY <1>4 DEF MarkRefused, VerifyDone, Asking
  <2>2. StoreTypes'
    BY <2>1 DEF Types, StoreTypes, vghosts
  <2>3. BackupTypes'
    BY <2>1, FinishTypes, Elsewhere DEF Pulling, Label, Asking
  <2> QED BY <2>1, <2>2, <2>3, FinishTypes DEF Types
<1> QED BY <1>1, <1>2, <1>3, <1>4

LEMMA SaveTypes ==
  ASSUME Types, NEW p \in Proc, UNCHANGED bvars,
         SaveFirst(p) \/ RotateSecond(p) \/ RotateFirst(p) \/ CopyFirst(p) \/ Place(p) \/ VarsFail(p)
  PROVE  Types'
<1>0. IsJob(p)
  BY DEF Types
<1>1. ASSUME NEW label \in Saving, Goto(p, label), job' = job, pc[p] \in Saving
      PROVE  Moves(p, label) /\ IsJob(p)' /\ BackupTypes'
  <2>1. Moves(p, label) /\ label \in Label
    BY <1>1 DEF Goto, Moves, Types, Saving, Label
  <2>2. IsJob(p)'
    BY <1>0, <1>1, <2>1, Moved DEF IsJob, Asking, Saving
  <2>3. BackupTypes'
    BY <1>1, <2>1, Elsewhere DEF Pulling, Saving
  <2> QED BY <2>1, <2>2, <2>3
<1>2. ASSUME NEW label \in Saving, Goto(p, label), job' = job, pc[p] \in Saving, StoreTypes'
      PROVE  Types'
  BY <1>1, <1>2, Moved DEF Types, Moves, Saving, Label
<1>3. CASE SaveFirst(p)
  BY <1>2, <1>3 DEF SaveFirst, Types, StoreTypes, Saving, vghosts
<1>4. CASE RotateSecond(p)
  <2>1. StoreTypes'
    BY <1>4 DEF RotateSecond, Shift, Types, StoreTypes
  <2> QED BY <1>2, <1>4, <2>1 DEF RotateSecond, Saving
<1>5. CASE RotateFirst(p)
  <2>1. StoreTypes'
    BY <1>5 DEF RotateFirst, Shift, Types, StoreTypes, vghosts
  <2> QED BY <1>2, <1>5, <2>1 DEF RotateFirst, Saving
<1>6. CASE CopyFirst(p)
  <2>1. StoreTypes'
    BY <1>6 DEF CopyFirst, Types, StoreTypes, vghosts
  <2> QED BY <1>2, <1>6, <2>1 DEF CopyFirst, Saving
<1>7. CASE Place(p)
  <2>1. StoreTypes'
    BY <1>0, <1>7 DEF Place, Types, StoreTypes, IsJob, Saving
  <2>2. CASE job[p].op = "verify"
    <3>1. Moves(p, "ask") /\ pc[p] = "place"
      BY <1>7, <2>2 DEF Place, Goto, Moves, Types
    <3>2. job'[p] = [job[p] EXCEPT !.todo = @ \ {job[p].key}, !.doc = NoFile, !.key = 0,
                                   !.at = IF @ = saves THEN saves + 1 ELSE @]
      BY <1>7, <2>2 DEF Place, Types
    <3>3. IsJob(p)'
      BY <1>0, <2>2, <3>1, <3>2, Moved DEF IsJob, JobFields, Asking, Saving, Label, Types, StoreTypes
    <3>4. BackupTypes'
      BY <3>1, Elsewhere DEF Pulling, Label
    <3> QED BY <2>1, <3>1, <3>3, <3>4, Moved DEF Types, Label, Moves
  <2>3. CASE job[p].op # "verify"
    <3>1. Finish(p) /\ pc[p] = "place"
      BY <1>7, <2>3 DEF Place
    <3>2. BackupTypes'
      BY <3>1, FinishTypes, Elsewhere DEF Pulling, Label
    <3> QED BY <2>1, <3>1, <3>2, FinishTypes DEF Types
  <2> QED BY <2>2, <2>3
<1>8. CASE VarsFail(p)
  <2>1. Finish(p) /\ pc[p] \in Asking \cup Saving
    BY <1>8 DEF VarsFail, Asking
  <2>2. StoreTypes'
    BY <1>8 DEF VarsFail, Types, StoreTypes, vghosts
  <2>3. BackupTypes'
    BY <2>1, FinishTypes, Elsewhere DEF Pulling, Label, Asking, Saving
  <2> QED BY <2>1, <2>2, <2>3, FinishTypes DEF Types
<1> QED BY <1>3, <1>4, <1>5, <1>6, <1>7, <1>8

(* The list of backups.                                                    *)
LEMMA Listed ==
  ASSUME Types, NEW i \in DOMAIN remote
  PROVE  /\ i \in 1..Len(remote) /\ remote[i] \in Entry
         /\ remote # <<>> /\ Last(remote) = remote[Len(remote)] /\ Len(remote) \in DOMAIN remote
BY DEF Types, BackupTypes, Last

LEMMA Pushed ==
  ASSUME Types, NEW e \in Entry
  PROVE  /\ Append(remote, e) \in Seq(Entry)
         /\ \A j \in DOMAIN Append(remote, e) :
              Append(remote, e)[j] = e \/ \E k \in DOMAIN remote : Append(remote, e)[j] = remote[k]
BY DEF Types, BackupTypes

LEMMA Joined ==
  ASSUME NEW S, NEW a \in Seq(S), NEW b \in Seq(S), NEW j \in 1..Len(a \o b)
  PROVE  \/ j \in 1..Len(a) /\ (a \o b)[j] = a[j]
         \/ j - Len(a) \in 1..Len(b) /\ (a \o b)[j] = b[j - Len(a)]
<1>1. Len(a) \in Nat /\ Len(b) \in Nat /\ Len(a \o b) = Len(a) + Len(b)
  OBVIOUS
<1>2. CASE j <= Len(a)
  BY <1>1, <1>2, ConcatProperties
<1>3. CASE j > Len(a)
  BY <1>1, <1>3, ConcatProperties
<1> QED BY <1>1, <1>2, <1>3

LEMMA Pruned ==
  ASSUME Types, NEW i \in DOMAIN remote
  PROVE  /\ RemoveAt(remote, i) \in Seq(Entry)
         /\ \A j \in DOMAIN RemoveAt(remote, i) :
              \E k \in DOMAIN remote : RemoveAt(remote, i)[j] = remote[k]
<1>1. remote \in Seq(Entry) /\ i \in 1..Len(remote) /\ DOMAIN remote = 1..Len(remote)
  BY Listed DEF Types, BackupTypes
<1>2. PICK a \in Seq(Entry) : /\ a = SubSeq(remote, 1, i - 1)
                              /\ \A j \in 1..Len(a) : \E k \in 1..Len(remote) : a[j] = remote[k]
  <2>1. \A j \in 1..(i - 1) : SubSeq(remote, 1, i - 1)[j] = remote[j] /\ j \in 1..Len(remote)
    BY <1>1
  <2>2. SubSeq(remote, 1, i - 1) \in Seq(Entry) /\ Len(SubSeq(remote, 1, i - 1)) = i - 1
    BY <1>1
  <2> QED BY <2>1, <2>2
<1>3. PICK b \in Seq(Entry) : /\ b = SubSeq(remote, i + 1, Len(remote))
                              /\ \A j \in 1..Len(b) : \E k \in 1..Len(remote) : b[j] = remote[k]
  <2> DEFINE c == SubSeq(remote, i + 1, Len(remote))
  <2>1. \A j \in 1..(Len(remote) - i) : c[j] = remote[i + j] /\ i + j \in 1..Len(remote)
    BY <1>1
  <2>2. c \in Seq(Entry) /\ Len(c) = Len(remote) - i
    BY <1>1
  <2> QED BY <2>1, <2>2
<1>4. RemoveAt(remote, i) = a \o b
  BY <1>2, <1>3 DEF RemoveAt
<1>5. a \o b \in Seq(Entry) /\ DOMAIN (a \o b) = 1..Len(a \o b)
  OBVIOUS
<1>6. ASSUME NEW j \in 1..Len(a \o b)
      PROVE  \E k \in 1..Len(remote) : (a \o b)[j] = remote[k]
  <2>1. \/ j \in 1..Len(a) /\ (a \o b)[j] = a[j]
        \/ j - Len(a) \in 1..Len(b) /\ (a \o b)[j] = b[j - Len(a)]
    BY Joined
  <2>2. CASE j \in 1..Len(a) /\ (a \o b)[j] = a[j]
    BY <1>2, <2>2
  <2>3. CASE j - Len(a) \in 1..Len(b) /\ (a \o b)[j] = b[j - Len(a)]
    BY <1>3, <2>3
  <2> QED BY <2>1, <2>2, <2>3
<1> QED BY <1>1, <1>4, <1>5, <1>6

LEMMA PushTypes ==
  ASSUME Types, NEW p \in Proc,
         \/ \E op \in {"push", "push-force"} : Push(p, op)
         \/ ReadEtag(p) \/ Upload(p) \/ UploadRefused(p) \/ StoreEtag(p)
  PROVE  Types'
<1>0. IsJob(p)
  BY DEF Types
<1>1. ASSUME NEW op, Push(p, op) PROVE Types'
  <2>1. Moves(p, "read-etag") /\ pc[p] = "idle"
    BY <1>1 DEF Push, Start, Begin, Goto, Moves, Types
  <2>2. job'[p] = [NoJob EXCEPT !.op = op, !.doc = file]
    BY <1>1 DEF Push, Start, build_bundle, Types
  <2>3. IsJob(p)'
    BY <2>1, <2>2, Moved DEF IsJob, NoJob, JobFields, Asking, Saving, Label, Types, StoreTypes
  <2>4. StoreTypes'
    BY <1>1 DEF Push, Types, StoreTypes, vghosts
  <2>5. BackupTypes'
    BY <1>1, <2>1, Elsewhere DEF Push, Pulling, Label
  <2> QED BY <2>1, <2>3, <2>4, <2>5, Moved DEF Types, Label, Moves
<1>2. CASE ReadEtag(p)
  <2> DEFINE n == IF job[p].op = "push-force" THEN 0 ELSE etag
  <2>1. Moves(p, "upload") /\ pc[p] = "read-etag"
    BY <1>2 DEF ReadEtag, Goto, Moves, Types
  <2>2. job'[p] = [job[p] EXCEPT !.at = n]
    BY <1>2 DEF ReadEtag, Types
  <2>3. IsJob(p)'
    BY <1>0, <2>1, <2>2, Moved DEF IsJob, JobFields, Asking, Saving, Label, Types, BackupTypes
  <2>4. StoreTypes'
    BY <1>2 DEF ReadEtag, Types, StoreTypes, vghosts
  <2>5. BackupTypes'
    BY <1>2, <2>1, Elsewhere DEF ReadEtag, Pulling, Label
  <2> QED BY <2>1, <2>3, <2>4, <2>5, Moved DEF Types, Label, Moves
<1>3. CASE Upload(p)
  <2>1. Moves(p, "store-etag") /\ pc[p] = "upload"
    BY <1>3 DEF Upload, Goto, Moves, Types
  <2>2. job'[p] = [job[p] EXCEPT !.at = pushed + 1]
    BY <1>3 DEF Upload, Types
  <2>3. IsJob(p)'
    BY <1>0, <2>1, <2>2, Moved DEF IsJob, JobFields, Asking, Saving, Label, Types, BackupTypes
  <2>4. StoreTypes'
    BY <1>3 DEF Upload, Types, StoreTypes, vghosts
  <2>5. remote' \in Seq(Entry) /\ pushed' \in Nat
    <3>1. [version |-> pushed + 1, doc |-> job[p].doc, own |-> TRUE] \in Entry
      BY <1>0, <2>1 DEF IsJob, Entry, Types, BackupTypes
    <3> QED BY <1>3, <3>1, Pushed DEF Upload, Types, BackupTypes
  <2>6. Restored' => Restored
    <3>1. \A q \in Proc : Pulling(q) => Pulling(q)'
      BY <2>1, Moved DEF Pulling, Label
    <3> QED BY <1>3, <3>1 DEF Upload, Restored
  <2>7. BackupTypes'
    BY <1>3, <2>5, <2>6 DEF Upload, Types, BackupTypes, Cleared
  <2> QED BY <2>1, <2>3, <2>4, <2>7, Moved DEF Types, Label, Moves
<1>4. CASE UploadRefused(p)
  <2>1. StoreTypes'
    BY <1>4 DEF UploadRefused, Types, StoreTypes, vghosts
  <2>2. BackupTypes'
    BY <1>4, FinishTypes, Elsewhere DEF UploadRefused, Pulling, Label
  <2> QED BY <1>4, <2>1, <2>2, FinishTypes DEF UploadRefused, Types
<1>5. CASE StoreEtag(p)
  <2>1. StoreTypes'
    BY <1>5 DEF StoreEtag, Types, StoreTypes, vghosts
  <2>2. Restored' => Restored
    <3>1. \A q \in Proc : Pulling(q) => Pulling(q)'
      BY <1>5, FinishTypes, Moved DEF StoreEtag, Pulling, Label
    <3> QED BY <1>5, <3>1 DEF StoreEtag, Restored
  <2>3. BackupTypes'
    BY <1>0, <1>5, <2>2 DEF StoreEtag, Types, BackupTypes, Cleared, IsJob
  <2> QED BY <1>5, <2>1, <2>3, FinishTypes DEF StoreEtag, Types
<1> QED BY <1>1, <1>2, <1>3, <1>4, <1>5

(* A pull: as long as one is at work nothing counts as restored.           *)
LEMMA PullTypes ==
  ASSUME Types, NEW p \in Proc,
         \/ \E i \in DOMAIN remote, yes \in BOOLEAN : Pull(p, i, yes)
         \/ Extract(p) \/ LoadRestored(p) \/ NothingRestored(p) \/ Reseal(p)
  PROVE  Types'
<1>0. IsJob(p)
  BY DEF Types
<1>1. ASSUME NEW i \in DOMAIN remote, NEW yes, Pull(p, i, yes) PROVE Types'
  <2>1. Moves(p, "extract") /\ pc[p] = "idle"
    BY <1>1 DEF Pull, Downloaded, Start, Begin, Goto, Moves, Types
  <2>2. job'[p] = [NoJob EXCEPT !.op = "pull", !.doc = remote[i].doc]
    BY <1>1 DEF Pull, Downloaded, Start, Types
  <2>3. IsJob(p)'
    BY <2>1, <2>2, Moved, Listed DEF IsJob, NoJob, JobFields, Asking, Saving, Label, Entry
  <2>4. StoreTypes'
    BY <1>1 DEF Pull, Downloaded, Types, StoreTypes, vghosts
  <2>5. BackupTypes'
    BY <1>1, <2>1, Elsewhere DEF Pull, Downloaded, Pulling, Label
  <2> QED BY <2>1, <2>3, <2>4, <2>5, Moved DEF Types, Label, Moves
<1>2. CASE Extract(p)
  <2>1. Moves(p, "mark-restored") /\ pc[p] = "extract" /\ job' = job
    BY <1>2 DEF Extract, Goto, Moves, Types
  <2>2. IsJob(p)'
    BY <1>0, <2>1, Moved DEF IsJob, Asking, Saving, Label
  <2>3. StoreTypes'
    BY <1>2 DEF Extract, Types, StoreTypes, vghosts
  <2>4. ~Restored'
    BY <2>1, Moved DEF Restored, Pulling, Label
  <2>5. staging' \in VarsDoc \cup {NoFile, Torn, NoDir}
    BY <1>0, <1>2 DEF Extract, IsJob, Types, BackupTypes
  <2>6. BackupTypes'
    BY <1>2, <2>4, <2>5 DEF Extract, Types, BackupTypes
  <2> QED BY <2>1, <2>2, <2>3, <2>6, Moved DEF Types, Label, Moves
<1>3. CASE LoadRestored(p)
  <2>1. Moves(p, "reseal") /\ pc[p] = "mark-restored"
    BY <1>3 DEF LoadRestored, Goto, Moves, Types
  <2>2. job'[p] = [job[p] EXCEPT !.doc = Unverified(staging)]
    BY <1>3 DEF LoadRestored, Types
  <2>3. Cleared(Unverified(staging))
    BY <1>3, UnverifiedTyped DEF LoadRestored, Types, BackupTypes
  <2>4. IsJob(p)'
    <3>1. DOMAIN job'[p] = JobFields /\ job'[p].doc = Unverified(staging)
      BY <1>0, <2>2 DEF IsJob, JobFields
    <3>2. Cleared(job[p].doc)'
      BY <2>3, <3>1 DEF Cleared
    <3>3. pc'[p] = "reseal"
      BY <2>1, Moved DEF Label
    <3> QED BY <3>1, <3>2, <3>3 DEF IsJob, Asking, Saving
  <2>5. StoreTypes'
    BY <1>3 DEF LoadRestored, Types, StoreTypes, vghosts
  <2>6. ~Restored'
    BY <2>1, Moved DEF Restored, Pulling, Label
  <2>7. BackupTypes'
    BY <1>3, <2>6 DEF LoadRestored, Types, BackupTypes, bvars
  <2> QED BY <2>1, <2>4, <2>5, <2>7, Moved DEF Types, Label, Moves
<1>4. CASE NothingRestored(p)
  <2>1. StoreTypes'
    BY <1>4 DEF NothingRestored, Types, StoreTypes, vghosts
  <2>2. BackupTypes'
    BY <1>4 DEF NothingRestored, Types, BackupTypes, Restored
  <2> QED BY <1>4, <2>1, <2>2, FinishTypes DEF NothingRestored, Types
<1>5. CASE Reseal(p)
  <2>1. StoreTypes'
    BY <1>5 DEF Reseal, Types, StoreTypes, vghosts
  <2>2. Cleared(staging)'
    BY <1>0, <1>5 DEF Reseal, IsJob, Cleared
  <2>3. BackupTypes'
    BY <1>5, <2>2 DEF Reseal, Types, BackupTypes, Cleared
  <2> QED BY <1>5, <2>1, <2>3, FinishTypes DEF Reseal, Types
<1> QED BY <1>1, <1>2, <1>3, <1>4, <1>5

LEMMA FailTypes ==
  ASSUME Types, NEW p \in Proc, BackupFail(p)
  PROVE  Types'
<1>1. StoreTypes' /\ Finish(p)
  BY DEF BackupFail, Types, StoreTypes, vghosts
<1>2. BackupTypes'
  <2>1. staging' \in VarsDoc \cup {NoFile, Torn, NoDir}
    BY DEF BackupFail, Types, BackupTypes
  <2>2. CASE Pulling(p)
    <3>1. ~Restored'
      BY <2>2 DEF BackupFail, Pulling, Restored
    <3> QED BY <2>1, <3>1 DEF BackupFail, Types, BackupTypes
  <2>3. CASE ~Pulling(p)
    <3>1. staging' = staging /\ halfway' = halfway
      BY <2>3 DEF BackupFail, Pulling, Types, BackupTypes
    <3>2. UNCHANGED bvars
      BY <3>1 DEF BackupFail, bvars
    <3> QED BY <1>1, <2>3, <3>2, FinishTypes, Elsewhere DEF Label
  <2> QED BY <2>2, <2>3
<1> QED BY <1>1, <1>2, FinishTypes DEF Types

(* The user and the service.                                               *)
LEMMA OutsideTypes ==
  ASSUME Types, Install \/ ForeignPush \/ \E i \in DOMAIN remote : Prune(i)
  PROVE  Types'
<1>1. CASE Install
  <2>1. ~Restored'
    BY <1>1 DEF Install, Restored
  <2>2. BackupTypes'
    BY <1>1, <2>1 DEF Install, Types, BackupTypes
  <2>3. file' \in VarsDoc \cup {NoFile}
    BY <1>1 DEF Install, Types, StoreTypes, BackupTypes, Cleared
  <2>4. StoreTypes'
    BY <1>1, <2>3 DEF Install, Types, StoreTypes
  <2>5. UNCHANGED <<pc, job>>
    BY <1>1 DEF Install
  <2> QED BY <2>2, <2>4, <2>5 DEF Types, IsJob, Cleared
<1>2. CASE ForeignPush
  <2>1. [version |-> pushed + 1, doc |-> ForeignDoc, own |-> FALSE] \in Entry
    BY DocFacts DEF Entry, Types, BackupTypes
  <2>2. BackupTypes'
    BY <1>2, <2>1, Pushed DEF ForeignPush, Types, BackupTypes, Restored, Pulling, Cleared, vvars
  <2> QED BY <1>2, <2>2 DEF ForeignPush, Types, StoreTypes, IsJob, Cleared, vvars, vghosts
<1>3. ASSUME NEW i \in DOMAIN remote, Prune(i) PROVE Types'
  <2>1. BackupTypes'
    BY <1>3, Pruned DEF Prune, Types, BackupTypes, Restored, Pulling, Cleared
  <2> QED BY <1>3, <2>1 DEF Prune, Types, StoreTypes, IsJob, Cleared, vghosts
<1> QED BY <1>1, <1>2, <1>3

LEMMA InitTypes == BackupInit => Types
<1> SUFFICES ASSUME BackupInit PROVE Types
  OBVIOUS
<1>1. StoreTypes
  BY OldDocuments DEF BackupInit, VarsInit, StoreTypes
<1>2. BackupTypes
  <2>1. remote \in Seq(Entry) /\ ~Restored
    BY DEF BackupInit, Restored
  <2> QED BY <2>1 DEF BackupInit, BackupTypes
<1>3. \A p \in Proc : IsJob(p)
  BY DEF BackupInit, VarsInit, IsJob, NoJob, JobFields, Asking, Saving
<1>4. pc \in [Proc -> Label] /\ DOMAIN job = Proc
  BY DEF BackupInit, VarsInit, Label
<1> QED BY <1>1, <1>2, <1>3, <1>4 DEF Types

LEMMA NextTypes == Types /\ [Next]_vars => Types'
<1> SUFFICES ASSUME Types, [Next]_vars PROVE Types'
  OBVIOUS
<1>1. ASSUME NEW p \in Proc, VarsCommand(p) \/ VarsStep(p) \/ VarsFail(p), UNCHANGED bvars
      PROVE  Types'
  BY <1>1, CommandTypes, VerifyTypes, SaveTypes DEF VarsStep
<1>2. ASSUME NEW p \in Proc, BackupCommand(p) \/ BackupStep(p) \/ BackupFail(p)
      PROVE  Types'
  BY <1>2, PushTypes, PullTypes, FailTypes DEF BackupCommand, BackupStep
<1>3. CASE UNCHANGED vars
  BY <1>3 DEF vars, vvars, vghosts, bvars, Types, StoreTypes, BackupTypes, Restored, Pulling, IsJob, Cleared
<1> QED BY <1>1, <1>2, <1>3, OutsideTypes DEF Next

(* What push, pull and their failures leave alone.                         *)
LEMMA BackupMoves ==
  ASSUME Types, NEW p \in Proc, BackupCommand(p) \/ BackupStep(p) \/ BackupFail(p)
  PROVE  /\ UNCHANGED <<file, copies, saves, vghosts>> /\ pc[p] \notin Asking \cup Saving
         /\ \E label \in Label \ (Asking \cup Saving) : Moves(p, label)
<1>1. UNCHANGED <<file, copies, saves, vghosts>> /\ pc[p] \notin Asking \cup Saving
  BY DEF BackupCommand, BackupStep, BackupFail, Push, Pull, Downloaded, Start, Begin, ReadEtag, Upload, UploadRefused,
         StoreEtag, Extract, LoadRestored, NothingRestored, Reseal, Asking, Saving
<1>2. ASSUME NEW label \in Label \ (Asking \cup Saving), Moves(p, label)
      PROVE  \E l \in Label \ (Asking \cup Saving) : Moves(p, l)
  BY <1>2
<1>5. CASE \E op \in {"push", "push-force"} : Push(p, op)
  <2>1. Moves(p, "read-etag")
    BY <1>5 DEF Push, Start, Goto, Moves, Types
  <2> QED BY <1>1, <1>2, <2>1 DEF Label, Asking, Saving
<1>6. CASE \E i \in DOMAIN remote, yes \in BOOLEAN : Pull(p, i, yes)
  <2>1. Moves(p, "extract")
    BY <1>6 DEF Pull, Downloaded, Start, Goto, Moves, Types
  <2> QED BY <1>1, <1>2, <2>1 DEF Label, Asking, Saving
<1>7. CASE ReadEtag(p) \/ Upload(p)
  <2>1. Moves(p, "upload") \/ Moves(p, "store-etag")
    BY <1>7 DEF ReadEtag, Upload, Goto, Moves, Types
  <2> QED BY <1>1, <1>2, <2>1 DEF Label, Asking, Saving
<1>8. CASE Extract(p) \/ LoadRestored(p)
  <2>1. Moves(p, "mark-restored") \/ Moves(p, "reseal")
    BY <1>8 DEF Extract, LoadRestored, Goto, Moves, Types
  <2> QED BY <1>1, <1>2, <2>1 DEF Label, Asking, Saving
<1>9. CASE UploadRefused(p) \/ StoreEtag(p) \/ NothingRestored(p) \/ Reseal(p) \/ BackupFail(p)
  <2>1. Finish(p)
    BY <1>9 DEF UploadRefused, StoreEtag, NothingRestored, Reseal, BackupFail
  <2> QED BY <1>1, <2>1, FinishTypes DEF Label, Asking, Saving
<1> QED BY <1>1, <1>5, <1>6, <1>7, <1>8, <1>9 DEF BackupCommand, BackupStep

------------------------------------------------------------------------------
(* What is verified was confirmed.                                         *)

KnownIn(d, c, l) == \A k \in Key : d[k] # Unset /\ d[k].verified => <<k, d[k].value>> \in c \/ k \in l

LEMMA KnownGrows ==
  ASSUME NEW d, NEW c, NEW l, NEW c2, NEW l2, KnownIn(d, c, l), c \subseteq c2, l \subseteq l2
  PROVE  KnownIn(d, c2, l2)
BY DEF KnownIn

(* Until somebody saves, what verify has yet to ask about is as it was     *)
(* shown, also in the document it is about to place.                       *)
AsShown(p) ==
  /\ pc[p] \in Asking => job[p].at <= saves
       /\ (job[p].at = saves => \A k \in job[p].todo : load[k] = job[p].shown[k])
  /\ pc[p] \in Saving /\ job[p].op = "verify" => job[p].at <= saves
       /\ (job[p].at = saves => \A k \in job[p].todo \ {job[p].key} : job[p].doc[k] = job[p].shown[k])
  /\ pc[p] = "mark" => <<NextKey(p), job[p].shown[NextKey(p)].value>> \in confirmed

JobKnown(p) == pc[p] \in Saving => KnownIn(job[p].doc, confirmed, late)

FileKnown == KnownIn(load, confirmed, late)

ConfInv == FileKnown /\ \A p \in Proc : AsShown(p) /\ JobKnown(p)

(* The other processes: nothing was saved, or what they have seen is old.  *)
LEMMA OthersConf ==
  ASSUME Types, ConfInv, NEW p \in Proc, NEW label \in Label, Moves(p, label),
         confirmed \subseteq confirmed', late \subseteq late',
         UNCHANGED <<file, saves>> \/ saves' = saves + 1
  PROVE  \A q \in Proc \ {p} : AsShown(q)' /\ JobKnown(q)'
<1> SUFFICES ASSUME NEW q \in Proc, q # p PROVE AsShown(q)' /\ JobKnown(q)'
  OBVIOUS
<1>1. pc'[q] = pc[q] /\ job'[q] = job[q]
  BY Moved
<1>2. JobKnown(q)'
  BY <1>1, KnownGrows DEF ConfInv, JobKnown
<1>3. NextKey(q)' = NextKey(q)
  BY <1>1 DEF NextKey
<1>4. IsJob(q) /\ AsShown(q) /\ saves \in Nat
  BY DEF Types, StoreTypes, ConfInv
<1>5. CASE UNCHANGED <<file, saves>>
  BY <1>1, <1>2, <1>3, <1>4, <1>5 DEF AsShown, load
<1>6. CASE saves' = saves + 1
  <2>1. ASSUME job[q].at \in Nat, job[q].at <= saves PROVE job[q].at <= saves' /\ job[q].at # saves'
    BY <1>4, <1>6, <2>1
  <2>2. pc[q] \in Asking => job[q].at \in Nat /\ job[q].at <= saves
    BY <1>4 DEF AsShown, IsJob
  <2>3. pc[q] \in Saving /\ job[q].op = "verify" => job[q].at \in Nat /\ job[q].at <= saves
    BY <1>4 DEF AsShown, IsJob
  <2>4. pc[q] = "mark" => <<NextKey(q), job[q].shown[NextKey(q)].value>> \in confirmed'
    BY <1>4 DEF AsShown
  <2>5. AsShown(q)'
    BY <1>1, <1>3, <2>1, <2>2, <2>3, <2>4 DEF AsShown
  <2> QED BY <1>2, <2>5
<1> QED BY <1>2, <1>5, <1>6

LEMMA QuietConf ==
  ASSUME Types, ConfInv, NEW p \in Proc, NEW label \in Label \ (Asking \cup Saving), Moves(p, label),
         UNCHANGED <<file, saves, confirmed, late>>
  PROVE  ConfInv'
<1>1. AsShown(p)' /\ JobKnown(p)'
  BY Moved DEF AsShown, JobKnown, Asking
<1>2. FileKnown'
  BY DEF ConfInv, FileKnown, load
<1> QED BY <1>1, <1>2, OthersConf DEF ConfInv

LEMMA CommandConf ==
  ASSUME Types, ConfInv, NEW p \in Proc, VarsCommand(p)
  PROVE  ConfInv'
<1>0. load \in VarsDoc /\ Readable /\ DOMAIN load = Key /\ FileKnown
  BY LoadTyped DEF Types, VarsDoc, ConfInv
<1>1. ASSUME NEW k \in Key, NEW v \in Value, NEW yes \in BOOLEAN, Set(p, k, v, yes)
      PROVE  ConfInv'
  <2> DEFINE d == set_var(k, v, yes)
  <2>1. Moves(p, "save") /\ UNCHANGED <<file, saves, late>> /\ confirmed \subseteq confirmed'
    BY <1>1 DEF Set, Goto, Moves, Types
  <2>2. job'[p] = [NoJob EXCEPT !.op = "set", !.key = k, !.doc = d]
    BY <1>1 DEF Set, Types
  <2>3. job'[p].op = "set" /\ job'[p].doc = d /\ pc'[p] = "save"
    BY <2>1, <2>2, Moved DEF NoJob, Label
  <2>4. KnownIn(d, confirmed', late')
    <3>1. KnownIn(load, confirmed', late')
      BY <1>0, <2>1, KnownGrows DEF FileKnown
    <3>2. d[k] = [value |-> v, verified |-> yes, origin |-> "set"] /\ \A l \in Key \ {k} : d[l] = load[l]
      BY <1>0 DEF set_var
    <3>3. yes => <<k, v>> \in confirmed'
      BY <1>1 DEF Set
    <3>4. d[k].verified = yes /\ d[k].value = v
      BY <3>2
    <3> QED BY <3>1, <3>2, <3>3, <3>4 DEF KnownIn
  <2>5. AsShown(p)' /\ JobKnown(p)'
    BY <2>3, <2>4 DEF AsShown, JobKnown, Asking, Saving
  <2>6. FileKnown'
    BY <1>0, <2>1, KnownGrows DEF FileKnown, load
  <2> QED BY <2>1, <2>5, <2>6, OthersConf DEF ConfInv, Label
<1>2. ASSUME NEW k \in Key, UnsetVar(p, k)
      PROVE  ConfInv'
  <2> DEFINE d == unset_var(k)
  <2>1. Moves(p, "save") /\ UNCHANGED <<file, saves, late, confirmed>>
    BY <1>2 DEF UnsetVar, Goto, Moves, Types
  <2>2. job'[p] = [NoJob EXCEPT !.op = "unset", !.key = k, !.doc = d]
    BY <1>2 DEF UnsetVar, Types
  <2>3. job'[p].op = "unset" /\ job'[p].doc = d /\ pc'[p] = "save"
    BY <2>1, <2>2, Moved DEF NoJob, Label
  <2>4. KnownIn(d, confirmed', late')
    BY <1>0, <2>1 DEF unset_var, KnownIn, FileKnown
  <2>5. AsShown(p)' /\ JobKnown(p)'
    BY <2>3, <2>4 DEF AsShown, JobKnown, Asking, Saving
  <2>6. FileKnown'
    BY <1>0, <2>1 DEF FileKnown, load
  <2> QED BY <2>1, <2>5, <2>6, OthersConf DEF ConfInv, Label
<1>3. ASSUME NEW keys \in SUBSET Key, Verify(p, keys)
      PROVE  ConfInv'
  <2>1. Moves(p, "ask") /\ UNCHANGED <<file, saves, late, confirmed>>
    BY <1>3 DEF Verify, Goto, Moves, Types, vghosts
  <2>2. job'[p] = [NoJob EXCEPT !.op = "verify", !.shown = load, !.todo = keys, !.at = saves]
    BY <1>3 DEF Verify, Types
  <2>3. /\ job'[p].shown = load /\ job'[p].at = saves /\ pc'[p] = "ask" /\ saves \in Nat
    BY <2>1, <2>2, Moved DEF NoJob, Label, Types, StoreTypes
  <2>4. AsShown(p)' /\ JobKnown(p)'
    BY <2>1, <2>3 DEF AsShown, JobKnown, Asking, Saving, load
  <2>5. FileKnown'
    BY <1>0, <2>1 DEF FileKnown, load
  <2> QED BY <2>1, <2>4, <2>5, OthersConf DEF ConfInv, Label
<1> QED BY <1>1, <1>2, <1>3 DEF VarsCommand

LEMMA VerifyConf ==
  ASSUME Types, ConfInv, NEW p \in Proc,
         Skip(p) \/ Confirm(p) \/ MarkVerified(p) \/ MarkRefused(p) \/ VerifyDone(p)
  PROVE  ConfInv'
<1>0. /\ load \in VarsDoc /\ DOMAIN load = Key /\ FileKnown /\ IsJob(p) /\ AsShown(p) /\ saves \in Nat
  BY LoadTyped DEF Types, StoreTypes, VarsDoc, ConfInv
<1>1. CASE Skip(p)
  <2>1. Moves(p, "ask") /\ pc[p] = "ask" /\ UNCHANGED <<file, saves, late, confirmed>>
    BY <1>1 DEF Skip, NextQuestion, Moves, Types, vghosts
  <2>2. job'[p] = [job[p] EXCEPT !.todo = @ \ {NextKey(p)}]
    BY <1>1 DEF Skip, Types
  <2>3. /\ pc'[p] = "ask" /\ job'[p].todo = job[p].todo \ {NextKey(p)}
        /\ job'[p].at = job[p].at /\ job'[p].shown = job[p].shown
    BY <1>0, <2>1, <2>2, Moved DEF IsJob, JobFields, Label
  <2>4. AsShown(p)' /\ JobKnown(p)'
    BY <1>0, <2>1, <2>3 DEF AsShown, JobKnown, Asking, Saving, load
  <2>5. FileKnown'
    BY <1>0, <2>1 DEF FileKnown, load
  <2> QED BY <2>1, <2>4, <2>5, OthersConf DEF ConfInv, Label
<1>2. CASE Confirm(p)
  <2>1. /\ Moves(p, "mark") /\ pc[p] = "ask" /\ UNCHANGED <<file, saves, late, job>>
        /\ confirmed' = confirmed \cup {<<NextKey(p), job[p].shown[NextKey(p)].value>>}
    BY <1>2 DEF Confirm, NextQuestion, Goto, Moves, Types
  <2>2. pc'[p] = "mark" /\ NextKey(p)' = NextKey(p)
    BY <2>1, Moved DEF NextKey, Label
  <2>3. AsShown(p)' /\ JobKnown(p)'
    BY <1>0, <2>1, <2>2 DEF AsShown, JobKnown, Asking, Saving, load
  <2>4. FileKnown'
    BY <1>0, <2>1, KnownGrows DEF FileKnown, load
  <2> QED BY <2>1, <2>3, <2>4, OthersConf DEF ConfInv, Label
<1>3. CASE MarkVerified(p)
  <2> DEFINE k == NextKey(p)
  <2>1. /\ Moves(p, "save") /\ pc[p] = "mark" /\ UNCHANGED <<file, saves, confirmed>>
        /\ late' = IF job[p].at = saves THEN late ELSE late \cup {k}
    BY <1>3 DEF MarkVerified, Goto, Moves, Types
  <2>2. job'[p] = [job[p] EXCEPT !.key = k, !.doc = mark_verified(k)]
    BY <1>3 DEF MarkVerified, Types
  <2>3. /\ pc'[p] = "save" /\ job'[p].key = k /\ job'[p].doc = mark_verified(k)
        /\ job'[p].at = job[p].at /\ job'[p].shown = job[p].shown /\ job'[p].todo = job[p].todo
    BY <1>0, <2>1, <2>2, Moved DEF IsJob, JobFields, Label
  <2>4. k \in job[p].todo /\ job[p].todo \subseteq Key /\ load[k] # Unset
    <3>1. job[p].todo \subseteq Key /\ job[p].todo # {}
      BY <1>0, <2>1 DEF IsJob, Asking
    <3> QED BY <1>3, <3>1, NextKeyLeft DEF MarkVerified
  <2>5. /\ \A l \in Key \ {k} : mark_verified(k)[l] = load[l]
        /\ mark_verified(k)[k].value = load[k].value
    <3>1. mark_verified(k) = [load EXCEPT ![k] = [load[k] EXCEPT !.verified = TRUE]]
      BY DEF mark_verified
    <3>2. load[k] \in LocalVar
      BY <1>0, <2>4, DocFacts
    <3>3. [load[k] EXCEPT !.verified = TRUE].value = load[k].value
      BY <3>2 DEF LocalVar
    <3> QED BY <1>0, <2>4, <3>1, <3>3
  <2>6. KnownIn(mark_verified(k), confirmed', late')
    <3>1. KnownIn(load, confirmed', late')
      BY <1>0, <2>1, KnownGrows DEF FileKnown
    <3>2. <<k, load[k].value>> \in confirmed' \/ k \in late'
      <4>1. CASE job[p].at = saves
        BY <1>0, <2>1, <2>4, <4>1 DEF AsShown, Asking
      <4>2. CASE job[p].at # saves
        BY <2>1, <4>2
      <4> QED BY <4>1, <4>2
    <3> QED BY <2>5, <3>1, <3>2 DEF KnownIn
  <2>7. JobKnown(p)'
    BY <2>3, <2>6 DEF JobKnown
  <2>8. AsShown(p)'
    <3>1. job[p].at <= saves /\ (job[p].at = saves => \A l \in job[p].todo : load[l] = job[p].shown[l])
      BY <1>0, <2>1 DEF AsShown, Asking
    <3>2. job[p].at = saves => \A l \in job[p].todo \ {k} : mark_verified(k)[l] = job[p].shown[l]
      BY <2>4, <2>5, <3>1
    <3> QED BY <2>1, <2>3, <3>1, <3>2 DEF AsShown, Asking, Saving
  <2>9. FileKnown'
    BY <1>0, <2>1, KnownGrows DEF FileKnown, load
  <2> QED BY <2>1, <2>7, <2>8, <2>9, OthersConf DEF ConfInv, Label
<1>4. CASE MarkRefused(p) \/ VerifyDone(p)
  <2>1. Finish(p) /\ UNCHANGED <<file, saves, confirmed, late>>
    BY <1>4 DEF MarkRefused, VerifyDone, vghosts
  <2> QED BY <2>1, FinishTypes, QuietConf DEF Label, Asking, Saving
<1> QED BY <1>1, <1>2, <1>3, <1>4

LEMMA SaveConf ==
  ASSUME Types, ConfInv, NEW p \in Proc,
         SaveFirst(p) \/ RotateSecond(p) \/ RotateFirst(p) \/ CopyFirst(p) \/ Place(p) \/ VarsFail(p)
  PROVE  ConfInv'
<1>0. FileKnown /\ IsJob(p) /\ AsShown(p) /\ JobKnown(p) /\ saves \in Nat
  BY DEF Types, StoreTypes, ConfInv
<1>1. ASSUME NEW label \in Saving, Goto(p, label), pc[p] \in Saving,
             UNCHANGED <<job, file, saves, confirmed, late>>
      PROVE  ConfInv'
  <2>1. Moves(p, label) /\ label \in Label
    BY <1>1 DEF Goto, Moves, Types, Saving, Label
  <2>2. AsShown(p)' /\ JobKnown(p)'
    BY <1>0, <1>1, <2>1, Moved DEF AsShown, JobKnown, Asking, Saving
  <2>3. FileKnown'
    BY <1>0, <1>1 DEF FileKnown, load
  <2> QED BY <1>1, <2>1, <2>2, <2>3, OthersConf DEF ConfInv
<1>2. CASE SaveFirst(p)
  BY <1>1, <1>2 DEF SaveFirst, Saving, vghosts
<1>3. CASE RotateSecond(p)
  BY <1>1, <1>3 DEF RotateSecond, Saving
<1>4. CASE RotateFirst(p) \/ CopyFirst(p)
  BY <1>1, <1>4 DEF RotateFirst, CopyFirst, Saving, vghosts
<1>5. CASE Place(p)
  <2>1. pc[p] = "place" /\ file' = job[p].doc /\ saves' = saves + 1 /\ UNCHANGED <<confirmed, late>>
    BY <1>5 DEF Place
  <2>2. job[p].doc \in VarsDoc
    BY <1>0, <2>1 DEF IsJob, Saving
  <2>3. load' = job[p].doc
    BY <2>1, <2>2, DocFacts DEF load
  <2>4. FileKnown'
    BY <1>0, <2>1, <2>3 DEF FileKnown, JobKnown, Saving
  <2>5. CASE job[p].op = "verify"
    <3>1. Moves(p, "ask")
      BY <1>5, <2>5 DEF Place, Goto, Moves, Types
    <3>2. job'[p] = [job[p] EXCEPT !.todo = @ \ {job[p].key}, !.doc = NoFile, !.key = 0,
                                   !.at = IF @ = saves THEN saves + 1 ELSE @]
      BY <1>5, <2>5 DEF Place, Types
    <3>3. /\ pc'[p] = "ask" /\ job'[p].todo = job[p].todo \ {job[p].key} /\ job'[p].shown = job[p].shown
          /\ job'[p].at = IF job[p].at = saves THEN saves + 1 ELSE job[p].at
      BY <1>0, <3>1, <3>2, Moved DEF IsJob, JobFields, Label
    <3>4. /\ job[p].at \in Nat /\ job[p].at <= saves
          /\ job[p].at = saves => \A k \in job[p].todo \ {job[p].key} : job[p].doc[k] = job[p].shown[k]
      BY <1>0, <2>1, <2>5 DEF AsShown, IsJob, Saving
    <3>5. job'[p].at <= saves' /\ (job'[p].at = saves' => job[p].at = saves)
      BY <1>0, <2>1, <3>3, <3>4
    <3>6. AsShown(p)' /\ JobKnown(p)'
      BY <2>3, <3>3, <3>4, <3>5 DEF AsShown, JobKnown, Asking, Saving
    <3> QED BY <2>1, <2>4, <3>1, <3>6, OthersConf DEF ConfInv, Label
  <2>6. CASE job[p].op # "verify"
    <3>1. Finish(p)
      BY <1>5, <2>6 DEF Place
    <3>2. Moves(p, "idle") /\ pc'[p] = "idle"
      BY <3>1, FinishTypes, Moved DEF Label
    <3>3. AsShown(p)' /\ JobKnown(p)'
      BY <3>2 DEF AsShown, JobKnown, Asking, Saving
    <3> QED BY <2>1, <2>4, <3>2, <3>3, OthersConf DEF ConfInv, Label
  <2> QED BY <2>5, <2>6
<1>6. CASE VarsFail(p)
  BY <1>6, FinishTypes, QuietConf DEF VarsFail, vghosts, Label, Asking, Saving
<1> QED BY <1>2, <1>3, <1>4, <1>5, <1>6

LEMMA StillConf ==
  ASSUME ConfInv, UNCHANGED <<file, saves, pc, job, confirmed, late>>
  PROVE  ConfInv'
<1>1. load' = load /\ \A q \in Proc : NextKey(q)' = NextKey(q)
  BY DEF load, NextKey
<1>2. FileKnown'
  BY <1>1 DEF ConfInv, FileKnown
<1>3. ASSUME NEW q \in Proc PROVE AsShown(q)' /\ JobKnown(q)'
  BY <1>1 DEF ConfInv, AsShown, JobKnown
<1> QED BY <1>2, <1>3 DEF ConfInv

LEMMA OutsideConf ==
  ASSUME Types, ConfInv, Install \/ ForeignPush \/ \E i \in DOMAIN remote : Prune(i)
  PROVE  ConfInv'
<1>1. CASE ForeignPush \/ \E i \in DOMAIN remote : Prune(i)
  BY <1>1, StillConf DEF ForeignPush, Prune, vvars, vghosts
<1>2. CASE Install
  <2>1. /\ saves' = saves + 1 /\ UNCHANGED <<pc, job, confirmed, late>>
        /\ file' = IF staging = NoFile THEN file ELSE staging
    BY <1>2 DEF Install
  <2>2. FileKnown'
    <3>1. CASE staging = NoFile
      BY <2>1, <3>1 DEF FileKnown, load, ConfInv
    <3>2. CASE staging # NoFile
      <4>1. Cleared(staging)
        BY <1>2, <3>2 DEF Install, Types, BackupTypes
      <4>2. load' = staging
        BY <2>1, <3>2 DEF load
      <4> QED BY <4>1, <4>2 DEF FileKnown, KnownIn, Cleared
    <3> QED BY <3>1, <3>2
  <2>3. ASSUME NEW q \in Proc PROVE AsShown(q)' /\ JobKnown(q)'
    <3>1. AsShown(q) /\ JobKnown(q) /\ IsJob(q) /\ saves \in Nat
      BY DEF Types, StoreTypes, ConfInv
    <3>2. ASSUME job[q].at \in Nat, job[q].at <= saves PROVE job[q].at <= saves' /\ job[q].at # saves'
      BY <2>1, <3>1, <3>2
    <3>3. pc[q] \in Asking => job[q].at \in Nat /\ job[q].at <= saves
      BY <3>1 DEF AsShown, IsJob
    <3>4. pc[q] \in Saving /\ job[q].op = "verify" => job[q].at \in Nat /\ job[q].at <= saves
      BY <3>1 DEF AsShown, IsJob
    <3>5. NextKey(q)' = NextKey(q)
      BY <2>1 DEF NextKey
    <3>6. AsShown(q)'
      BY <2>1, <3>1, <3>2, <3>3, <3>4, <3>5 DEF AsShown
    <3> QED BY <2>1, <3>1, <3>6 DEF JobKnown
  <2> QED BY <2>2, <2>3 DEF ConfInv
<1> QED BY <1>1, <1>2

LEMMA InitConf == BackupInit => ConfInv
<1> SUFFICES ASSUME BackupInit PROVE ConfInv
  OBVIOUS
<1>1. FileKnown
  BY DEF BackupInit, VarsInit, FileKnown, KnownIn
<1> QED BY <1>1 DEF BackupInit, VarsInit, ConfInv, AsShown, JobKnown, Asking, Saving

LEMMA NextConf == Types /\ ConfInv /\ [Next]_vars => ConfInv'
<1> SUFFICES ASSUME Types, ConfInv, [Next]_vars PROVE ConfInv'
  OBVIOUS
<1>1. ASSUME NEW p \in Proc, VarsCommand(p) \/ VarsStep(p) \/ VarsFail(p)
      PROVE  ConfInv'
  BY <1>1, CommandConf, VerifyConf, SaveConf DEF VarsStep
<1>2. ASSUME NEW p \in Proc, BackupCommand(p) \/ BackupStep(p) \/ BackupFail(p)
      PROVE  ConfInv'
  BY <1>2, BackupMoves, QuietConf DEF vghosts
<1>3. CASE UNCHANGED vars
  BY <1>3, StillConf DEF vars, vvars, vghosts
<1> QED BY <1>1, <1>2, <1>3, OutsideConf DEF Next

(* Whatever is marked verified was confirmed by a human on this machine,   *)
(* and nothing that a complete pull leaves is verified, for any number of  *)
(* commands, pulls and pushes at once (vars.rs, backup.rs).                *)
THEOREM ConfirmedHereOnly == Spec => []VerifiedOnlyHere
<1>1. BackupInit => Types /\ ConfInv
  BY InitTypes, InitConf
<1>2. Types /\ ConfInv /\ [Next]_vars => Types' /\ ConfInv'
  BY NextTypes, NextConf
<1>3. Types /\ ConfInv => VerifiedOnlyHere
  <2> SUFFICES ASSUME Types, ConfInv PROVE VerifiedOnlyHere
    OBVIOUS
  <2>1. ConfirmedUnlessRaced
    BY DEF ConfInv, FileKnown, KnownIn, load, ConfirmedUnlessRaced, ConfirmedHere
  <2>2. Restored /\ staging \notin {NoFile, Torn}
          => \A k \in Key : staging[k] = Unset \/ ~staging[k].verified
    BY DEF Types, BackupTypes, Cleared
  <2> QED BY <2>1, <2>2 DEF VerifiedOnlyHere
<1> QED BY <1>1, <1>2, <1>3, PTL DEF Spec

------------------------------------------------------------------------------
(* What a human has done is lost only by overlap.                          *)

At(label) == \E p \in Proc : pc[p] = label

(* As long as no two saves have overlapped: one process saves at a time,   *)
(* what it is about to place is its command's effect on the file, which is *)
(* what the commands would leave one after the other.                      *)
Due(p) ==
  /\ pc[p] \in Saving => job[p].doc = Effect(job[p], load)
  /\ pc[p] = "rotate" => rotations >= 1
  /\ pc[p] = "place" /\ file # NoFile => copies[1] = file

(* The document replaced last has moved down by at most one copy for every *)
(* rotation, and is never where the rotation in progress leaves a gap.     *)
Kept(i) ==
  /\ copies[i] = previous /\ i <= rotations + 1
  /\ (At("rotate") => i # 2) /\ (At("copy") => i # 1)

PreviousKept ==
  previous # NoFile /\ rotations < VARS_BACKUP_COPIES => \E i \in 1..VARS_BACKUP_COPIES : Kept(i)

Alone == \A p, q \in Proc : pc[p] \in Saving /\ pc[q] \in Saving => p = q

InTurn == load = ledger /\ Alone /\ PreviousKept /\ \A p \in Proc : Due(p)

LedgerInv == crowd \in BOOLEAN /\ (~crowd => InTurn)

(* A step outside the saves.                                               *)
LEMMA OutsideSaves ==
  ASSUME Types, InTurn, NEW p \in Proc, NEW label \in Label \ Saving, Moves(p, label), pc[p] \notin Saving,
         UNCHANGED <<file, copies, ledger, previous, rotations>>
  PROVE  InTurn'
<1>1. /\ pc'[p] = label /\ \A q \in Proc \ {p} : pc'[q] = pc[q] /\ job'[q] = job[q]
      /\ load' = load
  BY Moved DEF load
<1>2. \A l \in Saving : At(l)' <=> At(l)
  BY <1>1 DEF At
<1>3. PreviousKept'
  <2>1. \A i : Kept(i)' <=> Kept(i)
    BY <1>2 DEF Kept, Saving
  <2> QED BY <2>1 DEF InTurn, PreviousKept
<1>4. Alone'
  BY <1>1 DEF InTurn, Alone
<1>5. ASSUME NEW q \in Proc PROVE Due(q)'
  <2>1. CASE q = p
    BY <1>1, <2>1 DEF Due, Saving
  <2>2. CASE q # p
    BY <1>1, <2>2 DEF InTurn, Due
  <2> QED BY <2>1, <2>2
<1> QED BY <1>1, <1>3, <1>4, <1>5 DEF InTurn

(* A command has loaded the document while nobody was saving.              *)
LEMMA EnterSave ==
  ASSUME Types, InTurn, NEW p \in Proc, Moves(p, "save"), pc[p] \notin Saving, ~Overlapping(p),
         UNCHANGED <<file, copies, ledger, previous, rotations>>,
         job'[p].doc = Effect(job'[p], load)
  PROVE  InTurn'
<1>1. /\ pc'[p] = "save" /\ \A q \in Proc \ {p} : pc'[q] = pc[q] /\ pc[q] \notin Saving
      /\ load' = load
  BY Moved DEF load, Overlapping, Label
<1>2. PreviousKept'
  <2>1. ~At("rotate")' /\ ~At("copy")'
    BY <1>1 DEF At, Saving
  <2>2. \A i : Kept(i) => Kept(i)'
    BY <2>1 DEF Kept
  <2> QED BY <2>2 DEF InTurn, PreviousKept
<1>3. Alone'
  BY <1>1 DEF Alone
<1>4. ASSUME NEW q \in Proc PROVE Due(q)'
  <2>1. CASE q = p
    BY <1>1, <2>1 DEF Due, Effect
  <2>2. CASE q # p
    BY <1>1, <2>2 DEF Due, Saving
  <2> QED BY <2>1, <2>2
<1> QED BY <1>1, <1>2, <1>3, <1>4 DEF InTurn

(* While one process saves nobody else does.                               *)
LEMMA OneSaver ==
  ASSUME Types, InTurn, NEW p \in Proc, NEW label \in Label, Moves(p, label), pc[p] \in Saving
  PROVE  /\ pc'[p] = label /\ Alone' /\ \A q \in Proc \ {p} : Due(q)'
         /\ \A l \in Saving : At(l)' <=> l = label
<1>1. \A q \in Proc \ {p} : pc'[q] = pc[q] /\ pc[q] \notin Saving
  BY Moved DEF InTurn, Alone
<1>2. pc'[p] = label
  BY Moved
<1>3. Alone'
  BY <1>1 DEF Alone
<1>4. \A q \in Proc \ {p} : Due(q)'
  BY <1>1 DEF Due, Saving
<1>5. \A l \in Saving : At(l)' <=> l = label
  BY <1>1, <1>2 DEF At
<1> QED BY <1>2, <1>3, <1>4, <1>5

LEMMA CommandLedger ==
  ASSUME Types, InTurn, NEW p \in Proc, VarsCommand(p), ~crowd', crowd \in BOOLEAN
  PROVE  InTurn'
<1>0. load \in VarsDoc /\ DOMAIN load = Key
  BY LoadTyped DEF Types, VarsDoc
<1>1. ASSUME NEW k \in Key, NEW v \in Value, NEW yes \in BOOLEAN, Set(p, k, v, yes)
      PROVE  InTurn'
  <2> DEFINE d == set_var(k, v, yes)
  <2>1. Moves(p, "save") /\ pc[p] = "idle" /\ UNCHANGED <<file, copies, ledger, previous, rotations>>
    BY <1>1 DEF Set, Begin, Goto, Moves, Types
  <2>2. job'[p] = [NoJob EXCEPT !.op = "set", !.key = k, !.doc = d]
    BY <1>1 DEF Set, Types
  <2>3. job'[p].op = "set" /\ job'[p].key = k /\ job'[p].doc = d
    BY <2>2 DEF NoJob
  <2>4. d = [load EXCEPT ![k] = d[k]]
    BY <1>0 DEF set_var, VarsDoc
  <2>5. job'[p].doc = Effect(job'[p], load)
    BY <2>3, <2>4 DEF Effect
  <2>6. ~Overlapping(p)
    BY <1>1 DEF Set
  <2> QED BY <2>1, <2>5, <2>6, EnterSave DEF Saving
<1>2. ASSUME NEW k \in Key, UnsetVar(p, k)
      PROVE  InTurn'
  <2> DEFINE d == unset_var(k)
  <2>1. Moves(p, "save") /\ pc[p] = "idle" /\ UNCHANGED <<file, copies, ledger, previous, rotations>>
    BY <1>2 DEF UnsetVar, Begin, Goto, Moves, Types
  <2>2. job'[p] = [NoJob EXCEPT !.op = "unset", !.key = k, !.doc = d]
    BY <1>2 DEF UnsetVar, Types
  <2>3. job'[p].op = "unset" /\ job'[p].key = k /\ job'[p].doc = d
    BY <2>2 DEF NoJob
  <2>4. d = [load EXCEPT ![k] = d[k]]
    BY <1>0 DEF unset_var, VarsDoc
  <2>5. job'[p].doc = Effect(job'[p], load)
    BY <2>3, <2>4 DEF Effect
  <2>6. ~Overlapping(p)
    BY <1>2 DEF UnsetVar
  <2> QED BY <2>1, <2>5, <2>6, EnterSave DEF Saving
<1>3. ASSUME NEW keys, Verify(p, keys)
      PROVE  InTurn'
  <2>1. Moves(p, "ask") /\ pc[p] = "idle" /\ UNCHANGED <<file, copies, ledger, previous, rotations>>
    BY <1>3 DEF Verify, Begin, Goto, Moves, Types, vghosts
  <2> QED BY <2>1, OutsideSaves DEF Saving, Label
<1> QED BY <1>1, <1>2, <1>3 DEF VarsCommand

LEMMA VerifyLedger ==
  ASSUME Types, InTurn, NEW p \in Proc, ~crowd', crowd \in BOOLEAN,
         Skip(p) \/ Confirm(p) \/ MarkVerified(p) \/ MarkRefused(p) \/ VerifyDone(p)
  PROVE  InTurn'
<1>1. CASE Skip(p)
  <2>1. Moves(p, "ask") /\ pc[p] = "ask" /\ UNCHANGED <<file, copies, ledger, previous, rotations>>
    BY <1>1 DEF Skip, NextQuestion, Moves, Types, vghosts
  <2> QED BY <2>1, OutsideSaves DEF Saving, Label
<1>2. CASE Confirm(p)
  <2>1. Moves(p, "mark") /\ pc[p] = "ask" /\ UNCHANGED <<file, copies, ledger, previous, rotations>>
    BY <1>2 DEF Confirm, NextQuestion, Goto, Moves, Types
  <2> QED BY <2>1, OutsideSaves DEF Saving, Label
<1>3. CASE MarkVerified(p)
  <2> DEFINE k == NextKey(p)
  <2>1. Moves(p, "save") /\ pc[p] = "mark" /\ UNCHANGED <<file, copies, ledger, previous, rotations>>
    BY <1>3 DEF MarkVerified, Goto, Moves, Types
  <2>2. job'[p] = [job[p] EXCEPT !.key = k, !.doc = mark_verified(k)]
    BY <1>3 DEF MarkVerified, Types
  <2>3. IsJob(p)
    BY DEF Types
  <2>4. job'[p].op = "verify" /\ job'[p].key = k /\ job'[p].doc = mark_verified(k)
    BY <2>1, <2>2, <2>3 DEF IsJob, JobFields, Asking
  <2>5. load[k] # Unset
    BY <1>3 DEF MarkVerified
  <2>6. job'[p].doc = Effect(job'[p], load)
    BY <2>4, <2>5 DEF Effect, mark_verified
  <2>7. ~Overlapping(p)
    BY <1>3 DEF MarkVerified
  <2> QED BY <2>1, <2>6, <2>7, EnterSave DEF Saving
<1>4. CASE MarkRefused(p) \/ VerifyDone(p)
  <2>1. /\ Finish(p) /\ pc[p] \in Asking /\ UNCHANGED <<file, copies, ledger, previous, rotations>>
    BY <1>4 DEF MarkRefused, VerifyDone, Asking, vghosts
  <2> QED BY <2>1, FinishTypes, OutsideSaves DEF Asking, Saving, Label
<1> QED BY <1>1, <1>2, <1>3, <1>4

LEMMA SaveLedger ==
  ASSUME Types, InTurn, NEW p \in Proc,
         SaveFirst(p) \/ RotateSecond(p) \/ RotateFirst(p) \/ CopyFirst(p) \/ Place(p) \/ VarsFail(p)
  PROVE  InTurn'
<1>0. /\ load = ledger /\ Alone /\ PreviousKept /\ Due(p) /\ IsJob(p) /\ rotations \in 0..3
      /\ DOMAIN copies = 1..3 /\ file # Torn
  BY DocFacts, NoDocuments DEF InTurn, Types, StoreTypes
<1>1. ASSUME NEW label \in Saving, Goto(p, label), pc[p] \in Saving, UNCHANGED <<job, file, ledger>>,
             label = "rotate" => rotations' >= 1,
             label = "place" /\ file # NoFile => copies'[1] = file,
             PreviousKept'
      PROVE  InTurn'
  <2>1. Moves(p, label) /\ label \in Label
    BY <1>1 DEF Goto, Moves, Types, Saving, Label
  <2>2. load' = load
    BY <1>1 DEF load
  <2>3. Due(p)'
    BY <1>0, <1>1, <2>1, <2>2, OneSaver DEF Due
  <2> QED BY <1>0, <1>1, <2>1, <2>2, <2>3, OneSaver DEF InTurn
<1>2. CASE SaveFirst(p)
  <2>1. /\ Moves(p, "place") /\ pc[p] = "save"
        /\ UNCHANGED <<job, file, ledger, copies, previous, rotations>> /\ file = NoFile
    BY <1>2 DEF SaveFirst, Goto, Moves, Types, vghosts
  <2>2. ~At("rotate")' /\ ~At("copy")'
    BY <2>1, OneSaver DEF Saving, Label
  <2>3. PreviousKept'
    BY <1>0, <2>1, <2>2 DEF PreviousKept, Kept
  <2> QED BY <1>1, <1>2, <2>1, <2>3 DEF SaveFirst, Saving
<1>3. CASE RotateSecond(p)
  <2>1. /\ Moves(p, "rotate") /\ pc[p] = "save" /\ UNCHANGED <<job, file, ledger, previous>>
        /\ rotations' = IF rotations < 3 THEN rotations + 1 ELSE rotations
        /\ copies' = IF copies[2] = NoFile THEN copies ELSE [copies EXCEPT ![3] = copies[2], ![2] = NoFile]
    BY <1>3 DEF RotateSecond, Shift, Goto, Moves, Types
  <2>2. ~At("copy")' /\ rotations' >= 1
    BY <1>0, <2>1, OneSaver DEF Saving, Label
  <2>3. ASSUME previous # NoFile, rotations' < 3 PROVE \E i \in 1..3 : Kept(i)'
    <3>1. rotations < 2 /\ rotations' = rotations + 1
      BY <1>0, <2>1, <2>3
    <3>2. PICK i \in 1..3 : copies[i] = previous /\ i <= rotations + 1
      BY <1>0, <2>3, <3>1 DEF PreviousKept, Kept
    <3>3. CASE i = 1
      <4>1. Kept(1)'
        BY <1>0, <2>1, <2>2, <3>1, <3>2, <3>3 DEF Kept
      <4> QED BY <4>1
    <3>4. CASE i = 2
      <4>1. copies'[3] = previous
        BY <1>0, <2>1, <2>3, <3>2, <3>4
      <4>2. Kept(3)'
        BY <1>0, <2>1, <2>2, <3>1, <3>2, <3>4, <4>1 DEF Kept
      <4> QED BY <4>2
    <3> QED BY <1>0, <3>1, <3>2, <3>3, <3>4
  <2>4. PreviousKept'
    BY <2>1, <2>3 DEF PreviousKept
  <2> QED BY <1>1, <1>3, <2>1, <2>2, <2>4 DEF RotateSecond, Saving
<1>4. CASE RotateFirst(p)
  <2>1. /\ Moves(p, "copy") /\ pc[p] = "rotate" /\ UNCHANGED <<job, file, ledger, previous, rotations>>
        /\ copies' = IF copies[1] = NoFile THEN copies ELSE [copies EXCEPT ![2] = copies[1], ![1] = NoFile]
    BY <1>4 DEF RotateFirst, Shift, Goto, Moves, Types, vghosts
  <2>2. At("rotate") /\ ~At("rotate")' /\ rotations >= 1
    BY <1>0, <2>1, OneSaver DEF Saving, Label, At, Due
  <2>3. ASSUME previous # NoFile, rotations < 3 PROVE \E i \in 1..3 : Kept(i)'
    <3>1. PICK i \in 1..3 : copies[i] = previous /\ i <= rotations + 1 /\ i # 2
      BY <1>0, <2>2, <2>3 DEF PreviousKept, Kept
    <3>2. CASE i = 1
      <4>1. copies'[2] = previous
        BY <1>0, <2>1, <2>3, <3>1, <3>2
      <4>2. Kept(2)'
        BY <1>0, <2>1, <2>2, <4>1 DEF Kept
      <4> QED BY <4>2
    <3>3. CASE i = 3
      <4>1. Kept(3)'
        BY <1>0, <2>1, <2>2, <3>1, <3>3 DEF Kept
      <4> QED BY <4>1
    <3> QED BY <3>1, <3>2, <3>3
  <2>4. PreviousKept'
    BY <2>1, <2>3 DEF PreviousKept
  <2> QED BY <1>1, <1>4, <2>1, <2>4 DEF RotateFirst, Saving
<1>5. CASE CopyFirst(p)
  <2>1. /\ Moves(p, "place") /\ pc[p] = "copy" /\ UNCHANGED <<job, file, ledger, previous, rotations>>
        /\ copies' = [copies EXCEPT ![1] = file]
    BY <1>5 DEF CopyFirst, Goto, Moves, Types, vghosts
  <2>2. At("copy") /\ ~At("rotate")' /\ ~At("copy")'
    BY <2>1, OneSaver DEF Saving, Label, At
  <2>3. PreviousKept'
    BY <1>0, <2>1, <2>2 DEF PreviousKept, Kept
  <2>4. copies'[1] = file
    BY <1>0, <2>1
  <2> QED BY <1>1, <1>5, <2>1, <2>3, <2>4 DEF CopyFirst, Saving
<1>6. CASE Place(p)
  <2>1. /\ pc[p] = "place" /\ file' = job[p].doc /\ ledger' = Effect(job[p], ledger)
        /\ previous' = file /\ rotations' = 0 /\ copies' = copies
    BY <1>6 DEF Place
  <2>2. PICK label \in {"ask", "idle"} : Moves(p, label)
    <3>1. CASE job[p].op = "verify"
      <4>1. Moves(p, "ask")
        BY <1>6, <3>1 DEF Place, Goto, Moves, Types
      <4> QED BY <4>1
    <3>2. CASE job[p].op # "verify"
      <4>1. Moves(p, "idle")
        BY <1>6, <3>2, FinishTypes DEF Place
      <4> QED BY <4>1
    <3> QED BY <3>1, <3>2
  <2>3. label \in Label /\ label \notin Saving
    BY DEF Label, Saving
  <2>4. pc'[p] = label /\ Alone' /\ \A q \in Proc \ {p} : Due(q)'
    BY <2>1, <2>2, <2>3, OneSaver DEF Saving
  <2>5. ~At("rotate")' /\ ~At("copy")'
    BY <2>1, <2>2, <2>3, OneSaver DEF Saving
  <2>6. load' = ledger'
    <3>1. job[p].doc \in VarsDoc /\ job[p].doc = Effect(job[p], load)
      BY <1>0, <2>1 DEF IsJob, Due, Saving
    <3>2. load' = job[p].doc
      BY <2>1, <3>1, DocFacts DEF load
    <3> QED BY <1>0, <2>1, <3>1, <3>2
  <2>7. PreviousKept'
    <3>1. ASSUME file # NoFile PROVE Kept(1)'
      BY <1>0, <2>1, <2>5, <3>1 DEF Kept, Due
    <3> QED BY <2>1, <3>1 DEF PreviousKept
  <2>8. Due(p)'
    BY <2>3, <2>4 DEF Due, Saving
  <2> QED BY <2>4, <2>6, <2>7, <2>8 DEF InTurn
<1>7. CASE VarsFail(p)
  <2>1. /\ Moves(p, "idle") /\ UNCHANGED <<file, ledger, previous, rotations>>
        /\ pc[p] \in Asking \cup Saving
        /\ copies' = copies \/ (pc[p] = "copy" /\ copies' = [copies EXCEPT ![1] = Torn])
    BY <1>7, FinishTypes DEF VarsFail, Asking, vghosts
  <2>2. CASE pc[p] \notin Saving
    <3>1. copies' = copies
      BY <2>1, <2>2 DEF Saving
    <3> QED BY <2>1, <2>2, <3>1, OutsideSaves DEF Saving, Label
  <2>3. CASE pc[p] \in Saving
    <3>1. /\ pc'[p] = "idle" /\ Alone' /\ \A q \in Proc \ {p} : Due(q)'
          /\ ~At("rotate")' /\ ~At("copy")'
      BY <2>1, <2>3, OneSaver DEF Saving, Label
    <3>2. load' = ledger'
      BY <1>0, <2>1 DEF load
    <3>3. PreviousKept'
      <4>1. CASE copies' = copies
        BY <1>0, <2>1, <3>1, <4>1 DEF PreviousKept, Kept
      <4>2. CASE pc[p] = "copy" /\ copies' = [copies EXCEPT ![1] = Torn]
        <5>1. At("copy")
          BY <4>2 DEF At
        <5> QED BY <1>0, <2>1, <3>1, <4>2, <5>1 DEF PreviousKept, Kept
      <4> QED BY <2>1, <4>1, <4>2
    <3>4. Due(p)'
      BY <3>1 DEF Due, Saving
    <3> QED BY <3>1, <3>2, <3>3, <3>4 DEF InTurn
  <2> QED BY <2>2, <2>3
<1> QED BY <1>2, <1>3, <1>4, <1>5, <1>6, <1>7

LEMMA StillLedger ==
  ASSUME InTurn, UNCHANGED <<file, copies, pc, job, ledger, previous, rotations>>
  PROVE  InTurn'
<1>1. load' = load /\ \A l \in Saving : At(l)' = At(l)
  BY DEF load, At
<1>2. \A i : Kept(i)' <=> Kept(i)
  BY <1>1 DEF Kept, Saving
<1>3. PreviousKept' /\ Alone'
  BY <1>2 DEF InTurn, PreviousKept, Alone
<1>4. ASSUME NEW q \in Proc PROVE Due(q)'
  BY <1>1 DEF InTurn, Due
<1> QED BY <1>1, <1>3, <1>4 DEF InTurn

LEMMA InstallLedger ==
  ASSUME Types, InTurn, Install, ~crowd', crowd \in BOOLEAN
  PROVE  InTurn'
<1>1. CASE staging = NoFile
  BY <1>1, StillLedger DEF Install
<1>2. CASE staging # NoFile
  <2>1. /\ file' = staging /\ ledger' = staging /\ previous' = NoFile /\ UNCHANGED <<pc, job>>
        /\ \A q \in Proc : pc[q] \notin Saving
    BY <1>2 DEF Install
  <2>2. load' = ledger'
    BY <1>2, <2>1 DEF load
  <2>3. Alone' /\ PreviousKept' /\ \A q \in Proc : Due(q)'
    BY <2>1 DEF Alone, PreviousKept, Due, Saving
  <2> QED BY <2>2, <2>3 DEF InTurn
<1> QED BY <1>1, <1>2

LEMMA NextLedger == Types /\ LedgerInv /\ [Next]_vars => LedgerInv'
<1> SUFFICES ASSUME Types, LedgerInv, [Next]_vars PROVE LedgerInv'
  OBVIOUS
<1>1. crowd' \in BOOLEAN /\ (crowd => crowd')
  <2>1. ASSUME NEW p \in Proc, VarsCommand(p) \/ VarsStep(p) \/ VarsFail(p) PROVE crowd' \in BOOLEAN /\ (crowd => crowd')
    BY <2>1 DEF VarsCommand, VarsStep, VarsFail, Set, UnsetVar, Verify, Skip, Confirm, MarkVerified, MarkRefused,
            VerifyDone, SaveFirst, RotateSecond, RotateFirst, CopyFirst, Place, vghosts, LedgerInv
  <2>2. ASSUME NEW p \in Proc, BackupCommand(p) \/ BackupStep(p) \/ BackupFail(p) PROVE crowd' = crowd
    BY <2>2, BackupMoves DEF vghosts
  <2>3. Install => crowd' = crowd \/ crowd' = (crowd \/ \E p \in Proc : pc[p] \in Saving)
    BY DEF Install
  <2>4. ForeignPush \/ (\E i \in DOMAIN remote : Prune(i)) \/ UNCHANGED vars => crowd' = crowd
    BY DEF ForeignPush, Prune, vars, vvars, vghosts
  <2> QED BY <2>1, <2>2, <2>3, <2>4 DEF LedgerInv, Next
<1> SUFFICES ASSUME ~crowd' PROVE InTurn'
  BY <1>1 DEF LedgerInv
<1>2. InTurn /\ crowd \in BOOLEAN
  BY <1>1 DEF LedgerInv
<1>3. ASSUME NEW p \in Proc, VarsCommand(p) \/ VarsStep(p) \/ VarsFail(p) PROVE InTurn'
  BY <1>2, <1>3, CommandLedger, VerifyLedger, SaveLedger DEF VarsStep
<1>4. ASSUME NEW p \in Proc, BackupCommand(p) \/ BackupStep(p) \/ BackupFail(p) PROVE InTurn'
  BY <1>2, <1>4, BackupMoves, OutsideSaves DEF vghosts
<1>5. CASE ForeignPush \/ (\E i \in DOMAIN remote : Prune(i)) \/ UNCHANGED vars
  BY <1>2, <1>5, StillLedger DEF ForeignPush, Prune, vars, vvars, vghosts
<1> QED BY <1>2, <1>3, <1>4, <1>5, InstallLedger DEF Next

LEMMA InitLedger == BackupInit => LedgerInv
<1> SUFFICES ASSUME BackupInit PROVE LedgerInv
  OBVIOUS
<1>1. \A p \in Proc : Due(p)
  BY DEF BackupInit, VarsInit, Due, Saving
<1> QED BY <1>1 DEF BackupInit, VarsInit, LedgerInv, InTurn, Alone, PreviousKept, Saving

------------------------------------------------------------------------------
(* Pushes.                                                                 *)

(* Whatever the service lists as this version was pushed from this home.   *)
Own(n) == \A i \in DOMAIN remote : remote[i].version = n => remote[i].own

Parents == {"upload", "store-etag"}

PushInv ==
  /\ \A i \in DOMAIN remote : remote[i].version \in 1..pushed
  /\ etag <= pushed /\ Own(etag)
  /\ \A p \in Proc : pc[p] \in Parents => job[p].at <= pushed /\ Own(job[p].at)
  /\ ~overwritten

(* A step that leaves the service alone, of a process with no parent after *)
(* it, or of one that has just read it.                                    *)
LEMMA NoPush ==
  ASSUME Types, PushInv, NEW p \in Proc, NEW label \in Label, Moves(p, label),
         UNCHANGED <<remote, pushed, overwritten>>, etag' <= pushed /\ Own(etag'),
         label \in Parents => job'[p].at <= pushed /\ Own(job'[p].at)
  PROVE  PushInv'
<1>1. ASSUME NEW q \in Proc, pc'[q] \in Parents PROVE job'[q].at <= pushed' /\ Own(job[q].at)'
  <2>1. CASE q = p
    <3>1. label \in Parents
      BY <1>1, <2>1, Moved
    <3> QED BY <2>1, <3>1 DEF Own
  <2>2. CASE q # p
    BY <1>1, <2>2, Moved DEF PushInv, Own
  <2> QED BY <2>1, <2>2
<1>2. etag' <= pushed' /\ Own(etag)'
  BY DEF Own
<1>3. \A i \in DOMAIN remote' : remote'[i].version \in 1..pushed'
  BY DEF PushInv
<1>4. ~overwritten'
  BY DEF PushInv
<1> QED BY <1>1, <1>2, <1>3, <1>4 DEF PushInv

(* A backup of this home or of another machine is added.                   *)
LEMMA OnePushed ==
  ASSUME Types, PushInv, NEW e \in Entry, e.version = pushed + 1,
         remote' = Append(remote, e), pushed' = pushed + 1
  PROVE  /\ \A i \in DOMAIN remote' : remote'[i].version \in 1..pushed'
         /\ \A n \in Nat : n <= pushed /\ Own(n) => Own(n)'
         /\ e.own => Own(pushed)'
<1>1. \A j \in DOMAIN remote' : remote'[j] = e \/ \E k \in DOMAIN remote : remote'[j] = remote[k]
  BY Pushed
<1>2. pushed \in Nat /\ \A k \in DOMAIN remote : remote[k].version \in 1..pushed
  BY DEF Types, BackupTypes, PushInv
<1>3. \A j \in DOMAIN remote' : remote'[j].version \in 1..(pushed + 1)
  BY <1>1, <1>2
<1>4. ASSUME NEW n \in Nat, n <= pushed, Own(n) PROVE Own(n)'
  BY <1>1, <1>2, <1>4 DEF Own
<1>5. ASSUME e.own PROVE Own(pushed)'
  <2> SUFFICES ASSUME NEW j \in DOMAIN remote', remote'[j].version = pushed' PROVE remote'[j].own
    BY DEF Own
  <2>1. CASE remote'[j] = e
    BY <1>5, <2>1
  <2>2. CASE \E k \in DOMAIN remote : remote'[j] = remote[k]
    BY <1>2, <2>2
  <2> QED BY <1>1, <2>1, <2>2
<1> QED BY <1>3, <1>4, <1>5

LEMMA StepPush ==
  ASSUME Types, PushInv, NEW p \in Proc, BackupCommand(p) \/ BackupStep(p) \/ BackupFail(p)
  PROVE  PushInv'
<1>0. pushed \in Nat /\ etag <= pushed /\ Own(etag) /\ IsJob(p)
  BY DEF Types, BackupTypes, PushInv
<1>1. CASE ReadEtag(p)
  <2>1. /\ Moves(p, "upload") /\ UNCHANGED <<remote, pushed, overwritten, etag>>
        /\ job'[p] = [job[p] EXCEPT !.at = IF job[p].op = "push-force" THEN 0 ELSE etag]
    BY <1>1 DEF ReadEtag, Goto, Moves, Types, bvars
  <2>2. job'[p].at \in {0, etag}
    BY <1>0, <2>1 DEF IsJob, JobFields
  <2>3. Own(0)
    BY DEF Own, PushInv
  <2>4. job'[p].at <= pushed /\ Own(job'[p].at)
    BY <1>0, <2>2, <2>3
  <2> QED BY <1>0, <2>1, <2>4, NoPush DEF Label
<1>2. CASE Upload(p)
  <2> DEFINE e == [version |-> pushed + 1, doc |-> job[p].doc, own |-> TRUE]
  <2>1. /\ Moves(p, "store-etag") /\ pc[p] = "upload" /\ remote' = Append(remote, e) /\ pushed' = pushed + 1
        /\ job'[p] = [job[p] EXCEPT !.at = pushed + 1] /\ etag' = etag
        /\ job[p].at \in {0, Newest}
        /\ overwritten' = (overwritten \/ (job[p].at # 0 /\ remote # <<>> /\ ~Last(remote).own))
    BY <1>2 DEF Upload, Goto, Moves, Types
  <2>2. e \in Entry
    BY <1>0, <2>1 DEF IsJob, Entry
  <2>3. /\ \A i \in DOMAIN remote' : remote'[i].version \in 1..pushed'
        /\ \A n \in Nat : n <= pushed /\ Own(n) => Own(n)'
        /\ Own(pushed)'
    <3> HIDE DEF e
    <3>1. e.version = pushed + 1 /\ e.own
      BY DEF e
    <3> QED BY <2>1, <2>2, <3>1, OnePushed
  <2>4. job[p].at \in Nat /\ job[p].at <= pushed /\ Own(job[p].at)
    BY <1>0, <2>1 DEF IsJob, PushInv, Parents
  <2>5. ~overwritten'
    <3>1. ASSUME job[p].at # 0, remote # <<>> PROVE Last(remote).own
      <4>1. Len(remote) \in DOMAIN remote /\ Last(remote) = remote[Len(remote)]
        BY <3>1 DEF Types, BackupTypes, Last
      <4>2. Last(remote).version = job[p].at
        BY <2>1, <3>1 DEF Newest
      <4> QED BY <2>4, <4>1, <4>2 DEF Own
    <3> QED BY <2>1, <3>1 DEF PushInv
  <2>6. ASSUME NEW q \in Proc, pc'[q] \in Parents PROVE job'[q].at <= pushed' /\ Own(job[q].at)'
    <3>1. CASE q = p
      <4>1. job'[q].at = pushed + 1
        BY <1>0, <2>1, <3>1 DEF IsJob, JobFields
      <4>2. Own(job[q].at)'
        BY <2>1, <2>3, <4>1 DEF Own
      <4> QED BY <1>0, <2>1, <4>1, <4>2
    <3>2. CASE q # p
      <4>1. pc[q] \in Parents /\ job'[q] = job[q] /\ IsJob(q)
        BY <2>1, <2>6, <3>2, Moved DEF Types, Label
      <4>2. job[q].at \in Nat /\ job[q].at <= pushed /\ Own(job[q].at)
        BY <4>1 DEF IsJob, PushInv, Parents
      <4>3. job'[q].at <= pushed'
        BY <1>0, <2>1, <4>1, <4>2
      <4> QED BY <2>3, <4>1, <4>2, <4>3 DEF Own
    <3> QED BY <3>1, <3>2
  <2>7. etag' <= pushed' /\ Own(etag)'
    <3>1. etag \in Nat
      BY DEF Types, BackupTypes
    <3> QED BY <1>0, <2>1, <2>3, <3>1 DEF Own
  <2> QED BY <2>3, <2>5, <2>6, <2>7 DEF PushInv
<1>3. CASE StoreEtag(p)
  <2>1. /\ Moves(p, "idle") /\ pc[p] = "store-etag" /\ UNCHANGED <<remote, pushed, overwritten>>
        /\ etag' = job[p].at
    BY <1>3, FinishTypes DEF StoreEtag
  <2>2. etag' <= pushed /\ Own(etag')
    BY <2>1 DEF PushInv, Parents
  <2> QED BY <2>1, <2>2, NoPush DEF Label, Parents
<1>4. ASSUME NEW label \in Label \ Parents, Moves(p, label), UNCHANGED <<remote, pushed, etag, overwritten>>
      PROVE  PushInv'
  BY <1>0, <1>4, NoPush
<1>5. CASE \E op \in {"push", "push-force"} : Push(p, op)
  <2>1. Moves(p, "read-etag") /\ UNCHANGED <<remote, pushed, etag, overwritten>>
    BY <1>5 DEF Push, Start, Goto, Moves, Types, bvars
  <2> QED BY <1>4, <2>1 DEF Label, Parents
<1>6. CASE \E i \in DOMAIN remote, yes \in BOOLEAN : Pull(p, i, yes)
  <2>1. Moves(p, "extract") /\ UNCHANGED <<remote, pushed, etag, overwritten>>
    BY <1>6 DEF Pull, Downloaded, Start, Goto, Moves, Types, bvars
  <2> QED BY <1>4, <2>1 DEF Label, Parents
<1>7. CASE Extract(p)
  <2>1. Moves(p, "mark-restored") /\ UNCHANGED <<remote, pushed, etag, overwritten>>
    BY <1>7 DEF Extract, Goto, Moves, Types
  <2> QED BY <1>4, <2>1 DEF Label, Parents
<1>8. CASE LoadRestored(p)
  <2>1. Moves(p, "reseal") /\ UNCHANGED <<remote, pushed, etag, overwritten>>
    BY <1>8 DEF LoadRestored, Goto, Moves, Types, bvars
  <2> QED BY <1>4, <2>1 DEF Label, Parents
<1>9. CASE UploadRefused(p) \/ NothingRestored(p) \/ Reseal(p) \/ BackupFail(p)
  <2>1. Finish(p) /\ UNCHANGED <<remote, pushed, etag, overwritten>>
    BY <1>9 DEF UploadRefused, NothingRestored, Reseal, BackupFail, bvars
  <2> QED BY <1>4, <2>1, FinishTypes DEF Label, Parents
<1> QED BY <1>1, <1>2, <1>3, <1>5, <1>6, <1>7, <1>8, <1>9 DEF BackupCommand, BackupStep

LEMMA StillPush ==
  ASSUME PushInv, UNCHANGED <<pc, job, remote, pushed, etag, overwritten>>
  PROVE  PushInv'
BY DEF PushInv, Own

(* A command on the variables sends nothing.                               *)
LEMMA VarsPush ==
  ASSUME Types, PushInv, NEW p \in Proc, VarsCommand(p) \/ VarsStep(p) \/ VarsFail(p), UNCHANGED bvars
  PROVE  PushInv'
<1>1. ASSUME NEW label \in Label \ Parents, Moves(p, label) PROVE PushInv'
  BY <1>1, NoPush DEF bvars, PushInv
<1>2. ASSUME Finish(p) PROVE PushInv'
  BY <1>1, <1>2, FinishTypes DEF Label, Parents
<1>3. ASSUME NEW label \in Label \ Parents, Goto(p, label), NEW j, job' = [job EXCEPT ![p] = j] PROVE PushInv'
  <2>1. Moves(p, label)
    BY <1>3 DEF Goto, Moves, Types
  <2> QED BY <1>1, <2>1
<1>4. ASSUME NEW label \in Label \ Parents, Goto(p, label), job' = job PROVE PushInv'
  <2>1. Moves(p, label)
    BY <1>4 DEF Goto, Moves, Types
  <2> QED BY <1>1, <2>1
<1>5. CASE VarsCommand(p)
  BY <1>3, <1>5 DEF VarsCommand, Set, UnsetVar, Verify, Label, Parents
<1>6. CASE Skip(p)
  <2>1. Moves(p, "ask")
    BY <1>6 DEF Skip, NextQuestion, Moves, Types
  <2> QED BY <1>1, <2>1 DEF Label, Parents
<1>7. CASE MarkVerified(p)
  <2>1. Moves(p, "save")
    BY <1>7 DEF MarkVerified, Goto, Moves, Types
  <2> QED BY <1>1, <2>1 DEF Label, Parents
<1>8. CASE Confirm(p) \/ SaveFirst(p) \/ RotateSecond(p) \/ RotateFirst(p) \/ CopyFirst(p)
  BY <1>4, <1>8 DEF Confirm, SaveFirst, RotateSecond, RotateFirst, CopyFirst, Label, Parents
<1>9. CASE Place(p)
  <2>1. Finish(p) \/ Moves(p, "ask")
    BY <1>9 DEF Place, Goto, Moves, Types
  <2> QED BY <1>1, <1>2, <2>1 DEF Label, Parents
<1>10. CASE MarkRefused(p) \/ VerifyDone(p) \/ VarsFail(p)
  BY <1>2, <1>10 DEF MarkRefused, VerifyDone, VarsFail
<1> QED BY <1>5, <1>6, <1>7, <1>8, <1>9, <1>10 DEF VarsStep

LEMMA OutsidePush ==
  ASSUME Types, PushInv, Install \/ ForeignPush \/ \E i \in DOMAIN remote : Prune(i)
  PROVE  PushInv'
<1>1. CASE Install
  BY <1>1, StillPush DEF Install
<1>2. CASE ForeignPush
  <2> DEFINE e == [version |-> pushed + 1, doc |-> ForeignDoc, own |-> FALSE]
  <2>1. /\ remote' = Append(remote, e) /\ pushed' = pushed + 1 /\ UNCHANGED <<pc, job, etag, overwritten>>
    BY <1>2 DEF ForeignPush, vvars
  <2>2. e \in Entry /\ pushed \in Nat /\ etag \in Nat
    BY DocFacts DEF Entry, Types, BackupTypes
  <2>3. /\ \A i \in DOMAIN remote' : remote'[i].version \in 1..pushed'
        /\ \A n \in Nat : n <= pushed /\ Own(n) => Own(n)'
    <3> HIDE DEF e
    <3>1. e.version = pushed + 1
      BY DEF e
    <3> QED BY <2>1, <2>2, <3>1, OnePushed
  <2>4. ASSUME NEW q \in Proc, pc'[q] \in Parents PROVE job'[q].at <= pushed' /\ Own(job[q].at)'
    <3>1. job[q].at \in Nat /\ job[q].at <= pushed /\ Own(job[q].at)
      BY <2>1, <2>4 DEF Types, IsJob, PushInv, Parents
    <3>2. job'[q].at <= pushed'
      BY <2>1, <2>2, <3>1
    <3> QED BY <2>1, <2>3, <3>1, <3>2 DEF Own
  <2>5. etag' <= pushed' /\ Own(etag)'
    BY <2>1, <2>2, <2>3 DEF PushInv, Own
  <2> QED BY <2>1, <2>3, <2>4, <2>5 DEF PushInv
<1>3. ASSUME NEW i \in DOMAIN remote, Prune(i) PROVE PushInv'
  <2>1. \A j \in DOMAIN remote' : \E k \in DOMAIN remote : remote'[j] = remote[k]
    BY <1>3, Pruned DEF Prune
  <2>2. \A n : Own(n) => Own(n)'
    BY <2>1 DEF Own
  <2> QED BY <1>3, <2>1, <2>2 DEF Prune, PushInv, Own
<1> QED BY <1>1, <1>2, <1>3

LEMMA NextPush == Types /\ PushInv /\ [Next]_vars => PushInv'
<1> SUFFICES ASSUME Types, PushInv, [Next]_vars PROVE PushInv'
  OBVIOUS
<1>1. CASE UNCHANGED vars
  BY <1>1, StillPush DEF vars, vvars, bvars
<1> QED BY <1>1, VarsPush, StepPush, OutsidePush DEF Next

(* What a human has set, unset or verified is lost only when two commands  *)
(* overlap between load and rename, the document replaced last stays among *)
(* the copies, and a push without --force never supersedes the backup of   *)
(* another machine, for any number of commands, deaths, pulls and pushes   *)
(* (vars/mod.rs, cli/backup.rs).                                           *)
THEOREM LostOnlySo == Spec => []NothingLost
<1>1. BackupInit => Types /\ LedgerInv /\ PushInv
  BY InitTypes, InitLedger DEF BackupInit, VarsInit, PushInv, Own, Parents
<1>2. Types /\ LedgerInv /\ PushInv /\ [Next]_vars => Types' /\ LedgerInv' /\ PushInv'
  BY NextTypes, NextLedger, NextPush
<1>3. Types /\ LedgerInv /\ PushInv => NothingLost
  BY DEF LedgerInv, InTurn, PreviousKept, Kept, PushInv, NothingLost, LostOnlyByOverlap, OthersKept
<1> QED BY <1>1, <1>2, <1>3, PTL DEF Spec

-------------------------------------------------------------------------------

(* OutputFilter. *)

LEMMA EmptyText == <<>> \in Seq(Int) /\ Len(<<>>) = 0
BY EmptySeq

(* What holds at 0 and is handed on up to n holds up to n.                   *)
LEMMA HandedOn ==
  ASSUME NEW n \in Nat, NEW T \in SUBSET (0..n), 0 \in T,
         \A i \in 0..n : i + 1 \in 0..n /\ i \in T => i + 1 \in T
  PROVE  T = 0..n
<1>1. ASSUME 0..n \ T # {} PROVE FALSE
  <2>1. 0..n \ T \subseteq Nat
    OBVIOUS
  <2>2. PICK k \in 0..n \ T : \A j \in 0..n \ T : ~(<<j, k>> \in OpToRel(<, Nat))
    BY <1>1, <2>1, NatLessThanWellFounded, WFMin
  <2>3. \A j \in 0..n \ T : ~(j < k)
    BY <2>1, <2>2 DEF OpToRel
  <2>4. k # 0 /\ k - 1 \in 0..n /\ k - 1 \in T
    BY <2>3
  <2> QED  BY <2>4
<1> QED  BY <1>1

(* A set of numbers that is not empty has a least one.                       *)
LEMMA Least ==
  ASSUME NEW S \in SUBSET Nat, S # {}
  PROVE  \E k \in S : \A j \in S : k <= j
<1>1. PICK k \in S : \A j \in S : ~(<<j, k>> \in OpToRel(<, Nat))
  BY NatLessThanWellFounded, WFMin
<1>2. \A j \in S : ~(j < k)
  BY <1>1 DEF OpToRel
<1> QED  BY <1>2

(* The keys of a document can be sorted, longest value first.                *)
IsKeys(d, S) == \A k \in S : k \in Nat /\ Len(d[k].value) \in Nat
Ordered(d, n, S, f) ==
  f \in Bijection(1..n, S) /\ \A m, l \in 1..n : m < l => LongerFirst(d, f[m], f[l])

LEMMA LastKey ==
  ASSUME NEW d, NEW S, IsKeys(d, S), S # {}, NEW N \in Nat, \A k \in S : k <= N
  PROVE  \E k \in S : \A j \in S : j # k => LongerFirst(d, j, k)
<1> DEFINE lens == {Len(d[k].value) : k \in S}
<1>1. PICK len \in lens : \A m \in lens : len <= m
  <2>1. lens \in SUBSET Nat /\ lens # {}
    BY DEF IsKeys
  <2> HIDE DEF lens
  <2> QED  BY <2>1, Least
<1> DEFINE back == {N - k : k \in {j \in S : Len(d[j].value) = len}}
<1>2. PICK b \in back : \A c \in back : b <= c
  <2>1. back \in SUBSET Nat /\ back # {}
    BY <1>1 DEF IsKeys
  <2> HIDE DEF back
  <2> QED  BY <2>1, Least
<1>3. PICK k \in S : Len(d[k].value) = len /\ b = N - k
  BY <1>2
<1>4. ASSUME NEW j \in S, j # k PROVE LongerFirst(d, j, k)
  <2>1. Len(d[j].value) \in lens /\ len <= Len(d[j].value)
    BY <1>1
  <2>2. Len(d[j].value) \in Nat /\ len \in Nat /\ j \in Nat /\ k \in Nat
    BY <1>3 DEF IsKeys
  <2>3. CASE Len(d[j].value) = len
    <3>1. N - j \in back /\ N - k <= N - j
      BY <1>2, <1>3, <2>3
    <3>2. j < k
      BY <1>4, <2>2, <3>1
    <3> QED  BY <1>3, <2>3, <3>2 DEF LongerFirst
  <2>4. CASE Len(d[j].value) # len
    BY <1>3, <2>1, <2>2, <2>4 DEF LongerFirst
  <2> QED  BY <2>3, <2>4
<1> QED  BY <1>4

LEMMA OrderMore ==
  ASSUME NEW d, NEW n \in Nat, NEW S, NEW f, Ordered(d, n, S, f), NEW k, k \notin S,
         \A j \in S : LongerFirst(d, j, k)
  PROVE  Ordered(d, n + 1, S \cup {k}, [i \in 1..(n + 1) |-> IF i = n + 1 THEN k ELSE f[i]])
<1> DEFINE g == [i \in 1..(n + 1) |-> IF i = n + 1 THEN k ELSE f[i]]
<1>1. /\ f \in [1..n -> S] /\ \A i, j \in 1..n : f[i] = f[j] => i = j
      /\ \A t \in S : \E i \in 1..n : f[i] = t
      /\ \A m, l \in 1..n : m < l => LongerFirst(d, f[m], f[l])
  BY DEF Ordered, Bijection, Injection, Surjection, IsInjective
<1>2. g \in [1..(n + 1) -> S \cup {k}] /\ g[n + 1] = k /\ \A i \in 1..n : g[i] = f[i] /\ f[i] \in S
  BY <1>1
<1> HIDE DEF g
<1>3. \A i \in 1..(n + 1) : i \in 1..n \/ i = n + 1
  OBVIOUS
<1>4. \A i, j \in 1..(n + 1) : g[i] = g[j] => i = j
  BY <1>1, <1>2, <1>3
<1>5. ASSUME NEW t \in S \cup {k} PROVE \E i \in 1..(n + 1) : g[i] = t
  <2>1. CASE t = k
    <3>1. n + 1 \in 1..(n + 1)
      OBVIOUS
    <3> QED  BY <1>2, <2>1, <3>1
  <2>2. CASE t \in S
    <3>1. PICK i \in 1..n : f[i] = t
      BY <1>1, <2>2
    <3>2. i \in 1..(n + 1) /\ g[i] = t
      BY <1>2, <3>1
    <3> QED  BY <3>2
  <2> QED  BY <2>1, <2>2
<1>6. ASSUME NEW m \in 1..(n + 1), NEW l \in 1..(n + 1), m < l PROVE LongerFirst(d, g[m], g[l])
  <2>1. m \in 1..n
    BY <1>6
  <2>2. CASE l \in 1..n
    BY <1>1, <1>2, <1>6, <2>1, <2>2
  <2>3. CASE l = n + 1
    BY <1>2, <2>1, <2>3
  <2> QED  BY <1>3, <2>2, <2>3
<1>7. g \in Bijection(1..(n + 1), S \cup {k})
  BY <1>2, <1>4, <1>5 DEF Bijection, Injection, Surjection, IsInjective
<1> QED  BY <1>6, <1>7 DEF Ordered, g

LEMMA CanBeOrdered ==
  ASSUME NEW d, NEW M, IsFiniteSet(M), IsKeys(d, M), NEW N \in Nat, \A k \in M : k <= N
  PROVE  \E f : Ordered(d, Cardinality(M), M, f)
<1>0. Cardinality(M) \in Nat
  BY FS_CardinalityType
<1> DEFINE T == {n \in 0..Cardinality(M) : \A S \in SUBSET M : Cardinality(S) = n => \E f : Ordered(d, n, S, f)}
<1>1. 0 \in T
  <2>1. ASSUME NEW S \in SUBSET M, Cardinality(S) = 0 PROVE \E f : Ordered(d, 0, S, f)
    <3>1. S = {}
      BY <2>1, FS_Subset, FS_EmptySet
    <3>2. Ordered(d, 0, S, [i \in {} |-> 0])
      BY <3>1 DEF Ordered, Bijection, Injection, Surjection, IsInjective
    <3> QED  BY <3>2
  <2> QED  BY <1>0, <2>1
<1>2. ASSUME NEW n \in 0..Cardinality(M), n + 1 \in 0..Cardinality(M), n \in T PROVE n + 1 \in T
  <2>1. ASSUME NEW S \in SUBSET M, Cardinality(S) = n + 1 PROVE \E f : Ordered(d, n + 1, S, f)
    <3>1. IsFiniteSet(S) /\ S # {}
      <4>1. n + 1 # 0
        BY <1>2
      <4> QED  BY <2>1, <4>1, FS_Subset, FS_EmptySet
    <3>2. PICK k \in S : \A j \in S : j # k => LongerFirst(d, j, k)
      <4>1. IsKeys(d, S) /\ \A k \in S : k <= N
        BY DEF IsKeys
      <4> QED  BY <3>1, <4>1, LastKey
    <3>3. Cardinality(S \ {k}) = n
      <4>1. Cardinality(S \ {k}) = Cardinality(S) - 1
        BY <3>1, FS_RemoveElement
      <4> QED  BY <1>2, <2>1, <4>1
    <3>4. PICK f : Ordered(d, n, S \ {k}, f)
      BY <1>2, <3>3
    <3>5. (S \ {k}) \cup {k} = S /\ k \notin S \ {k} /\ n \in Nat
      BY <1>2
    <3>6. \A j \in S \ {k} : LongerFirst(d, j, k)
      BY <3>2
    <3> DEFINE S1 == S \ {k}
    <3> HIDE DEF S1
    <3>7. \E g : Ordered(d, n + 1, S1 \cup {k}, g)
      BY <3>4, <3>5, <3>6, OrderMore DEF S1
    <3> QED  BY <3>5, <3>7 DEF S1
  <2> QED  BY <1>2, <2>1
<1>3. T = 0..Cardinality(M)
  <2>1. T \in SUBSET (0..Cardinality(M))
    OBVIOUS
  <2> HIDE DEF T
  <2> QED  BY <1>0, <1>1, <1>2, <2>1, HandedOn
<1> QED  BY <1>0, <1>3

(* The values the filter works with: every maskable one, the longest first.  *)
Knows(d, vs) ==
  /\ DOMAIN vs = 1..Len(vs) /\ Len(vs) \in Nat
  /\ \A n \in 1..Len(vs) : /\ vs[n].key \in Maskable(d) /\ vs[n].key \in Nat \ {0}
                           /\ vs[n].value = d[vs[n].key].value
                           /\ vs[n].value \in Seq(Nat) /\ Len(vs[n].value) \in Nat \ {0}
  /\ \A v \in Values(d) : v \in Seq(Nat) /\ \E n \in 1..Len(vs) : vs[n].value = v
  /\ \A m, n \in 1..Len(vs) : m < n => Len(vs[n].value) <= Len(vs[m].value)

LEMMA MaskableKeys ==
  ASSUME NEW d, IsDoc(d)
  PROVE  /\ IsFiniteSet(Maskable(d)) /\ Cardinality(Maskable(d)) \in Nat /\ IsKeys(d, Maskable(d))
         /\ \A k \in Maskable(d) : k \in Nat \ {0} /\ k <= Len(d) /\ d[k].value \in Seq(Nat) /\ Len(d[k].value) \in Nat \ {0}
<1>1. \A k \in Maskable(d) : k \in Nat \ {0} /\ k <= Len(d) /\ k \in 1..Len(d) /\ d[k].value \in Seq(Nat)
  BY DEF IsDoc, Maskable
<1>2. \A k \in Maskable(d) : Len(d[k].value) \in Nat \ {0}
  <2>1. ASSUME NEW k \in Maskable(d) PROVE Len(d[k].value) \in Nat \ {0}
    <3>1. Len(d[k].value) \in Nat /\ Len(d[k].value) >= MIN_MASKED_LEN
      BY <1>1, LenProperties DEF Maskable
    <3> QED  BY <3>1, FilterConstants
  <2> QED  BY <2>1
<1>3. IsFiniteSet(Maskable(d))
  <2>1. IsFiniteSet(1..Len(d)) /\ Maskable(d) \subseteq 1..Len(d)
    BY <1>1, FS_Interval DEF IsDoc
  <2> QED  BY <2>1, FS_Subset
<1> QED  BY <1>1, <1>2, <1>3, FS_CardinalityType DEF IsKeys

LEMMA FromDocKnows ==
  ASSUME NEW d, IsDoc(d)
  PROVE  Knows(d, from_doc(d))
<1> DEFINE M == Maskable(d)
           N == Cardinality(M)
           keys == CHOOSE f \in Bijection(1..N, M) : \A m, n \in 1..N : m < n => LongerFirst(d, f[m], f[n])
<1>1. \E f : Ordered(d, N, M, f)
  <2>1. Len(d) \in Nat
    BY DEF IsDoc
  <2> QED  BY <2>1, MaskableKeys, CanBeOrdered
<1>2. from_doc(d) = [n \in 1..N |-> [key |-> keys[n], value |-> d[keys[n]].value]]
  BY DEF from_doc
<1>3. keys \in Bijection(1..N, M) /\ \A m, n \in 1..N : m < n => LongerFirst(d, keys[m], keys[n])
  BY <1>1 DEF Ordered
<1> HIDE DEF keys
<1>4. PICK vs : vs = [n \in 1..N |-> [key |-> keys[n], value |-> d[keys[n]].value]]
  OBVIOUS
<1>5. /\ \A n \in 1..N : keys[n] \in M
      /\ \A k \in M : \E n \in 1..N : keys[n] = k
  BY <1>3 DEF Bijection, Injection, Surjection
<1>6. N \in Nat /\ \A k \in M : k \in Nat \ {0} /\ d[k].value \in Seq(Nat) /\ Len(d[k].value) \in Nat \ {0}
  BY MaskableKeys
<1> HIDE DEF M, N
<1>7. /\ DOMAIN vs = 1..N
      /\ \A n \in 1..N : vs[n].key = keys[n] /\ vs[n].value = d[keys[n]].value
  BY <1>4
<1>8. Len(vs) = N
  <2>1. vs \in [1..N -> {vs[n] : n \in 1..N}]
    BY <1>4
  <2> QED  BY <1>6, <2>1, SeqDef, LenProperties
<1>9. \A n \in 1..N : /\ vs[n].key \in M /\ vs[n].key \in Nat \ {0} /\ vs[n].value = d[vs[n].key].value
                      /\ vs[n].value \in Seq(Nat) /\ Len(vs[n].value) \in Nat \ {0}
  BY <1>5, <1>6, <1>7
<1>10. \A v \in Values(d) : v \in Seq(Nat) /\ \E n \in 1..N : vs[n].value = v
  BY <1>5, <1>6, <1>7 DEF Values, M
<1>11. ASSUME NEW m \in 1..N, NEW n \in 1..N, m < n PROVE Len(vs[n].value) <= Len(vs[m].value)
  <2>1. LongerFirst(d, keys[m], keys[n])
    BY <1>3, <1>11
  <2>2. vs[m].value = d[keys[m]].value /\ vs[n].value = d[keys[n]].value
    BY <1>7
  <2>3. Len(vs[m].value) \in Nat /\ Len(vs[n].value) \in Nat
    BY <1>9
  <2> QED  BY <2>1, <2>2, <2>3 DEF LongerFirst
<1>12. /\ DOMAIN vs = 1..Len(vs) /\ Len(vs) \in Nat
       /\ \A v \in Values(d) : v \in Seq(Nat) /\ \E n \in 1..Len(vs) : vs[n].value = v
       /\ \A m, n \in 1..Len(vs) : m < n => Len(vs[n].value) <= Len(vs[m].value)
  BY <1>6, <1>7, <1>8, <1>10, <1>11
<1>13. \A n \in 1..Len(vs) : /\ vs[n].key \in Maskable(d) /\ vs[n].key \in Nat \ {0}
                              /\ vs[n].value = d[vs[n].key].value
                              /\ vs[n].value \in Seq(Nat) /\ Len(vs[n].value) \in Nat \ {0}
  BY <1>8, <1>9 DEF M
<1>14. from_doc(d) = vs
  BY <1>2, <1>4
<1> QED  BY <1>12, <1>13, <1>14 DEF Knows

(* What the filter finds at a place of a text.                               *)
Chars == Seq(Int)

LEMMA HasAtIs ==
  ASSUME NEW s \in Chars, NEW v \in Seq(Nat), Len(v) \in Nat \ {0}, NEW i \in Nat \ {0}
  PROVE  HasAt(s, i, v) <=> i + Len(v) - 1 <= Len(s) /\ \A m \in 1..Len(v) : s[i + m - 1] = v[m]
<1>1. Len(s) \in Nat /\ v \in Seq(Int) /\ DOMAIN s = 1..Len(s) /\ \A j \in 1..Len(s) : s[j] \in Int
  BY LenProperties DEF Chars
<1>2. ASSUME i + Len(v) - 1 <= Len(s)
      PROVE  SubSeq(s, i, i + Len(v) - 1) = v <=> \A m \in 1..Len(v) : s[i + m - 1] = v[m]
  <2>1. PICK n : n = i + Len(v) - 1
    OBVIOUS
  <2>2. i \in Int /\ n \in Int /\ i <= n /\ n <= Len(s) /\ n - i + 1 = Len(v)
    BY <1>2, <2>1
  <2>3. \A j \in i..n : s[j] \in Int
    BY <1>1, <2>2
  <2>4. PICK u : u = SubSeq(s, i, n)
    OBVIOUS
  <2>5. u \in Seq(Int) /\ Len(u) = Len(v) /\ \A m \in 1..Len(v) : u[m] = s[i + m - 1]
    BY <2>2, <2>3, <2>4, SubSeqProperties
  <2>6. u = v <=> \A m \in 1..Len(v) : u[m] = v[m]
    BY <1>1, <2>5, SeqEqual
  <2> QED  BY <2>1, <2>4, <2>5, <2>6
<1> QED  BY <1>2 DEF HasAt

(* The first value that begins at a place, 0 if none does.                   *)
First(vs, s, i) == SelectInSeq(vs, LAMBDA v : HasAt(s, i, v.value))

LEMMA FirstIs ==
  ASSUME NEW vs, Len(vs) \in Nat, NEW s, NEW i
  PROVE  \/ First(vs, s, i) = 0 /\ \A n \in 1..Len(vs) : ~HasAt(s, i, vs[n].value)
         \/ /\ First(vs, s, i) \in 1..Len(vs) /\ HasAt(s, i, vs[First(vs, s, i)].value)
            /\ \A n \in 1..Len(vs) : HasAt(s, i, vs[n].value) => First(vs, s, i) <= n
<1> DEFINE I == {n \in 1..Len(vs) : HasAt(s, i, vs[n].value)}
<1>1. First(vs, s, i) = IF I # {} THEN Min(I) ELSE 0
  BY DEF First, SelectInSeq
<1>2. CASE I = {}
  BY <1>1, <1>2
<1>3. CASE I # {}
  <2>1. I \in SUBSET Nat
    OBVIOUS
  <2>2. PICK k \in I : \A j \in I : k <= j
    <3> HIDE DEF I
    <3> QED  BY <1>3, <2>1, Least
  <2>3. Min(I) \in I /\ \A j \in I : Min(I) <= j
    BY <2>2 DEF Min
  <2> QED  BY <1>1, <1>3, <2>3
<1> QED  BY <1>2, <1>3

(* The scan, as scrub_str computes it.                                       *)
ScanFrom(vs, s, i, scan) ==
  IF i > Len(s) THEN <<>>
  ELSE IF First(vs, s, i) = 0 THEN <<s[i]>> \o scan[i + 1]
       ELSE <<-vs[First(vs, s, i)].key>> \o scan[i + Len(vs[First(vs, s, i)].value)]
ScanRun(vs, s, k, scan) ==
  scan = [i \in k..(Len(s) + 1) |-> ScanFrom(vs, s, i, scan)]

(* Where the scan goes on is behind, and no further than the end. *)
LEMMA GoesOn ==
  ASSUME NEW d, NEW vs, Knows(d, vs), NEW s \in Chars, NEW i \in 1..Len(s), First(vs, s, i) # 0
  PROVE  /\ First(vs, s, i) \in 1..Len(vs)
         /\ i + Len(vs[First(vs, s, i)].value) \in (i + 1)..(Len(s) + 1)
<1>1. Len(vs) \in Nat /\ Len(s) \in Nat
  BY LenProperties DEF Knows, Chars
<1>2. PICK h : h = First(vs, s, i)
  OBVIOUS
<1>3. h \in 1..Len(vs) /\ HasAt(s, i, vs[h].value)
  BY <1>1, <1>2, FirstIs
<1>4. vs[h].value \in Seq(Nat) /\ Len(vs[h].value) \in Nat \ {0} /\ i + Len(vs[h].value) - 1 <= Len(s)
  BY <1>3 DEF Knows, HasAt
<1>5. i + Len(vs[h].value) \in (i + 1)..(Len(s) + 1)
  BY <1>1, <1>4
<1> QED  BY <1>2, <1>3, <1>5

LEMMA ScanRuns ==
  ASSUME NEW d, NEW vs, Knows(d, vs), NEW s \in Chars
  PROVE  \E scan : ScanRun(vs, s, 1, scan) /\ scrub_str(vs, s) = scan[1]
<1>0. Len(s) \in Nat
  BY LenProperties DEF Chars
<1> DEFINE T == {k \in 0..Len(s) : \E scan : ScanRun(vs, s, Len(s) + 1 - k, scan)}
<1>1. 0 \in T
  <2> DEFINE scan == [i \in (Len(s) + 1)..(Len(s) + 1) |-> <<>>]
  <2>1. \A i \in (Len(s) + 1)..(Len(s) + 1) : ScanFrom(vs, s, i, scan) = <<>>
    BY <1>0 DEF ScanFrom
  <2>2. ScanRun(vs, s, Len(s) + 1, scan)
    BY <2>1 DEF ScanRun
  <2> QED  BY <1>0, <2>2
<1>2. ASSUME NEW k \in 0..Len(s), k + 1 \in 0..Len(s), k \in T PROVE k + 1 \in T
  <2>1. PICK scan : ScanRun(vs, s, Len(s) + 1 - k, scan)
    BY <1>2
  <2>2. PICK j : j = Len(s) - k
    OBVIOUS
  <2>3. j \in 1..Len(s) /\ j + 1 = Len(s) + 1 - k /\ j = Len(s) + 1 - (k + 1)
    BY <1>0, <1>2, <2>2
  <2> DEFINE more == [i \in j..(Len(s) + 1) |-> IF i = j THEN ScanFrom(vs, s, j, scan) ELSE scan[i]]
  <2>4. ASSUME NEW i \in j..(Len(s) + 1) PROVE more[i] = ScanFrom(vs, s, i, more)
    <3>1. \A l \in (i + 1)..(Len(s) + 1) : more[l] = scan[l]
      BY <1>0, <2>3
    <3>2. more[i] = ScanFrom(vs, s, i, scan)
      <4>1. CASE i = j
        BY <1>0, <2>3, <4>1
      <4>2. CASE i # j
        <5>1. i \in (j + 1)..(Len(s) + 1)
          BY <1>0, <2>3, <4>2
        <5>2. scan[i] = ScanFrom(vs, s, i, scan)
          BY <2>1, <2>3, <5>1 DEF ScanRun
        <5> QED  BY <4>2, <5>2
      <4> QED  BY <4>1, <4>2
    <3> HIDE DEF more
    <3>3. CASE i > Len(s)
      BY <3>2, <3>3 DEF ScanFrom
    <3>4. CASE ~(i > Len(s))
      <4>1. i \in 1..Len(s) /\ i + 1 \in (i + 1)..(Len(s) + 1)
        BY <1>0, <2>3, <3>4
      <4>2. First(vs, s, i) # 0 => i + Len(vs[First(vs, s, i)].value) \in (i + 1)..(Len(s) + 1)
        BY <4>1, GoesOn
      <4> QED  BY <3>1, <3>2, <3>4, <4>1, <4>2 DEF ScanFrom
    <3> QED  BY <3>3, <3>4
  <2>5. ScanRun(vs, s, j, more)
    BY <2>4 DEF ScanRun
  <2> QED  BY <1>2, <2>3, <2>5
<1>3. T = 0..Len(s)
  <2>1. T \in SUBSET (0..Len(s))
    OBVIOUS
  <2> HIDE DEF T
  <2> QED  BY <1>0, <1>1, <1>2, <2>1, HandedOn
<1>4. \E scan : ScanRun(vs, s, 1, scan)
  <2>1. Len(s) \in T /\ Len(s) + 1 - Len(s) = 1
    BY <1>0, <1>3
  <2> QED  BY <2>1
<1>5. \E scan : scan = [i \in 1..Len(s) + 1 |->
                          IF i > Len(s) THEN <<>>
                          ELSE LET hit == SelectInSeq(vs, LAMBDA v : HasAt(s, i, v.value))
                               IN  IF hit = 0 THEN <<s[i]>> \o scan[i + 1]
                                   ELSE <<-vs[hit].key>> \o scan[i + Len(vs[hit].value)]]
  BY <1>4 DEF ScanRun, ScanFrom, First
<1> QED  BY <1>5 DEF scrub_str, ScanRun, ScanFrom, First

(* Texts in front of texts.                                                  *)
Concat(u, v) == u \o v

LEMMA ConcatIs ==
  ASSUME NEW u \in Chars, NEW v \in Chars
  PROVE  /\ Concat(u, v) \in Chars /\ Len(Concat(u, v)) = Len(u) + Len(v) /\ Len(u) \in Nat /\ Len(v) \in Nat
         /\ \A i \in 1..Len(u) : Concat(u, v)[i] = u[i]
         /\ \A i \in 1..Len(v) : Concat(u, v)[Len(u) + i] = v[i]
<1>1. u \in Seq(Int) /\ v \in Seq(Int) /\ Len(u) \in Nat /\ Len(v) \in Nat
  BY LenProperties DEF Chars
<1>2. PICK w : w = u \o v
  OBVIOUS
<1>3. /\ w \in Seq(Int) /\ Len(w) = Len(u) + Len(v)
      /\ \A i \in 1..(Len(u) + Len(v)) : w[i] = IF i <= Len(u) THEN u[i] ELSE v[i - Len(u)]
  BY <1>1, <1>2, ConcatProperties
<1>4. \A i \in 1..Len(u) : w[i] = u[i]
  BY <1>1, <1>3
<1>5. ASSUME NEW i \in 1..Len(v) PROVE w[Len(u) + i] = v[i]
  <2>1. Len(u) + i \in 1..(Len(u) + Len(v)) /\ ~(Len(u) + i <= Len(u)) /\ (Len(u) + i) - Len(u) = i
    BY <1>1
  <2> QED  BY <1>3, <2>1
<1> QED  BY <1>1, <1>2, <1>3, <1>4, <1>5 DEF Concat, Chars

LEMMA ConcatType == ASSUME NEW u \in Chars, NEW v \in Chars PROVE Concat(u, v) \in Chars
BY ConcatIs

LEMMA ConcatRegroups ==
  ASSUME NEW u \in Chars, NEW v \in Chars, NEW w \in Chars
  PROVE  Concat(Concat(u, v), w) = Concat(u, Concat(v, w))
BY ConcatAssociative DEF Concat, Chars

LEMMA ConcatBlank ==
  ASSUME NEW u \in Chars
  PROVE  Concat(u, <<>>) = u /\ Concat(<<>>, u) = u /\ <<>> \in Chars /\ Len(<<>>) = 0
BY ConcatEmptySeq, EmptySeq DEF Concat, Chars

LEMMA OneChar == ASSUME NEW c \in Int PROVE <<c>> \in Chars /\ Len(<<c>>) = 1 /\ <<c>>[1] = c
BY DEF Chars

(* FlattenSeq, place by place.                                               *)
FlatRun(f, n, flat) == flat = [i \in 1..n |-> IF i = 1 THEN f[i] ELSE flat[i - 1] \o f[i]]

LEMMA FlatRuns ==
  ASSUME NEW f, Len(f) \in Nat \ {0}
  PROVE  \E flat : FlatRun(f, Len(f), flat) /\ FlattenSeq(f) = flat[Len(f)]
<1> DEFINE last == Len(f) - 1
           T == {k \in 0..last : \E flat : FlatRun(f, k + 1, flat)}
<1>0. last \in Nat /\ last + 1 = Len(f)
  OBVIOUS
<1>1. 0 \in T
  <2>1. FlatRun(f, 1, [i \in 1..1 |-> f[1]])
    BY DEF FlatRun
  <2> QED  BY <1>0, <2>1
<1>2. ASSUME NEW k \in 0..last, k + 1 \in 0..last, k \in T PROVE k + 1 \in T
  <2>1. PICK flat : FlatRun(f, k + 1, flat)
    BY <1>2
  <2> DEFINE j == k + 1
             more == [i \in 1..(j + 1) |-> IF i = j + 1 THEN flat[j] \o f[j + 1] ELSE flat[i]]
  <2>2. \A i \in 1..j : flat[i] = IF i = 1 THEN f[i] ELSE flat[i - 1] \o f[i]
    BY <2>1 DEF FlatRun
  <2>3. j \in Nat \ {0}
    BY <1>2
  <2> HIDE DEF j
  <2>4. ASSUME NEW i \in 1..(j + 1) PROVE more[i] = IF i = 1 THEN f[i] ELSE more[i - 1] \o f[i]
    <3>1. CASE i = j + 1
      <4>1. i # 1 /\ i - 1 = j /\ j # j + 1 /\ j \in 1..(j + 1) /\ j + 1 \in 1..(j + 1)
        BY <2>3, <3>1
      <4>2. more[j] = flat[j] /\ more[j + 1] = flat[j] \o f[j + 1]
        BY <4>1
      <4> HIDE DEF more
      <4> QED  BY <3>1, <4>1, <4>2
    <3>2. CASE i # j + 1
      <4>1. i \in 1..j /\ more[i] = flat[i] /\ (i # 1 => more[i - 1] = flat[i - 1])
        BY <2>3, <3>2
      <4> HIDE DEF more
      <4> QED  BY <2>2, <4>1
    <3> QED  BY <3>1, <3>2
  <2>5. FlatRun(f, j + 1, more)
    BY <2>4 DEF FlatRun
  <2> QED  BY <1>2, <2>5 DEF j
<1>3. T = 0..last
  <2>1. T \in SUBSET (0..last)
    OBVIOUS
  <2> HIDE DEF T, last
  <2> QED  BY <1>0, <1>1, <1>2, <2>1, HandedOn
<1>4. \E flat : FlatRun(f, Len(f), flat)
  <2>1. last \in 0..last
    BY <1>0
  <2>2. PICK flat : FlatRun(f, last + 1, flat)
    BY <1>3, <2>1
  <2> QED  BY <1>0, <2>2
<1>5. \E flat : flat = [i \in 1..Len(f) |-> IF i = 1 THEN f[i] ELSE flat[i - 1] \o f[i]]
  BY <1>4 DEF FlatRun
<1> QED  BY <1>5 DEF FlattenSeq, FlatRun

(* What is put in front of the texts stands in front of their flattening.    *)
LEMMA FlatMore ==
  ASSUME NEW x \in Chars, NEW f, NEW n \in Nat, Len(f) = n, \A i \in 1..n : f[i] \in Chars, n = 0 => f = <<>>,
         NEW g, Len(g) = n + 1, g[1] = x, \A i \in 1..n : g[i + 1] = f[i]
  PROVE  FlattenSeq(f) \in Chars /\ FlattenSeq(g) = Concat(x, FlattenSeq(f))
<1>1. PICK G : FlatRun(g, n + 1, G) /\ FlattenSeq(g) = G[n + 1]
  BY FlatRuns
<1>2. \A i \in 1..(n + 1) : G[i] = IF i = 1 THEN g[i] ELSE G[i - 1] \o g[i]
  BY <1>1 DEF FlatRun
<1>3. CASE n = 0
  <2>1. FlattenSeq(f) = <<>>
    BY <1>3 DEF FlattenSeq
  <2>2. FlattenSeq(g) = x
    BY <1>1, <1>2, <1>3
  <2> QED  BY <2>1, <2>2, ConcatBlank
<1>4. CASE n # 0
  <2>1. PICK F : FlatRun(f, n, F) /\ FlattenSeq(f) = F[n]
    BY <1>4, FlatRuns
  <2>2. \A i \in 1..n : F[i] = IF i = 1 THEN f[i] ELSE F[i - 1] \o f[i]
    BY <2>1 DEF FlatRun
  <2> DEFINE T == {k \in 0..(n - 1) : F[k + 1] \in Chars /\ G[(k + 1) + 1] = Concat(x, F[k + 1])}
  <2>3. 0 \in T
    <3>1. 1 \in 1..n /\ 1 \in 1..(n + 1) /\ 2 \in 1..(n + 1) /\ 2 # 1 /\ 2 - 1 = 1 /\ 1 + 1 = 2
      BY <1>4
    <3>2. F[1] = f[1] /\ G[1] = x /\ G[2] = G[1] \o g[2] /\ g[2] = f[1] /\ f[1] \in Chars
      BY <1>2, <2>2, <3>1
    <3>3. F[1] \in Chars /\ G[2] = Concat(x, F[1])
      BY <3>2 DEF Concat
    <3>4. 0 \in 0..(n - 1) /\ 0 + 1 = 1 /\ (0 + 1) + 1 = 2
      BY <1>4
    <3> QED  BY <3>3, <3>4
  <2>4. ASSUME NEW k \in 0..(n - 1), k + 1 \in 0..(n - 1), k \in T PROVE k + 1 \in T
    <3>1. PICK i : i = k + 1
      OBVIOUS
    <3>2. i \in 1..n /\ i + 1 \in 1..n /\ (i + 1) + 1 \in 1..(n + 1) /\ i + 1 # 1 /\ (i + 1) - 1 = i
          /\ (i + 1) + 1 # 1 /\ ((i + 1) + 1) - 1 = i + 1
      BY <2>4, <3>1
    <3>3. F[i] \in Chars /\ G[i + 1] = Concat(x, F[i])
      BY <2>4, <3>1
    <3>4. F[i + 1] = Concat(F[i], f[i + 1]) /\ G[(i + 1) + 1] = Concat(G[i + 1], f[i + 1]) /\ f[i + 1] \in Chars
      BY <1>2, <2>2, <3>2 DEF Concat
    <3>5. F[i + 1] \in Chars
      BY <3>3, <3>4, ConcatType
    <3>6. Concat(Concat(x, F[i]), f[i + 1]) = Concat(x, Concat(F[i], f[i + 1]))
      BY <3>3, <3>4, ConcatRegroups
    <3>7. G[(i + 1) + 1] = Concat(x, F[i + 1])
      BY <3>3, <3>4, <3>6
    <3> QED  BY <2>4, <3>1, <3>5, <3>7
  <2>5. T = 0..(n - 1)
    <3>1. T \in SUBSET (0..(n - 1)) /\ n - 1 \in Nat
      BY <1>4
    <3> HIDE DEF T
    <3> QED  BY <2>3, <2>4, <3>1, HandedOn
  <2>6. n - 1 \in 0..(n - 1) /\ (n - 1) + 1 = n
    BY <1>4
  <2>7. n - 1 \in T
    <3> HIDE DEF T
    <3> QED  BY <2>5, <2>6
  <2>8. F[n] \in Chars /\ G[n + 1] = Concat(x, F[n])
    BY <2>6, <2>7
  <2> QED  BY <1>1, <2>1, <2>8
<1> QED  BY <1>3, <1>4

(* What a character of a masked text stands for.                             *)
Piece(d, x) == IF x < 0 THEN d[-x].value ELSE <<x>>
Legible(d, t) == \A m \in 1..Len(t) : Piece(d, t[m]) \in Chars

LEMMA ExpandedEmpty == \A d : Expanded(d, <<>>) = <<>>
<1> TAKE d
<1>1. PICK e : e = [i \in DOMAIN <<>> |-> IF <<>>[i] < 0 THEN d[-<<>>[i]].value ELSE <<<<>>[i]>>]
  OBVIOUS
<1>2. e = <<>> /\ Len(e) = 0
  BY <1>1
<1> QED  BY <1>1, <1>2 DEF Expanded, FlattenSeq

LEMMA ExpandedMore ==
  ASSUME NEW d, NEW c \in Int, Piece(d, c) \in Chars, NEW t \in Chars, Legible(d, t)
  PROVE  Expanded(d, t) \in Chars /\ Expanded(d, Concat(<<c>>, t)) = Concat(Piece(d, c), Expanded(d, t))
<1> DEFINE Pieces(u) == [i \in DOMAIN u |-> IF u[i] < 0 THEN d[-u[i]].value ELSE <<u[i]>>]
<1>1. PICK w : w = Concat(<<c>>, t)
  OBVIOUS
<1>2. PICK n : n = Len(t)
  OBVIOUS
<1>3. n \in Nat /\ Len(w) = n + 1 /\ w \in Chars /\ w[1] = c /\ \A i \in 1..n : w[i + 1] = t[i]
  <2>1. Len(<<c>>) = 1 /\ <<c>>[1] = c /\ <<c>> \in Chars /\ 1 \in 1..1
    BY OneChar
  <2>2. /\ w \in Chars /\ Len(w) = 1 + Len(t) /\ Len(t) \in Nat
        /\ \A i \in 1..1 : w[i] = <<c>>[i]
        /\ \A i \in 1..Len(t) : w[1 + i] = t[i]
    BY <1>1, <2>1, ConcatIs
  <2>3. \A i \in 1..n : 1 + i = i + 1
    OBVIOUS
  <2> QED  BY <1>2, <2>1, <2>2, <2>3
<1>4. DOMAIN t = 1..n /\ DOMAIN w = 1..(n + 1)
  BY <1>2, <1>3, LenProperties DEF Chars
<1>5. PICK f : f = Pieces(t)
  OBVIOUS
<1>6. PICK g : g = Pieces(w)
  OBVIOUS
<1>7. f = [i \in 1..n |-> Piece(d, t[i])] /\ g = [i \in 1..(n + 1) |-> Piece(d, w[i])]
  BY <1>4, <1>5, <1>6 DEF Piece
<1>8. Expanded(d, t) = FlattenSeq(f) /\ Expanded(d, w) = FlattenSeq(g)
  BY <1>5, <1>6 DEF Expanded
<1> HIDE DEF Pieces
<1>9. Len(f) = n /\ (n = 0 => f = <<>>)
  <2>1. f \in [1..n -> {f[i] : i \in 1..n}]
    BY <1>7
  <2>2. f \in Seq({f[i] : i \in 1..n})
    BY <1>3, <2>1, SeqDef
  <2>3. Len(f) = n
    BY <1>3, <2>1, <2>2, LenProperties
  <2> QED  BY <2>2, <2>3, EmptySeq
<1>10. Len(g) = n + 1
  <2>1. g \in [1..(n + 1) -> {g[i] : i \in 1..(n + 1)}] /\ n + 1 \in Nat
    BY <1>3, <1>7
  <2>2. g \in Seq({g[i] : i \in 1..(n + 1)})
    BY <2>1, SeqDef
  <2> QED  BY <2>1, <2>2, LenProperties
<1>11. g[1] = Piece(d, c) /\ \A i \in 1..n : g[i + 1] = f[i] /\ f[i] \in Chars
  <2>1. 1 \in 1..(n + 1)
    BY <1>3
  <2>2. ASSUME NEW i \in 1..n PROVE g[i + 1] = f[i] /\ f[i] \in Chars
    <3>1. i + 1 \in 1..(n + 1)
      BY <1>3
    <3> QED  BY <1>2, <1>3, <1>7, <3>1 DEF Legible
  <2> QED  BY <1>3, <1>7, <2>1, <2>2
<1>12. FlattenSeq(f) \in Chars /\ FlattenSeq(g) = Concat(Piece(d, c), FlattenSeq(f))
  BY <1>3, <1>9, <1>10, <1>11, FlatMore
<1> QED  BY <1>1, <1>8, <1>12

(* What the scan has made of a text from place i on.                         *)
Plain(out, l) == \A m \in 1..l : out[m] >= 0
Copied(s, i, out) ==
  \A l \in 0..Len(out) : Plain(out, l) => i + l - 1 <= Len(s) /\ \A m \in 1..l : s[i + m - 1] = out[m]
NoneLeft(d, out) == \A v \in Values(d) : \A m \in 1..Len(out) : ~HasAt(out, m, v)
FromText(s, out) == \A m \in 1..Len(out) : out[m] < 0 \/ \E k \in 1..Len(s) : out[m] = s[k]
WholeIfPlain(s, i, out) == Plain(out, Len(out)) => Len(out) = Len(s) + 1 - i
PlaceIn(d, i, out, m) == i + Len(Expanded(d, SubSeq(out, 1, m - 1)))
LongestAt(d, s, i, out, m) ==
  out[m] < 0 => \A v \in Values(d) : HasAt(s, PlaceIn(d, i, out, m), v) => Len(v) <= Len(d[-out[m]].value)
Longest(d, s, i, out) == \A m \in 1..Len(out) : LongestAt(d, s, i, out, m)
Stands(d, s, i, out) == Legible(d, out) /\ Expanded(d, out) = SubSeq(s, i, Len(s)) /\ Longest(d, s, i, out)

(* out is t with a character before it. *)
Begins(c, t, out) ==
  /\ out = Concat(<<c>>, t) /\ t \in Chars /\ out \in Chars /\ c \in Int
  /\ Len(t) \in Nat /\ Len(out) = Len(t) + 1
  /\ out[1] = c /\ \A m \in 1..Len(t) : out[m + 1] = t[m]

LEMMA BeginsIs ==
  ASSUME NEW c \in Int, NEW t \in Chars
  PROVE  Begins(c, t, Concat(<<c>>, t))
<1>1. <<c>> \in Chars /\ Len(<<c>>) = 1 /\ <<c>>[1] = c
  BY OneChar
<1>2. PICK u : u = <<c>>
  OBVIOUS
<1>3. PICK w : w = Concat(u, t)
  OBVIOUS
<1>4. /\ w \in Chars /\ Len(w) = 1 + Len(t) /\ Len(t) \in Nat
      /\ \A i \in 1..1 : w[i] = u[i]
      /\ \A i \in 1..Len(t) : w[1 + i] = t[i]
  BY <1>1, <1>2, <1>3, ConcatIs
<1>5. w[1] = c
  BY <1>1, <1>2, <1>4
<1>6. \A m \in 1..Len(t) : w[m + 1] = t[m] /\ m + 1 = 1 + m
  BY <1>4
<1> QED  BY <1>2, <1>3, <1>4, <1>5, <1>6 DEF Begins

LEMMA BeginsPlaces ==
  ASSUME NEW c, NEW t, NEW out, Begins(c, t, out), NEW m \in 1..Len(out)
  PROVE  m = 1 \/ (m - 1 \in 1..Len(t) /\ out[m] = t[m - 1])
<1>1. m # 1 => m - 1 \in 1..Len(t) /\ (m - 1) + 1 = m
  BY DEF Begins
<1> QED  BY <1>1 DEF Begins

(* Values are texts of at least one character. *)
ValuesAreTexts(d) == \A v \in Values(d) : v \in Seq(Nat) /\ Len(v) \in Nat \ {0}

LEMMA KnownAreTexts ==
  ASSUME NEW d, NEW vs, Knows(d, vs)
  PROVE  ValuesAreTexts(d)
BY DEF Knows, ValuesAreTexts

LEMMA NoneBehind ==
  ASSUME NEW d, ValuesAreTexts(d), NEW c, NEW t, NEW out, Begins(c, t, out), NoneLeft(d, t),
         \A v \in Values(d) : ~HasAt(out, 1, v)
  PROVE  NoneLeft(d, out)
<1>1. SUFFICES ASSUME NEW v \in Values(d), NEW m \in 1..Len(out), HasAt(out, m, v) PROVE FALSE
  BY DEF NoneLeft
<1>2. v \in Seq(Nat) /\ Len(v) \in Nat \ {0} /\ out \in Chars /\ t \in Chars
  BY DEF ValuesAreTexts, Begins
<1>3. m # 1
  BY <1>1
<1>4. m - 1 \in 1..Len(t) /\ m \in Nat \ {0} /\ m - 1 \in Nat \ {0}
  BY <1>3, BeginsPlaces DEF Begins
<1>5. m + Len(v) - 1 <= Len(out) /\ \A k \in 1..Len(v) : out[m + k - 1] = v[k]
  BY <1>1, <1>2, <1>4, HasAtIs
<1>6. PICK p : p = m - 1
  OBVIOUS
<1>7. p + Len(v) - 1 <= Len(t)
  BY <1>2, <1>4, <1>5, <1>6 DEF Begins
<1>8. ASSUME NEW k \in 1..Len(v) PROVE t[p + k - 1] = v[k]
  <2>1. p + k - 1 \in 1..Len(t) /\ (p + k - 1) + 1 = m + k - 1
    BY <1>2, <1>4, <1>6, <1>7 DEF Begins
  <2>2. out[(p + k - 1) + 1] = t[p + k - 1]
    BY <2>1 DEF Begins
  <2> QED  BY <1>5, <2>1, <2>2
<1>9. HasAt(t, p, v)
  BY <1>2, <1>4, <1>6, <1>7, <1>8, HasAtIs
<1> QED  BY <1>4, <1>6, <1>9 DEF NoneLeft

(* What a prefix stands for begins with what its first character stands for. *)
LEMMA PrefixMore ==
  ASSUME NEW d, NEW c, Piece(d, c) \in Chars, NEW t, Legible(d, t), NEW out, Begins(c, t, out), NEW m \in 1..Len(t)
  PROVE  /\ Len(Expanded(d, SubSeq(out, 1, m))) = Len(Piece(d, c)) + Len(Expanded(d, SubSeq(t, 1, m - 1)))
         /\ Len(Piece(d, c)) \in Nat /\ Len(Expanded(d, SubSeq(t, 1, m - 1))) \in Nat
<1>0. /\ t \in Seq(Int) /\ out \in Seq(Int) /\ Len(t) \in Nat /\ Len(out) = Len(t) + 1 /\ c \in Int
      /\ out[1] = c /\ \A k \in 1..Len(t) : out[k + 1] = t[k]
  BY DEF Begins, Chars
<1>1. PICK n : n = m - 1
  OBVIOUS
<1>2. n \in Int /\ n + 1 = m /\ 0 <= n /\ n <= Len(t) /\ m \in Int
  BY <1>0, <1>1
<1>3. PICK u : u = SubSeq(t, 1, n)
  OBVIOUS
<1>4. u \in Seq(Int) /\ Len(u) = n /\ \A k \in 1..n : u[k] = t[k]
  <2>1. \A k \in 1..n : t[k] \in Int
    BY <1>0, <1>2, ElementOfSeq
  <2>2. u \in Seq(Int) /\ Len(u) = (IF 1 <= n THEN n - 1 + 1 ELSE 0) /\ \A k \in 1..(n - 1 + 1) : u[k] = t[1 + k - 1]
    BY <1>2, <1>3, <2>1, SubSeqProperties
  <2>3. Len(u) = n
    BY <1>2, <2>2
  <2>4. ASSUME NEW k \in 1..n PROVE u[k] = t[k]
    <3>1. k \in 1..(n - 1 + 1) /\ 1 + k - 1 = k
      BY <1>2
    <3> QED  BY <2>2, <3>1
  <2> QED  BY <2>2, <2>3, <2>4
<1>5. PICK w : w = SubSeq(out, 1, m)
  OBVIOUS
<1>6. w \in Seq(Int) /\ Len(w) = m /\ \A k \in 1..m : w[k] = out[k]
  <2>1. \A k \in 1..m : out[k] \in Int
    BY <1>0, <1>2, ElementOfSeq
  <2>2. w \in Seq(Int) /\ Len(w) = (IF 1 <= m THEN m - 1 + 1 ELSE 0) /\ \A k \in 1..(m - 1 + 1) : w[k] = out[1 + k - 1]
    BY <1>2, <1>5, <2>1, SubSeqProperties
  <2>3. Len(w) = m
    BY <1>2, <2>2
  <2>4. ASSUME NEW k \in 1..m PROVE w[k] = out[k]
    <3>1. k \in 1..(m - 1 + 1) /\ 1 + k - 1 = k
      BY <1>2
    <3> QED  BY <2>2, <3>1
  <2> QED  BY <2>2, <2>3, <2>4
<1>7. PICK x : x = Concat(<<c>>, u)
  OBVIOUS
<1>8. x \in Seq(Int) /\ Len(x) = n + 1 /\ x[1] = c /\ \A k \in 1..n : x[k + 1] = u[k]
  <2>1. Begins(c, u, x)
    BY <1>0, <1>4, <1>7, BeginsIs DEF Chars
  <2> QED  BY <1>4, <2>1 DEF Begins, Chars
<1>9. \A k \in 1..m : w[k] = x[k]
  <2>1. ASSUME NEW k \in 1..m PROVE w[k] = x[k]
    <3>1. CASE k = 1
      BY <1>0, <1>6, <1>8, <3>1
    <3>2. CASE k # 1
      <4>1. k - 1 \in 1..n /\ k - 1 \in 1..Len(t) /\ (k - 1) + 1 = k
        BY <1>2, <3>2
      <4>2. w[k] = out[(k - 1) + 1] /\ out[(k - 1) + 1] = t[k - 1] /\ x[(k - 1) + 1] = u[k - 1] /\ u[k - 1] = t[k - 1]
        BY <1>0, <1>4, <1>6, <1>8, <4>1
      <4> QED  BY <4>1, <4>2
    <3> QED  BY <3>1, <3>2
  <2> QED  BY <2>1
<1>10. w = x
  BY <1>2, <1>6, <1>8, <1>9, SeqEqual
<1>11. Legible(d, u)
  <2>1. \A k \in 1..n : k \in 1..Len(t)
    BY <1>2
  <2> QED  BY <1>4, <2>1 DEF Legible
<1>12. Expanded(d, u) \in Chars /\ Expanded(d, x) = Concat(Piece(d, c), Expanded(d, u))
  BY <1>0, <1>4, <1>7, <1>11, ExpandedMore DEF Chars
<1>13. Len(Expanded(d, x)) = Len(Piece(d, c)) + Len(Expanded(d, u)) /\ Len(Piece(d, c)) \in Nat /\ Len(Expanded(d, u)) \in Nat
  BY <1>12, ConcatIs
<1> QED  BY <1>1, <1>3, <1>5, <1>10, <1>13

(* What the scan has made of a text is nothing but its characters and        *)
(* markers, with no value left in it.                                        *)
Sound(d, s, i, out) ==
  /\ out \in Chars /\ Copied(s, i, out) /\ NoneLeft(d, out)
  /\ FromText(s, out) /\ WholeIfPlain(s, i, out)

LEMMA CopiedMore ==
  ASSUME NEW s \in Chars, NEW i \in 1..Len(s), NEW t, Copied(s, i + 1, t),
         NEW out, Begins(s[i], t, out)
  PROVE  Copied(s, i, out)
<1>0. /\ Len(s) \in Nat /\ i \in Nat \ {0} /\ Len(t) \in Nat /\ Len(out) = Len(t) + 1
      /\ out[1] = s[i] /\ \A m \in 1..Len(t) : out[m + 1] = t[m]
  <2>1. Len(s) \in Nat
    BY LenProperties DEF Chars
  <2> QED  BY <2>1 DEF Begins
<1>1. ASSUME NEW l \in 0..Len(out), Plain(out, l)
      PROVE  i + l - 1 <= Len(s) /\ \A m \in 1..l : s[i + m - 1] = out[m]
  <2>1. CASE l = 0
    BY <1>0, <2>1
  <2>2. CASE l # 0
    <3>1. PICK k : k = l - 1
      OBVIOUS
    <3>2. k \in 0..Len(t) /\ k + 1 = l /\ \A m \in 1..k : m + 1 \in 1..l /\ m \in 1..Len(t)
      BY <1>0, <1>1, <2>2, <3>1
    <3>3. Plain(t, k)
      BY <1>0, <1>1, <3>2 DEF Plain
    <3>4. (i + 1) + k - 1 <= Len(s) /\ \A m \in 1..k : s[(i + 1) + m - 1] = t[m]
      BY <3>2, <3>3 DEF Copied
    <3>5. i + l - 1 <= Len(s)
      BY <1>0, <3>2, <3>4
    <3>6. ASSUME NEW m \in 1..l PROVE s[i + m - 1] = out[m]
      <4>1. CASE m = 1
        <5>1. i + m - 1 = i
          BY <1>0, <4>1
        <5> QED  BY <1>0, <4>1, <5>1
      <4>2. CASE m # 1
        <5>1. m - 1 \in 1..k /\ m - 1 \in 1..Len(t) /\ (m - 1) + 1 = m /\ (i + 1) + (m - 1) - 1 = i + m - 1
          BY <1>0, <3>2, <4>2
        <5>2. out[(m - 1) + 1] = t[m - 1] /\ s[(i + 1) + (m - 1) - 1] = t[m - 1]
          BY <1>0, <3>4, <5>1
        <5> QED  BY <5>1, <5>2
      <4> QED  BY <4>1, <4>2
    <3> QED  BY <3>5, <3>6
  <2> QED  BY <2>1, <2>2
<1> QED  BY <1>1 DEF Copied

(* A value that begins with what was copied begins in the text. *)
LEMMA HereAsThere ==
  ASSUME NEW s \in Chars, NEW i \in 1..Len(s), NEW out \in Chars, Copied(s, i, out),
         NEW v \in Seq(Nat), Len(v) \in Nat \ {0}, HasAt(out, 1, v)
  PROVE  HasAt(s, i, v) /\ out[1] >= 0
<1>0. Len(out) \in Nat /\ Len(s) \in Nat /\ i \in Nat \ {0} /\ \A m \in 1..Len(v) : v[m] \in Nat
  BY LenProperties, ElementOfSeq DEF Chars
<1>1. 1 + Len(v) - 1 <= Len(out) /\ \A m \in 1..Len(v) : out[1 + m - 1] = v[m]
  <2>1. 1 \in Nat \ {0}
    OBVIOUS
  <2> QED  BY <2>1, HasAtIs
<1>2. \A m \in 1..Len(v) : out[m] = v[m] /\ out[m] >= 0
  <2>1. ASSUME NEW m \in 1..Len(v) PROVE out[m] = v[m] /\ out[m] >= 0
    <3>1. 1 + m - 1 = m
      OBVIOUS
    <3> QED  BY <1>0, <1>1, <3>1
  <2> QED  BY <2>1
<1>3. Plain(out, Len(v)) /\ Len(v) \in 0..Len(out)
  BY <1>0, <1>1, <1>2 DEF Plain
<1>4. i + Len(v) - 1 <= Len(s) /\ \A m \in 1..Len(v) : s[i + m - 1] = out[m]
  BY <1>3 DEF Copied
<1>5. HasAt(s, i, v)
  BY <1>0, <1>2, <1>4, HasAtIs
<1>6. 1 \in 1..Len(v)
  OBVIOUS
<1> QED  BY <1>2, <1>5, <1>6

LEMMA SoundEnd ==
  ASSUME NEW d, NEW s \in Chars
  PROVE  Sound(d, s, Len(s) + 1, <<>>)
<1>1. Len(s) \in Nat /\ <<>> \in Chars /\ Len(<<>>) = 0
  BY LenProperties, ConcatBlank DEF Chars
<1>2. PICK e : e = <<>>
  OBVIOUS
<1>3. PICK i : i = Len(s) + 1
  OBVIOUS
<1>4. e \in Chars /\ Len(e) = 0 /\ i = Len(s) + 1
  BY <1>1, <1>2, <1>3
<1>5. Copied(s, i, e)
  BY <1>1, <1>4 DEF Copied
<1>6. NoneLeft(d, e) /\ FromText(s, e)
  BY <1>4 DEF NoneLeft, FromText
<1>7. WholeIfPlain(s, i, e)
  BY <1>1, <1>4 DEF WholeIfPlain
<1> QED  BY <1>2, <1>3, <1>4, <1>5, <1>6, <1>7 DEF Sound

LEMMA SoundCopy ==
  ASSUME NEW d, NEW vs, Knows(d, vs), NEW s \in Chars, NEW i \in 1..Len(s), First(vs, s, i) = 0,
         NEW t, Sound(d, s, i + 1, t)
  PROVE  Sound(d, s, i, Concat(<<s[i]>>, t))
<1>0. Len(s) \in Nat /\ i \in Nat \ {0} /\ s[i] \in Int /\ t \in Chars
  BY LenProperties, ElementOfSeq DEF Chars, Sound
<1>1. PICK out : out = Concat(<<s[i]>>, t)
  OBVIOUS
<1>2. Begins(s[i], t, out)
  BY <1>0, <1>1, BeginsIs
<1>3. out \in Chars /\ Copied(s, i, out)
  BY <1>2, CopiedMore DEF Sound, Begins
<1>4. ValuesAreTexts(d)
  BY KnownAreTexts
<1>5. ASSUME NEW v \in Values(d), HasAt(out, 1, v) PROVE FALSE
  <2>1. HasAt(s, i, v)
    BY <1>3, <1>4, <1>5, HereAsThere DEF ValuesAreTexts
  <2>2. PICK n \in 1..Len(vs) : vs[n].value = v
    BY DEF Knows
  <2>3. Len(vs) \in Nat
    BY DEF Knows
  <2> QED  BY <2>1, <2>2, <2>3, FirstIs
<1>6. NoneLeft(d, out)
  BY <1>2, <1>4, <1>5, NoneBehind DEF Sound
<1>7. FromText(s, out)
  <2>1. ASSUME NEW m \in 1..Len(out) PROVE out[m] < 0 \/ \E k \in 1..Len(s) : out[m] = s[k]
    <3>1. CASE m = 1
      BY <1>2, <3>1 DEF Begins
    <3>2. CASE m # 1
      <4>1. m - 1 \in 1..Len(t) /\ out[m] = t[m - 1]
        BY <1>2, <3>2, BeginsPlaces
      <4> QED  BY <4>1 DEF Sound, FromText
    <3> QED  BY <3>1, <3>2
  <2> QED  BY <2>1 DEF FromText
<1>8. WholeIfPlain(s, i, out)
  <2>1. ASSUME Plain(out, Len(out)) PROVE Len(out) = Len(s) + 1 - i
    <3>1. \A m \in 1..Len(t) : m + 1 \in 1..Len(out) /\ out[m + 1] = t[m]
      BY <1>2 DEF Begins
    <3>2. Plain(t, Len(t))
      BY <2>1, <3>1 DEF Plain
    <3>3. Len(t) = Len(s) + 1 - (i + 1) /\ Len(out) = Len(t) + 1
      BY <1>2, <3>2 DEF Sound, WholeIfPlain, Begins
    <3> QED  BY <1>0, <3>3
  <2> QED  BY <2>1 DEF WholeIfPlain
<1> QED  BY <1>1, <1>3, <1>6, <1>7, <1>8 DEF Sound

LEMMA SoundMask ==
  ASSUME NEW d, NEW vs, Knows(d, vs), NEW s \in Chars, NEW i \in 1..Len(s),
         NEW h \in 1..Len(vs), NEW j, NEW t, Sound(d, s, j, t)
  PROVE  Sound(d, s, i, Concat(<<-vs[h].key>>, t))
<1>0. Len(s) \in Nat /\ i \in Nat \ {0} /\ i <= Len(s) /\ vs[h].key \in Nat \ {0} /\ t \in Chars
  BY LenProperties DEF Chars, Sound, Knows
<1>1. PICK c : c = -vs[h].key
  OBVIOUS
<1>2. c \in Int /\ c < 0
  BY <1>0, <1>1
<1>3. PICK out : out = Concat(<<c>>, t)
  OBVIOUS
<1>4. Begins(c, t, out)
  BY <1>0, <1>2, <1>3, BeginsIs
<1>5. out \in Chars /\ Len(out) \in Nat \ {0} /\ out[1] = c
  BY <1>4 DEF Begins
<1>6. \A l \in 0..Len(out) : Plain(out, l) => l = 0
  <2>1. ASSUME NEW l \in 0..Len(out), l # 0, Plain(out, l) PROVE FALSE
    <3>1. 1 \in 1..l
      BY <2>1
    <3> QED  BY <1>2, <1>5, <2>1, <3>1 DEF Plain
  <2> QED  BY <2>1
<1>7. Copied(s, i, out)
  BY <1>0, <1>6 DEF Copied
<1>8. ValuesAreTexts(d)
  BY KnownAreTexts
<1>9. ASSUME NEW v \in Values(d), HasAt(out, 1, v) PROVE FALSE
  <2>1. out[1] >= 0
    BY <1>0, <1>5, <1>7, <1>8, <1>9, HereAsThere DEF ValuesAreTexts
  <2> QED  BY <1>2, <1>5, <2>1
<1>10. NoneLeft(d, out)
  BY <1>4, <1>8, <1>9, NoneBehind DEF Sound
<1>11. FromText(s, out)
  <2>1. ASSUME NEW m \in 1..Len(out) PROVE out[m] < 0 \/ \E k \in 1..Len(s) : out[m] = s[k]
    <3>1. CASE m = 1
      BY <1>2, <1>5, <3>1
    <3>2. CASE m # 1
      <4>1. m - 1 \in 1..Len(t) /\ out[m] = t[m - 1]
        BY <1>4, <3>2, BeginsPlaces
      <4> QED  BY <4>1 DEF Sound, FromText
    <3> QED  BY <3>1, <3>2
  <2> QED  BY <2>1 DEF FromText
<1>12. WholeIfPlain(s, i, out)
  <2>1. Len(out) \in 0..Len(out)
    BY <1>5
  <2> QED  BY <1>5, <1>6, <2>1 DEF WholeIfPlain
<1> QED  BY <1>1, <1>3, <1>5, <1>7, <1>10, <1>11, <1>12 DEF Sound

(* What it has made stands for the text, each marker for the longest value.  *)
LEMMA StandsEnd ==
  ASSUME NEW d, NEW s \in Chars
  PROVE  Stands(d, s, Len(s) + 1, <<>>)
<1>1. PICK e : e = <<>>
  OBVIOUS
<1>2. Len(s) \in Nat /\ Len(e) = 0
  BY <1>1, LenProperties, ConcatBlank DEF Chars
<1>3. Expanded(d, e) = e
  BY <1>1, ExpandedEmpty
<1>4. SubSeq(s, Len(s) + 1, Len(s)) = e
  <2>1. Len(s) + 1 \in Int /\ Len(s) \in Int /\ Len(s) < Len(s) + 1
    BY <1>2
  <2> QED  BY <1>1, <2>1, SubSeqEmpty
<1>5. Legible(d, e) /\ Longest(d, s, Len(s) + 1, e)
  BY <1>2 DEF Legible, Longest
<1> QED  BY <1>1, <1>3, <1>4, <1>5 DEF Stands

LEMMA StandsMore ==
  ASSUME NEW d, NEW s \in Seq(Nat), NEW i \in 1..Len(s), NEW c \in Int,
         NEW j \in (i + 1)..(Len(s) + 1), Piece(d, c) = SubSeq(s, i, j - 1),
         c < 0 => \A v \in Values(d) : HasAt(s, i, v) => Len(v) <= Len(d[-c].value),
         NEW t \in Chars, Stands(d, s, j, t)
  PROVE  Stands(d, s, i, Concat(<<c>>, t))
<1>0. /\ Len(s) \in Nat /\ i \in Nat \ {0} /\ j \in Nat \ {0} /\ i < j /\ s \in Seq(Int)
      /\ \A k \in 1..Len(s) : s[k] \in Int
  BY LenProperties, ElementOfSeq
<1>1. PICK out : out = Concat(<<c>>, t)
  OBVIOUS
<1>2. Begins(c, t, out)
  BY <1>1, BeginsIs
<1>3. Piece(d, c) \in Chars /\ Len(Piece(d, c)) = j - i
  <2>1. PICK n : n = j - 1
    OBVIOUS
  <2>2. i \in Int /\ n \in Int /\ i <= n /\ n <= Len(s) /\ n - i + 1 = j - i
    BY <1>0, <2>1
  <2>3. \A k \in i..n : s[k] \in Int
    BY <1>0, <2>2
  <2>4. SubSeq(s, i, n) \in Seq(Int) /\ Len(SubSeq(s, i, n)) = n - i + 1
    BY <2>2, <2>3, SubSeqProperties
  <2> QED  BY <2>1, <2>2, <2>4 DEF Chars
<1>4. Legible(d, out)
  <2>1. ASSUME NEW m \in 1..Len(out) PROVE Piece(d, out[m]) \in Chars
    <3>1. CASE m = 1
      BY <1>2, <1>3, <3>1 DEF Begins
    <3>2. CASE m # 1
      <4>1. m - 1 \in 1..Len(t) /\ out[m] = t[m - 1]
        BY <1>2, <3>2, BeginsPlaces
      <4> QED  BY <4>1 DEF Stands, Legible
    <3> QED  BY <3>1, <3>2
  <2> QED  BY <2>1 DEF Legible
<1>5. Expanded(d, out) = Concat(Piece(d, c), SubSeq(s, j, Len(s)))
  <2>1. Legible(d, t) /\ Expanded(d, t) = SubSeq(s, j, Len(s))
    BY DEF Stands
  <2>2. Expanded(d, out) = Concat(Piece(d, c), Expanded(d, t))
    BY <1>1, <1>3, <2>1, ExpandedMore
  <2> QED  BY <2>1, <2>2
<1>6. Expanded(d, out) = SubSeq(s, i, Len(s))
  <2>1. PICK k : k = j - 1
    OBVIOUS
  <2>2. i \in 1..Len(s)+1 /\ k \in i-1..Len(s) /\ Len(s) \in k..Len(s) /\ k + 1 = j
    BY <1>0, <2>1
  <2>3. SubSeq(s, i, k) \o SubSeq(s, k + 1, Len(s)) = SubSeq(s, i, Len(s))
    BY <1>0, <2>2, ConcatAdjacentSubSeq
  <2> QED  BY <1>5, <2>1, <2>2, <2>3 DEF Concat
<1>7. LongestAt(d, s, i, out, 1)
  <2>1. SubSeq(out, 1, 1 - 1) = <<>>
    <3>1. 1 \in Int /\ 1 - 1 \in Int /\ 1 - 1 < 1
      OBVIOUS
    <3> QED  BY <3>1, SubSeqEmpty
  <2>2. Len(Expanded(d, SubSeq(out, 1, 1 - 1))) = 0
    BY <2>1, ExpandedEmpty, ConcatBlank
  <2>3. PlaceIn(d, i, out, 1) = i
    <3>1. i + 0 = i
      BY <1>0
    <3> QED  BY <2>2, <3>1 DEF PlaceIn
  <2>4. out[1] = c
    BY <1>2 DEF Begins
  <2> QED  BY <2>3, <2>4 DEF LongestAt
<1>8. ASSUME NEW m \in 1..Len(t) PROVE LongestAt(d, s, i, out, m + 1)
  <2>1. Legible(d, t) /\ LongestAt(d, s, j, t, m)
    BY DEF Stands, Longest
  <2>2. /\ Len(Expanded(d, SubSeq(out, 1, m))) = Len(Piece(d, c)) + Len(Expanded(d, SubSeq(t, 1, m - 1)))
        /\ Len(Piece(d, c)) \in Nat /\ Len(Expanded(d, SubSeq(t, 1, m - 1))) \in Nat
    <3>1. Piece(d, c) \in Chars /\ Legible(d, t) /\ Begins(c, t, out) /\ m \in 1..Len(t)
      BY <1>2, <1>3, <2>1
    <3> QED  BY ONLY <3>1, PrefixMore
  <2>3. (m + 1) - 1 = m
    OBVIOUS
  <2>4. PlaceIn(d, i, out, m + 1) = i + ((j - i) + Len(Expanded(d, SubSeq(t, 1, m - 1))))
    BY <1>3, <2>2, <2>3 DEF PlaceIn
  <2>5. PlaceIn(d, i, out, m + 1) = PlaceIn(d, j, t, m)
    BY <1>0, <2>2, <2>4 DEF PlaceIn
  <2>6. out[m + 1] = t[m]
    BY <1>2 DEF Begins
  <2> QED  BY <2>1, <2>5, <2>6 DEF LongestAt
<1>9. Longest(d, s, i, out)
  <2>1. ASSUME NEW m \in 1..Len(out) PROVE LongestAt(d, s, i, out, m)
    <3>1. CASE m = 1
      BY <1>7, <3>1
    <3>2. CASE m # 1
      <4>1. m - 1 \in 1..Len(t) /\ (m - 1) + 1 = m
        BY <1>2, <3>2, BeginsPlaces
      <4>2. LongestAt(d, s, i, out, (m - 1) + 1)
        BY <1>8, <4>1
      <4> QED  BY <4>1, <4>2
    <3> QED  BY <3>1, <3>2
  <2> QED  BY <2>1 DEF Longest
<1> QED  BY <1>1, <1>4, <1>6, <1>9 DEF Stands

LEMMA StandsCopy ==
  ASSUME NEW d, NEW s \in Seq(Nat), NEW i \in 1..Len(s), NEW t \in Chars, Stands(d, s, i + 1, t)
  PROVE  Stands(d, s, i, Concat(<<s[i]>>, t))
<1>1. Len(s) \in Nat /\ s[i] \in Nat /\ i \in Nat \ {0}
  BY LenProperties, ElementOfSeq
<1>2. Piece(d, s[i]) = <<s[i]>>
  BY <1>1 DEF Piece
<1>3. <<s[i]>> = SubSeq(s, i, i)
  <2>1. i \in 1..Len(s) /\ i \in i..Len(s) /\ i + 1 \in Int /\ i \in Int /\ i < i + 1
    BY <1>1
  <2>2. SubSeq(s, i, i) = <<s[i]>> \o SubSeq(s, i + 1, i)
    BY <2>1, SubSeqRecursiveFirst
  <2>3. SubSeq(s, i + 1, i) = <<>>
    BY <2>1, SubSeqEmpty
  <2>4. <<s[i]>> \in Seq(Nat)
    BY <1>1
  <2>5. <<s[i]>> \o <<>> = <<s[i]>>
    BY <2>4, ConcatEmptySeq
  <2> QED  BY <2>2, <2>3, <2>5
<1>4. i + 1 \in (i + 1)..(Len(s) + 1) /\ (i + 1) - 1 = i /\ s[i] \in Int /\ ~(s[i] < 0)
  BY <1>1
<1>5. Piece(d, s[i]) = SubSeq(s, i, (i + 1) - 1)
  BY <1>2, <1>3, <1>4
<1> QED  BY <1>4, <1>5, StandsMore

LEMMA StandsMask ==
  ASSUME NEW d, NEW vs, Knows(d, vs), NEW s \in Seq(Nat), NEW i \in 1..Len(s), First(vs, s, i) # 0,
         NEW h, h = First(vs, s, i),
         NEW t \in Chars, Stands(d, s, i + Len(vs[h].value), t)
  PROVE  Stands(d, s, i, Concat(<<-vs[h].key>>, t))
<1>1. Len(s) \in Nat /\ s \in Chars /\ i \in Nat \ {0} /\ Len(vs) \in Nat
  <2>1. s \in Seq(Int)
    BY ElementOfSeq, SeqDef
  <2>2. Len(s) \in Nat
    BY LenProperties
  <2> QED  BY <2>1, <2>2 DEF Chars, Knows
<1>2. h \in 1..Len(vs) /\ i + Len(vs[h].value) \in (i + 1)..(Len(s) + 1)
  BY <1>1, GoesOn
<1>3. HasAt(s, i, vs[h].value) /\ \A n \in 1..Len(vs) : HasAt(s, i, vs[n].value) => h <= n
  BY <1>1, <1>2, FirstIs
<1>4. PICK c : c = -vs[h].key
  OBVIOUS
<1>5. vs[h].key \in Nat \ {0} /\ vs[h].value = d[vs[h].key].value /\ Len(vs[h].value) \in Nat \ {0}
  BY <1>2 DEF Knows
<1>6. c \in Int /\ c < 0 /\ -c = vs[h].key
  <2>1. PICK k : k = vs[h].key
    OBVIOUS
  <2>2. k \in Nat \ {0} /\ c = -k
    BY <1>4, <1>5, <2>1
  <2>3. c \in Int /\ c < 0 /\ -c = k
    BY <2>2
  <2> QED  BY <2>1, <2>3
<1>7. PICK j : j = i + Len(vs[h].value)
  OBVIOUS
<1>8. j \in (i + 1)..(Len(s) + 1) /\ j - 1 = i + Len(vs[h].value) - 1
  BY <1>1, <1>2, <1>5, <1>7
<1>9. Piece(d, c) = vs[h].value
  BY <1>5, <1>6 DEF Piece
<1>10. Piece(d, c) = SubSeq(s, i, j - 1)
  BY <1>3, <1>8, <1>9 DEF HasAt
<1>11. ASSUME NEW v \in Values(d), HasAt(s, i, v) PROVE Len(v) <= Len(d[-c].value)
  <2>1. PICK n \in 1..Len(vs) : vs[n].value = v
    BY DEF Knows
  <2>2. h <= n
    BY <1>3, <1>11, <2>1
  <2>3. CASE h = n
    <3>1. v = d[-c].value /\ Len(v) \in Nat
      BY <1>5, <1>6, <2>1, <2>3
    <3> QED  BY <3>1
  <2>4. CASE h # n
    <3>1. h < n
      BY <1>1, <1>2, <2>2, <2>4
    <3>2. Len(vs[n].value) <= Len(vs[h].value)
      BY <1>2, <3>1 DEF Knows
    <3> QED  BY <1>5, <1>6, <2>1, <3>2
  <2> QED  BY <2>3, <2>4
<1>12. Stands(d, s, j, t)
  BY <1>7
<1> QED  BY <1>4, <1>6, <1>8, <1>10, <1>11, <1>12, StandsMore

(* The whole text. *)
LEMMA Scrubbed ==
  ASSUME NEW d, NEW vs, Knows(d, vs), NEW s \in Chars
  PROVE  /\ Sound(d, s, 1, scrub_str(vs, s))
         /\ s \in Seq(Nat) => Stands(d, s, 1, scrub_str(vs, s))
<1>0. Len(s) \in Nat
  BY LenProperties DEF Chars
<1>1. PICK scan : ScanRun(vs, s, 1, scan) /\ scrub_str(vs, s) = scan[1]
  BY ScanRuns
<1>2. \A i \in 1..(Len(s) + 1) : scan[i] = ScanFrom(vs, s, i, scan)
  BY <1>1 DEF ScanRun
<1> DEFINE Good(i) == Sound(d, s, i, scan[i]) /\ (s \in Seq(Nat) => Stands(d, s, i, scan[i]))
           T == {k \in 0..Len(s) : \A i \in (Len(s) + 1 - k)..(Len(s) + 1) : Good(i)}
<1>3. 0 \in T
  <2>1. scan[Len(s) + 1] = <<>>
    <3>1. Len(s) + 1 \in 1..(Len(s) + 1) /\ Len(s) + 1 > Len(s)
      BY <1>0
    <3> QED  BY <1>2, <3>1 DEF ScanFrom
  <2>2. Good(Len(s) + 1)
    BY <2>1, SoundEnd, StandsEnd
  <2>3. \A i \in (Len(s) + 1 - 0)..(Len(s) + 1) : i = Len(s) + 1
    BY <1>0
  <2> HIDE DEF Good
  <2> QED  BY <1>0, <2>2, <2>3
<1>4. ASSUME NEW k \in 0..Len(s), k + 1 \in 0..Len(s), k \in T PROVE k + 1 \in T
  <2>1. PICK i : i = Len(s) - k
    OBVIOUS
  <2>2. i \in 1..Len(s) /\ i + 1 = Len(s) + 1 - k /\ i = Len(s) + 1 - (k + 1) /\ i \in 1..(Len(s) + 1) /\ ~(i > Len(s))
    BY <1>0, <1>4, <2>1
  <2>3. \A j \in (i + 1)..(Len(s) + 1) : Good(j)
    BY <1>4, <2>2
  <2>4. scan[i] = ScanFrom(vs, s, i, scan)
    BY <1>2, <2>2
  <2>5. CASE First(vs, s, i) = 0
    <3>1. scan[i] = Concat(<<s[i]>>, scan[i + 1])
      BY <2>2, <2>4, <2>5 DEF ScanFrom, Concat
    <3>2. i + 1 \in (i + 1)..(Len(s) + 1)
      BY <1>0, <2>2
    <3>3. Good(i + 1)
      BY <2>3, <3>2
    <3>4. Sound(d, s, i, scan[i])
      BY <2>2, <2>5, <3>1, <3>3, SoundCopy
    <3>5. s \in Seq(Nat) => Stands(d, s, i, scan[i])
      BY <2>2, <3>1, <3>3, StandsCopy DEF Sound
    <3>6. Good(i)
      BY <3>4, <3>5
    <3>7. \A j \in (Len(s) + 1 - (k + 1))..(Len(s) + 1) : j = i \/ j \in (i + 1)..(Len(s) + 1)
      BY <1>0, <2>2
    <3> HIDE DEF Good
    <3> QED  BY <1>4, <2>3, <3>6, <3>7
  <2>6. CASE First(vs, s, i) # 0
    <3>1. PICK h : h = First(vs, s, i)
      OBVIOUS
    <3>2. PICK j : j = i + Len(vs[h].value)
      OBVIOUS
    <3>3. h \in 1..Len(vs) /\ j \in (i + 1)..(Len(s) + 1)
      BY <2>2, <2>6, <3>1, <3>2, GoesOn
    <3>4. scan[i] = Concat(<<-vs[h].key>>, scan[j])
      BY <2>2, <2>4, <2>6, <3>1, <3>2 DEF ScanFrom, Concat
    <3>5. Good(j)
      BY <2>3, <3>3
    <3>6. Sound(d, s, i, scan[i])
      BY <2>2, <3>3, <3>4, <3>5, SoundMask
    <3>7. s \in Seq(Nat) => Stands(d, s, i, scan[i])
      BY <2>2, <2>6, <3>1, <3>2, <3>4, <3>5, StandsMask DEF Sound
    <3>8. Good(i)
      BY <3>6, <3>7
    <3>9. \A l \in (Len(s) + 1 - (k + 1))..(Len(s) + 1) : l = i \/ l \in (i + 1)..(Len(s) + 1)
      BY <1>0, <2>2
    <3> HIDE DEF Good
    <3> QED  BY <1>4, <2>3, <3>8, <3>9
  <2> QED  BY <2>5, <2>6
<1>5. T = 0..Len(s)
  <2>1. T \in SUBSET (0..Len(s))
    OBVIOUS
  <2> HIDE DEF T
  <2> QED  BY <1>0, <1>3, <1>4, <2>1, HandedOn
<1>6. Good(1)
  <2>1. Len(s) \in T /\ 1 \in (Len(s) + 1 - Len(s))..(Len(s) + 1)
    BY <1>0, <1>5
  <2> HIDE DEF Good
  <2> QED  BY <2>1
<1> QED  BY <1>1, <1>6

(* The invariant: a filter works with the values of a document or none, what *)
(* it gets is text, and what it has made of it is as the property says.      *)
KnownOf(e, vs) == IsDoc(e) /\ vs = from_doc(e)
CleanOf(d, s) == \A v \in Values(d) : ~Holds(s, v)
NoToken(s) == Token \notin Range(s)
IsText(s) == s \in Seq(Nat)
IsAFunction(w) == w = [p \in DOMAIN w |-> w[p]]
RawTexts(f, w) ==
  /\ IsAFunction(w)
  /\ \A p \in DOMAIN w : IsText(w[p]) /\ (f # "raw_token" /\ p # "name" => NoToken(w[p]))
RowTyped(r) == DOMAIN r = {"message", "flags"} /\ r.message \in Chars /\ r.flags \in Chars

FilterInv ==
  /\ doc \in Docs \cup {NoVars}
  /\ known # Blank => known = from_doc(doc)
  /\ RowTyped(row)
  /\ stage \in {"idle", "run"} => row.message = Blank
  /\ stage \in {"idle", "run", "filter"} => rows = 0
  /\ stage = "filter" => wire = raw /\ RawTexts(form, raw)
  /\ stage = "filter" /\ unlocked => CleanOf(then, row.message)
  /\ NothingLeavesUnmasked

LEMMA TextsAreChars == ASSUME NEW s, IsText(s) PROVE s \in Chars
<1>1. s \in Seq(Nat)
  BY DEF IsText
<1>2. s \in Seq(Int)
  BY <1>1, ElementOfSeq, SeqDef
<1> QED  BY <1>2 DEF Chars

LEMMA NoVarsKnown == IsDoc(NoVars) /\ from_doc(NoVars) = Blank
<1>1. IsDoc(NoVars)
  BY DEF IsDoc, NoVars
<1>2. Maskable(NoVars) = {}
  BY DEF Maskable, NoVars
<1>3. Cardinality(Maskable(NoVars)) = 0
  BY <1>2, FS_EmptySet
<1>4. PICK vs : vs = from_doc(NoVars)
  OBVIOUS
<1>5. DOMAIN vs = 1..0 /\ vs = [n \in DOMAIN vs |-> vs[n]]
  BY <1>3, <1>4 DEF from_doc
<1>6. vs = <<>>
  BY <1>5
<1> QED  BY <1>1, <1>4, <1>6 DEF Blank

LEMMA AllAreDocs ==
  ASSUME NEW d \in Docs \cup {NoVars}
  PROVE  IsDoc(d)
BY FilterConstants, NoVarsKnown

(* A text with no value left holds none, and the domain is its places. *)
LEMMA NoneHeld ==
  ASSUME NEW d, NEW s \in Chars, NoneLeft(d, s)
  PROVE  CleanOf(d, s)
<1>1. DOMAIN s = 1..Len(s)
  BY LenProperties DEF Chars
<1> QED  BY <1>1 DEF NoneLeft, CleanOf, Holds

LEMMA BlankHoldsNone == \A d : CleanOf(d, Blank) /\ Blank \in Chars
<1>1. DOMAIN Blank = {}
  BY DEF Blank
<1>2. Blank \in Chars
  BY EmptyText DEF Blank, Chars
<1> QED  BY <1>1, <1>2 DEF CleanOf, Holds

(* What the filter makes of one text. *)
LEMMA ScrubIs ==
  ASSUME NEW d, NEW vs, KnownOf(d, vs), NEW s \in Chars
  PROVE  Sound(d, s, 1, scrub_str(vs, s)) /\ (IsText(s) => Stands(d, s, 1, scrub_str(vs, s)))
BY FromDocKnows, Scrubbed DEF KnownOf, IsText

LEMMA ScrubClean ==
  ASSUME NEW d, NEW vs, KnownOf(d, vs), NEW s \in Chars
  PROVE  scrub_str(vs, s) \in Chars /\ CleanOf(d, scrub_str(vs, s))
BY ScrubIs, NoneHeld DEF Sound

LEMMA ScrubMasks ==
  ASSUME NEW d, NEW vs, KnownOf(d, vs), NEW r, IsText(r)
  PROVE  MaskedFrom(d, r, scrub_str(vs, r))
<1>1. r \in Chars /\ r \in Seq(Nat) /\ Len(r) \in Nat
  BY TextsAreChars, LenProperties DEF IsText
<1>2. PICK s : s = scrub_str(vs, r)
  OBVIOUS
<1>3. s \in Chars /\ CleanOf(d, s) /\ Stands(d, r, 1, s)
  BY <1>1, <1>2, ScrubIs, ScrubClean
<1>4. DOMAIN s = 1..Len(s)
  BY <1>3, LenProperties DEF Chars
<1>5. Expanded(d, s) = r
  <2>1. SubSeq(r, 1, Len(r)) = r
    BY <1>1, SubSeqFull
  <2> QED  BY <1>3, <2>1 DEF Stands
<1>6. ASSUME NEW n \in DOMAIN s, s[n] < 0,
             NEW v \in Values(d), HasAt(r, Len(Expanded(d, SubSeq(s, 1, n - 1))) + 1, v)
      PROVE  Len(v) <= Len(d[-s[n]].value)
  <2>1. LongestAt(d, r, 1, s, n)
    BY <1>3, <1>4 DEF Stands, Longest
  <2>2. PICK l : l = Len(Expanded(d, SubSeq(s, 1, n - 1)))
    OBVIOUS
  <2>3. l \in Nat
    <3>1. CASE n = 1
      <4>1. SubSeq(s, 1, n - 1) = <<>>
        <5>1. n - 1 \in Int /\ 1 \in Int /\ n - 1 < 1
          BY <3>1
        <5> QED  BY <5>1, SubSeqEmpty
      <4>2. l = 0
        BY <2>2, <4>1, ExpandedEmpty, EmptyText
      <4> QED  BY <4>2
    <3>2. CASE n # 1
      <4>1. PICK m : m = n - 1
        OBVIOUS
      <4>2. m \in 1..Len(s) /\ Len(s) \in Nat
        BY <1>3, <1>4, <3>2, <4>1, LenProperties DEF Chars
      <4>3. PICK u : u = SubSeq(s, 1, m)
        OBVIOUS
      <4>4. u \in Seq(Int) /\ Len(u) = m /\ \A k \in 1..m : u[k] = s[k]
        <5>1. m \in Int /\ 1 \in Int /\ 1 <= m /\ m - 1 + 1 = m /\ \A k \in 1..m : 1 + k - 1 = k /\ s[k] \in Int
          BY <1>3, <4>2, ElementOfSeq DEF Chars
        <5> QED  BY <4>3, <5>1, SubSeqProperties
      <4>5. Legible(d, u) /\ u \in Chars
        <5>1. \A k \in 1..m : k \in 1..Len(s)
          BY <4>2
        <5> QED  BY <1>3, <4>4, <5>1 DEF Stands, Legible, Chars
      <4>6. Piece(d, 0) \in Chars
        BY OneChar DEF Piece
      <4>7. Expanded(d, u) \in Chars
        <5>1. 0 \in Int
          OBVIOUS
        <5> QED  BY <4>5, <4>6, <5>1, ExpandedMore
      <4> QED  BY <2>2, <4>1, <4>3, <4>7, LenProperties DEF Chars
    <3> QED  BY <3>1, <3>2
  <2>4. PlaceIn(d, 1, s, n) = 1 + l /\ 1 + l = l + 1
    BY <2>2, <2>3 DEF PlaceIn
  <2> QED  BY <1>6, <2>1, <2>2, <2>4 DEF LongestAt
<1> QED  BY <1>2, <1>3, <1>5, <1>6 DEF MaskedFrom, CleanOf

(* It changes a text where it masks. *)
LEMMA ScrubShows ==
  ASSUME NEW d, NEW vs, KnownOf(d, vs), NEW r, IsText(r)
  PROVE  (\E c \in Range(scrub_str(vs, r)) : c < 0) <=> scrub_str(vs, r) # r
<1>1. r \in Chars /\ r \in Seq(Nat) /\ Len(r) \in Nat /\ DOMAIN r = 1..Len(r)
  BY TextsAreChars, LenProperties DEF IsText
<1>2. PICK s : s = scrub_str(vs, r)
  OBVIOUS
<1>3. Sound(d, r, 1, s)
  BY <1>1, <1>2, ScrubIs
<1>4. s \in Seq(Int) /\ DOMAIN s = 1..Len(s) /\ Len(s) \in Nat /\ Range(s) = {s[m] : m \in 1..Len(s)}
  BY <1>3, LenProperties DEF Sound, Chars, Range
<1>5. ASSUME NEW c \in Range(s), c < 0, s = r PROVE FALSE
  <2>1. \A m \in 1..Len(r) : r[m] \in Nat
    BY <1>1, ElementOfSeq
  <2> QED  BY <1>4, <1>5, <2>1
<1>6. ASSUME \A c \in Range(s) : ~(c < 0) PROVE s = r
  <2>1. \A m \in 1..Len(s) : s[m] \in Int /\ ~(s[m] < 0)
    BY <1>4, <1>6, ElementOfSeq
  <2>2. Plain(s, Len(s)) /\ Len(s) \in 0..Len(s)
    BY <1>4, <2>1 DEF Plain
  <2>3. Len(s) = Len(r) + 1 - 1 /\ \A m \in 1..Len(s) : r[1 + m - 1] = s[m]
    BY <1>3, <2>2 DEF Sound, WholeIfPlain, Copied
  <2>4. Len(s) = Len(r) /\ \A m \in 1..Len(s) : s[m] = r[m]
    BY <1>1, <1>4, <2>3
  <2>5. r \in Seq(Int)
    BY <1>1 DEF Chars
  <2> QED  BY <1>4, <2>4, <2>5, SeqEqual
<1> QED  BY <1>2, <1>5, <1>6

(* It brings no character that the text has not. *)
LEMMA ScrubBringsNone ==
  ASSUME NEW d, NEW vs, KnownOf(d, vs), NEW r, IsText(r), NoToken(r)
  PROVE  NoToken(scrub_str(vs, r))
<1>1. r \in Chars /\ Len(r) \in Nat /\ DOMAIN r = 1..Len(r)
  BY TextsAreChars, LenProperties DEF IsText
<1>2. PICK s : s = scrub_str(vs, r)
  OBVIOUS
<1>3. s \in Chars /\ FromText(r, s)
  BY <1>1, <1>2, ScrubIs DEF Sound
<1>4. DOMAIN s = 1..Len(s)
  BY <1>3, LenProperties DEF Chars
<1>5. ASSUME Token \in Range(s) PROVE FALSE
  <2>1. PICK m \in 1..Len(s) : s[m] = Token
    BY <1>4, <1>5 DEF Range
  <2>2. Token \in Nat /\ ~(Token < 0)
    BY FilterConstants
  <2>3. PICK k \in 1..Len(r) : s[m] = r[k]
    BY <1>3, <2>1, <2>2 DEF FromText
  <2> QED  BY <1>1, <2>1, <2>3 DEF NoToken, Range
<1> QED  BY <1>2, <1>5 DEF NoToken

(* What the parts of a call are made of. *)
LEMMA SanitizedIs ==
  ASSUME NEW s, IsText(s)
  PROVE  IsText(Sanitized(s)) /\ NoToken(Sanitized(s))
<1>1. s \in Seq(Nat) /\ Len(s) \in Nat /\ DOMAIN s = 1..Len(s) /\ \A m \in 1..Len(s) : s[m] \in Nat
  BY LenProperties, ElementOfSeq DEF IsText
<1>2. Redacted \in Nat /\ Token # Redacted
  BY FilterConstants
<1>3. PICK t : t = Sanitized(s)
  OBVIOUS
<1>4. t = [i \in 1..Len(s) |-> IF s[i] = Token THEN Redacted ELSE s[i]]
  BY <1>1, <1>3 DEF Sanitized
<1>5. t \in [1..Len(s) -> Nat] /\ DOMAIN t = 1..Len(s) /\ \A i \in 1..Len(s) : t[i] # Token
  BY <1>1, <1>2, <1>4
<1>6. t \in Seq(Nat)
  BY <1>1, <1>5, SeqDef
<1> QED  BY <1>3, <1>5, <1>6 DEF IsText, NoToken, Range

LEMMA TruncateIs ==
  ASSUME NEW s, IsText(s)
  PROVE  IsText(truncate(s))
<1>1. s \in Seq(Nat) /\ Len(s) \in Nat /\ \A m \in 1..Len(s) : s[m] \in Nat
  BY LenProperties, ElementOfSeq DEF IsText
<1>2. PICK n : n = MAX_ERROR_MESSAGE_LEN
  OBVIOUS
<1>3. n \in Nat \ {0} /\ Ellipsis \in Nat
  BY <1>2, FilterConstants
<1>4. CASE Len(s) > n
  <2>1. 1 \in Int /\ n - 1 \in Int /\ \A m \in 1..(n - 1) : s[m] \in Nat
    BY <1>1, <1>3, <1>4
  <2>2. SubSeq(s, 1, n - 1) \in Seq(Nat)
    BY <2>1, SubSeqProperties
  <2>3. <<Ellipsis>> \in Seq(Nat)
    BY <1>3
  <2>4. PICK u : u = SubSeq(s, 1, n - 1)
    OBVIOUS
  <2>5. PICK e : e = <<Ellipsis>>
    OBVIOUS
  <2>6. u \o e \in Seq(Nat)
    BY <2>2, <2>3, <2>4, <2>5, ConcatProperties
  <2>7. ~(Len(s) <= n)
    BY <1>1, <1>3, <1>4
  <2> QED  BY <1>2, <2>4, <2>5, <2>6, <2>7 DEF truncate, IsText
<1>5. CASE Len(s) <= n
  BY <1>1, <1>2, <1>5 DEF truncate, IsText
<1> QED  BY <1>1, <1>3, <1>4, <1>5

LEMMA ConstantTexts ==
  /\ \A s \in Saying \cup Names : IsText(s)
  /\ IsText(<<Separator>>) /\ IsText(<<Digest>>) /\ IsText(Blank)
<1>1. Separator \in Nat /\ Digest \in Nat /\ Saying \cup Names \subseteq Seq(Nat)
  BY FilterConstants
<1>2. <<>> \in Seq(Nat)
  BY EmptySeq
<1> QED  BY <1>1, <1>2 DEF IsText, Blank

LEMMA Renders ==
  ASSUME NEW name, IsText(name), NEW said, IsText(said)
  PROVE  IsText(name \o <<Separator>> \o said)
<1>1. PICK e : e = <<Separator>>
  OBVIOUS
<1>2. name \in Seq(Nat) /\ said \in Seq(Nat) /\ e \in Seq(Nat)
  BY <1>1, ConstantTexts DEF IsText
<1>3. PICK u : u = name \o e
  OBVIOUS
<1>4. u \in Seq(Nat)
  BY <1>2, <1>3, ConcatProperties
<1>5. u \o said \in Seq(Nat)
  BY <1>2, <1>4, ConcatProperties
<1> QED  BY <1>1, <1>3, <1>5 DEF IsText

(* The values known are those of a document. *)
LEMMA KnownIs ==
  ASSUME doc \in Docs \cup {NoVars}
  PROVE  (unlocked => known_values = from_doc(doc)) /\ (known_values # Blank => known_values = from_doc(doc))
BY DEF known_values

LEMMA BlankOrDocs ==
  ASSUME NEW e \in Docs \cup {NoVars}, NEW vs, vs # Blank => vs = from_doc(e)
  PROVE  \E d : KnownOf(d, vs)
<1>1. CASE vs = Blank
  BY <1>1, NoVarsKnown DEF KnownOf
<1>2. CASE vs # Blank
  BY <1>2, AllAreDocs DEF KnownOf
<1> QED  BY <1>1, <1>2

LEMMA FilterStarts == FilterInit => FilterInv
<1> SUFFICES ASSUME FilterInit PROVE FilterInv
  OBVIOUS
<1>1. doc \in Docs \cup {NoVars} /\ known = Blank /\ stage = "idle" /\ rows = 0 /\ row = NoRow
  BY DEF FilterInit
<1>2. RowTyped(row) /\ row.message = Blank
  BY <1>1, BlankHoldsNone DEF RowTyped, NoRow
<1> QED  BY <1>1, <1>2 DEF FilterInv, NothingLeavesUnmasked

LEMMA StartCallKeeps ==
  ASSUME FilterInv, NEW k \in {0} \cup DOMAIN doc, NEW clear \in BOOLEAN, StartCall(k, clear)
  PROVE  FilterInv'
<1>1. /\ stage = "idle" /\ stage' = "run" /\ doc' = doc /\ rows' = rows /\ known' = known_values
      /\ row' = IF writer THEN [row EXCEPT !.flags = lvr_audit_flags(k, clear)] ELSE row
  BY DEF StartCall
<1>2. doc \in Docs \cup {NoVars} /\ RowTyped(row) /\ row.message = Blank /\ rows = 0
  BY <1>1 DEF FilterInv
<1>3. PICK fl : fl = lvr_audit_flags(k, clear)
  OBVIOUS
<1>4. fl \in Chars
  <2>1. CASE k = 0
    BY <1>3, <2>1, BlankHoldsNone DEF lvr_audit_flags
  <2>2. CASE k # 0
    <3>1. IsDoc(doc) /\ k \in DOMAIN doc
      BY <1>2, <2>2, AllAreDocs
    <3>2. IsText(doc[k].value)
      BY <3>1 DEF IsDoc, IsText
    <3> QED  BY <1>3, <2>2, <3>2, ConstantTexts, TextsAreChars DEF lvr_audit_flags
  <2> QED  BY <2>1, <2>2
<1>5. RowTyped(row') /\ row'.message = Blank
  <2>1. CASE writer
    <3>1. row' = [row EXCEPT !.flags = fl]
      BY <1>1, <1>3, <2>1
    <3> QED  BY <1>2, <1>4, <3>1 DEF RowTyped
  <2>2. CASE ~writer
    BY <1>1, <1>2, <2>2
  <2> QED  BY <2>1, <2>2
<1>6. known' # Blank => known' = from_doc(doc')
  BY <1>1, <1>2, KnownIs
<1> QED  BY <1>1, <1>2, <1>5, <1>6 DEF FilterInv, NothingLeavesUnmasked

LEMMA CompleteKeeps ==
  ASSUME FilterInv, NEW f \in Form, NEW name \in Names, NEW said \in Saying, Complete(f, name, said)
  PROVE  FilterInv'
<1>1. /\ stage = "run" /\ stage' = "filter" /\ doc' = doc /\ rows' = rows /\ known' = known /\ form' = f
      /\ unlocked' = unlocked /\ then' = doc /\ raw' = wire'
      /\ row' = IF ~writer \/ f \in {"ok", "raw_token"} THEN row
                ELSE [row EXCEPT !.message = scrub_audit_message(truncate(Sanitized(said)))]
  BY DEF Complete
<1>2. doc \in Docs \cup {NoVars} /\ RowTyped(row) /\ row.message = Blank /\ rows = 0
      /\ (known # Blank => known = from_doc(doc))
  BY <1>1 DEF FilterInv
<1>3. IsText(said) /\ IsText(name) /\ IsText(Sanitized(said)) /\ NoToken(Sanitized(said))
      /\ IsText(Sanitized(name \o <<Separator>> \o said)) /\ NoToken(Sanitized(name \o <<Separator>> \o said))
  BY ConstantTexts, Renders, SanitizedIs
<1>4. PICK msg : msg = scrub_audit_message(truncate(Sanitized(said)))
  OBVIOUS
<1>5. msg \in Chars /\ (unlocked => CleanOf(doc, msg))
  <2>1. PICK t : t = truncate(Sanitized(said))
    OBVIOUS
  <2>2. IsText(t) /\ t \in Chars
    BY <1>3, <2>1, TruncateIs, TextsAreChars
  <2>3. msg = scrub_str(known_values, t)
    BY <1>4, <2>1 DEF scrub_audit_message
  <2>4. PICK d : KnownOf(d, known_values)
    BY <1>2, KnownIs, BlankOrDocs
  <2>5. msg \in Chars
    BY <2>2, <2>3, <2>4, ScrubClean
  <2>6. ASSUME unlocked PROVE CleanOf(doc, msg)
    <3>1. KnownOf(doc, known_values)
      BY <1>2, <2>6, KnownIs, AllAreDocs DEF KnownOf
    <3> QED  BY <2>2, <2>3, <3>1, ScrubClean
  <2> QED  BY <2>5, <2>6
<1>6. RowTyped(row') /\ (unlocked => CleanOf(doc, row'.message))
  <2>1. CASE ~writer \/ f \in {"ok", "raw_token"}
    <3>1. row' = row
      BY <1>1, <2>1
    <3> QED  BY <1>2, <3>1, BlankHoldsNone
  <2>2. CASE ~(~writer \/ f \in {"ok", "raw_token"})
    <3>1. row' = [row EXCEPT !.message = msg]
      BY <1>1, <1>4, <2>2
    <3>2. RowTyped(row') /\ row'.message = msg
      BY <1>2, <1>5, <3>1 DEF RowTyped
    <3> QED  BY <1>5, <3>2
  <2> QED  BY <2>1, <2>2
<1>7. RawTexts(f, wire')
  <2>1. wire' = CASE f \in {"ok", "raw_token"} -> build_sanitized_payload(f, name, said)
                  [] f = "failed" -> [message |-> Sanitized(said)]
                  [] f = "invalid_args" -> [message |-> Sanitized(said), data |-> Sanitized(said)]
    BY DEF Complete
  <2>2. CASE f = "ok"
    <3>1. wire' = [text |-> Sanitized(name \o <<Separator>> \o said), name |-> name, leaf |-> Sanitized(said)]
      BY <2>1, <2>2 DEF build_sanitized_payload
    <3> QED  BY <1>3, <3>1 DEF RawTexts, IsAFunction
  <2>3. CASE f = "raw_token"
    <3>1. wire' = [text |-> said, leaf |-> said]
      BY <2>1, <2>3 DEF build_sanitized_payload
    <3> QED  BY <1>3, <2>3, <3>1 DEF RawTexts, IsAFunction
  <2>4. CASE f = "failed"
    <3>1. wire' = [message |-> Sanitized(said)]
      BY <2>1, <2>4
    <3> QED  BY <1>3, <3>1 DEF RawTexts, IsAFunction
  <2>5. CASE f = "invalid_args"
    <3>1. wire' = [message |-> Sanitized(said), data |-> Sanitized(said)]
      BY <2>1, <2>5
    <3> QED  BY <1>3, <3>1 DEF RawTexts, IsAFunction
  <2> QED  BY <2>2, <2>3, <2>4, <2>5 DEF Form
<1> QED  BY <1>1, <1>2, <1>6, <1>7 DEF FilterInv, NothingLeavesUnmasked

LEMMA FilterKeeps ==
  ASSUME FilterInv, Filter
  PROVE  FilterInv'
<1>1. /\ stage = "filter" /\ stage' = "done" /\ doc' = doc /\ form' = form /\ writer' = writer
      /\ unlocked' = unlocked /\ raw' = raw /\ row' = row /\ then' = then
      /\ known' = (IF known # Blank THEN known ELSE known_values)
      /\ wire' = scrub_value(known', wire)
      /\ rows' = (IF Masked(wire') /\ writer THEN rows + 1 ELSE rows)
  BY DEF Filter
<1>2. /\ doc \in Docs \cup {NoVars} /\ RowTyped(row) /\ rows = 0 /\ wire = raw /\ RawTexts(form, raw)
      /\ (known # Blank => known = from_doc(doc)) /\ (unlocked => CleanOf(then, row.message))
  BY <1>1 DEF FilterInv
<1>3. PICK vs : vs = IF known # Blank THEN known ELSE known_values
  OBVIOUS
<1>4. known' = vs /\ (vs # Blank => vs = from_doc(doc)) /\ (unlocked => vs = from_doc(doc))
  BY <1>1, <1>2, <1>3, KnownIs
<1>5. PICK d : KnownOf(d, vs)
  BY <1>2, <1>4, BlankOrDocs
<1>6. PICK w : w = [p \in DOMAIN raw |-> scrub_str(vs, raw[p])]
  OBVIOUS
<1>7. wire' = w /\ DOMAIN w = DOMAIN raw /\ \A p \in DOMAIN w : w[p] = scrub_str(vs, raw[p]) /\ IsText(raw[p])
  BY <1>1, <1>2, <1>4, <1>6 DEF scrub_value, RawTexts
<1>8. known' # Blank => \A p \in DOMAIN wire' : MaskedFrom(doc', raw'[p], wire'[p])
  <2>1. ASSUME vs # Blank, NEW p \in DOMAIN w PROVE MaskedFrom(doc, raw[p], w[p])
    <3>1. KnownOf(doc, vs)
      BY <1>2, <1>4, <2>1, AllAreDocs DEF KnownOf
    <3> QED  BY <1>7, <2>1, <3>1, ScrubMasks
  <2> QED  BY <1>1, <1>4, <1>7, <2>1
<1>9. writer' => rows' = IF wire' # raw' THEN 1 ELSE 0
  <2>1. \A p \in DOMAIN w : (\E c \in Range(w[p]) : c < 0) <=> w[p] # raw[p]
    BY <1>5, <1>7, ScrubShows
  <2>2. w # raw <=> \E p \in DOMAIN w : w[p] # raw[p]
    <3>1. IsAFunction(raw)
      BY <1>2 DEF RawTexts
    <3> QED  BY <1>6, <1>7, <3>1 DEF IsAFunction
  <2>3. Masked(w) <=> w # raw
    BY <2>1, <2>2 DEF Masked
  <2> QED  BY <1>1, <1>2, <1>7, <2>3
<1>10. form' # "raw_token" => \A p \in DOMAIN wire' \ {"name"} : Token \notin Range(wire'[p])
  <2>1. ASSUME form # "raw_token", NEW p \in DOMAIN w \ {"name"} PROVE NoToken(w[p])
    <3>1. NoToken(raw[p])
      BY <1>2, <1>7, <2>1 DEF RawTexts
    <3> QED  BY <1>5, <1>7, <3>1, ScrubBringsNone
  <2> QED  BY <1>1, <1>7, <2>1 DEF NoToken
<1>11. unlocked' => \A v \in Values(then') : ~Holds(row'.message, v)
  BY <1>1, <1>2 DEF CleanOf
<1>12. NothingLeavesUnmasked'
  BY <1>1, <1>4, <1>8, <1>9, <1>10, <1>11 DEF NothingLeavesUnmasked
<1> QED  BY <1>1, <1>2, <1>4, <1>12 DEF FilterInv

LEMMA ListKeeps ==
  ASSUME FilterInv, NEW session \in BOOLEAN, List(session)
  PROVE  FilterInv'
<1>1. /\ stage = "done" /\ stage' = "listed" /\ doc' = doc /\ form' = form /\ writer' = writer
      /\ unlocked' = session /\ raw' = raw /\ row' = row /\ then' = then /\ known' = known
      /\ wire' = wire /\ rows' = rows
      /\ listing' = (IF session THEN scrub_value(from_doc(doc), row) ELSE row)
  BY DEF List
<1>2. doc \in Docs \cup {NoVars} /\ RowTyped(row) /\ (known # Blank => known = from_doc(doc)) /\ NothingLeavesUnmasked
  BY DEF FilterInv
<1>3. ASSUME session, NEW p \in DOMAIN listing' PROVE CleanOf(doc, listing'[p])
  <2>1. PICK vs : vs = from_doc(doc)
    OBVIOUS
  <2>2. KnownOf(doc, vs)
    BY <1>2, <2>1, AllAreDocs DEF KnownOf
  <2>3. listing' = [q \in DOMAIN row |-> scrub_str(vs, row[q])]
    BY <1>1, <1>3, <2>1 DEF scrub_value
  <2>4. p \in DOMAIN row /\ listing'[p] = scrub_str(vs, row[p])
    BY <1>3, <2>3
  <2>5. row[p] \in Chars
    BY <1>2, <2>4 DEF RowTyped
  <2> QED  BY <2>2, <2>4, <2>5, ScrubClean
<1>4. unlocked' => \A p \in DOMAIN listing' : \A v \in Values(doc') : ~Holds(listing'[p], v)
  BY <1>1, <1>3 DEF CleanOf
<1>5. NothingLeavesUnmasked'
  BY <1>1, <1>2, <1>4 DEF NothingLeavesUnmasked
<1> QED  BY <1>1, <1>2, <1>5 DEF FilterInv

LEMMA IdleLockKeeps ==
  ASSUME FilterInv, IdleLock
  PROVE  FilterInv'
BY DEF FilterInv, IdleLock, NothingLeavesUnmasked

LEMMA FirstVarsKeeps ==
  ASSUME FilterInv, FirstVars
  PROVE  FilterInv'
<1>1. /\ stage \in {"run", "filter"} /\ stage' = stage /\ doc = NoVars /\ doc' \in Docs /\ known' = known
      /\ row' = row /\ rows' = rows /\ wire' = wire /\ raw' = raw /\ form' = form /\ then' = then
      /\ unlocked' = unlocked
  BY DEF FirstVars
<1>2. known = Blank
  BY <1>1, NoVarsKnown DEF FilterInv
<1> QED  BY <1>1, <1>2 DEF FilterInv, NothingLeavesUnmasked

(* tools_call masks every place of an answer with every value it could read, *)
(* the longest where several begin, changes nothing else and records that it *)
(* masked; no credential leaves but as a field's name or by the escape       *)
(* hatch; and what the row or its listing says holds no value unless the     *)
(* vault was locked.                                                         *)
THEOREM OnlyMaskedLeaves == FilterSpec => []NothingLeavesUnmasked
<1>1. FilterInit => FilterInv
  BY FilterStarts
<1>2. FilterInv /\ [FilterNext]_fvars => FilterInv'
  <2> SUFFICES ASSUME FilterInv, [FilterNext]_fvars PROVE FilterInv'
    OBVIOUS
  <2>1. CASE \E k \in {0} \cup DOMAIN doc, clear \in BOOLEAN : StartCall(k, clear)
    BY <2>1, StartCallKeeps
  <2>2. CASE \E f \in Form, name \in Names, said \in Saying : Complete(f, name, said)
    BY <2>2, CompleteKeeps
  <2>3. CASE Filter
    BY <2>3, FilterKeeps
  <2>4. CASE \E session \in BOOLEAN : List(session)
    BY <2>4, ListKeeps
  <2>5. CASE IdleLock
    BY <2>5, IdleLockKeeps
  <2>6. CASE FirstVars
    BY <2>6, FirstVarsKeeps
  <2>7. CASE UNCHANGED fvars
    BY <2>7 DEF FilterInv, fvars, NothingLeavesUnmasked
  <2> QED  BY <2>1, <2>2, <2>3, <2>4, <2>5, <2>6, <2>7 DEF FilterNext
<1>3. FilterInv => NothingLeavesUnmasked
  BY DEF FilterInv
<1> QED  BY <1>1, <1>2, <1>3, PTL DEF FilterSpec
====
