------------------------------ MODULE VarsStore ------------------------------
(***************************************************************************)
(* The local variables on disk (src/vars/mod.rs) and the commands of the   *)
(* human that write them (src/cli/vars.rs): set, unset and verify.  All    *)
(* variables are one sealed document, vars.blob; a command loads it whole, *)
(* changes one variable and saves it whole, without a lock, after rotating *)
(* three older copies.                                                     *)
(*                                                                         *)
(* A variable is a value with two marks: whether a human has confirmed it  *)
(* on this machine, and who wrote it last.  Sealing is perfect, so that a  *)
(* file is its document; the types of values and their validation decide   *)
(* only whether a command goes on.                                         *)
(***************************************************************************)
EXTENDS Naturals, FiniteSets

CONSTANTS Proc,     \* terminals with a kvendra command running
          Key,      \* names of variables, as numbers in their sorted order
          Value,    \* values, normalised
          Unset,    \* the variable has no value
          NoFile,   \* a file that does not exist
          Torn,     \* a file cut off in the middle of a write
          OldDoc,   \* documents that earlier commands may have left
          MaxCommands \* bound on the commands begun

ASSUME VarsConstants == Key \subseteq Nat /\ Unset \notin [value : Value, verified : BOOLEAN,
                                                           origin : {"set", "restore"}]

VARIABLES
  file,      \* vars.blob
  copies,    \* vars.blob.1 to vars.blob.3
  pc,        \* per process: the next step of its command
  job,       \* per process: what its command has read and is about to write
  begun,     \* commands begun so far
  saves,     \* documents placed so far
  confirmed, \* ghost: the <<key, value>> a human has confirmed on this machine
  late,      \* ghost: keys marked verified after the file had changed since the question
  crowd,     \* ghost: has a command loaded while another was between load and rename?
  ledger,    \* ghost: the document if every command were one step
  previous,  \* ghost: the document the last complete save has replaced
  rotations  \* ghost: saves that have begun to rotate the copies since then

vghosts == <<confirmed, late, crowd, ledger, previous, rotations>>
vvars   == <<file, copies, pc, job, begun, saves, vghosts>>

LocalVar == [value : Value, verified : BOOLEAN, origin : {"set", "restore"}]
VarsDoc  == [Key -> LocalVar \cup {Unset}]
Nothing  == [k \in Key |-> Unset]

(* No file and a torn one are told from a document, and what earlier         *)
(* commands have left is one.                                                *)
ASSUME OldDocuments == OldDoc \subseteq VarsDoc
ASSUME NoDocuments == NoFile # Torn /\ NoFile \notin VarsDoc /\ Torn \notin VarsDoc

VARS_BACKUP_COPIES == 3

(* load_with_key: a missing file is an empty document.                       *)
Readable == file # Torn
load     == IF file = NoFile THEN Nothing ELSE file

(* What a process holds between two steps. *)
NoJob == [op |-> "none", key |-> 0, doc |-> NoFile, shown |-> NoFile, todo |-> {}, at |-> 0]

VarsInit ==
  /\ file \in {NoFile} \cup OldDoc
  /\ copies = [i \in 1..VARS_BACKUP_COPIES |-> NoFile]
  /\ pc = [p \in Proc |-> "idle"]
  /\ job = [p \in Proc |-> NoJob]
  /\ begun = 0 /\ saves = 0
  /\ ledger = load /\ previous = NoFile /\ rotations = 0
  /\ confirmed = {<<k, ledger[k].value>> : k \in {l \in Key : ledger[l] # Unset /\ ledger[l].verified}}
  /\ late = {} /\ crowd = FALSE

Goto(p, label) == pc' = [pc EXCEPT ![p] = label]

Begin(p) == pc[p] = "idle" /\ begun < MaxCommands /\ begun' = begun + 1

Finish(p) == Goto(p, "idle") /\ job' = [job EXCEPT ![p] = NoJob]

------------------------------------------------------------------------------
(* The three changes of a document (vars/mod.rs).                            *)
set_var(k, v, verified) ==
  [load EXCEPT ![k] = [value |-> v, verified |-> verified, origin |-> "set"]]

unset_var(k) == [load EXCEPT ![k] = Unset]

mark_verified(k) == [load EXCEPT ![k].verified = TRUE]

(* The steps between a command's load and its rename. *)
Saving == {"save", "rotate", "copy", "place"}

Overlapping(p) == \E q \in Proc \ {p} : pc[q] \in Saving

(* set: the human types the value, sees it normalised and says whether it is *)
(* correct; set_var then loads, inserts and saves.                           *)
Set(p, k, v, yes) ==
  /\ Begin(p) /\ Readable
  /\ Goto(p, "save")
  /\ job' = [job EXCEPT ![p] = [NoJob EXCEPT
               !.op = "set", !.key = k, !.doc = set_var(k, v, yes)]]
  /\ confirmed' = IF yes THEN confirmed \cup {<<k, v>>} ELSE confirmed
  /\ crowd' = (crowd \/ Overlapping(p))
  /\ UNCHANGED <<file, copies, saves, late, ledger, previous, rotations>>

(* unset of a variable that exists; otherwise nothing is written. *)
UnsetVar(p, k) ==
  /\ Begin(p) /\ Readable
  /\ load[k] # Unset
  /\ Goto(p, "save")
  /\ job' = [job EXCEPT ![p] = [NoJob EXCEPT
               !.op = "unset", !.key = k, !.doc = unset_var(k)]]
  /\ crowd' = (crowd \/ Overlapping(p))
  /\ UNCHANGED <<file, copies, saves, confirmed, late, ledger, previous, rotations>>

(* verify loads once, for one key or for all, and asks about each in turn.   *)
Verify(p, keys) ==
  /\ Begin(p) /\ Readable
  /\ Goto(p, "ask")
  /\ job' = [job EXCEPT ![p] = [NoJob EXCEPT
               !.op = "verify", !.shown = load, !.todo = keys, !.at = saves]]
  /\ UNCHANGED <<file, copies, saves, vghosts>>

NextKey(p) == CHOOSE k \in job[p].todo : \A l \in job[p].todo : k <= l

NextQuestion(p) ==
  /\ pc[p] = "ask" /\ job[p].todo # {}

(* The key is not set, its value is no longer valid, or the human says no.   *)
Skip(p) ==
  /\ NextQuestion(p)
  /\ job' = [job EXCEPT ![p].todo = @ \ {NextKey(p)}]
  /\ UNCHANGED <<begun, file, copies, pc, saves, vghosts>>

Confirm(p) ==
  /\ NextQuestion(p)
  /\ job[p].shown[NextKey(p)] # Unset
  /\ Goto(p, "mark")
  /\ confirmed' = confirmed \cup {<<NextKey(p), job[p].shown[NextKey(p)].value>>}
  /\ UNCHANGED <<begun, file, copies, job, saves, late, crowd, ledger, previous, rotations>>

(* mark_verified loads again; a key that is gone, or a value that has become *)
(* invalid, ends the command with an error.                                  *)
MarkVerified(p) ==
  /\ pc[p] = "mark" /\ Readable
  /\ load[NextKey(p)] # Unset
  /\ Goto(p, "save")
  /\ job' = [job EXCEPT ![p].key = NextKey(p),
                        ![p].doc = mark_verified(NextKey(p))]
  /\ late' = IF job[p].at = saves THEN late ELSE late \cup {NextKey(p)}
  /\ crowd' = (crowd \/ Overlapping(p))
  /\ UNCHANGED <<begun, file, copies, saves, confirmed, ledger, previous, rotations>>

MarkRefused(p) ==
  /\ pc[p] = "mark" /\ (~Readable \/ load[NextKey(p)] = Unset)
  /\ Finish(p)
  /\ UNCHANGED <<begun, file, copies, saves, vghosts>>

VerifyDone(p) ==
  /\ pc[p] = "ask" /\ job[p].todo = {}
  /\ Finish(p)
  /\ UNCHANGED <<begun, file, copies, saves, vghosts>>

------------------------------------------------------------------------------
(* save_with_key: rotate the copies when there is a file, then write a       *)
(* temporary file and rename it into place.                                  *)

SaveFirst(p) ==
  /\ pc[p] = "save" /\ file = NoFile
  /\ Goto(p, "place")
  /\ UNCHANGED <<begun, file, copies, job, saves, vghosts>>

(* rename .i to .i+1, where .i exists. *)
Shift(i) ==
  copies' = IF copies[i] = NoFile THEN copies
            ELSE [copies EXCEPT ![i + 1] = copies[i], ![i] = NoFile]

RotateSecond(p) ==
  /\ pc[p] = "save" /\ file # NoFile
  /\ Shift(2)
  /\ rotations' = IF rotations < VARS_BACKUP_COPIES THEN rotations + 1 ELSE rotations
  /\ Goto(p, "rotate")
  /\ UNCHANGED <<begun, file, job, saves, confirmed, late, crowd, ledger, previous>>

RotateFirst(p) ==
  /\ pc[p] = "rotate"
  /\ Shift(1)
  /\ Goto(p, "copy")
  /\ UNCHANGED <<begun, file, job, saves, vghosts>>

CopyFirst(p) ==
  /\ pc[p] = "copy"
  /\ copies' = [copies EXCEPT ![1] = file]
  /\ Goto(p, "place")
  /\ UNCHANGED <<begun, file, job, saves, vghosts>>

(* The effect of the command in hand on a document, in one step. *)
Effect(j, d) ==
  IF d[j.key] = Unset /\ j.op = "verify" THEN d
  ELSE IF j.op = "verify" THEN [d EXCEPT ![j.key].verified = TRUE]
  ELSE [d EXCEPT ![j.key] = j.doc[j.key]]

(* The rename; verify goes on to its next question. *)
Place(p) ==
  /\ pc[p] = "place"
  /\ file' = job[p].doc
  /\ saves' = saves + 1
  /\ ledger' = Effect(job[p], ledger)
  /\ previous' = file
  /\ rotations' = 0
  /\ IF job[p].op = "verify"
       THEN /\ Goto(p, "ask")
            /\ job' = [job EXCEPT ![p].todo = @ \ {job[p].key}, ![p].doc = NoFile, ![p].key = 0,
                                  ![p].at = IF @ = saves THEN saves + 1 ELSE @]
       ELSE Finish(p)
  /\ UNCHANGED <<begun, copies, confirmed, late, crowd>>

(* A file operation fails or the process dies; a copy may be cut off.        *)
VarsFail(p) ==
  /\ pc[p] \in {"ask", "mark"} \cup Saving
  /\ copies' \in {copies} \cup
       (IF pc[p] = "copy" THEN {[copies EXCEPT ![1] = Torn]} ELSE {})
  /\ Finish(p)
  /\ UNCHANGED <<begun, file, saves, vghosts>>

VarsStep(p) ==
  \/ Skip(p) \/ Confirm(p) \/ MarkVerified(p) \/ MarkRefused(p) \/ VerifyDone(p)
  \/ SaveFirst(p) \/ RotateSecond(p) \/ RotateFirst(p) \/ CopyFirst(p) \/ Place(p)

VarsCommand(p) ==
  \/ \E k \in Key, v \in Value, yes \in BOOLEAN : Set(p, k, v, yes)
  \/ \E k \in Key : UnsetVar(p, k)
  \/ Readable /\ \E keys \in {{k} : k \in Key} \cup {{k \in Key : load[k] # Unset}} : Verify(p, keys)

------------------------------------------------------------------------------
(* Properties.                                                               *)

ConfirmedHere(d) ==
  \A k \in Key : d[k] # Unset /\ d[k].verified => <<k, d[k].value>> \in confirmed \/ k \in late

(* A variable marked verified holds a value that a human has confirmed on    *)
(* this machine, whatever other commands, restores and crashes do meanwhile, *)
(* unless another command saved while verify was asking about it: mark_      *)
(* verified loads again and marks what it then finds (vars.rs:289).          *)
ConfirmedUnlessRaced == file \notin {NoFile, Torn} => ConfirmedHere(file)

(* What a command has done to a variable stays done: the file is what the    *)
(* commands would leave one after the other, whoever died in between, unless *)
(* one of them loaded while another was between its load and its rename; and *)
(* as long as saves have not overlapped, the document that the last of them  *)
(* replaced is among the three copies, until a third save rotates them after *)
(* two that have stopped half way.                                           *)
LostOnlyByOverlap ==
  ~crowd => /\ file # Torn => load = ledger
            /\ previous # NoFile /\ rotations < VARS_BACKUP_COPIES
                 => \E i \in 1..VARS_BACKUP_COPIES : copies[i] = previous
==============================================================================
