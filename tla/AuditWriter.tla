------------------------------ MODULE AuditWriter ------------------------------
(***************************************************************************)
(* The audit writers of several processes over one SQLite file             *)
(* (src/audit/writer.rs, layout_commit.rs).  Each process owns one writer  *)
(* thread fed by a bounded channel; it takes one command at a time and     *)
(* runs it in one BEGIN IMMEDIATE transaction.  work is the lock holder's  *)
(* uncommitted view of the log: nobody else sees it until COMMIT.  A       *)
(* caller records an event, keeps the row id it is given, and may update   *)
(* the row's status when its primitive has run.                            *)
(***************************************************************************)
EXTENDS AuditChain, FiniteSets

CONSTANTS Proc,           \* processes with an audit writer
          NoProc,         \* nobody holds the write lock
          InitialLogs,    \* logs an earlier version may have left behind
          QueueCap,       \* capacity of the command channel (256 in the code)
          WRITE_LOCK_ATTEMPTS, \* tries at BEGIN IMMEDIATE (3 in the code)
          StorageFaults   \* may a stored column change behind our back?

ASSUME NoProcIsNoProc == NoProc \notin Proc
ASSUME Limits == QueueCap \in Nat /\ WRITE_LOCK_ATTEMPTS \in Nat \ {0}
ASSUME InitialLogsVerify ==
  \A log \in InitialLogs :
     /\ IsLog(log)
     /\ Verifies(log)
     /\ \A i \in 1..Len(log) : is_legacy_layout(log[i].layout) /\ log[i].event \in OldEvent

VARIABLES
  db,       \* the committed rows
  lock,     \* the process whose transaction holds the write lock
  work,     \* the rows as the lock holder's transaction sees them
  cursor,   \* last row the running update has re-signed
  queue,    \* per process: commands sent to the writer thread, oldest first
  pc,       \* per process: what the writer thread does next
  attempt,  \* per process: number of the current BEGIN IMMEDIATE attempt
  alive,    \* per process: is the writer thread running?
  call,     \* per event: what its caller knows
  owner,    \* per event: the process whose caller recorded it
  rowid,    \* per event: the row id its caller was given (0: none)
  faulted   \* has a stored column been changed behind our back?

vars == <<db, lock, work, cursor, queue, pc, attempt, alive, call, owner, rowid, faulted>>

CallState == {"new", "recording", "running", "updating", "done",
              "unrecorded", "unfinished", "lost"}

(* Diagnostics accompany an error status and nothing else. *)
DiagFor(status) == IF status = "error" THEN "text" ELSE "null"

Cmd == [op : {"record", "update", "commit-layout", "shutdown"},
        event : Event \cup {LayoutCommitted}, status : Status, diag : Diag]

Command(op, e, s) == [op |-> op, event |-> e, status |-> s, diag |-> DiagFor(s)]

cmd(p) == Head(queue[p])

Init ==
  /\ db \in InitialLogs
  /\ lock = NoProc
  /\ work = <<>>
  /\ cursor = 0
  /\ queue = [p \in Proc |-> <<>>]
  /\ pc = [p \in Proc |-> "idle"]
  /\ attempt = [p \in Proc |-> 1]
  /\ alive = [p \in Proc |-> TRUE]
  /\ call = [e \in Event |-> "new"]
  /\ owner = [e \in Event |-> NoProc]
  /\ rowid = [e \in Event |-> 0]
  /\ faulted = FALSE

------------------------------------------------------------------------------
(* The callers: dispatcher, CLI commands.                                    *)

Send(p, c) ==
  /\ alive[p]
  /\ Len(queue[p]) < QueueCap
  /\ queue' = [queue EXCEPT ![p] = Append(@, c)]
  /\ UNCHANGED <<db, lock, work, cursor, pc, attempt, alive, faulted>>

Record(p, e, s) ==
  /\ call[e] = "new"
  /\ call' = [call EXCEPT ![e] = "recording"]
  /\ owner' = [owner EXCEPT ![e] = p]
  /\ Send(p, Command("record", e, s))
  /\ UNCHANGED rowid

UpdateStatus(p, e, s) ==
  /\ call[e] = "running" /\ owner[e] = p
  /\ call' = [call EXCEPT ![e] = "updating"]
  /\ Send(p, Command("update", e, s))
  /\ UNCHANGED <<owner, rowid>>

CommitLayout(p) ==
  /\ Send(p, Command("commit-layout", LayoutCommitted, "ok"))
  /\ UNCHANGED <<call, owner, rowid>>

Shutdown(p) ==
  /\ Send(p, Command("shutdown", LayoutCommitted, "ok"))
  /\ UNCHANGED <<call, owner, rowid>>

(* The thread has stopped: "writer channel closed". *)
SendClosed(p, e) ==
  /\ ~alive[p] /\ owner[e] = p
  /\ call[e] = "running"
  /\ call' = [call EXCEPT ![e] = "unfinished"]
  /\ UNCHANGED <<db, lock, work, cursor, queue, pc, attempt, alive, owner, rowid, faulted>>

------------------------------------------------------------------------------
(* Answers to the caller; every one removes the command from the channel.    *)

(* What the caller of command c knows after an error answer. *)
CallAfterErr(c, old) ==
  CASE c.op = "record" -> "unrecorded"
    [] c.op = "update" -> "unfinished"
    [] OTHER           -> old

AckErr(p) ==
  /\ queue' = [queue EXCEPT ![p] = Tail(@)]
  /\ call' = [e \in Event |-> IF e = cmd(p).event
                              THEN CallAfterErr(cmd(p), call[e]) ELSE call[e]]
  /\ UNCHANGED rowid

(* Variant: the command stays in the channel after it was answered. *)
AckOkKept(p, id) ==
  /\ queue' = queue
  /\ call' = [e \in Event |->
                IF e = cmd(p).event
                THEN IF cmd(p).status = "started" THEN "running" ELSE "done"
                ELSE call[e]]
  /\ rowid' = [e \in Event |-> IF e = cmd(p).event THEN id ELSE rowid[e]]

AckOk(p, id) ==
  /\ queue' = [queue EXCEPT ![p] = Tail(@)]
  /\ call' = [e \in Event |->
                IF e = cmd(p).event
                THEN IF cmd(p).status = "started" THEN "running" ELSE "done"
                ELSE call[e]]
  /\ rowid' = [e \in Event |-> IF e = cmd(p).event THEN id ELSE rowid[e]]

EndTxn(p) ==
  /\ lock' = NoProc
  /\ work' = <<>>
  /\ cursor' = 0
  /\ pc' = [pc EXCEPT ![p] = "idle"]
  /\ UNCHANGED <<attempt, alive, owner, faulted>>

Commit(p, id) == db' = work /\ AckOk(p, id) /\ EndTxn(p)

(* Variant: statements outside a transaction survive the error. *)
RollbackNothing(p) == AckErr(p) /\ EndTxn(p) /\ db' = work

Rollback(p) == AckErr(p) /\ EndTxn(p) /\ UNCHANGED db

------------------------------------------------------------------------------
(* The writer thread.                                                        *)

FirstStep(op) ==
  CASE op = "record" -> "insert" [] op = "update" -> "check" [] OTHER -> "survey"

HasWork(p) == alive[p] /\ pc[p] = "idle" /\ queue[p] # <<>> /\ cmd(p).op # "shutdown"

(* BEGIN IMMEDIATE gets the write lock and a view of the committed log. *)
BeginImmediate(p) ==
  /\ HasWork(p)
  /\ lock = NoProc
  /\ lock' = p
  /\ work' = db
  /\ pc' = [pc EXCEPT ![p] = FirstStep(cmd(p).op)]
  /\ attempt' = [attempt EXCEPT ![p] = 1]
  /\ UNCHANGED <<db, cursor, queue, alive, call, owner, rowid, faulted>>

(* Variant: attempts are not counted. *)
RetryBusyForever(p) == HasWork(p) /\ lock # NoProc /\ UNCHANGED vars

(* An attempt timed out because another connection held the lock. *)
RetryBusy(p) ==
  /\ HasWork(p)
  /\ lock # NoProc
  /\ attempt[p] < WRITE_LOCK_ATTEMPTS
  /\ attempt' = [attempt EXCEPT ![p] = @ + 1]
  /\ UNCHANGED <<db, lock, work, cursor, queue, pc, alive, call, owner, rowid, faulted>>

GiveUpBusy(p) ==
  /\ HasWork(p)
  /\ lock # NoProc
  /\ attempt[p] = WRITE_LOCK_ATTEMPTS
  /\ attempt' = [attempt EXCEPT ![p] = 1]
  /\ AckErr(p)
  /\ UNCHANGED <<db, lock, work, cursor, pc, alive, owner, faulted>>

(* record_in_txn: read the tip, INSERT with an empty tag ... *)
NewRow(c, log) ==
  [layout |-> CURRENT_HMAC_LAYOUT, event |-> c.event,
   args   |-> IF c.op = "commit-layout" THEN LegacyDigest(log, Len(log)) ELSE <<>>,
   status |-> c.status, diag |-> c.diag,
   prev   |-> TagBefore(log, Len(log) + 1), tag |-> EmptyTag]

InsertRow(p) ==
  /\ pc[p] = "insert"
  /\ work' = Append(work, NewRow(cmd(p), work))
  /\ pc' = [pc EXCEPT ![p] = "tag"]
  /\ UNCHANGED <<db, lock, cursor, queue, attempt, alive, call, owner, rowid, faulted>>

(* ... then UPDATE the new row with its tag and commit. *)
Resign(log, id) == [log EXCEPT ![id].tag = Mac(id, log[id])]

TagRow(p) ==
  /\ pc[p] = "tag"
  /\ work' = Resign(work, Len(work))
  /\ pc' = [pc EXCEPT ![p] = "commit"]
  /\ UNCHANGED <<db, lock, cursor, queue, attempt, alive, call, owner, rowid, faulted>>

CommitRecord(p) ==
  /\ pc[p] = "commit"
  /\ cmd(p).op # "update"
  /\ Commit(p, Len(work))

(* update_in_txn, step 1: refuse to re-sign anything that does not verify. *)
Target(p) == rowid[cmd(p).event]

RefuseUpdate(p) ==
  /\ pc[p] = "check"
  /\ ~Resignable(work, Target(p))
  /\ Rollback(p)

(* Step 2: stamp the target and re-sign it under its own layout ... *)
Stamp(log, id, c) == [log EXCEPT ![id].status = c.status, ![id].diag = c.diag]

ResignTarget(p) ==
  /\ pc[p] = "check"
  /\ Resignable(work, Target(p))
  /\ work' = Resign(Stamp(work, Target(p), cmd(p)), Target(p))
  /\ cursor' = Target(p)
  /\ pc' = [pc EXCEPT ![p] = "rechain"]
  /\ UNCHANGED <<db, lock, queue, attempt, alive, call, owner, rowid, faulted>>

(* ... then re-chain the successors, one UPDATE each. *)
Relink(log, id) == [log EXCEPT ![id].prev = log[id - 1].tag]

RechainSuccessor(p) ==
  /\ pc[p] = "rechain"
  /\ cursor < Len(work)
  /\ work' = Resign(Relink(work, cursor + 1), cursor + 1)
  /\ cursor' = cursor + 1
  /\ UNCHANGED <<db, lock, queue, pc, attempt, alive, call, owner, rowid, faulted>>

(* Variant: the target is re-signed, its successors are not. *)
CommitUpdateUnchained(p) ==
  /\ pc[p] = "rechain"
  /\ Commit(p, Target(p))

CommitUpdate(p) ==
  /\ pc[p] = "rechain"
  /\ cursor = Len(work)
  /\ Commit(p, Target(p))

(* commit_in_txn: the whole chain must verify, and every commitment it holds *)
(* must carry the digest of all its legacy rows, before anything is decided. *)
Committable(log) ==
  /\ Verifies(log)
  /\ \A i \in Commitments(log) : log[i].args = LegacyDigest(log, Len(log))

RefuseLayout(p) ==
  /\ pc[p] = "survey"
  /\ ~Committable(work)
  /\ Rollback(p)

NothingToPinEver(log) == ~HasLegacyRows(log)  \* variant: forgets earlier commitments

NothingToPin(log) == ~HasLegacyRows(log) \/ Commitments(log) # {}

LayoutAlreadyPinned(p) ==
  /\ pc[p] = "survey"
  /\ Committable(work)
  /\ NothingToPin(work)
  /\ Commit(p, 0)

PinLayout(p) ==
  /\ pc[p] = "survey"
  /\ Committable(work)
  /\ ~NothingToPin(work)
  /\ pc' = [pc EXCEPT ![p] = "insert"]
  /\ UNCHANGED <<db, lock, work, cursor, queue, attempt, alive, call, owner, rowid, faulted>>

(* A statement or the COMMIT fails (I/O error, disk full): ROLLBACK. *)
SqlError(p) ==
  /\ lock = p
  /\ Rollback(p)

(* The loop breaks on Shutdown; commands still queued lose their answer. *)
StopThread(p) ==
  /\ alive[p] /\ pc[p] = "idle" /\ queue[p] # <<>> /\ cmd(p).op = "shutdown"
  /\ alive' = [alive EXCEPT ![p] = FALSE]
  /\ queue' = [queue EXCEPT ![p] = <<>>]
  /\ attempt' = [attempt EXCEPT ![p] = 1]
  /\ call' = [e \in Event |->
                LET mine == {c \in {queue[p][i] : i \in 1..Len(queue[p])} : c.event = e}
                IN  IF mine = {} THEN call[e]
                    ELSE CallAfterErr(CHOOSE c \in mine : TRUE, call[e])]
  /\ UNCHANGED <<db, lock, work, cursor, pc, owner, rowid, faulted>>

------------------------------------------------------------------------------
(* The environment.                                                          *)

LoseCalls(p) ==
  call' = [e \in Event |->
             IF owner[e] = p /\ call[e] \in {"recording", "running", "updating"}
             THEN "lost" ELSE call[e]]

(* The process dies: its transaction rolls back, its calls are never heard   *)
(* of again.                                                                 *)
Crash(p) ==
  /\ alive[p]
  /\ alive' = [alive EXCEPT ![p] = FALSE]
  /\ queue' = [queue EXCEPT ![p] = <<>>]
  /\ pc' = [pc EXCEPT ![p] = "idle"]
  /\ attempt' = [attempt EXCEPT ![p] = 1]
  /\ IF lock = p THEN lock' = NoProc /\ work' = <<>> /\ cursor' = 0
                 ELSE UNCHANGED <<lock, work, cursor>>
  /\ LoseCalls(p)
  /\ UNCHANGED <<db, owner, rowid, faulted>>

(* A new process in its place knows nothing of the old one's calls. *)
Restart(p) ==
  /\ ~alive[p]
  /\ alive' = [alive EXCEPT ![p] = TRUE]
  /\ LoseCalls(p)
  /\ UNCHANGED <<db, lock, work, cursor, queue, pc, attempt, owner, rowid, faulted>>

(* One stored column of one row is not what was written. *)
Damaged(row) ==
  {[row EXCEPT !.status = s] : s \in Status}
    \cup {[row EXCEPT !.diag = d] : d \in Diag}
    \cup {[row EXCEPT !.prev = EmptyTag], [row EXCEPT !.tag = EmptyTag]}

StorageFault(i) ==
  /\ StorageFaults /\ ~faulted
  /\ lock = NoProc
  /\ \E row \in Damaged(db[i]) \ {db[i]} : db' = [db EXCEPT ![i] = row]
  /\ faulted' = TRUE
  /\ UNCHANGED <<lock, work, cursor, queue, pc, attempt, alive, call, owner, rowid>>

------------------------------------------------------------------------------
Take(p)    == BeginImmediate(p) \/ RetryBusy(p) \/ GiveUpBusy(p) \/ StopThread(p)
RecordTxn(p) == InsertRow(p) \/ TagRow(p) \/ CommitRecord(p)
UpdateTxn(p) == RefuseUpdate(p) \/ ResignTarget(p) \/ RechainSuccessor(p) \/ CommitUpdate(p)
LayoutTxn(p) == RefuseLayout(p) \/ LayoutAlreadyPinned(p) \/ PinLayout(p)
Thread(p)  == Take(p) \/ RecordTxn(p) \/ UpdateTxn(p) \/ LayoutTxn(p)

Callers(p) ==
  \/ \E e \in Event, s \in Status : Record(p, e, s)
  \/ \E e \in Event, s \in Status \ {"started"} : UpdateStatus(p, e, s)
  \/ \E e \in Event : SendClosed(p, e)
  \/ CommitLayout(p)
  \/ Shutdown(p)

Next ==
  \/ \E p \in Proc : Callers(p) \/ Thread(p) \/ SqlError(p) \/ Crash(p) \/ Restart(p)
  \/ \E i \in 1..Len(db) : StorageFault(i)

(* Only the writer threads are scheduled fairly: callers, faults and         *)
(* restarts owe nothing.                                                     *)
Spec == Init /\ [][Next]_vars /\ \A p \in Proc : WF_vars(Thread(p))

------------------------------------------------------------------------------
(* Properties.                                                               *)

(* Every variable holds a value of its kind; the lock holder is in a         *)
(* transaction and nobody else is.                                           *)
TypeOK ==
  /\ IsLog(db) /\ IsLog(work)
  /\ lock \in Proc \cup {NoProc}
  /\ cursor \in 0..Len(work)
  /\ queue \in [Proc -> Seq(Cmd)]
  /\ \A p \in Proc : Len(queue[p]) <= QueueCap
  /\ pc \in [Proc -> {"idle", "insert", "tag", "commit", "check", "rechain", "survey"}]
  /\ attempt \in [Proc -> 1..WRITE_LOCK_ATTEMPTS]
  /\ alive \in [Proc -> BOOLEAN]
  /\ call \in [Event -> CallState]
  /\ owner \in [Event -> Proc \cup {NoProc}]
  /\ rowid \in [Event -> Nat]
  /\ faulted \in BOOLEAN
  /\ \A p \in Proc : pc[p] # "idle" <=> lock = p

(* `kvendra audit verify` passes at every instant, whichever processes       *)
(* record, update and commit concurrently and wherever one of them dies, as  *)
(* long as storage returns what was written (the CHAIN_BROKEN of long-lived  *)
(* logs that update_event_status's re-chaining repairs).                     *)
ChainVerifies == ~faulted => Verifies(db)

(* What a caller was told is what the log holds: an error answer to a record *)
(* means no row exists, a row id names the caller's own row, still started   *)
(* until an update of it succeeds and final afterwards.  No event has two    *)
(* rows ("the row is never dropped silently", with_immediate_txn).           *)
RowsFor(e) == {i \in 1..Len(db) : db[i].event = e}

AnswersMatchLog ==
  ~faulted => \A e \in Event :
     /\ call[e] \in {"new", "recording", "unrecorded"} => RowsFor(e) = {}
     /\ call[e] \in {"running", "updating", "unfinished"} =>
           RowsFor(e) = {rowid[e]} /\ db[rowid[e]].status = "started"
     /\ call[e] = "done" =>
           RowsFor(e) = {rowid[e]} /\ db[rowid[e]].status # "started"

(* Once a commitment pins the legacy rows, no writer rewrites one of them,   *)
(* and no second commitment is ever appended (layout_commit.rs, "additive    *)
(* only", "idempotent").                                                     *)
PinnedRowsFrozen ==
  [][ Commitments(db) # {} =>
        /\ Commitments(db') = Commitments(db)
        /\ faulted' = faulted =>
             \A i \in 1..Len(db) : is_legacy_layout(db[i].layout) => db'[i] = db[i] ]_vars

(* A damaged log is reported, never laundered: once verification fails, no   *)
(* record, update or commit-layout of any process makes it pass again        *)
(* (update_event_status step 1, commit_legacy_layout "fail-closed").         *)
NeverLaundered == [][ ~Verifies(db) => ~Verifies(db') ]_vars

(* ExportsAgree of AuditChain (audit/export/verify.rs), of whatever the      *)
(* writers and a damage of the storage make of the log.                      *)
ExportsVerifyAsLog == ExportsAgree(db)

(* Readers of the committed log see an append-only log of entries that       *)
(* change once.                                                              *)
Log == INSTANCE AuditLog
         WITH entries <- [i \in DOMAIN db |-> [event |-> db[i].event, status |-> db[i].status]]
ImplementsAuditLog == Log!Spec

(* Every command sent to a writer is answered, unless its process dies:      *)
(* waiting for the write lock is bounded, and the lock is always given back. *)
EveryCallAnswered ==
  \A e \in Event : /\ call[e] = "recording" ~> call[e] # "recording"
                   /\ call[e] = "updating" ~> call[e] # "updating"
===============================================================================
