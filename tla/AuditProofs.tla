------------------------------- MODULE AuditProofs -------------------------------
(***************************************************************************)
(* Proofs about the audit log: AuditWriter, for every set of processes and *)
(* events, every inherited log that verifies, every channel capacity and   *)
(* retry limit; and AuditSchema as AuditService runs it, whose schema is   *)
(* sound however many processes open the database at once, and whatever    *)
(* they interleave, abort or die in.  Then the bytes a tag authenticates    *)
(* (AuditEncoding): rows are told apart whatever their columns hold; and    *)
(* last the exports: verifying one offline is verifying the log.            *)
(***************************************************************************)
EXTENDS AuditService, SequenceTheorems, FiniteSetTheorems, WellFoundedInduction, TLAPS

(* A function on 1..n is a sequence of length n. *)
LEMMA FcnIsSeq ==
  ASSUME NEW S, NEW n \in Nat, NEW f \in [1..n -> S]
  PROVE  f \in Seq(S) /\ Len(f) = n
<1>1. f \in Seq(S)
  BY SeqDef
<1>2. DOMAIN f = 1..n /\ DOMAIN f = 1..Len(f) /\ Len(f) \in Nat
  BY <1>1, LenProperties
<1> QED
  BY <1>1, <1>2

(* Replacing one row of a log by a well-formed row gives a log of the same   *)
(* length that differs in that row only.                                     *)
LEMMA SetRow ==
  ASSUME NEW log, IsLog(log), NEW id \in 1..Len(log), NEW row, IsRow(row)
  PROVE  /\ IsLog([log EXCEPT ![id] = row])
         /\ Len([log EXCEPT ![id] = row]) = Len(log)
         /\ [log EXCEPT ![id] = row][id] = row
         /\ \A i \in 1..Len(log) : i # id => [log EXCEPT ![id] = row][i] = log[i]
<1> DEFINE new == [log EXCEPT ![id] = row]
<1>1. log \in Seq(RowsOf(log)) /\ DOMAIN log = 1..Len(log) /\ Len(log) \in Nat
  BY DEF IsLog
<1>2. new = [i \in 1..Len(log) |-> IF i = id THEN row ELSE log[i]]
  BY <1>1
<1>3. new \in [1..Len(log) -> RowsOf(new)] /\ DOMAIN new = 1..Len(log)
  BY <1>2 DEF RowsOf
<1> HIDE DEF new
<1>4. new \in Seq(RowsOf(new)) /\ Len(new) = Len(log)
  BY <1>1, <1>3, FcnIsSeq
<1>5. \A i \in DOMAIN new : IsRow(new[i])
  BY <1>1, <1>2 DEF IsLog
<1> USE DEF new
<1> QED
  BY <1>2, <1>4, <1>5 DEF IsLog

(* Appending a well-formed row to a log keeps the rows it had. *)
LEMMA AddRow ==
  ASSUME NEW log, IsLog(log), NEW row, IsRow(row)
  PROVE  /\ IsLog(Append(log, row))
         /\ Len(Append(log, row)) = Len(log) + 1
         /\ Append(log, row)[Len(log) + 1] = row
         /\ \A i \in 1..Len(log) : Append(log, row)[i] = log[i]
<1> DEFINE new == Append(log, row)
<1>1. log \in Seq(RowsOf(log)) /\ DOMAIN log = 1..Len(log) /\ Len(log) \in Nat
  BY DEF IsLog
<1>2. log \in Seq(RowsOf(log) \cup {row}) /\ row \in RowsOf(log) \cup {row}
  <2>1. log \in [1..Len(log) -> RowsOf(log)]
    BY <1>1
  <2>2. log \in [1..Len(log) -> RowsOf(log) \cup {row}]
    BY <2>1
  <2> QED
    BY <1>1, <2>2
<1>3. /\ Len(new) = Len(log) + 1
      /\ DOMAIN new = 1..(Len(log) + 1)
      /\ new[Len(log) + 1] = row
      /\ \A i \in 1..Len(log) : new[i] = log[i]
  BY <1>1, <1>2
<1>4. new \in Seq(RowsOf(log) \cup {row})
  BY <1>2
<1> HIDE DEF new
<1>5. new \in [1..Len(new) -> RowsOf(new)] /\ Len(new) \in Nat
  BY <1>4, LenProperties DEF RowsOf
<1>6. new \in Seq(RowsOf(new))
  BY <1>5, FcnIsSeq
<1>7. \A i \in DOMAIN new : IsRow(new[i])
  BY <1>1, <1>3 DEF IsLog
<1>8. IsLog(new)
  BY <1>6, <1>7 DEF IsLog
<1> USE DEF new
<1> QED
  BY <1>3, <1>8

(* The empty sequence is a log. *)
LEMMA EmptyLog == IsLog(<<>>)
BY DEF IsLog, RowsOf

------------------------------------------------------------------------------
(* Types.                                                                    *)

(* Commands name caller events, except for those about the whole log. *)
CmdOK(c) == IF c.op \in {"record", "update"} THEN c.event \in Event
                                             ELSE c.event = LayoutCommitted

(* A thread inside a transaction still has the command it runs. *)
TxnOK(p) ==
  pc[p] # "idle" =>
     /\ queue[p] # <<>>
     /\ pc[p] \in {"insert", "tag", "commit"} => cmd(p).op \in {"record", "commit-layout"}
     /\ pc[p] \in {"check", "rechain"} => cmd(p).op = "update"
     /\ pc[p] = "survey" => cmd(p).op = "commit-layout"

TypeInv ==
  /\ TypeOK
  /\ lock = NoProc => cursor = 0
  /\ \A p \in Proc : TxnOK(p) /\ \A i \in 1..Len(queue[p]) : CmdOK(queue[p][i])

LEMMA InitTypeInv == Init => TypeInv
<1> SUFFICES ASSUME Init PROVE TypeInv
  OBVIOUS
<1>1. IsLog(db) /\ IsLog(work)
  BY EmptyLog, InitialLogsVerify DEF Init
<1>2. /\ queue \in [Proc -> Seq(Cmd)]
      /\ \A p \in Proc : queue[p] = <<>> /\ Len(queue[p]) = 0
  BY EmptySeq DEF Init
<1>3. cursor \in 0..Len(work)
  BY EmptySeq DEF Init
<1>4. alive \in [Proc -> BOOLEAN] /\ faulted \in BOOLEAN
  BY Zenon DEF Init
<1>5. \A p \in Proc : Len(queue[p]) <= QueueCap /\ (pc[p] # "idle" <=> lock = p)
  BY <1>2, NoProcIsNoProc, Limits DEF Init
<1>6. TypeOK
  <2> USE DEF Init, CallState
  <2>1. pc \in [Proc -> {"idle", "insert", "tag", "commit", "check", "rechain", "survey"}]
    OBVIOUS
  <2>2. attempt \in [Proc -> 1..WRITE_LOCK_ATTEMPTS]
    BY Limits
  <2>3. call \in [Event -> CallState] /\ rowid \in [Event -> Nat]
    OBVIOUS
  <2>4. owner \in [Event -> Proc \cup {NoProc}] /\ lock \in Proc \cup {NoProc}
    OBVIOUS
  <2> QED
    BY <1>1, <1>2, <1>3, <1>4, <1>5, <2>1, <2>2, <2>3, <2>4 DEF TypeOK
<1>7. \A p \in Proc : TxnOK(p) /\ \A i \in 1..Len(queue[p]) : CmdOK(queue[p][i])
  BY <1>2 DEF Init, TxnOK
<1> QED
  BY <1>6, <1>7 DEF TypeInv, Init

(* The command a caller sends is well-formed. *)
LEMMA CommandOK ==
  ASSUME NEW op \in {"record", "update", "commit-layout", "shutdown"},
         NEW e \in Event \cup {LayoutCommitted}, NEW s \in Status,
         IF op \in {"record", "update"} THEN e \in Event ELSE e = LayoutCommitted
  PROVE  Command(op, e, s) \in Cmd /\ CmdOK(Command(op, e, s))
<1>1. DiagFor(s) \in Diag
  BY DEF DiagFor, Diag
<1> QED
  BY <1>1 DEF Command, Cmd, CmdOK

(* Sending a well-formed command keeps the types. *)
LEMMA SendType ==
  ASSUME TypeInv, NEW p \in Proc, NEW c \in Cmd, CmdOK(c), Send(p, c),
         call' \in [Event -> CallState],
         owner' \in [Event -> Proc \cup {NoProc}],
         UNCHANGED rowid
  PROVE  TypeInv'
<1>1. /\ queue' \in [Proc -> Seq(Cmd)]
      /\ \A q \in Proc : Len(queue'[q]) <= QueueCap
  <2>1. queue[p] \in Seq(Cmd) /\ Len(queue[p]) < QueueCap
    BY DEF TypeInv, TypeOK, Send
  <2>2. Append(queue[p], c) \in Seq(Cmd) /\ Len(Append(queue[p], c)) = Len(queue[p]) + 1
    BY <2>1, AppendProperties
  <2> QED
    BY <2>1, <2>2, Limits DEF TypeInv, TypeOK, Send
<1>2. ASSUME NEW q \in Proc
      PROVE  /\ \A i \in 1..Len(queue'[q]) : CmdOK(queue'[q][i])
             /\ queue[q] # <<>> => queue'[q] # <<>> /\ Head(queue'[q]) = Head(queue[q])
  BY AppendProperties DEF TypeInv, TypeOK, Send
<1>3. \A q \in Proc : TxnOK(q)'
  BY <1>2 DEF TypeInv, TypeOK, TxnOK, Send, cmd
<1> QED
  BY <1>1, <1>2, <1>3 DEF TypeInv, TypeOK, Send

(* Dropping the first command of a queue keeps the types of all queues. *)
LEMMA PopType ==
  ASSUME TypeInv, NEW p \in Proc, queue[p] # <<>>,
         queue' = [queue EXCEPT ![p] = Tail(@)]
  PROVE  /\ queue' \in [Proc -> Seq(Cmd)]
         /\ \A q \in Proc : Len(queue'[q]) <= QueueCap
         /\ \A q \in Proc : \A i \in 1..Len(queue'[q]) : CmdOK(queue'[q][i])
         /\ \A q \in Proc \ {p} : queue'[q] = queue[q]
<1>1. queue[p] \in Seq(Cmd) /\ Len(queue[p]) <= QueueCap
  BY DEF TypeInv, TypeOK
<1>2. /\ Tail(queue[p]) \in Seq(Cmd)
      /\ Len(Tail(queue[p])) = Len(queue[p]) - 1
      /\ \A i \in 1..Len(Tail(queue[p])) : Tail(queue[p])[i] = queue[p][i + 1]
      /\ Len(queue[p]) \in Nat
  BY <1>1, HeadTailProperties, LenProperties
<1>3. \A i \in 1..Len(Tail(queue[p])) : CmdOK(Tail(queue[p])[i])
  BY <1>2 DEF TypeInv
<1> QED
  BY <1>1, <1>2, <1>3, Limits DEF TypeInv, TypeOK

(* The command at the head of a queue is well-formed. *)
LEMMA CmdType ==
  ASSUME TypeInv, NEW p \in Proc, queue[p] # <<>>
  PROVE  cmd(p) \in Cmd /\ CmdOK(cmd(p))
<1>1. queue[p] \in Seq(Cmd) /\ 1 \in 1..Len(queue[p]) /\ Head(queue[p]) = queue[p][1]
  BY EmptySeq DEF TypeInv, TypeOK
<1> QED
  BY <1>1, ElementOfSeq DEF TypeInv, cmd

(* An error answer leaves call well-typed. *)
LEMMA AckErrCall ==
  ASSUME TypeInv, NEW p \in Proc, AckErr(p)
  PROVE  call' \in [Event -> CallState] /\ rowid' \in [Event -> Nat]
BY DEF AckErr, CallAfterErr, CallState, TypeInv, TypeOK

(* Ending a transaction keeps the types if the new log and calls have theirs. *)
LEMMA EndTxnType ==
  ASSUME TypeInv, NEW p \in Proc, lock = p, EndTxn(p), queue[p] # <<>>,
         queue' = [queue EXCEPT ![p] = Tail(@)],
         IsLog(db)', call' \in [Event -> CallState], rowid' \in [Event -> Nat]
  PROVE  TypeInv'
<1>1. IsLog(work)' /\ cursor' \in 0..Len(work')
  BY EmptyLog, EmptySeq DEF EndTxn
<1>2. \A q \in Proc : pc'[q] # "idle" <=> lock' = q
  BY NoProcIsNoProc DEF EndTxn, TypeInv, TypeOK
<1>3. \A q \in Proc : TxnOK(q)'
  BY PopType, <1>2 DEF EndTxn, TypeInv, TypeOK, TxnOK, cmd
<1>4. TypeOK'
  BY <1>1, <1>2, PopType DEF EndTxn, TypeInv, TypeOK
<1> QED
  BY <1>3, <1>4, PopType DEF TypeInv, EndTxn

(* The row a transaction inserts is well-formed. *)
LEMMA NewRowOK ==
  ASSUME NEW c \in Cmd, NEW log
  PROVE  IsRow(NewRow(c, log))
BY DEF NewRow, IsRow, Cmd, Layout, CURRENT_HMAC_LAYOUT

(* What the log operators of a transaction do to the row they change. *)
LEMMA ResignLog ==
  ASSUME NEW log, IsLog(log), NEW id \in 1..Len(log)
  PROVE  /\ IsLog(Resign(log, id)) /\ Len(Resign(log, id)) = Len(log)
         /\ Resign(log, id)[id].tag = Mac(id, log[id])
         /\ \A f \in {"layout", "event", "args", "status", "diag", "prev"} : Resign(log, id)[id][f] = log[id][f]
         /\ \A i \in 1..Len(log) : i # id => Resign(log, id)[i] = log[i]
<1> DEFINE row == [log[id] EXCEPT !.tag = Mac(id, log[id])]
<1>1. IsRow(log[id]) /\ id \in DOMAIN log /\ id \in 1..Len(log)
  BY LenProperties DEF IsLog
<1>2. IsRow(row)
  BY <1>1 DEF IsRow, Cmd
<1>3. Resign(log, id) = [log EXCEPT ![id] = row]
  BY <1>1 DEF Resign
<1>4. /\ row.tag = Mac(id, log[id])
      /\ \A f \in {"layout", "event", "args", "status", "diag", "prev"} : row[f] = log[id][f]
  BY <1>1 DEF IsRow
<1> HIDE DEF row
<1>5. /\ IsLog([log EXCEPT ![id] = row])
      /\ Len([log EXCEPT ![id] = row]) = Len(log)
      /\ [log EXCEPT ![id] = row][id] = row
      /\ \A i \in 1..Len(log) : i # id => [log EXCEPT ![id] = row][i] = log[i]
  BY <1>1, <1>2, SetRow, Zenon
<1> QED
  BY <1>3, <1>4, <1>5

(* Relink changes the link column only. *)
LEMMA RelinkLog ==
  ASSUME NEW log, IsLog(log), NEW id \in 2..Len(log)
  PROVE  /\ IsLog(Relink(log, id)) /\ Len(Relink(log, id)) = Len(log)
         /\ Relink(log, id)[id].prev = log[id - 1].tag
         /\ \A f \in {"layout", "event", "args", "status", "diag"} : Relink(log, id)[id][f] = log[id][f]
         /\ \A i \in 1..Len(log) : i # id => Relink(log, id)[i] = log[i]
<1> DEFINE row == [log[id] EXCEPT !.prev = log[id - 1].tag]
<1>1. IsRow(log[id]) /\ id \in DOMAIN log /\ id \in 1..Len(log)
  BY LenProperties DEF IsLog
<1>2. IsRow(row)
  BY <1>1 DEF IsRow, Cmd
<1>3. Relink(log, id) = [log EXCEPT ![id] = row]
  BY <1>1 DEF Relink
<1>4. /\ row.prev = log[id - 1].tag
      /\ \A f \in {"layout", "event", "args", "status", "diag"} : row[f] = log[id][f]
  BY <1>1 DEF IsRow
<1> HIDE DEF row
<1>5. /\ IsLog([log EXCEPT ![id] = row])
      /\ Len([log EXCEPT ![id] = row]) = Len(log)
      /\ [log EXCEPT ![id] = row][id] = row
      /\ \A i \in 1..Len(log) : i # id => [log EXCEPT ![id] = row][i] = log[i]
  BY <1>1, <1>2, SetRow, Zenon
<1> QED
  BY <1>3, <1>4, <1>5

(* Stamp leaves identity, layout and link alone. *)
LEMMA StampLog ==
  ASSUME NEW log, IsLog(log), NEW id \in 1..Len(log), NEW c \in Cmd
  PROVE  /\ IsLog(Stamp(log, id, c)) /\ Len(Stamp(log, id, c)) = Len(log)
         /\ \A f \in {"layout", "event", "args", "prev"} : Stamp(log, id, c)[id][f] = log[id][f]
         /\ \A i \in 1..Len(log) : i # id => Stamp(log, id, c)[i] = log[i]
<1> DEFINE row == [log[id] EXCEPT !.status = c.status, !.diag = c.diag]
<1>1. IsRow(log[id]) /\ id \in DOMAIN log /\ id \in 1..Len(log)
  BY LenProperties DEF IsLog
<1>2. IsRow(row)
  BY <1>1 DEF IsRow, Cmd
<1>3. Stamp(log, id, c) = [log EXCEPT ![id] = row]
  BY <1>1 DEF Stamp
<1>4. /\ \A f \in {"layout", "event", "args", "prev"} : row[f] = log[id][f]
  BY <1>1 DEF IsRow
<1> HIDE DEF row
<1>5. /\ IsLog([log EXCEPT ![id] = row])
      /\ Len([log EXCEPT ![id] = row]) = Len(log)
      /\ [log EXCEPT ![id] = row][id] = row
      /\ \A i \in 1..Len(log) : i # id => [log EXCEPT ![id] = row][i] = log[i]
  BY <1>1, <1>2, SetRow, Zenon
<1> QED
  BY <1>3, <1>4, <1>5

(* A step inside a transaction that keeps the shape of the log keeps types. *)
LEMMA TxnStepType ==
  ASSUME TypeInv, NEW p \in Proc, pc[p] # "idle", IsLog(work)', cursor' \in 0..Len(work'),
         pc' = [pc EXCEPT ![p] = pc'[p]],
         \/ pc'[p] \in {"insert", "tag", "commit"} /\ cmd(p).op \in {"record", "commit-layout"}
         \/ pc'[p] \in {"check", "rechain"} /\ cmd(p).op = "update",
         UNCHANGED <<db, lock, queue, attempt, alive, call, owner, rowid, faulted>>
  PROVE  TypeInv'
<1>1. pc' \in [Proc -> {"idle", "insert", "tag", "commit", "check", "rechain", "survey"}]
  BY DEF TypeInv, TypeOK
<1>2. \A q \in Proc : pc'[q] # "idle" <=> lock' = q
  BY DEF TypeInv, TypeOK
<1>3. \A q \in Proc : TxnOK(q)'
  BY DEF TypeInv, TypeOK, TxnOK, cmd
<1>4. TypeOK'
  BY <1>1, <1>2 DEF TypeInv, TypeOK
<1>5. lock' # NoProc
  BY NoProcIsNoProc DEF TypeInv, TypeOK
<1> QED
  BY <1>3, <1>4, <1>5 DEF TypeInv

LEMMA NextTypeInv == TypeInv /\ [Next]_vars => TypeInv'
<1> SUFFICES ASSUME TypeInv, [Next]_vars PROVE TypeInv'
  OBVIOUS
<1>1. CASE UNCHANGED vars
  BY <1>1 DEF vars, TypeInv, TypeOK, TxnOK, cmd
<1>2. ASSUME NEW p \in Proc, Callers(p) PROVE TypeInv'
  <2>1. ASSUME NEW e \in Event, NEW s \in Status, Record(p, e, s) PROVE TypeInv'
    <3>1. Command("record", e, s) \in Cmd /\ CmdOK(Command("record", e, s))
      BY CommandOK
    <3>2. /\ call' \in [Event -> CallState] /\ owner' \in [Event -> Proc \cup {NoProc}]
          /\ Send(p, Command("record", e, s)) /\ UNCHANGED rowid
      BY <2>1 DEF Record, TypeInv, TypeOK, CallState
    <3> QED
      BY <3>1, <3>2, SendType
  <2>2. ASSUME NEW e \in Event, NEW s \in Status, UpdateStatus(p, e, s) PROVE TypeInv'
    <3>1. Command("update", e, s) \in Cmd /\ CmdOK(Command("update", e, s))
      BY CommandOK
    <3>2. /\ call' \in [Event -> CallState] /\ owner' \in [Event -> Proc \cup {NoProc}]
          /\ Send(p, Command("update", e, s)) /\ UNCHANGED rowid
      BY <2>2 DEF UpdateStatus, TypeInv, TypeOK, CallState
    <3> QED
      BY <3>1, <3>2, SendType
  <2>3. ASSUME NEW e \in Event, SendClosed(p, e) PROVE TypeInv'
    <3>1. call' \in [Event -> CallState]
      BY <2>3 DEF SendClosed, TypeInv, TypeOK, CallState
    <3> QED
      BY <2>3, <3>1 DEF SendClosed, TypeInv, TypeOK, TxnOK, cmd
  <2>4. CASE CommitLayout(p) \/ Shutdown(p)
    <3>1. ASSUME NEW op \in {"commit-layout", "shutdown"},
                 Send(p, Command(op, LayoutCommitted, "ok")), UNCHANGED <<call, owner, rowid>>
          PROVE  TypeInv'
      <4>1. "ok" \in Status
        BY DEF Status
      <4>2. Command(op, LayoutCommitted, "ok") \in Cmd /\ CmdOK(Command(op, LayoutCommitted, "ok"))
        BY <4>1, CommandOK
      <4>3. call' \in [Event -> CallState] /\ owner' \in [Event -> Proc \cup {NoProc}]
        BY <3>1 DEF TypeInv, TypeOK
      <4> QED
        BY <3>1, <4>2, <4>3, SendType
    <3> QED
      BY <2>4, <3>1 DEF CommitLayout, Shutdown
  <2> QED
    BY <1>2, <2>1, <2>2, <2>3, <2>4 DEF Callers
<1>3. ASSUME NEW p \in Proc, Take(p) PROVE TypeInv'
  <2>1. CASE BeginImmediate(p)
    <3>1. queue[p] # <<>> /\ cmd(p) \in Cmd /\ cmd(p).op # "shutdown" /\ pc[p] = "idle"
      BY <2>1, CmdType DEF BeginImmediate, HasWork
    <3>2. FirstStep(cmd(p).op) \in {"insert", "check", "survey"}
      BY DEF FirstStep
    <3>3. /\ pc' \in [Proc -> {"idle", "insert", "tag", "commit", "check", "rechain", "survey"}]
          /\ attempt' \in [Proc -> 1..WRITE_LOCK_ATTEMPTS]
      BY <2>1, <3>2, Limits DEF BeginImmediate, TypeInv, TypeOK
    <3>4. IsLog(db)' /\ IsLog(work)' /\ cursor' = 0 /\ cursor' \in 0..Len(work')
      BY <2>1, LenProperties DEF BeginImmediate, TypeInv, TypeOK, IsLog
    <3>5. \A q \in Proc : (pc'[q] # "idle" <=> lock' = q) /\ TxnOK(q)'
      BY <2>1, <3>1, <3>2, NoProcIsNoProc
         DEF BeginImmediate, TypeInv, TypeOK, TxnOK, cmd, FirstStep, Cmd
    <3>6. TypeOK'
      BY <2>1, <3>3, <3>4, <3>5 DEF BeginImmediate, TypeInv, TypeOK
    <3> QED
      BY <2>1, <3>5, <3>6 DEF BeginImmediate, TypeInv
  <2>2. CASE RetryBusy(p)
    <3>1. attempt' \in [Proc -> 1..WRITE_LOCK_ATTEMPTS]
      BY <2>2, Limits DEF RetryBusy, TypeInv, TypeOK
    <3> QED
      BY <2>2, <3>1 DEF RetryBusy, TypeInv, TypeOK, TxnOK, cmd
  <2>3. CASE GiveUpBusy(p)
    <3>1. attempt' \in [Proc -> 1..WRITE_LOCK_ATTEMPTS]
      BY <2>3, Limits DEF GiveUpBusy, TypeInv, TypeOK
    <3>2. queue[p] # <<>> /\ pc[p] = "idle" /\ queue' = [queue EXCEPT ![p] = Tail(@)]
      BY <2>3 DEF GiveUpBusy, HasWork, AckErr
    <3>3. call' \in [Event -> CallState] /\ rowid' \in [Event -> Nat]
      BY <2>3, AckErrCall DEF GiveUpBusy
    <3>4. TypeOK'
      BY <2>3, <3>1, <3>2, <3>3, PopType DEF GiveUpBusy, TypeInv, TypeOK
    <3>5. \A q \in Proc : TxnOK(q)'
      BY <2>3, <3>2, PopType DEF GiveUpBusy, TypeInv, TypeOK, TxnOK, cmd
    <3> QED
      BY <2>3, <3>2, <3>4, <3>5, PopType DEF GiveUpBusy, TypeInv
  <2>4. CASE StopThread(p)
    <3>1. /\ queue' \in [Proc -> Seq(Cmd)]
          /\ \A q \in Proc : Len(queue'[q]) <= QueueCap
          /\ \A q \in Proc : \A i \in 1..Len(queue'[q]) : CmdOK(queue'[q][i])
      BY <2>4, EmptySeq, Limits DEF StopThread, TypeInv, TypeOK
    <3>2. attempt' \in [Proc -> 1..WRITE_LOCK_ATTEMPTS] /\ call' \in [Event -> CallState]
      BY <2>4, Limits DEF StopThread, TypeInv, TypeOK, CallState, CallAfterErr
    <3>3. alive' \in [Proc -> BOOLEAN]
      BY <2>4 DEF StopThread, TypeInv, TypeOK
    <3>4. \A q \in Proc : TxnOK(q)'
      BY <2>4 DEF StopThread, TypeInv, TypeOK, TxnOK, cmd
    <3> QED
      BY <2>4, <3>1, <3>2, <3>3, <3>4 DEF StopThread, TypeInv, TypeOK
  <2> QED
    BY <1>3, <2>1, <2>2, <2>3, <2>4 DEF Take
<1>4. ASSUME NEW p \in Proc, RecordTxn(p) PROVE TypeInv'
  <2>1. pc[p] # "idle" /\ lock = p /\ queue[p] # <<>> /\ cmd(p) \in Cmd /\ CmdOK(cmd(p))
    BY <1>4, CmdType
       DEF RecordTxn, InsertRow, TagRow, CommitRecord, TypeInv, TypeOK, TxnOK
  <2>2. CASE InsertRow(p)
    <3>1. IsLog(work') /\ Len(work') = Len(work) + 1
      BY <2>1, <2>2, NewRowOK, AddRow DEF InsertRow, TypeInv, TypeOK
    <3>2. cursor' \in 0..Len(work') /\ pc' = [pc EXCEPT ![p] = pc'[p]] /\ pc'[p] = "tag"
      BY <2>2, <3>1 DEF InsertRow, TypeInv, TypeOK
    <3>3. cmd(p).op \in {"record", "commit-layout"}
      BY <2>2 DEF InsertRow, TypeInv, TxnOK
    <3> QED
      BY <2>1, <2>2, <3>1, <3>2, <3>3, TxnStepType DEF InsertRow
  <2>3. CASE TagRow(p)
    <3>1. IsLog(work') /\ Len(work') = Len(work)
      <4>1. CASE Len(work) = 0
        <5>1. work' = work
          BY <2>3, <4>1, LenProperties DEF TagRow, Resign, TypeInv, TypeOK, IsLog
        <5> QED
          BY <5>1 DEF TypeInv, TypeOK
      <4>2. CASE Len(work) # 0
        <5>1. Len(work) \in 1..Len(work)
          BY <4>2, LenProperties DEF TypeInv, TypeOK, IsLog
        <5> QED
          BY <2>3, <5>1, ResignLog DEF TagRow, TypeInv, TypeOK
      <4> QED
        BY <4>1, <4>2
    <3>2. cursor' \in 0..Len(work') /\ pc' = [pc EXCEPT ![p] = pc'[p]] /\ pc'[p] = "commit"
      BY <2>3, <3>1 DEF TagRow, TypeInv, TypeOK
    <3>3. cmd(p).op \in {"record", "commit-layout"}
      BY <2>3 DEF TagRow, TypeInv, TxnOK
    <3> QED
      BY <2>1, <2>3, <3>1, <3>2, <3>3, TxnStepType DEF TagRow
  <2>4. CASE CommitRecord(p)
    <3>1. call' \in [Event -> CallState] /\ rowid' \in [Event -> Nat]
      BY <2>4, LenProperties
         DEF CommitRecord, Commit, AckOk, TypeInv, TypeOK, CallState, IsLog
    <3>2. IsLog(db)' /\ queue' = [queue EXCEPT ![p] = Tail(@)] /\ EndTxn(p)
      BY <2>4 DEF CommitRecord, Commit, AckOk, TypeInv, TypeOK
    <3> QED
      BY <2>1, <3>1, <3>2, EndTxnType
  <2> QED
    BY <1>4, <2>2, <2>3, <2>4 DEF RecordTxn
<1>5. ASSUME NEW p \in Proc, UpdateTxn(p) PROVE TypeInv'
  <2>1. /\ pc[p] # "idle" /\ lock = p /\ queue[p] # <<>>
        /\ cmd(p) \in Cmd /\ cmd(p).op = "update" /\ Target(p) \in Nat
    <3>1. pc[p] \in {"check", "rechain"}
      BY <1>5 DEF UpdateTxn, RefuseUpdate, ResignTarget, RechainSuccessor, CommitUpdate
    <3>2. lock = p /\ queue[p] # <<>> /\ cmd(p).op = "update"
      BY <3>1 DEF TypeInv, TypeOK, TxnOK
    <3>3. cmd(p) \in Cmd /\ cmd(p).event \in Event
      BY <3>2, CmdType DEF CmdOK
    <3> QED
      BY <3>1, <3>2, <3>3 DEF Target, TypeInv, TypeOK
  <2>2. CASE RefuseUpdate(p)
    <3>1. IsLog(db)' /\ queue' = [queue EXCEPT ![p] = Tail(@)] /\ EndTxn(p) /\ AckErr(p)
      BY <2>2 DEF RefuseUpdate, Rollback, AckErr, TypeInv, TypeOK
    <3> QED
      BY <2>1, <3>1, AckErrCall, EndTxnType
  <2>3. CASE ResignTarget(p)
    <3>1. Target(p) \in 1..Len(work)
      BY <2>3 DEF ResignTarget, Resignable
    <3>2. IsLog(Stamp(work, Target(p), cmd(p))) /\ Len(Stamp(work, Target(p), cmd(p))) = Len(work)
      BY <2>1, <3>1, StampLog DEF TypeInv, TypeOK
    <3>3. IsLog(work') /\ Len(work') = Len(work)
      BY <2>3, <3>1, <3>2, ResignLog DEF ResignTarget
    <3>4. cursor' \in 0..Len(work') /\ pc' = [pc EXCEPT ![p] = pc'[p]] /\ pc'[p] = "rechain"
      BY <2>3, <3>1, <3>3 DEF ResignTarget, TypeInv, TypeOK
    <3> QED
      BY <2>1, <2>3, <3>3, <3>4, TxnStepType DEF ResignTarget
  <2>4. CASE RechainSuccessor(p)
    <3>1. Len(work) \in Nat /\ cursor \in 0..Len(work) /\ cursor < Len(work)
      BY <2>4, LenProperties DEF RechainSuccessor, TypeInv, TypeOK, IsLog
    <3>2. IsLog(Relink(work, cursor + 1)) /\ Len(Relink(work, cursor + 1)) = Len(work)
      <4>1. CASE cursor = 0
        <5> DEFINE row == [work[1] EXCEPT !.prev = work[0].tag]
        <5>1. 1 \in 1..Len(work) /\ IsRow(work[1])
          BY <3>1, <4>1, LenProperties DEF TypeInv, TypeOK, IsLog
        <5>2. IsRow(row)
          BY <5>1 DEF IsRow
        <5>3. Relink(work, cursor + 1) = [work EXCEPT ![1] = row]
          BY <4>1 DEF Relink
        <5>5. IsLog(work)
          BY DEF TypeInv, TypeOK
        <5> HIDE DEF row
        <5>4. /\ IsLog([work EXCEPT ![1] = row])
              /\ Len([work EXCEPT ![1] = row]) = Len(work)
          BY <5>1, <5>2, <5>5, SetRow, Zenon
        <5> QED
          BY <5>3, <5>4
      <4>2. CASE cursor # 0
        <5>1. cursor + 1 \in 2..Len(work)
          BY <3>1, <4>2
        <5> QED
          BY <5>1, RelinkLog DEF TypeInv, TypeOK
      <4> QED
        BY <4>1, <4>2
    <3>3. cursor + 1 \in 1..Len(work)
      BY <3>1
    <3>4. IsLog(work') /\ Len(work') = Len(work)
      BY <2>4, <3>2, <3>3, ResignLog DEF RechainSuccessor
    <3>5. cursor' \in 0..Len(work') /\ pc' = [pc EXCEPT ![p] = pc'[p]] /\ pc'[p] = "rechain"
      BY <2>4, <3>3, <3>4 DEF RechainSuccessor, TypeInv, TypeOK
    <3> QED
      BY <2>1, <2>4, <3>4, <3>5, TxnStepType DEF RechainSuccessor
  <2>5. CASE CommitUpdate(p)
    <3>1. call' \in [Event -> CallState] /\ rowid' \in [Event -> Nat]
      BY <2>1, <2>5 DEF CommitUpdate, Commit, AckOk, TypeInv, TypeOK, CallState
    <3>2. IsLog(db)' /\ queue' = [queue EXCEPT ![p] = Tail(@)] /\ EndTxn(p)
      BY <2>5 DEF CommitUpdate, Commit, AckOk, TypeInv, TypeOK
    <3> QED
      BY <2>1, <3>1, <3>2, EndTxnType
  <2> QED
    BY <1>5, <2>2, <2>3, <2>4, <2>5 DEF UpdateTxn
<1>6. ASSUME NEW p \in Proc, LayoutTxn(p) PROVE TypeInv'
  <2>1. /\ pc[p] = "survey" /\ lock = p /\ queue[p] # <<>>
        /\ cmd(p).op = "commit-layout" /\ cmd(p).event = LayoutCommitted
    BY <1>6, CmdType
       DEF LayoutTxn, RefuseLayout, LayoutAlreadyPinned, PinLayout, TypeInv, TypeOK, TxnOK, CmdOK
  <2>2. CASE RefuseLayout(p)
    <3>1. IsLog(db)' /\ queue' = [queue EXCEPT ![p] = Tail(@)] /\ EndTxn(p) /\ AckErr(p)
      BY <2>2 DEF RefuseLayout, Rollback, AckErr, TypeInv, TypeOK
    <3> QED
      BY <2>1, <3>1, AckErrCall, EndTxnType
  <2>3. CASE LayoutAlreadyPinned(p)
    <3>1. call' \in [Event -> CallState] /\ rowid' \in [Event -> Nat]
      BY <2>3 DEF LayoutAlreadyPinned, Commit, AckOk, TypeInv, TypeOK, CallState
    <3>2. IsLog(db)' /\ queue' = [queue EXCEPT ![p] = Tail(@)] /\ EndTxn(p)
      BY <2>3 DEF LayoutAlreadyPinned, Commit, AckOk, TypeInv, TypeOK
    <3> QED
      BY <2>1, <3>1, <3>2, EndTxnType
  <2>4. CASE PinLayout(p)
    <3>1. /\ pc' = [pc EXCEPT ![p] = pc'[p]] /\ pc'[p] = "insert"
          /\ IsLog(work)' /\ cursor' \in 0..Len(work')
      BY <2>4 DEF PinLayout, TypeInv, TypeOK
    <3> QED
      BY <2>1, <2>4, <3>1, TxnStepType DEF PinLayout
  <2> QED
    BY <1>6, <2>2, <2>3, <2>4 DEF LayoutTxn
<1>7. ASSUME NEW p \in Proc, SqlError(p) PROVE TypeInv'
  <2>1. queue[p] # <<>> /\ lock = p
    BY <1>7 DEF SqlError, TypeInv, TypeOK, TxnOK
  <2>2. IsLog(db)' /\ queue' = [queue EXCEPT ![p] = Tail(@)] /\ EndTxn(p) /\ AckErr(p)
    BY <1>7 DEF SqlError, Rollback, AckErr, TypeInv, TypeOK
  <2> QED
    BY <2>1, <2>2, AckErrCall, EndTxnType
<1>8. ASSUME NEW p \in Proc, Crash(p) PROVE TypeInv'
  <2>1. /\ queue' \in [Proc -> Seq(Cmd)]
        /\ \A q \in Proc : Len(queue'[q]) <= QueueCap
        /\ \A q \in Proc : \A i \in 1..Len(queue'[q]) : CmdOK(queue'[q][i])
    BY <1>8, EmptySeq, Limits DEF Crash, TypeInv, TypeOK
  <2>2. attempt' \in [Proc -> 1..WRITE_LOCK_ATTEMPTS] /\ call' \in [Event -> CallState]
    BY <1>8, Limits DEF Crash, LoseCalls, TypeInv, TypeOK, CallState
  <2>3. alive' \in [Proc -> BOOLEAN]
    BY <1>8 DEF Crash, TypeInv, TypeOK
  <2>4. IsLog(work)' /\ cursor' \in 0..Len(work') /\ lock' \in Proc \cup {NoProc}
    BY <1>8, EmptyLog, EmptySeq DEF Crash, TypeInv, TypeOK
  <2>5. \A q \in Proc : (pc'[q] # "idle" <=> lock' = q) /\ TxnOK(q)'
    BY <1>8, NoProcIsNoProc DEF Crash, TypeInv, TypeOK, TxnOK, cmd
  <2>6. lock' = NoProc => cursor' = 0
    BY <1>8 DEF Crash, TypeInv
  <2>7. pc' \in [Proc -> {"idle", "insert", "tag", "commit", "check", "rechain", "survey"}]
    BY <1>8 DEF Crash, TypeInv, TypeOK
  <2>8. TypeOK'
    BY <1>8, <2>1, <2>2, <2>3, <2>4, <2>5, <2>7 DEF Crash, TypeInv, TypeOK
  <2> QED
    BY <2>1, <2>5, <2>6, <2>8 DEF TypeInv
<1>9. ASSUME NEW p \in Proc, Restart(p) PROVE TypeInv'
  <2>1. alive' \in [Proc -> BOOLEAN]
    BY <1>9 DEF Restart, TypeInv, TypeOK
  <2>2. call' \in [Event -> CallState]
    BY <1>9 DEF Restart, LoseCalls, TypeInv, TypeOK, CallState
  <2> QED
    BY <1>9, <2>1, <2>2 DEF Restart, TypeInv, TypeOK, TxnOK, cmd
<1>10. ASSUME NEW i \in 1..Len(db), StorageFault(i) PROVE TypeInv'
  <2>1. PICK row \in Damaged(db[i]) : db' = [db EXCEPT ![i] = row]
    BY <1>10 DEF StorageFault
  <2>2. IsRow(db[i])
    BY LenProperties DEF TypeInv, TypeOK, IsLog
  <2>3. IsRow(row)
    BY <2>2 DEF Damaged, IsRow
  <2>4. IsLog(db')
    BY <2>1, <2>3, SetRow DEF TypeInv, TypeOK
  <2> QED
    BY <1>10, <2>4 DEF StorageFault, TypeInv, TypeOK, TxnOK, cmd
<1> QED
  BY <1>1, <1>2, <1>3, <1>4, <1>5, <1>6, <1>7, <1>8, <1>9, <1>10 DEF Next, Thread

(* Every variable always holds a value of its kind, whatever processes do,   *)
(* crash or damage (the invariant TypeOK of the runs).                       *)
THEOREM TypeCorrect == Spec => []TypeOK
<1>1. TypeInv => TypeOK
  BY DEF TypeInv
<1> QED
  BY <1>1, InitTypeInv, NextTypeInv, PTL DEF Spec

------------------------------------------------------------------------------
(* The chain verifies.                                                       *)

(* A log whose last row is inserted but not yet tagged. *)
Unsigned(log) ==
  /\ Len(log) >= 1 /\ ~is_legacy_layout(log[Len(log)].layout)
  /\ \A i \in 1..Len(log) :
        /\ LinkOK(log, i) /\ LayoutOK(log, i) /\ PinOK(log, i)
        /\ i < Len(log) => MacOK(log, i)

(* A log re-signed up to row c: only the link of row c + 1 may be stale, and  *)
(* every row still to be re-chained has the current layout.                  *)
Rechaining(log, c) ==
  /\ c \in 1..Len(log)
  /\ \A i \in 1..Len(log) :
        /\ LayoutOK(log, i) /\ MacOK(log, i) /\ PinOK(log, i)
        /\ i # c + 1 => LinkOK(log, i)
        /\ i > c => ~is_legacy_layout(log[i].layout)

(* The committed log verifies; a transaction's log is one step of its kind   *)
(* away from verifying.  ChainVerifies alone is not inductive: it says       *)
(* nothing of the log a transaction is about to commit.                      *)
ChainInv ==
  ~faulted =>
     /\ Verifies(db)
     /\ \A p \in Proc :
           /\ pc[p] \in {"insert", "check", "survey", "commit"} => Verifies(work)
           /\ pc[p] = "tag" => Unsigned(work)
           /\ pc[p] = "rechain" => Rechaining(work, cursor)

(* The digest of the first n rows depends on their layouts and on the legacy *)
(* rows among them, on nothing else.                                         *)
LEMMA DigestAgrees ==
  ASSUME NEW log, NEW new, NEW n \in Int,
         \A j \in 1..n : /\ new[j].layout = log[j].layout
                         /\ is_legacy_layout(log[j].layout) => new[j] = log[j]
  PROVE  LegacyDigest(new, n) = LegacyDigest(log, n)
<1>1. {j \in 1..n : is_legacy_layout(new[j].layout)} = {j \in 1..n : is_legacy_layout(log[j].layout)}
  OBVIOUS
<1> QED
  BY <1>1 DEF LegacyDigest

(* INSERT makes a verifying log an unsigned one. *)
LEMMA InsertUnsigned ==
  ASSUME NEW log, IsLog(log), Verifies(log), NEW c \in Cmd, CmdOK(c),
         c.op \in {"record", "commit-layout"}
  PROVE  Unsigned(Append(log, NewRow(c, log)))
<1> DEFINE row == NewRow(c, log)
           new == Append(log, row)
           n   == Len(log)
<1>1. n \in Nat
  BY LenProperties DEF IsLog
<1>2. Len(new) = n + 1 /\ new[n + 1] = row /\ \A i \in 1..n : new[i] = log[i]
  BY NewRowOK, AddRow
<1>3. /\ row.layout = CURRENT_HMAC_LAYOUT
      /\ row.event = c.event
      /\ row.prev = TagBefore(log, n + 1)
      /\ c.op = "commit-layout" => row.args = LegacyDigest(log, n)
  BY DEF NewRow
<1> HIDE DEF row, new
<1>4. \A i \in 1..(n + 1) : LegacyDigest(new, i - 1) = LegacyDigest(log, i - 1)
  BY <1>1, <1>2, DigestAgrees
<1>5. ~is_legacy_layout(row.layout)
  BY <1>3 DEF is_legacy_layout, CURRENT_HMAC_LAYOUT
<1>6. ASSUME NEW i \in 1..n
      PROVE  LinkOK(new, i) /\ LayoutOK(new, i) /\ PinOK(new, i) /\ MacOK(new, i)
  <2>1. LinkOK(log, i) /\ LayoutOK(log, i) /\ PinOK(log, i) /\ MacOK(log, i)
    BY DEF Verifies
  <2>2. new[i] = log[i] /\ \A j \in 1..(i - 1) : new[j] = log[j]
    BY <1>1, <1>2
  <2>3. LegacyDigest(new, i - 1) = LegacyDigest(log, i - 1)
    BY <1>1, <1>4
  <2> QED
    BY <1>1, <2>1, <2>2, <2>3 DEF LinkOK, TagBefore, LayoutOK, PinOK, MacOK
<1>7. LinkOK(new, n + 1)
  BY <1>1, <1>2, <1>3 DEF LinkOK, TagBefore
<1>8. LayoutOK(new, n + 1)
  BY <1>2, <1>5 DEF LayoutOK
<1>9. PinOK(new, n + 1)
  <2>1. SUFFICES ASSUME is_layout_commitment(row) PROVE row.args = LegacyDigest(new, n)
    BY <1>1, <1>2 DEF PinOK
  <2>2. c.op = "commit-layout"
    BY <1>3, <2>1, EventsDisjoint DEF is_layout_commitment, CmdOK
  <2> QED
    BY <1>1, <1>3, <1>4, <2>2
<1> QED
  BY <1>1, <1>2, <1>5, <1>6, <1>7, <1>8, <1>9 DEF Unsigned, row, new

(* Tagging the last row makes an unsigned log verify. *)
LEMMA TagVerifies ==
  ASSUME NEW log, IsLog(log), Unsigned(log)
  PROVE  Verifies(Resign(log, Len(log)))
<1> DEFINE new == Resign(log, Len(log))
           n   == Len(log)
<1>1. n \in Nat /\ n \in 1..n
  BY LenProperties DEF IsLog, Unsigned
<1>2. /\ Len(new) = n
      /\ \A i \in 1..n : i # n => new[i] = log[i]
  BY <1>1, ResignLog
<1>4. /\ new[n].tag = Mac(n, log[n])
      /\ \A f \in {"layout", "event", "args", "status", "diag", "prev"} : new[n][f] = log[n][f]
  BY <1>1, ResignLog
<1> HIDE DEF new
<1>5. MacOK(new, n)
  BY <1>4 DEF MacOK, Mac
<1>6. ASSUME NEW i \in 1..n
      PROVE  LinkOK(new, i) /\ LayoutOK(new, i) /\ PinOK(new, i) /\ (i < n => MacOK(new, i))
  <2>1. /\ LinkOK(log, i) /\ LayoutOK(log, i) /\ PinOK(log, i)
        /\ i < n => MacOK(log, i)
    BY DEF Unsigned
  <2>2. /\ new[i].prev = log[i].prev /\ new[i].layout = log[i].layout
        /\ new[i].event = log[i].event /\ new[i].args = log[i].args
    BY <1>2, <1>4
  <2>3. \A j \in 1..(i - 1) : new[j] = log[j]
    BY <1>1, <1>2
  <2>4. LegacyDigest(new, i - 1) = LegacyDigest(log, i - 1)
    BY <1>1, <2>3, DigestAgrees
  <2>5. i < n => new[i] = log[i]
    BY <1>2
  <2> QED
    BY <1>1, <2>1, <2>2, <2>3, <2>4, <2>5
       DEF LinkOK, TagBefore, LayoutOK, PinOK, is_layout_commitment, MacOK
<1> QED
  BY <1>1, <1>2, <1>5, <1>6 DEF Verifies, new

(* Stamping and re-signing an authentic target leaves at most the link of    *)
(* its successor stale.  A legacy target has no successor, so no digest      *)
(* covers it.                                                                *)
LEMMA ResignRechains ==
  ASSUME NEW log, IsLog(log), Verifies(log), NEW id, Resignable(log, id), NEW c \in Cmd
  PROVE  Rechaining(Resign(Stamp(log, id, c), id), id)
<1> DEFINE mid == Stamp(log, id, c)
           new == Resign(mid, id)
           n   == Len(log)
<1>1. n \in Nat /\ id \in 1..n
  BY LenProperties DEF IsLog, Resignable
<1>2. /\ IsLog(mid) /\ Len(mid) = n
      /\ \A f \in {"layout", "event", "args", "prev"} : mid[id][f] = log[id][f]
      /\ \A i \in 1..n : i # id => mid[i] = log[i]
  BY <1>1, StampLog
<1> HIDE DEF mid
<1>4. IsLog(mid) /\ id \in 1..Len(mid)
  BY <1>1, <1>2
<1>3. /\ IsLog(new) /\ Len(new) = Len(mid)
      /\ new[id].tag = Mac(id, mid[id])
      /\ \A f \in {"layout", "event", "args", "status", "diag", "prev"} : new[id][f] = mid[id][f]
      /\ \A i \in 1..Len(mid) : i # id => new[i] = mid[i]
  BY <1>4, ResignLog
<1> HIDE DEF new
<1>5. /\ new[id].tag = Mac(id, mid[id])
      /\ \A f \in {"layout", "event", "args", "status", "diag", "prev"} : new[id][f] = mid[id][f]
      /\ \A f \in {"layout", "event", "args", "prev"} : mid[id][f] = log[id][f]
  BY <1>2, <1>3
<1>6. MacOK(new, id)
  BY <1>5 DEF MacOK, Mac
<1>7. \A i \in 1..n : /\ new[i].layout = log[i].layout /\ new[i].event = log[i].event
                      /\ new[i].args = log[i].args /\ new[i].prev = log[i].prev
                      /\ i # id => new[i] = log[i]
  BY <1>1, <1>2, <1>3, <1>5
<1>8. is_legacy_layout(log[id].layout) => id = n
  BY <1>1 DEF Resignable
<1>9. ASSUME NEW i \in 1..n
      PROVE  /\ LayoutOK(new, i) /\ MacOK(new, i) /\ PinOK(new, i)
             /\ i # id + 1 => LinkOK(new, i)
             /\ i > id => ~is_legacy_layout(new[i].layout)
  <2>1. LinkOK(log, i) /\ LayoutOK(log, i) /\ PinOK(log, i) /\ MacOK(log, i)
    BY DEF Verifies
  <2>2. LegacyDigest(new, i - 1) = LegacyDigest(log, i - 1)
    <3>1. \A j \in 1..(i - 1) : /\ new[j].layout = log[j].layout
                                /\ is_legacy_layout(log[j].layout) => new[j] = log[j]
      BY <1>1, <1>7, <1>8
    <3> QED
      BY <1>1, <3>1, DigestAgrees
  <2>3. MacOK(new, i)
    BY <1>6, <1>7, <2>1 DEF MacOK
  <2>4. LayoutOK(new, i) /\ PinOK(new, i)
    BY <1>1, <1>7, <2>1, <2>2 DEF LayoutOK, PinOK, is_layout_commitment
  <2>5. i # id + 1 => LinkOK(new, i)
    BY <1>1, <1>7, <2>1 DEF LinkOK, TagBefore
  <2>6. i > id => ~is_legacy_layout(new[i].layout)
    BY <1>1, <1>7 DEF Resignable
  <2> QED
    BY <2>3, <2>4, <2>5, <2>6
<1>10. Len(new) = n
  BY <1>2, <1>3
<1>11. Rechaining(new, id)
  BY <1>1, <1>9, <1>10 DEF Rechaining
<1> QED
  BY <1>11 DEF mid, new

(* Re-chaining one successor moves the stale link one row on. *)
LEMMA RechainStep ==
  ASSUME NEW log, IsLog(log), NEW k, Rechaining(log, k), k < Len(log)
  PROVE  Rechaining(Resign(Relink(log, k + 1), k + 1), k + 1)
<1> DEFINE id  == k + 1
           mid == Relink(log, id)
           new == Resign(mid, id)
           n   == Len(log)
<1>1. n \in Nat /\ k \in 1..n /\ id \in 2..n /\ id \in 1..n
  BY LenProperties DEF IsLog, Rechaining
<1>2. /\ IsLog(mid) /\ Len(mid) = n
      /\ mid[id].prev = log[id - 1].tag
      /\ \A f \in {"layout", "event", "args", "status", "diag"} : mid[id][f] = log[id][f]
      /\ \A i \in 1..n : i # id => mid[i] = log[i]
  BY <1>1, RelinkLog
<1> HIDE DEF mid
<1>4. IsLog(mid) /\ id \in 1..Len(mid)
  BY <1>1, <1>2
<1>3. /\ IsLog(new) /\ Len(new) = Len(mid)
      /\ new[id].tag = Mac(id, mid[id])
      /\ \A f \in {"layout", "event", "args", "status", "diag", "prev"} : new[id][f] = mid[id][f]
      /\ \A i \in 1..Len(mid) : i # id => new[i] = mid[i]
  BY <1>4, ResignLog
<1> HIDE DEF new
<1>5. /\ new[id].tag = Mac(id, mid[id])
      /\ \A f \in {"layout", "event", "args", "status", "diag", "prev"} : new[id][f] = mid[id][f]
      /\ \A f \in {"layout", "event", "args"} : mid[id][f] = log[id][f]
      /\ mid[id].prev = log[id - 1].tag
  BY <1>2, <1>3
<1>6. MacOK(new, id)
  BY <1>5 DEF MacOK, Mac
<1>7. \A i \in 1..n : /\ new[i].layout = log[i].layout /\ new[i].event = log[i].event
                      /\ new[i].args = log[i].args
                      /\ i # id => new[i] = log[i]
  BY <1>1, <1>2, <1>3, <1>5
<1>8. ~is_legacy_layout(log[id].layout)
  BY <1>1 DEF Rechaining
<1>9. ASSUME NEW i \in 1..n
      PROVE  /\ LayoutOK(new, i) /\ MacOK(new, i) /\ PinOK(new, i)
             /\ i # id + 1 => LinkOK(new, i)
             /\ i > id => ~is_legacy_layout(new[i].layout)
  <2>1. /\ LayoutOK(log, i) /\ PinOK(log, i) /\ MacOK(log, i)
        /\ i # id => LinkOK(log, i)
    BY DEF Rechaining
  <2>2. LegacyDigest(new, i - 1) = LegacyDigest(log, i - 1)
    <3>1. \A j \in 1..(i - 1) : /\ new[j].layout = log[j].layout
                                /\ is_legacy_layout(log[j].layout) => new[j] = log[j]
      BY <1>1, <1>7, <1>8
    <3> QED
      BY <1>1, <3>1, DigestAgrees
  <2>3. MacOK(new, i)
    BY <1>6, <1>7, <2>1 DEF MacOK
  <2>4. LayoutOK(new, i) /\ PinOK(new, i)
    BY <1>1, <1>7, <2>1, <2>2 DEF LayoutOK, PinOK, is_layout_commitment
  <2>5. i # id + 1 => LinkOK(new, i)
    BY <1>1, <1>5, <1>7, <2>1 DEF LinkOK, TagBefore
  <2>6. i > id => ~is_legacy_layout(new[i].layout)
    BY <1>1, <1>7 DEF Rechaining
  <2> QED
    BY <2>3, <2>4, <2>5, <2>6
<1>10. Len(new) = n
  BY <1>2, <1>3
<1>11. Rechaining(new, id)
  BY <1>1, <1>9, <1>10 DEF Rechaining
<1> QED
  BY <1>11 DEF mid, new

(* The last successor re-chained, the log verifies. *)
LEMMA RechainedVerifies ==
  ASSUME NEW log, IsLog(log), Rechaining(log, Len(log))
  PROVE  Verifies(log)
<1>1. Len(log) \in Nat
  BY LenProperties DEF IsLog
<1>2. \A i \in 1..Len(log) : i # Len(log) + 1
  BY <1>1
<1> QED
  BY <1>2 DEF Rechaining, Verifies

LEMMA InitChainInv == Init => ChainInv
<1> SUFFICES ASSUME Init PROVE ChainInv
  OBVIOUS
<1>1. Verifies(db)
  BY InitialLogsVerify DEF Init
<1>2. \A p \in Proc : pc[p] = "idle"
  BY DEF Init
<1> QED
  BY <1>1, <1>2 DEF ChainInv

LEMMA NextChainInv == TypeInv /\ ChainInv /\ [Next]_vars => ChainInv'
<1> SUFFICES ASSUME TypeInv, ChainInv, [Next]_vars, ~faulted' PROVE ChainInv'
  BY DEF ChainInv
<1>1. CASE UNCHANGED vars
  BY <1>1 DEF vars, ChainInv
<1>2. ASSUME NEW p \in Proc, Callers(p) \/ Restart(p) PROVE ChainInv'
  <2>1. UNCHANGED <<db, work, cursor, pc, faulted>>
    BY <1>2 DEF Callers, Record, UpdateStatus, SendClosed, CommitLayout, Shutdown, Send, Restart
  <2> QED
    BY <2>1 DEF ChainInv
<1>3. ASSUME NEW p \in Proc, Take(p) PROVE ChainInv'
  <2>1. CASE BeginImmediate(p)
    <3>1. \A q \in Proc \ {p} : pc'[q] = "idle"
      BY <2>1, NoProcIsNoProc DEF BeginImmediate, TypeInv, TypeOK
    <3>2. pc'[p] \in {"insert", "check", "survey"} /\ work' = db /\ UNCHANGED <<db, faulted>>
      BY <2>1 DEF BeginImmediate, FirstStep, TypeInv, TypeOK
    <3> QED
      BY <3>1, <3>2 DEF ChainInv
  <2>2. CASE RetryBusy(p) \/ GiveUpBusy(p) \/ StopThread(p)
    BY <2>2 DEF RetryBusy, GiveUpBusy, StopThread, ChainInv
  <2> QED
    BY <1>3, <2>1, <2>2 DEF Take
<1>4. ASSUME NEW p \in Proc, pc[p] # "idle", ~faulted,
             \/ RecordTxn(p) \/ UpdateTxn(p) \/ LayoutTxn(p) \/ SqlError(p)
      PROVE  ChainInv'
  <2>1. /\ IsLog(work) /\ IsLog(db) /\ Verifies(db)
        /\ \A q \in Proc \ {p} : pc[q] = "idle"
        /\ pc \in [Proc -> {"idle", "insert", "tag", "commit", "check", "rechain", "survey"}]
    BY <1>4 DEF TypeInv, TypeOK, ChainInv
  <2>2. cmd(p) \in Cmd /\ CmdOK(cmd(p))
    BY <1>4, CmdType DEF TypeInv, TxnOK
  <2>3. ASSUME UNCHANGED db, EndTxn(p) PROVE ChainInv'
    BY <2>1, <2>3 DEF EndTxn, ChainInv
  <2>4. ASSUME Verifies(work), db' = work, EndTxn(p) PROVE ChainInv'
    BY <2>1, <2>4 DEF EndTxn, ChainInv
  <2>5. CASE InsertRow(p)
    <3>1. Verifies(work) /\ cmd(p).op \in {"record", "commit-layout"}
      BY <1>4, <2>5 DEF InsertRow, ChainInv, TypeInv, TxnOK
    <3>2. Unsigned(work')
      BY <2>1, <2>2, <2>5, <3>1, InsertUnsigned DEF InsertRow
    <3> QED
      BY <2>1, <2>5, <3>2 DEF InsertRow, ChainInv
  <2>6. CASE TagRow(p)
    <3>1. Verifies(work')
      BY <1>4, <2>1, <2>6, TagVerifies DEF TagRow, ChainInv
    <3> QED
      BY <2>1, <2>6, <3>1 DEF TagRow, ChainInv
  <2>7. CASE CommitRecord(p)
    BY <1>4, <2>4, <2>7 DEF CommitRecord, Commit, ChainInv
  <2>8. CASE RefuseUpdate(p) \/ RefuseLayout(p) \/ SqlError(p)
    BY <2>3, <2>8 DEF RefuseUpdate, RefuseLayout, SqlError, Rollback
  <2>9. CASE ResignTarget(p)
    <3>1. Rechaining(work', cursor')
      BY <1>4, <2>1, <2>2, <2>9, ResignRechains DEF ResignTarget, ChainInv
    <3> QED
      BY <2>1, <2>9, <3>1 DEF ResignTarget, ChainInv
  <2>10. CASE RechainSuccessor(p)
    <3>1. Rechaining(work', cursor')
      BY <1>4, <2>1, <2>10, RechainStep DEF RechainSuccessor, ChainInv
    <3> QED
      BY <2>1, <2>10, <3>1 DEF RechainSuccessor, ChainInv
  <2>11. CASE CommitUpdate(p)
    <3>1. Verifies(work)
      BY <1>4, <2>1, <2>11, RechainedVerifies DEF CommitUpdate, ChainInv
    <3> QED
      BY <2>4, <2>11, <3>1 DEF CommitUpdate, Commit
  <2>12. CASE LayoutAlreadyPinned(p)
    BY <1>4, <2>4, <2>12 DEF LayoutAlreadyPinned, Commit, ChainInv
  <2>13. CASE PinLayout(p)
    BY <1>4, <2>1, <2>13 DEF PinLayout, ChainInv
  <2> QED
    BY <1>4, <2>5, <2>6, <2>7, <2>8, <2>9, <2>10, <2>11, <2>12, <2>13
       DEF RecordTxn, UpdateTxn, LayoutTxn
<1>5. ASSUME NEW p \in Proc, RecordTxn(p) \/ UpdateTxn(p) \/ LayoutTxn(p) \/ SqlError(p)
      PROVE  ChainInv'
  <2>1. pc[p] # "idle" /\ UNCHANGED faulted
    BY <1>5 DEF RecordTxn, InsertRow, TagRow, CommitRecord, Commit, EndTxn, UpdateTxn,
                RefuseUpdate, Rollback, ResignTarget, RechainSuccessor, CommitUpdate,
                LayoutTxn, RefuseLayout, LayoutAlreadyPinned, PinLayout, SqlError,
                TypeInv, TypeOK
  <2> QED
    BY <1>4, <1>5, <2>1
<1>6. ASSUME NEW p \in Proc, Crash(p) PROVE ChainInv'
  BY <1>6 DEF Crash, ChainInv, TypeInv, TypeOK
<1>7. ASSUME NEW i \in 1..Len(db), StorageFault(i) PROVE ChainInv'
  BY <1>7 DEF StorageFault
<1> QED
  BY <1>1, <1>2, <1>3, <1>5, <1>6, <1>7 DEF Next, Thread

(* The audit chain verifies at every instant, for any number of processes,   *)
(* events and inherited legacy rows, as long as storage is not damaged.      *)
THEOREM ChainAlwaysVerifies == Spec => []ChainVerifies
<1>1. ChainInv => ChainVerifies
  BY DEF ChainInv, ChainVerifies
<1> QED
  BY <1>1, InitTypeInv, NextTypeInv, InitChainInv, NextChainInv, PTL DEF Spec

------------------------------------------------------------------------------
(* What a transaction makes of the committed log.                            *)

(* log with the row of command c appended. *)
Extended(log, new, c) ==
  /\ Len(new) = Len(log) + 1
  /\ \A i \in 1..Len(log) : new[i] = log[i]
  /\ new[Len(new)].layout = CURRENT_HMAC_LAYOUT
  /\ new[Len(new)].event = c.event
  /\ new[Len(new)].status = c.status

(* log with row id stamped by command c and its successors re-chained up to  *)
(* row k.                                                                    *)
Rewritten(log, new, id, c, k) ==
  /\ Resignable(log, id) /\ id <= k
  /\ Len(new) = Len(log)
  /\ \A i \in 1..Len(log) :
        /\ new[i].layout = log[i].layout /\ new[i].event = log[i].event
        /\ new[i].args = log[i].args
        /\ i # id => new[i].status = log[i].status
        /\ i < id \/ i > k => new[i] = log[i]
  /\ new[id].prev = log[id].prev
  /\ new[id].status = c.status

(* The lock holder works on the committed log as it is now, and on nothing   *)
(* else; a layout commitment in the making is the first one.                 *)
ViewOK(p) ==
  /\ pc[p] \in {"check", "survey", "insert"} => work = db
  /\ pc[p] \in {"tag", "commit"} => Extended(db, work, cmd(p))
  /\ pc[p] = "rechain" => Rewritten(db, work, Target(p), cmd(p), cursor)
  /\ pc[p] \in {"insert", "tag", "commit"} /\ cmd(p).op = "commit-layout" => Commitments(db) = {}

TxnView == \A p \in Proc : ViewOK(p)

(* Legacy rows come first and only commit-layout appends its event, whatever *)
(* else is damaged.                                                          *)
LayoutsInOrder ==
  \A i \in 1..Len(db) :
     /\ LayoutOK(db, i)
     /\ db[i].event = LayoutCommitted => db[i].layout = CURRENT_HMAC_LAYOUT

(* A queued record or update is the one command its caller waits for. *)
WaitedFor(p, i) ==
  LET c == queue[p][i]
  IN  /\ owner[c.event] = p
      /\ call[c.event] = IF c.op = "record" THEN "recording" ELSE "updating"
      /\ c.op = "update" => c.status # "started"
      /\ \A j \in 1..Len(queue[p]) : queue[p][j].event = c.event => j = i

QueuedOK(p, i) ==
  /\ queue[p][i].op \in {"record", "update"} => WaitedFor(p, i)
  /\ queue[p][i].op = "commit-layout" => queue[p][i].status = "ok"

(* What the caller of e knows is what the log holds. *)
KnownOK(e) ==
  /\ call[e] \in {"new", "recording", "unrecorded"} => RowsFor(e) = {}
  /\ call[e] \in {"running", "updating", "unfinished", "done"} => RowsFor(e) = {rowid[e]}
  /\ ~faulted /\ call[e] \in {"running", "updating", "unfinished"} => db[rowid[e]].status = "started"
  /\ ~faulted /\ call[e] = "done" => db[rowid[e]].status # "started"

(* AnswersMatchLog is not inductive: it does not say that a command in a     *)
(* channel is one its caller still waits for, nor what the lock holder is    *)
(* about to commit.                                                          *)
CallsInv ==
  /\ \A p \in Proc : ~alive[p] => queue[p] = <<>>
  /\ \A p \in Proc : \A i \in 1..Len(queue[p]) : QueuedOK(p, i)
  /\ \A e \in Event : KnownOK(e)

(* A step that leaves the log, the transaction and its command alone keeps   *)
(* the lock holder's view.                                                   *)
LEMMA ViewFrame ==
  ASSUME TypeInv, TxnView, UNCHANGED <<db, work, cursor, rowid>>,
         \A p \in Proc : pc'[p] # "idle" => pc'[p] = pc[p] /\ queue'[p] # <<>> /\ Head(queue'[p]) = Head(queue[p])
  PROVE  TxnView'
BY DEF TxnView, ViewOK, Target, cmd

(* A step inside the lock holder's transaction concerns nobody else's view. *)
LEMMA ViewHolder ==
  ASSUME TypeInv, NEW p \in Proc, pc[p] # "idle",
         pc' = [pc EXCEPT ![p] = pc'[p]], ViewOK(p)'
  PROVE  TxnView'
<1>1. \A q \in Proc \ {p} : pc'[q] = "idle"
  BY DEF TypeInv, TypeOK
<1> QED
  BY <1>1 DEF TxnView, ViewOK

(* The row commit-layout appends is the only one with its event. *)
LEMMA NewRowFields ==
  ASSUME NEW c \in Cmd, NEW log
  PROVE  /\ NewRow(c, log).layout = CURRENT_HMAC_LAYOUT
         /\ NewRow(c, log).event = c.event
         /\ NewRow(c, log).status = c.status
BY DEF NewRow

(* INSERT extends the log. *)
LEMMA InsertExtends ==
  ASSUME NEW log, IsLog(log), NEW c \in Cmd
  PROVE  Extended(log, Append(log, NewRow(c, log)), c)
<1> DEFINE row == NewRow(c, log)
<1>1. IsRow(row) /\ row.layout = CURRENT_HMAC_LAYOUT /\ row.event = c.event /\ row.status = c.status
  BY NewRowOK, NewRowFields
<1>2. Len(log) \in Nat
  BY LenProperties DEF IsLog
<1> HIDE DEF row
<1>3. /\ Len(Append(log, row)) = Len(log) + 1
      /\ Append(log, row)[Len(log) + 1] = row
      /\ \A i \in 1..Len(log) : Append(log, row)[i] = log[i]
  BY <1>1, AddRow
<1> QED
  BY <1>1, <1>2, <1>3 DEF Extended, row

(* The tag of the new row is none of what Extended speaks of. *)
LEMMA TagExtends ==
  ASSUME NEW log, IsLog(log), NEW new, IsLog(new), NEW c \in Cmd, Extended(log, new, c)
  PROVE  Extended(log, Resign(new, Len(new)), c)
<1> DEFINE n   == Len(new)
           res == Resign(new, n)
<1>1. Len(log) \in Nat /\ n = Len(log) + 1 /\ n \in 1..n
  BY LenProperties DEF IsLog, Extended
<1>2. /\ Len(res) = n
      /\ \A f \in {"layout", "event", "args", "status", "diag", "prev"} : res[n][f] = new[n][f]
      /\ \A i \in 1..n : i # n => res[i] = new[i]
  BY <1>1, ResignLog
<1> HIDE DEF res
<1>3. res[n].layout = new[n].layout /\ res[n].event = new[n].event /\ res[n].status = new[n].status
  BY <1>2
<1>4. \A i \in 1..Len(log) : res[i] = log[i]
  BY <1>1, <1>2 DEF Extended
<1>5. Extended(log, res, c)
  BY <1>1, <1>2, <1>3, <1>4 DEF Extended
<1> QED
  BY <1>5 DEF res

(* Stamping and re-signing an authentic row rewrites the log up to that row. *)
LEMMA ResignRewrites ==
  ASSUME NEW log, IsLog(log), NEW id, Resignable(log, id), NEW c \in Cmd
  PROVE  Rewritten(log, Resign(Stamp(log, id, c), id), id, c, id)
<1> DEFINE mid == Stamp(log, id, c)
           new == Resign(mid, id)
           n   == Len(log)
<1>1. n \in Nat /\ id \in 1..n /\ IsRow(log[id])
  BY LenProperties DEF IsLog, Resignable
<1>2. /\ IsLog(mid) /\ Len(mid) = n
      /\ \A f \in {"layout", "event", "args", "prev"} : mid[id][f] = log[id][f]
      /\ \A i \in 1..n : i # id => mid[i] = log[i]
  BY <1>1, StampLog
<1>3. mid[id].status = c.status
  <2>1. id \in DOMAIN log
    BY <1>1 DEF IsLog
  <2>2. mid = [log EXCEPT ![id] = [log[id] EXCEPT !.status = c.status, !.diag = c.diag]]
    BY <2>1 DEF Stamp
  <2>3. [log[id] EXCEPT !.status = c.status, !.diag = c.diag].status = c.status
    BY <1>1 DEF IsRow
  <2> QED
    BY <2>1, <2>2, <2>3
<1> HIDE DEF mid
<1>4. /\ IsLog(new) /\ Len(new) = Len(mid)
      /\ \A f \in {"layout", "event", "args", "status", "diag", "prev"} : new[id][f] = mid[id][f]
      /\ \A i \in 1..Len(mid) : i # id => new[i] = mid[i]
  BY <1>1, <1>2, ResignLog
<1> HIDE DEF new
<1>5. /\ new[id].layout = log[id].layout /\ new[id].event = log[id].event
      /\ new[id].args = log[id].args /\ new[id].prev = log[id].prev
      /\ new[id].status = c.status
  BY <1>2, <1>3, <1>4
<1>6. Len(new) = n /\ \A i \in 1..n : i # id => new[i] = log[i]
  BY <1>2, <1>4
<1>7. Rewritten(log, new, id, c, id)
  BY <1>1, <1>5, <1>6 DEF Rewritten
<1> QED
  BY <1>7 DEF mid, new

(* Re-chaining one successor rewrites one row more. *)
LEMMA RechainRewrites ==
  ASSUME NEW log, IsLog(log), NEW new, IsLog(new), NEW id, NEW c \in Cmd, NEW k \in Nat,
         Rewritten(log, new, id, c, k), k < Len(log)
  PROVE  Rewritten(log, Resign(Relink(new, k + 1), k + 1), id, c, k + 1)
<1> DEFINE j   == k + 1
           mid == Relink(new, j)
           res == Resign(mid, j)
           n   == Len(log)
<1>1. n \in Nat /\ id \in 1..n /\ Len(new) = n /\ j \in 2..n /\ j \in 1..n /\ id < j
  BY LenProperties DEF IsLog, Resignable, Rewritten
<1>2. /\ IsLog(mid) /\ Len(mid) = n
      /\ \A f \in {"layout", "event", "args", "status", "diag"} : mid[j][f] = new[j][f]
      /\ \A i \in 1..n : i # j => mid[i] = new[i]
  BY <1>1, RelinkLog
<1> HIDE DEF mid
<1>4. /\ IsLog(res) /\ Len(res) = Len(mid)
      /\ \A f \in {"layout", "event", "args", "status", "diag", "prev"} : res[j][f] = mid[j][f]
      /\ \A i \in 1..Len(mid) : i # j => res[i] = mid[i]
  BY <1>1, <1>2, ResignLog
<1> HIDE DEF res
<1>5. /\ res[j].layout = new[j].layout /\ res[j].event = new[j].event
      /\ res[j].args = new[j].args /\ res[j].status = new[j].status
  BY <1>2, <1>4
<1>6. Len(res) = n /\ \A i \in 1..n : i # j => res[i] = new[i]
  BY <1>2, <1>4
<1>7. Rewritten(log, res, id, c, j)
  <2>1. res[id] = new[id]
    BY <1>1, <1>6
  <2>2. ASSUME NEW i \in 1..n
        PROVE  /\ res[i].layout = log[i].layout /\ res[i].event = log[i].event
               /\ res[i].args = log[i].args
               /\ i # id => res[i].status = log[i].status
               /\ i < id \/ i > j => res[i] = log[i]
    BY <1>1, <1>5, <1>6 DEF Rewritten
  <2> QED
    BY <1>1, <1>6, <2>1, <2>2 DEF Rewritten
<1> QED
  BY <1>7 DEF mid, res

LEMMA InitTxnView == Init => TxnView
BY DEF Init, TxnView, ViewOK

LEMMA NextTxnView == TypeInv /\ TxnView /\ [Next]_vars => TxnView'
<1> SUFFICES ASSUME TypeInv, TxnView, [Next]_vars PROVE TxnView'
  OBVIOUS
<1> USE DEF TypeInv, TypeOK
<1>0. \A q \in Proc : pc[q] # "idle" => queue[q] # <<>>
  BY DEF TxnOK
<1>1. CASE UNCHANGED vars
  BY <1>0, <1>1, ViewFrame DEF vars
<1>2. ASSUME NEW p \in Proc, NEW c \in Cmd, Send(p, c), UNCHANGED rowid PROVE TxnView'
  <2>1. ASSUME NEW q \in Proc, queue[q] # <<>>
        PROVE  queue'[q] # <<>> /\ Head(queue'[q]) = Head(queue[q])
    BY <1>2, <2>1, AppendProperties DEF Send
  <2> QED
    BY <1>0, <1>2, <2>1, ViewFrame DEF Send
<1>3. ASSUME NEW p \in Proc, Callers(p) PROVE TxnView'
  <2>1. \/ \E c \in Cmd : Send(p, c) /\ UNCHANGED rowid
        \/ UNCHANGED <<db, work, cursor, rowid, pc, queue>>
    <3>1. ASSUME NEW e \in Event, NEW s \in Status
          PROVE  Command("record", e, s) \in Cmd /\ Command("update", e, s) \in Cmd
      BY CommandOK
    <3>2. /\ Command("commit-layout", LayoutCommitted, "ok") \in Cmd
          /\ Command("shutdown", LayoutCommitted, "ok") \in Cmd
      <4>1. "ok" \in Status
        BY DEF Status
      <4> QED
        BY <4>1, CommandOK
    <3>3. ASSUME NEW e \in Event, SendClosed(p, e)
          PROVE  UNCHANGED <<db, work, cursor, rowid, pc, queue>>
      BY <3>3 DEF SendClosed
    <3> QED
      BY <1>3, <3>1, <3>2, <3>3 DEF Callers, Record, UpdateStatus, CommitLayout, Shutdown
  <2> QED
    BY <1>0, <1>2, <2>1, ViewFrame
<1>4. ASSUME NEW p \in Proc, Take(p) PROVE TxnView'
  <2>1. CASE BeginImmediate(p)
    <3>1. \A q \in Proc \ {p} : pc'[q] = "idle"
      BY <2>1, NoProcIsNoProc DEF BeginImmediate
    <3>2. pc'[p] \in {"insert", "check", "survey"} /\ work' = db' /\ UNCHANGED <<db, queue>>
      BY <2>1 DEF BeginImmediate, FirstStep
    <3>3. pc'[p] = "insert" => cmd(p)'.op = "record"
      BY <2>1 DEF BeginImmediate, FirstStep, cmd
    <3>4. ViewOK(p)'
      BY <3>2, <3>3 DEF ViewOK
    <3> QED
      BY <3>1, <3>4 DEF TxnView, ViewOK
  <2>2. CASE RetryBusy(p)
    BY <1>0, <2>2, ViewFrame DEF RetryBusy
  <2>3. CASE GiveUpBusy(p)
    <3>1. pc[p] = "idle" /\ queue[p] # <<>> /\ queue' = [queue EXCEPT ![p] = Tail(@)]
          /\ UNCHANGED <<db, work, cursor, rowid, pc>>
      BY <2>3 DEF GiveUpBusy, HasWork, AckErr
    <3>2. \A q \in Proc \ {p} : queue'[q] = queue[q]
      BY <3>1
    <3> QED
      BY <1>0, <3>1, <3>2, ViewFrame
  <2>4. CASE StopThread(p)
    BY <1>0, <2>4, ViewFrame DEF StopThread
  <2> QED
    BY <1>4, <2>1, <2>2, <2>3, <2>4 DEF Take
<1>5. ASSUME NEW p \in Proc, EndTxn(p), lock = p PROVE TxnView'
  <2>1. \A q \in Proc : pc'[q] = "idle"
    BY <1>5 DEF EndTxn
  <2> QED
    BY <2>1 DEF TxnView, ViewOK
<1>6. ASSUME NEW p \in Proc, \/ CommitRecord(p) \/ RefuseUpdate(p) \/ CommitUpdate(p) \/ RefuseLayout(p)
                             \/ LayoutAlreadyPinned(p) \/ SqlError(p)
      PROVE  TxnView'
  <2>1. EndTxn(p) /\ lock = p
    BY <1>6 DEF CommitRecord, RefuseUpdate, CommitUpdate, RefuseLayout, LayoutAlreadyPinned, SqlError,
                Commit, Rollback
  <2> QED
    BY <1>5, <2>1
<1>7. ASSUME NEW p \in Proc, InsertRow(p) PROVE TxnView'
  <2>1. /\ pc[p] = "insert" /\ pc' = [pc EXCEPT ![p] = "tag"] /\ UNCHANGED <<db, queue>>
        /\ work' = Append(work, NewRow(cmd(p), work))
    BY <1>7 DEF InsertRow
  <2>2. cmd(p) \in Cmd
    BY <1>0, <2>1, CmdType
  <2>3. work = db /\ (cmd(p).op = "commit-layout" => Commitments(db) = {})
    BY <2>1 DEF TxnView, ViewOK
  <2>4. Extended(db, work', cmd(p))
    BY <2>1, <2>2, <2>3, InsertExtends
  <2>5. ViewOK(p)'
    BY <2>1, <2>3, <2>4 DEF ViewOK, cmd
  <2> QED
    BY <2>1, <2>5, ViewHolder
<1>8. ASSUME NEW p \in Proc, TagRow(p) PROVE TxnView'
  <2>1. /\ pc[p] = "tag" /\ pc' = [pc EXCEPT ![p] = "commit"] /\ UNCHANGED <<db, queue>>
        /\ work' = Resign(work, Len(work))
    BY <1>8 DEF TagRow
  <2>2. cmd(p) \in Cmd
    BY <1>0, <2>1, CmdType
  <2>3. Extended(db, work, cmd(p)) /\ (cmd(p).op = "commit-layout" => Commitments(db) = {})
    BY <2>1 DEF TxnView, ViewOK
  <2>4. Extended(db, work', cmd(p))
    BY <2>1, <2>2, <2>3, TagExtends
  <2>5. ViewOK(p)'
    BY <2>1, <2>3, <2>4 DEF ViewOK, cmd
  <2> QED
    BY <2>1, <2>5, ViewHolder
<1>9. ASSUME NEW p \in Proc, ResignTarget(p) PROVE TxnView'
  <2>1. /\ pc[p] = "check" /\ pc' = [pc EXCEPT ![p] = "rechain"] /\ UNCHANGED <<db, queue, rowid>>
        /\ Resignable(work, Target(p)) /\ cursor' = Target(p)
        /\ work' = Resign(Stamp(work, Target(p), cmd(p)), Target(p))
    BY <1>9 DEF ResignTarget
  <2>2. cmd(p) \in Cmd
    BY <1>0, <2>1, CmdType
  <2>3. work = db
    BY <2>1 DEF TxnView, ViewOK
  <2>4. Rewritten(db, work', Target(p), cmd(p), cursor')
    BY <2>1, <2>2, <2>3, ResignRewrites
  <2>5. ViewOK(p)'
    BY <2>1, <2>4 DEF ViewOK, cmd, Target
  <2> QED
    BY <2>1, <2>5, ViewHolder
<1>10. ASSUME NEW p \in Proc, RechainSuccessor(p) PROVE TxnView'
  <2>1. /\ pc[p] = "rechain" /\ pc' = pc /\ UNCHANGED <<db, queue, rowid>>
        /\ cursor < Len(work) /\ cursor' = cursor + 1
        /\ work' = Resign(Relink(work, cursor + 1), cursor + 1)
    BY <1>10 DEF RechainSuccessor
  <2>2. cmd(p) \in Cmd
    BY <1>0, <2>1, CmdType
  <2>3. Rewritten(db, work, Target(p), cmd(p), cursor) /\ Len(work) = Len(db)
    BY <2>1 DEF TxnView, ViewOK, Rewritten
  <2>4. cursor \in Nat
    BY LenProperties DEF IsLog
  <2>5. Rewritten(db, work', Target(p), cmd(p), cursor')
    BY <2>1, <2>2, <2>3, <2>4, RechainRewrites
  <2>6. ViewOK(p)'
    BY <2>1, <2>5 DEF ViewOK, cmd, Target
  <2> QED
    BY <2>1, <2>6, ViewHolder
<1>11. ASSUME NEW p \in Proc, PinLayout(p) PROVE TxnView'
  <2>1. /\ pc[p] = "survey" /\ pc' = [pc EXCEPT ![p] = "insert"] /\ UNCHANGED <<db, work>>
        /\ ~NothingToPin(work)
    BY <1>11 DEF PinLayout
  <2>2. work = db /\ Commitments(db) = {}
    BY <2>1 DEF TxnView, ViewOK, NothingToPin
  <2>3. ViewOK(p)'
    BY <2>1, <2>2 DEF ViewOK, Commitments
  <2> QED
    BY <2>1, <2>3, ViewHolder
<1>12. ASSUME NEW p \in Proc, Crash(p) PROVE TxnView'
  <2>1. CASE lock = p
    <3>1. \A q \in Proc : pc'[q] = "idle"
      BY <1>12, <2>1 DEF Crash
    <3> QED
      BY <3>1 DEF TxnView, ViewOK
  <2>2. CASE lock # p
    <3>1. UNCHANGED <<db, work, cursor, rowid>> /\ pc'[p] = "idle"
          /\ \A q \in Proc \ {p} : pc'[q] = pc[q] /\ queue'[q] = queue[q]
      BY <1>12, <2>2 DEF Crash
    <3> QED
      BY <1>0, <3>1, ViewFrame
  <2> QED
    BY <2>1, <2>2
<1>13. ASSUME NEW p \in Proc, Restart(p) PROVE TxnView'
  BY <1>0, <1>13, ViewFrame DEF Restart
<1>14. ASSUME NEW i \in 1..Len(db), StorageFault(i) PROVE TxnView'
  <2>1. \A q \in Proc : pc'[q] = "idle"
    BY <1>14, NoProcIsNoProc DEF StorageFault
  <2> QED
    BY <2>1 DEF TxnView, ViewOK
<1> QED
  BY <1>1, <1>3, <1>4, <1>6, <1>7, <1>8, <1>9, <1>10, <1>11, <1>12, <1>13, <1>14
     DEF Next, Thread, RecordTxn, UpdateTxn, LayoutTxn

(* The steps by which the committed log changes. *)
Extends(p) ==
  /\ Extended(db, db', cmd(p)) /\ cmd(p).op \in {"record", "commit-layout"}
  /\ cmd(p).op = "commit-layout" => Commitments(db) = {}

Rewrites(p) ==
  Rewritten(db, db', Target(p), cmd(p), Len(db)) /\ cmd(p).op = "update"

(* The committed log changes by one appended row, by one finished and fully  *)
(* re-chained update, or behind the writers' back.                           *)
LEMMA LogSteps ==
  ASSUME TypeInv, TxnView, [Next]_vars
  PROVE  \/ UNCHANGED db
         \/ /\ faulted' = faulted
            /\ \E p \in Proc : /\ lock = p /\ queue[p] # <<>> /\ cmd(p) \in Cmd /\ CmdOK(cmd(p))
                               /\ Extends(p) \/ Rewrites(p)
         \/ \E i \in 1..Len(db) : StorageFault(i)
<1>1. CASE UNCHANGED vars
  BY <1>1 DEF vars
<1>2. ASSUME NEW p \in Proc, Callers(p) \/ Take(p) \/ Crash(p) \/ Restart(p) PROVE UNCHANGED db
  BY <1>2 DEF Callers, Record, UpdateStatus, SendClosed, CommitLayout, Shutdown, Send, Take,
              BeginImmediate, RetryBusy, GiveUpBusy, StopThread, Crash, Restart
<1>3. ASSUME NEW p \in Proc,
             \/ InsertRow(p) \/ TagRow(p) \/ RefuseUpdate(p) \/ ResignTarget(p) \/ RechainSuccessor(p)
             \/ RefuseLayout(p) \/ PinLayout(p) \/ SqlError(p)
      PROVE  UNCHANGED db
  BY <1>3 DEF InsertRow, TagRow, RefuseUpdate, ResignTarget, RechainSuccessor, RefuseLayout,
              PinLayout, SqlError, Rollback
<1>4. ASSUME NEW p \in Proc, LayoutAlreadyPinned(p) PROVE UNCHANGED db
  BY <1>4 DEF LayoutAlreadyPinned, Commit, TxnView, ViewOK
<1>5. ASSUME NEW p \in Proc, CommitRecord(p) \/ CommitUpdate(p)
      PROVE  /\ faulted' = faulted
             /\ lock = p /\ queue[p] # <<>> /\ cmd(p) \in Cmd /\ CmdOK(cmd(p))
             /\ Extends(p) \/ Rewrites(p)
  <2>1. pc[p] # "idle" /\ db' = work /\ faulted' = faulted
    BY <1>5 DEF CommitRecord, CommitUpdate, Commit, EndTxn
  <2>2. lock = p /\ queue[p] # <<>> /\ cmd(p) \in Cmd /\ CmdOK(cmd(p))
    BY <2>1, CmdType DEF TypeInv, TypeOK, TxnOK
  <2>3. CASE CommitRecord(p)
    BY <2>1, <2>2, <2>3 DEF CommitRecord, Extends, TypeInv, TxnOK, TxnView, ViewOK
  <2>4. CASE CommitUpdate(p)
    <3>1. Rewritten(db, work, Target(p), cmd(p), cursor) /\ cursor = Len(work) /\ cmd(p).op = "update"
      BY <2>4 DEF CommitUpdate, TxnView, ViewOK, TypeInv, TxnOK
    <3>2. Len(work) = Len(db)
      BY <3>1 DEF Rewritten
    <3> QED
      BY <2>1, <2>2, <3>1, <3>2 DEF Rewrites
  <2> QED
    BY <1>5, <2>3, <2>4
<1> QED
  BY <1>1, <1>2, <1>3, <1>4, <1>5 DEF Next, Thread, RecordTxn, UpdateTxn, LayoutTxn

(* A damaged row keeps its layout, event and arguments. *)
LEMMA DamageKeeps ==
  ASSUME TypeInv, NEW i \in 1..Len(db), StorageFault(i)
  PROVE  /\ ~faulted /\ faulted' /\ StorageFaults
         /\ Len(db') = Len(db)
         /\ \A j \in 1..Len(db) : db'[j].layout = db[j].layout /\ db'[j].event = db[j].event
<1>1. PICK row \in Damaged(db[i]) : db' = [db EXCEPT ![i] = row]
  BY DEF StorageFault
<1>2. IsRow(db[i]) /\ IsLog(db)
  BY LenProperties DEF TypeInv, TypeOK, IsLog
<1>3. IsRow(row) /\ row.layout = db[i].layout /\ row.event = db[i].event
  BY <1>2 DEF Damaged, IsRow
<1>4. /\ Len(db') = Len(db) /\ db'[i] = row
      /\ \A j \in 1..Len(db) : j # i => db'[j] = db[j]
  BY <1>1, <1>2, <1>3, SetRow
<1> QED
  BY <1>3, <1>4 DEF StorageFault

(* Layout and event of a row never change, and a row is only ever appended   *)
(* with the current layout.                                                  *)
LEMMA RowsKeepLayout ==
  ASSUME TypeInv, TxnView, [Next]_vars
  PROVE  /\ Len(db') \in {Len(db), Len(db) + 1}
         /\ \A i \in 1..Len(db) : db'[i].layout = db[i].layout /\ db'[i].event = db[i].event
         /\ Len(db') = Len(db) + 1 => db'[Len(db')].layout = CURRENT_HMAC_LAYOUT
<1>1. CASE UNCHANGED db
  <2>1. Len(db) \in Nat
    BY LenProperties DEF TypeInv, TypeOK, IsLog
  <2> QED
    BY <1>1, <2>1
<1>2. CASE \E p \in Proc : Extends(p)
  BY <1>2 DEF Extends, Extended
<1>3. CASE \E p \in Proc : Rewrites(p)
  <2>1. Len(db) \in Nat
    BY LenProperties DEF TypeInv, TypeOK, IsLog
  <2> QED
    BY <1>3, <2>1 DEF Rewrites, Rewritten
<1>4. CASE \E i \in 1..Len(db) : StorageFault(i)
  <2>1. Len(db) \in Nat
    BY LenProperties DEF TypeInv, TypeOK, IsLog
  <2> QED
    BY <1>4, <2>1, DamageKeeps
<1> QED
  BY <1>1, <1>2, <1>3, <1>4, LogSteps

LEMMA InitLayouts == Init => LayoutsInOrder
<1> SUFFICES ASSUME Init PROVE LayoutsInOrder
  OBVIOUS
<1>1. Verifies(db) /\ \A i \in 1..Len(db) : db[i].event \in OldEvent
  BY InitialLogsVerify DEF Init
<1> QED
  BY <1>1, EventsDisjoint DEF Verifies, LayoutsInOrder

LEMMA NextLayouts == TypeInv /\ TxnView /\ LayoutsInOrder /\ [Next]_vars => LayoutsInOrder'
<1> SUFFICES ASSUME TypeInv, TxnView, LayoutsInOrder, [Next]_vars, NEW i \in 1..Len(db')
             PROVE  /\ LayoutOK(db', i)
                    /\ db'[i].event = LayoutCommitted => db'[i].layout = CURRENT_HMAC_LAYOUT
  BY DEF LayoutsInOrder
<1>1. Len(db) \in Nat
  BY LenProperties DEF TypeInv, TypeOK, IsLog
<1>2. CASE i \in 1..Len(db)
  BY <1>1, <1>2, RowsKeepLayout DEF LayoutsInOrder, LayoutOK
<1>3. CASE i \notin 1..Len(db)
  BY <1>1, <1>3, RowsKeepLayout DEF LayoutOK, is_legacy_layout, CURRENT_HMAC_LAYOUT
<1> QED
  BY <1>2, <1>3

------------------------------------------------------------------------------
(* Pinned rows.                                                              *)

(* A legacy row below a current one is never the target of an update. *)
LEMMA PinnedStep ==
  ASSUME TypeInv, TxnView, LayoutsInOrder, [Next]_vars, Commitments(db) # {}
  PROVE  /\ Commitments(db') = Commitments(db)
         /\ faulted' = faulted =>
              \A i \in 1..Len(db) : is_legacy_layout(db[i].layout) => db'[i] = db[i]
<1>1. Len(db) \in Nat
  BY LenProperties DEF TypeInv, TypeOK, IsLog
<1>2. PICK j \in 1..Len(db) : ~is_legacy_layout(db[j].layout)
  BY DEF Commitments, is_layout_commitment, is_legacy_layout, CURRENT_HMAC_LAYOUT
<1>3. CASE UNCHANGED db
  BY <1>3
<1>4. ASSUME NEW p \in Proc, cmd(p) \in Cmd, CmdOK(cmd(p)), Extends(p)
      PROVE  /\ Commitments(db') = Commitments(db)
             /\ \A i \in 1..Len(db) : db'[i] = db[i]
  <2>1. cmd(p).op = "record" /\ cmd(p).event # LayoutCommitted
    BY <1>4, EventsDisjoint DEF Extends, CmdOK
  <2> QED
    BY <1>1, <1>4, <2>1 DEF Extends, Extended, Commitments, is_layout_commitment
<1>5. ASSUME NEW p \in Proc, Rewrites(p)
      PROVE  /\ Commitments(db') = Commitments(db)
             /\ \A i \in 1..Len(db) : is_legacy_layout(db[i].layout) => db'[i] = db[i]
  <2>1. Rewritten(db, db', Target(p), cmd(p), Len(db))
    BY <1>5 DEF Rewrites
  <2>2. Commitments(db') = Commitments(db)
    BY <2>1 DEF Rewritten, Commitments, is_layout_commitment
  <2>3. ASSUME NEW i \in 1..Len(db), is_legacy_layout(db[i].layout) PROVE i < Target(p)
    <3>1. Target(p) \in 1..Len(db) /\ (Target(p) < Len(db) => ~is_legacy_layout(db[Target(p)].layout))
      BY <2>1 DEF Rewritten, Resignable
    <3>2. ~(i > Target(p))
      BY <2>1, <2>3, <1>1, <3>1 DEF Rewritten, Resignable
    <3>3. i # Target(p)
      <4>1. SUFFICES ASSUME i = Target(p) PROVE FALSE
        OBVIOUS
      <4>2. Target(p) = Len(db)
        BY <1>1, <2>3, <3>1, <4>1
      <4>3. j < i
        BY <1>1, <1>2, <2>3, <4>1, <4>2
      <4> QED
        BY <1>1, <1>2, <2>3, <4>3 DEF LayoutsInOrder, LayoutOK
    <3> QED
      BY <1>1, <3>1, <3>2, <3>3
  <2> QED
    BY <2>1, <2>2, <2>3 DEF Rewritten
<1>6. ASSUME NEW i \in 1..Len(db), StorageFault(i)
      PROVE  Commitments(db') = Commitments(db) /\ faulted' # faulted
  <2>1. /\ ~faulted /\ faulted' /\ Len(db') = Len(db)
        /\ \A k \in 1..Len(db) : db'[k].layout = db[k].layout /\ db'[k].event = db[k].event
    BY <1>6, DamageKeeps
  <2> QED
    BY <2>1 DEF Commitments, is_layout_commitment
<1> QED
  BY <1>3, <1>4, <1>5, <1>6, LogSteps

(* Once a commitment pins them, the legacy rows are written to by nobody,    *)
(* and there is never a second commitment, for any number of processes.      *)
THEOREM PinnedFrozen == Spec => PinnedRowsFrozen
<1>1. TypeInv /\ TxnView /\ LayoutsInOrder /\ [Next]_vars =>
        [ Commitments(db) # {} =>
            /\ Commitments(db') = Commitments(db)
            /\ faulted' = faulted =>
                 \A i \in 1..Len(db) : is_legacy_layout(db[i].layout) => db'[i] = db[i] ]_vars
  BY PinnedStep
<1> QED
  BY <1>1, InitTypeInv, NextTypeInv, InitTxnView, NextTxnView, InitLayouts, NextLayouts, PTL
     DEF Spec, PinnedRowsFrozen

------------------------------------------------------------------------------
(* Damage is reported, never laundered.                                      *)

(* What verifies as a whole verified before its last row was appended. *)
LEMMA PrefixVerifies ==
  ASSUME NEW log, IsLog(log), NEW new, NEW c, Extended(log, new, c), Verifies(new)
  PROVE  Verifies(log)
<1>1. Len(log) \in Nat /\ Len(new) = Len(log) + 1 /\ \A i \in 1..Len(log) : new[i] = log[i]
  BY LenProperties DEF IsLog, Extended
<1> SUFFICES ASSUME NEW i \in 1..Len(log)
             PROVE  LinkOK(log, i) /\ LayoutOK(log, i) /\ MacOK(log, i) /\ PinOK(log, i)
  BY DEF Verifies
<1>2. LinkOK(new, i) /\ LayoutOK(new, i) /\ MacOK(new, i) /\ PinOK(new, i)
  BY <1>1 DEF Verifies
<1>3. new[i] = log[i] /\ \A j \in 1..(i - 1) : new[j] = log[j]
  BY <1>1
<1>4. LegacyDigest(new, i - 1) = LegacyDigest(log, i - 1)
  BY <1>3, DigestAgrees
<1> QED
  BY <1>1, <1>2, <1>3, <1>4 DEF LinkOK, TagBefore, LayoutOK, MacOK, PinOK

(* An update re-signs only rows that were authentic: what verifies after it  *)
(* verified before.                                                          *)
LEMMA RewriteVerified ==
  ASSUME NEW log, IsLog(log), NEW new, NEW id, NEW c, Rewritten(log, new, id, c, Len(log)), Verifies(new)
  PROVE  Verifies(log)
<1> DEFINE n == Len(log)
<1>1. n \in Nat /\ id \in 1..n /\ Len(new) = n
  BY LenProperties DEF IsLog, Rewritten, Resignable
<1> SUFFICES ASSUME NEW i \in 1..n
             PROVE  LinkOK(log, i) /\ LayoutOK(log, i) /\ MacOK(log, i) /\ PinOK(log, i)
  BY DEF Verifies
<1>2. LinkOK(new, i) /\ LayoutOK(new, i) /\ MacOK(new, i) /\ PinOK(new, i)
  BY <1>1 DEF Verifies
<1>3. /\ new[i].layout = log[i].layout /\ new[i].event = log[i].event /\ new[i].args = log[i].args
      /\ \A j \in 1..n : new[j].layout = log[j].layout
      /\ \A j \in 1..n : j < id => new[j] = log[j]
      /\ new[id].prev = log[id].prev
  BY DEF Rewritten
<1>4. MacOK(log, i)
  BY <1>1, <1>2, <1>3 DEF MacOK, Rewritten, Resignable
<1>5. LinkOK(log, i)
  <2>1. CASE i > id
    BY <1>1, <2>1 DEF Rewritten, Resignable
  <2>2. CASE i <= id
    BY <1>1, <1>2, <1>3, <2>2 DEF LinkOK, TagBefore
  <2> QED
    BY <1>1, <2>1, <2>2
<1>6. LayoutOK(log, i)
  BY <1>1, <1>2, <1>3 DEF LayoutOK
<1>7. LegacyDigest(new, i - 1) = LegacyDigest(log, i - 1)
  <2>1. ASSUME NEW j \in 1..(i - 1), is_legacy_layout(log[j].layout) PROVE j < id
    BY <1>1, <2>1 DEF Rewritten, Resignable
  <2>2. \A j \in 1..(i - 1) : /\ new[j].layout = log[j].layout
                              /\ is_legacy_layout(log[j].layout) => new[j] = log[j]
    BY <1>1, <1>3, <2>1
  <2> QED
    BY <1>1, <2>2, DigestAgrees
<1>8. PinOK(log, i)
  BY <1>2, <1>3, <1>7 DEF PinOK, is_layout_commitment
<1> QED
  BY <1>4, <1>5, <1>6, <1>8

(* No record, update or commit-layout of any process makes a damaged log     *)
(* pass verification, whatever was damaged and when.                         *)
THEOREM DamageStays == Spec => NeverLaundered
<1>1. TypeInv /\ TxnView /\ ChainInv /\ [Next]_vars => [ ~Verifies(db) => ~Verifies(db') ]_vars
  <2> SUFFICES ASSUME TypeInv, TxnView, ChainInv, [Next]_vars, Verifies(db') PROVE Verifies(db)
    OBVIOUS
  <2>1. IsLog(db)
    BY DEF TypeInv, TypeOK
  <2>2. CASE UNCHANGED db
    BY <2>2
  <2>3. CASE \E p \in Proc : Extends(p)
    BY <2>1, <2>3, PrefixVerifies DEF Extends
  <2>4. CASE \E p \in Proc : Rewrites(p)
    BY <2>1, <2>4, RewriteVerified DEF Rewrites
  <2>5. CASE \E i \in 1..Len(db) : StorageFault(i)
    BY <2>5 DEF StorageFault, ChainInv
  <2> QED
    BY <2>2, <2>3, <2>4, <2>5, LogSteps
<1> QED
  BY <1>1, InitTypeInv, NextTypeInv, InitTxnView, NextTxnView, InitChainInv, NextChainInv, PTL
     DEF Spec, NeverLaundered

------------------------------------------------------------------------------
(* What callers are told.                                                    *)

(* Commands about an event are records and updates of it. *)
LEMMA AboutEvents ==
  ASSUME TypeInv, NEW p \in Proc, NEW i \in 1..Len(queue[p])
  PROVE  /\ queue[p][i] \in Cmd /\ CmdOK(queue[p][i])
         /\ queue[p][i].event \in Event <=> queue[p][i].op \in {"record", "update"}
<1>1. queue[p] \in Seq(Cmd)
  BY DEF TypeInv, TypeOK
<1>2. queue[p][i] \in Cmd /\ CmdOK(queue[p][i])
  BY <1>1, ElementOfSeq DEF TypeInv
<1> QED
  BY <1>2, EventsDisjoint DEF CmdOK, Cmd

(* A caller waits for at most one command, in its own process's channel. *)
LEMMA SendKeepsQueued ==
  ASSUME TypeInv, CallsInv, NEW p \in Proc, NEW c \in Cmd, CmdOK(c), Send(p, c),
         IF c.op \in {"record", "update"}
         THEN /\ call[c.event] \notin {"recording", "updating"}
              /\ call'[c.event] = IF c.op = "record" THEN "recording" ELSE "updating"
              /\ owner'[c.event] = p
              /\ c.op = "update" => c.status # "started"
              /\ \A e \in Event \ {c.event} : call'[e] = call[e] /\ owner'[e] = owner[e]
         ELSE UNCHANGED <<call, owner>> /\ c.status = "ok"
  PROVE  \A q \in Proc : \A i \in 1..Len(queue'[q]) : QueuedOK(q, i)'
<1> SUFFICES ASSUME NEW q \in Proc, NEW i \in 1..Len(queue'[q]) PROVE QueuedOK(q, i)'
  OBVIOUS
<1>1. /\ queue[p] \in Seq(Cmd) /\ Len(queue[p]) \in Nat
      /\ queue'[p] = Append(queue[p], c)
      /\ \A r \in Proc \ {p} : queue'[r] = queue[r]
  BY LenProperties DEF TypeInv, TypeOK, Send
<1>2. /\ Len(queue'[p]) = Len(queue[p]) + 1
      /\ queue'[p][Len(queue[p]) + 1] = c
      /\ \A k \in 1..Len(queue[p]) : queue'[p][k] = queue[p][k]
  BY <1>1, AppendProperties
<1>3. ASSUME NEW r \in Proc, NEW k \in 1..Len(queue[r])
      PROVE  c.op \in {"record", "update"} => queue[r][k].event # c.event
  <2>1. SUFFICES ASSUME c.op \in {"record", "update"}, queue[r][k].event = c.event PROVE FALSE
    OBVIOUS
  <2>2. queue[r][k].op \in {"record", "update"}
    BY <2>1, AboutEvents DEF CmdOK
  <2>3. call[c.event] \in {"recording", "updating"}
    BY <2>1, <2>2 DEF CallsInv, QueuedOK, WaitedFor
  <2> QED
    BY <2>1, <2>3
<1>4. CASE q # p
  <2>1. queue'[q] = queue[q] /\ i \in 1..Len(queue[q]) /\ QueuedOK(q, i)
    BY <1>1, <1>4 DEF CallsInv
  <2>2. SUFFICES ASSUME queue[q][i].op \in {"record", "update"} PROVE WaitedFor(q, i)'
    BY <2>1 DEF QueuedOK
  <2>3. queue[q][i].event \in Event
    BY <2>1, <2>2, AboutEvents
  <2>4. call'[queue[q][i].event] = call[queue[q][i].event] /\ owner'[queue[q][i].event] = owner[queue[q][i].event]
    BY <1>3, <2>1, <2>3
  <2> QED
    BY <2>1, <2>2, <2>4 DEF QueuedOK, WaitedFor
<1>5. CASE q = p /\ i \in 1..Len(queue[p])
  <2>1. queue'[p][i] = queue[p][i] /\ QueuedOK(p, i)
    BY <1>2, <1>5 DEF CallsInv
  <2>2. SUFFICES ASSUME queue[p][i].op \in {"record", "update"} PROVE WaitedFor(p, i)'
    BY <1>5, <2>1 DEF QueuedOK
  <2>3. queue[p][i].event \in Event
    BY <1>5, <2>2, AboutEvents
  <2>4. call'[queue[p][i].event] = call[queue[p][i].event] /\ owner'[queue[p][i].event] = owner[queue[p][i].event]
    BY <1>3, <1>5, <2>3
  <2>5. c.event # queue[p][i].event
    <3>1. CASE c.op \in {"record", "update"}
      BY <1>3, <1>5, <3>1
    <3>2. CASE c.op \notin {"record", "update"}
      BY <2>3, <3>2, EventsDisjoint DEF CmdOK
    <3> QED
      BY <3>1, <3>2
  <2>6. \A j \in 1..Len(queue'[p]) : queue'[p][j].event = queue[p][i].event => j \in 1..Len(queue[p])
    BY <1>1, <1>2, <2>5
  <2> QED
    BY <1>2, <2>1, <2>2, <2>4, <2>6 DEF QueuedOK, WaitedFor
<1>6. CASE q = p /\ i = Len(queue[p]) + 1
  <2>1. queue'[q][i] = c
    BY <1>2, <1>6
  <2>2. SUFFICES ASSUME c.op \in {"record", "update"} PROVE WaitedFor(q, i)'
    BY <2>1 DEF QueuedOK
  <2>3. \A j \in 1..Len(queue'[p]) : queue'[p][j].event = c.event => j = i
    BY <1>1, <1>2, <1>3, <1>6, <2>2
  <2> QED
    BY <1>6, <2>1, <2>2, <2>3 DEF WaitedFor
<1> QED
  BY <1>1, <1>2, <1>4, <1>5, <1>6

(* Answering a command concerns no other caller. *)
LEMMA PopKeepsQueued ==
  ASSUME TypeInv, CallsInv, NEW p \in Proc, queue[p] # <<>>,
         queue' = [queue EXCEPT ![p] = Tail(@)], UNCHANGED owner,
         \A e \in Event \ {cmd(p).event} : call'[e] = call[e]
  PROVE  \A q \in Proc : \A i \in 1..Len(queue'[q]) : QueuedOK(q, i)'
<1>1. /\ queue[p] \in Seq(Cmd) /\ Len(queue[p]) \in Nat \ {0} /\ cmd(p) = queue[p][1]
  BY EmptySeq, LenProperties DEF TypeInv, TypeOK, cmd
<1>2. /\ Len(queue'[p]) = Len(queue[p]) - 1
      /\ \A i \in 1..Len(queue'[p]) : queue'[p][i] = queue[p][i + 1]
      /\ \A q \in Proc \ {p} : queue'[q] = queue[q]
  <2>1. queue'[p] = Tail(queue[p])
    BY DEF TypeInv, TypeOK
  <2>2. /\ Len(Tail(queue[p])) = Len(queue[p]) - 1
        /\ \A i \in 1..Len(Tail(queue[p])) : Tail(queue[p])[i] = queue[p][i + 1]
    BY <1>1, HeadTailProperties
  <2> QED
    BY <2>1, <2>2 DEF TypeInv, TypeOK
<1>3. ASSUME NEW q \in Proc, NEW k \in 1..Len(queue[q]), queue[q][k].op \in {"record", "update"},
             q # p \/ k # 1
      PROVE  queue[q][k].event \in Event \ {cmd(p).event}
  <2>1. queue[q][k].event \in Event /\ QueuedOK(q, k)
    BY <1>3, AboutEvents DEF CallsInv
  <2>2. SUFFICES ASSUME queue[q][k].event = queue[p][1].event PROVE FALSE
    BY <1>1, <2>1
  <2>3. queue[p][1].op \in {"record", "update"} /\ QueuedOK(p, 1)
    BY <1>1, <2>1, <2>2, AboutEvents DEF CallsInv
  <2>4. q = p
    BY <1>3, <2>1, <2>2, <2>3 DEF QueuedOK, WaitedFor
  <2>5. k = 1
    BY <1>1, <1>3, <2>2, <2>3, <2>4 DEF QueuedOK, WaitedFor
  <2> QED
    BY <1>3, <2>4, <2>5
<1> SUFFICES ASSUME NEW q \in Proc, NEW i \in 1..Len(queue'[q]) PROVE QueuedOK(q, i)'
  OBVIOUS
<1>4. CASE q # p
  <2>1. queue'[q] = queue[q] /\ QueuedOK(q, i)
    BY <1>2, <1>4 DEF CallsInv
  <2>2. queue[q][i].op \in {"record", "update"} => call'[queue[q][i].event] = call[queue[q][i].event]
    BY <1>3, <1>4, <2>1
  <2> QED
    BY <2>1, <2>2 DEF QueuedOK, WaitedFor
<1>5. CASE q = p
  <2>1. i + 1 \in 1..Len(queue[p]) /\ queue'[p][i] = queue[p][i + 1] /\ QueuedOK(p, i + 1)
    BY <1>1, <1>2, <1>5 DEF CallsInv
  <2>2. queue[p][i + 1].op \in {"record", "update"} => call'[queue[p][i + 1].event] = call[queue[p][i + 1].event]
    BY <1>3, <2>1
  <2>3. ASSUME queue[p][i + 1].op \in {"record", "update"},
               NEW j \in 1..Len(queue'[p]), queue'[p][j].event = queue[p][i + 1].event
        PROVE  j = i
    <3>1. j + 1 \in 1..Len(queue[p]) /\ queue[p][j + 1].event = queue[p][i + 1].event
      BY <1>1, <1>2, <2>3
    <3>2. j + 1 = i + 1
      BY <2>1, <2>3, <3>1 DEF QueuedOK, WaitedFor
    <3> QED
      BY <1>1, <1>2, <1>5, <3>2
  <2> QED
    BY <1>5, <2>1, <2>2, <2>3 DEF QueuedOK, WaitedFor
<1> QED
  BY <1>4, <1>5

(* A process that goes away takes its channel and its callers' hopes with    *)
(* it, and nobody else's.                                                    *)
LEMMA DropKeepsQueued ==
  ASSUME TypeInv, CallsInv, NEW p \in Proc, queue' = [queue EXCEPT ![p] = <<>>], UNCHANGED owner,
         \A e \in Event : owner[e] # p => call'[e] = call[e]
  PROVE  \A q \in Proc : \A i \in 1..Len(queue'[q]) : QueuedOK(q, i)'
<1> SUFFICES ASSUME NEW q \in Proc, NEW i \in 1..Len(queue'[q]) PROVE QueuedOK(q, i)'
  OBVIOUS
<1>1. q # p
  BY EmptySeq DEF TypeInv, TypeOK
<1>2. queue'[q] = queue[q] /\ QueuedOK(q, i)
  BY <1>1 DEF TypeInv, TypeOK, CallsInv
<1>3. queue[q][i].op \in {"record", "update"} => call'[queue[q][i].event] = call[queue[q][i].event]
  BY <1>1, <1>2, AboutEvents DEF QueuedOK, WaitedFor
<1> QED
  BY <1>2, <1>3 DEF QueuedOK, WaitedFor

(* Waiting longer, giving up and losing touch are no news about the log. *)
LEMMA KnownFrame ==
  ASSUME CallsInv, UNCHANGED <<db, rowid, faulted>>,
         NEW e \in Event,
         \/ call'[e] \in {call[e], "lost"}
         \/ call[e] \in {"new", "recording"} /\ call'[e] \in {"recording", "unrecorded"}
         \/ call[e] \in {"running", "updating"} /\ call'[e] \in {"updating", "unfinished"}
  PROVE  KnownOK(e)'
<1>1. KnownOK(e)
  BY DEF CallsInv
<1>2. RowsFor(e)' = RowsFor(e)
  BY DEF RowsFor
<1> QED
  BY <1>1, <1>2 DEF KnownOK

(* Which rows an event has after a step of the log. *)
LEMMA RowsAfter ==
  ASSUME TypeInv, NEW e \in Event, Len(db') \in {Len(db), Len(db) + 1},
         \A i \in 1..Len(db) : db'[i].event = db[i].event
  PROVE  RowsFor(e)' = RowsFor(e) \cup (IF Len(db') = Len(db) + 1 /\ db'[Len(db')].event = e
                                        THEN {Len(db) + 1} ELSE {})
<1>1. Len(db) \in Nat
  BY LenProperties DEF TypeInv, TypeOK, IsLog
<1>2. CASE Len(db') = Len(db)
  BY <1>1, <1>2 DEF RowsFor
<1>3. CASE Len(db') = Len(db) + 1
  BY <1>1, <1>3 DEF RowsFor
<1> QED
  BY <1>2, <1>3

LEMMA InitCallsInv == Init => CallsInv
<1> SUFFICES ASSUME Init PROVE CallsInv
  OBVIOUS
<1>1. \A i \in 1..Len(db) : db[i].event \in OldEvent
  BY InitialLogsVerify DEF Init
<1>2. \A e \in Event : RowsFor(e) = {} /\ call[e] = "new"
  BY <1>1, EventsDisjoint DEF RowsFor, Init
<1>3. \A p \in Proc : queue[p] = <<>>
  BY DEF Init
<1> QED
  BY <1>2, <1>3, EmptySeq DEF CallsInv, KnownOK

(* The row a successful record names is its own, the only one, as recorded. *)
LEMMA RecordKnown ==
  ASSUME TypeInv, TxnView, CallsInv, NEW p \in Proc, CommitRecord(p)
  PROVE  CallsInv'
<1>1. /\ pc[p] = "commit" /\ db' = work /\ AckOk(p, Len(work)) /\ UNCHANGED <<owner, alive, faulted>>
      /\ queue[p] # <<>> /\ cmd(p) \in Cmd /\ CmdOK(cmd(p)) /\ cmd(p).op \in {"record", "commit-layout"}
  <2>1. pc[p] = "commit" /\ db' = work /\ AckOk(p, Len(work)) /\ UNCHANGED <<owner, alive, faulted>>
    BY DEF CommitRecord, Commit, EndTxn
  <2>2. queue[p] # <<>> /\ cmd(p).op \in {"record", "commit-layout"}
    BY <2>1 DEF TypeInv, TxnOK
  <2> QED
    BY <2>1, <2>2, CmdType
<1>2. Extended(db, db', cmd(p)) /\ Len(db) \in Nat
  BY <1>1, LenProperties DEF TxnView, ViewOK, TypeInv, TypeOK, IsLog
<1>3. queue' = [queue EXCEPT ![p] = Tail(@)] /\ \A e \in Event \ {cmd(p).event} : call'[e] = call[e]
  BY <1>1 DEF AckOk
<1>4. \A q \in Proc : ~alive'[q] => queue'[q] = <<>>
  <2>1. alive[p]
    BY <1>1 DEF CallsInv
  <2> QED
    BY <1>1, <1>3, <2>1 DEF CallsInv, TypeInv, TypeOK
<1>5. ASSUME NEW e \in Event, e # cmd(p).event PROVE KnownOK(e)'
  <2>1. call'[e] = call[e] /\ rowid'[e] = rowid[e] /\ KnownOK(e)
    BY <1>1, <1>5 DEF AckOk, CallsInv
  <2>2. RowsFor(e)' = RowsFor(e) /\ \A i \in 1..Len(db) : db'[i] = db[i]
    BY <1>2, <1>5, RowsAfter DEF Extended
  <2>3. RowsFor(e) = {rowid[e]} => rowid[e] \in 1..Len(db)
    BY DEF RowsFor
  <2> QED
    BY <1>1, <2>1, <2>2, <2>3 DEF KnownOK
<1>6. ASSUME NEW e \in Event, e = cmd(p).event PROVE KnownOK(e)'
  <2>1. cmd(p).op = "record" /\ cmd(p) = queue[p][1] /\ 1 \in 1..Len(queue[p])
    BY <1>1, <1>6, EventsDisjoint, EmptySeq, LenProperties DEF CmdOK, cmd, TypeInv, TypeOK
  <2>2. call[e] = "recording"
    BY <1>6, <2>1 DEF CallsInv, QueuedOK, WaitedFor
  <2>3. RowsFor(e) = {}
    BY <2>2 DEF CallsInv, KnownOK
  <2>4. RowsFor(e)' = {Len(db) + 1} /\ rowid'[e] = Len(db) + 1
    BY <1>1, <1>2, <1>6, <2>3, RowsAfter DEF Extended, AckOk, TypeInv, TypeOK
  <2>5. db'[Len(db) + 1].status = cmd(p).status
    BY <1>2 DEF Extended
  <2>6. call'[e] = IF cmd(p).status = "started" THEN "running" ELSE "done"
    BY <1>1, <1>6 DEF AckOk
  <2> QED
    BY <2>4, <2>5, <2>6 DEF KnownOK
<1> QED
  BY <1>1, <1>3, <1>4, <1>5, <1>6, PopKeepsQueued DEF CallsInv

(* A successful update finishes the row of its own event and no other. *)
LEMMA UpdateKnown ==
  ASSUME TypeInv, TxnView, CallsInv, NEW p \in Proc, CommitUpdate(p)
  PROVE  CallsInv'
<1> DEFINE e0 == cmd(p).event
<1>1. /\ pc[p] = "rechain" /\ db' = work /\ AckOk(p, Target(p)) /\ UNCHANGED <<owner, alive, faulted>>
      /\ queue[p] # <<>> /\ cmd(p) \in Cmd /\ cmd(p).op = "update" /\ e0 \in Event
  <2>1. pc[p] = "rechain" /\ db' = work /\ AckOk(p, Target(p)) /\ UNCHANGED <<owner, alive, faulted>>
    BY DEF CommitUpdate, Commit, EndTxn
  <2>2. queue[p] # <<>> /\ cmd(p).op = "update"
    BY <2>1 DEF TypeInv, TxnOK
  <2> QED
    BY <2>1, <2>2, CmdType DEF CmdOK
<1>2. Rewritten(db, db', Target(p), cmd(p), cursor) /\ Target(p) \in 1..Len(db) /\ Len(db) \in Nat
  BY <1>1, LenProperties DEF TxnView, ViewOK, TypeInv, TypeOK, IsLog, Rewritten, Resignable
<1>3. queue' = [queue EXCEPT ![p] = Tail(@)] /\ \A e \in Event \ {cmd(p).event} : call'[e] = call[e]
  BY <1>1 DEF AckOk
<1>4. \A q \in Proc : ~alive'[q] => queue'[q] = <<>>
  <2>1. alive[p]
    BY <1>1 DEF CallsInv
  <2> QED
    BY <1>1, <1>3, <2>1 DEF CallsInv, TypeInv, TypeOK
<1>5. /\ call[e0] = "updating" /\ cmd(p).status # "started"
      /\ RowsFor(e0) = {Target(p)}
  <2>1. cmd(p) = queue[p][1] /\ 1 \in 1..Len(queue[p])
    BY <1>1, EmptySeq, LenProperties DEF cmd, TypeInv, TypeOK
  <2>2. call[e0] = "updating" /\ cmd(p).status # "started"
    BY <1>1, <2>1 DEF CallsInv, QueuedOK, WaitedFor
  <2> QED
    BY <1>1, <2>2 DEF CallsInv, KnownOK, Target
<1>6. ASSUME NEW e \in Event PROVE RowsFor(e)' = RowsFor(e)
  <2>1. Len(db') = Len(db) /\ \A i \in 1..Len(db) : db'[i].event = db[i].event
    BY <1>2 DEF Rewritten
  <2>2. Len(db') # Len(db) + 1 /\ Len(db') \in {Len(db), Len(db) + 1}
    BY <1>2, <2>1
  <2>3. RowsFor(e)' = RowsFor(e) \cup {}
    BY <2>1, <2>2, RowsAfter
  <2> QED
    BY <2>3
<1>7. ASSUME NEW e \in Event, e # e0 PROVE KnownOK(e)'
  <2>1. call'[e] = call[e] /\ rowid'[e] = rowid[e] /\ KnownOK(e)
    BY <1>1, <1>7 DEF AckOk, CallsInv
  <2>2. RowsFor(e) = {rowid[e]} => rowid[e] \in 1..Len(db) \ {Target(p)}
    BY <1>5, <1>7 DEF RowsFor
  <2>3. RowsFor(e) = {rowid[e]} => db'[rowid[e]].status = db[rowid[e]].status
    BY <1>2, <2>2 DEF Rewritten
  <2> QED
    BY <1>1, <1>6, <2>1, <2>3 DEF KnownOK
<1>8. ASSUME NEW e \in Event, e = e0 PROVE KnownOK(e)'
  <2>1. call'[e] = "done" /\ rowid'[e] = Target(p)
    BY <1>1, <1>5, <1>8 DEF AckOk, TypeInv, TypeOK
  <2>2. db'[Target(p)].status # "started"
    BY <1>2, <1>5 DEF Rewritten
  <2>3. RowsFor(e)' = {Target(p)}
    BY <1>5, <1>6, <1>8
  <2> QED
    BY <2>1, <2>2, <2>3 DEF KnownOK
<1> QED
  BY <1>1, <1>3, <1>4, <1>7, <1>8, PopKeepsQueued DEF CallsInv

LEMMA NextCallsInv == TypeInv /\ TxnView /\ CallsInv /\ [Next]_vars => CallsInv'
<1> SUFFICES ASSUME TypeInv, TxnView, CallsInv, [Next]_vars PROVE CallsInv'
  OBVIOUS
<1>1. CASE UNCHANGED vars
  <2>1. \A e \in Event : RowsFor(e)' = RowsFor(e)
    BY <1>1 DEF vars, RowsFor
  <2> QED
    BY <1>1, <2>1 DEF vars, CallsInv, QueuedOK, WaitedFor, KnownOK
<1>2. ASSUME NEW p \in Proc, NEW c, Send(p, c)
      PROVE  \A q \in Proc : ~alive'[q] => queue'[q] = <<>>
  BY <1>2 DEF Send, CallsInv, TypeInv, TypeOK
<1>3. ASSUME NEW p \in Proc, NEW e \in Event, NEW s \in Status, Record(p, e, s) PROVE CallsInv'
  <2> DEFINE c == Command("record", e, s)
  <2>1. c \in Cmd /\ CmdOK(c) /\ c.op = "record" /\ c.event = e /\ Send(p, c)
    BY <1>3, CommandOK DEF Record, Command
  <2>2. /\ call[e] = "new" /\ call' = [call EXCEPT ![e] = "recording"]
        /\ owner' = [owner EXCEPT ![e] = p] /\ UNCHANGED <<db, rowid, faulted>>
    BY <1>3 DEF Record, Send
  <2> HIDE DEF c
  <2>3. \A q \in Proc : \A i \in 1..Len(queue'[q]) : QueuedOK(q, i)'
    BY <2>1, <2>2, SendKeepsQueued DEF TypeInv, TypeOK
  <2>4. \A x \in Event : KnownOK(x)'
    BY <2>2, KnownFrame DEF TypeInv, TypeOK
  <2> QED
    BY <1>2, <2>1, <2>3, <2>4 DEF CallsInv
<1>4. ASSUME NEW p \in Proc, NEW e \in Event, NEW s \in Status \ {"started"}, UpdateStatus(p, e, s)
      PROVE  CallsInv'
  <2> DEFINE c == Command("update", e, s)
  <2>1. c \in Cmd /\ CmdOK(c) /\ c.op = "update" /\ c.event = e /\ c.status # "started" /\ Send(p, c)
    BY <1>4, CommandOK DEF UpdateStatus, Command
  <2>2. /\ call[e] = "running" /\ call' = [call EXCEPT ![e] = "updating"] /\ owner[e] = p
        /\ UNCHANGED <<db, owner, rowid, faulted>>
    BY <1>4 DEF UpdateStatus, Send
  <2> HIDE DEF c
  <2>3. \A q \in Proc : \A i \in 1..Len(queue'[q]) : QueuedOK(q, i)'
    BY <2>1, <2>2, SendKeepsQueued DEF TypeInv, TypeOK
  <2>4. \A x \in Event : KnownOK(x)'
    BY <2>2, KnownFrame DEF TypeInv, TypeOK
  <2> QED
    BY <1>2, <2>1, <2>3, <2>4 DEF CallsInv
<1>5. ASSUME NEW p \in Proc, NEW op \in {"commit-layout", "shutdown"},
             Send(p, Command(op, LayoutCommitted, "ok")), UNCHANGED <<call, owner, rowid>>
      PROVE  CallsInv'
  <2> DEFINE c == Command(op, LayoutCommitted, "ok")
  <2>1. "ok" \in Status
    BY DEF Status
  <2>2. c \in Cmd /\ CmdOK(c) /\ c.op = op /\ c.status = "ok" /\ Send(p, c)
    BY <1>5, <2>1, CommandOK DEF Command
  <2> HIDE DEF c
  <2>3. \A q \in Proc : \A i \in 1..Len(queue'[q]) : QueuedOK(q, i)'
    BY <1>5, <2>2, SendKeepsQueued
  <2>4. \A x \in Event : KnownOK(x)'
    BY <1>5, <2>2, KnownFrame DEF Send
  <2> QED
    BY <1>2, <2>2, <2>3, <2>4 DEF CallsInv
<1>6. ASSUME NEW p \in Proc, NEW e \in Event, SendClosed(p, e) PROVE CallsInv'
  <2>1. /\ call[e] = "running" /\ call' = [call EXCEPT ![e] = "unfinished"]
        /\ UNCHANGED <<db, queue, alive, owner, rowid, faulted>>
    BY <1>6 DEF SendClosed
  <2>2. ASSUME NEW q \in Proc, NEW i \in 1..Len(queue'[q]) PROVE QueuedOK(q, i)'
    BY <2>1 DEF CallsInv, QueuedOK, WaitedFor, TypeInv, TypeOK
  <2>3. \A x \in Event : KnownOK(x)'
    BY <2>1, KnownFrame DEF TypeInv, TypeOK
  <2> QED
    BY <2>1, <2>2, <2>3 DEF CallsInv
<1>7. ASSUME NEW p \in Proc, AckErr(p), queue[p] # <<>>, UNCHANGED <<db, alive, owner, faulted>>
      PROVE  CallsInv'
  <2>1. /\ queue' = [queue EXCEPT ![p] = Tail(@)] /\ UNCHANGED rowid
        /\ call' = [e \in Event |-> IF e = cmd(p).event THEN CallAfterErr(cmd(p), call[e]) ELSE call[e]]
    BY <1>7 DEF AckErr
  <2>2. \A q \in Proc : \A i \in 1..Len(queue'[q]) : QueuedOK(q, i)'
    BY <1>7, <2>1, PopKeepsQueued
  <2>3. ASSUME NEW x \in Event PROVE KnownOK(x)'
    <3>1. CASE x # cmd(p).event
      BY <1>7, <2>1, <3>1, KnownFrame
    <3>2. CASE x = cmd(p).event
      <4>1. /\ cmd(p) = queue[p][1] /\ 1 \in 1..Len(queue[p])
        BY <1>7, EmptySeq, LenProperties DEF cmd, TypeInv, TypeOK
      <4>2. cmd(p).op \in {"record", "update"}
        BY <3>2, <4>1, AboutEvents
      <4>3. call[x] = IF cmd(p).op = "record" THEN "recording" ELSE "updating"
        BY <3>2, <4>1, <4>2 DEF CallsInv, QueuedOK, WaitedFor
      <4>4. call'[x] = IF cmd(p).op = "record" THEN "unrecorded" ELSE "unfinished"
        BY <2>1, <3>2, <4>2 DEF CallAfterErr
      <4> QED
        BY <1>7, <2>1, <4>3, <4>4, KnownFrame
    <3> QED
      BY <3>1, <3>2
  <2>4. \A q \in Proc : ~alive'[q] => queue'[q] = <<>>
    BY <1>7, <2>1 DEF CallsInv, TypeInv, TypeOK
  <2> QED
    BY <2>2, <2>3, <2>4 DEF CallsInv
<1>8. ASSUME NEW p \in Proc, Take(p) PROVE CallsInv'
  <2>1. CASE BeginImmediate(p) \/ RetryBusy(p)
    <3>1. UNCHANGED <<db, queue, alive, call, owner, rowid, faulted>>
      BY <2>1 DEF BeginImmediate, RetryBusy
    <3>2. \A e \in Event : RowsFor(e)' = RowsFor(e)
      BY <3>1 DEF RowsFor
    <3> QED
      BY <3>1, <3>2 DEF CallsInv, QueuedOK, WaitedFor, KnownOK
  <2>2. CASE GiveUpBusy(p)
    BY <1>7, <2>2 DEF GiveUpBusy, HasWork
  <2>3. CASE StopThread(p)
    <3>1. /\ alive' = [alive EXCEPT ![p] = FALSE] /\ queue' = [queue EXCEPT ![p] = <<>>]
          /\ UNCHANGED <<db, owner, rowid, faulted>>
      BY <2>3 DEF StopThread
    <3>2. ASSUME NEW e \in Event
          PROVE  \/ call'[e] = call[e]
                 \/ \E i \in 1..Len(queue[p]) : queue[p][i].event = e /\ call'[e] = CallAfterErr(queue[p][i], call[e])
      BY <2>3 DEF StopThread
    <3>3. ASSUME NEW e \in Event, call'[e] # call[e]
          PROVE  /\ owner[e] = p
                 /\ \/ call[e] = "recording" /\ call'[e] = "unrecorded"
                    \/ call[e] = "updating" /\ call'[e] = "unfinished"
      <4>1. PICK i \in 1..Len(queue[p]) : queue[p][i].event = e /\ call'[e] = CallAfterErr(queue[p][i], call[e])
        BY <3>2, <3>3
      <4>2. queue[p][i].op \in {"record", "update"} /\ QueuedOK(p, i)
        BY <4>1, AboutEvents DEF CallsInv
      <4> QED
        BY <4>1, <4>2 DEF QueuedOK, WaitedFor, CallAfterErr
    <3>4. \A q \in Proc : \A i \in 1..Len(queue'[q]) : QueuedOK(q, i)'
      BY <3>1, <3>3, DropKeepsQueued
    <3>5. \A x \in Event : KnownOK(x)'
      BY <3>1, <3>3, KnownFrame
    <3>6. \A q \in Proc : ~alive'[q] => queue'[q] = <<>>
      BY <3>1 DEF CallsInv, TypeInv, TypeOK
    <3> QED
      BY <3>4, <3>5, <3>6 DEF CallsInv
  <2> QED
    BY <1>8, <2>1, <2>2, <2>3 DEF Take
<1>9. ASSUME NEW p \in Proc,
             InsertRow(p) \/ TagRow(p) \/ ResignTarget(p) \/ RechainSuccessor(p) \/ PinLayout(p)
      PROVE  CallsInv'
  <2>1. UNCHANGED <<db, queue, alive, call, owner, rowid, faulted>>
    BY <1>9 DEF InsertRow, TagRow, ResignTarget, RechainSuccessor, PinLayout
  <2>2. \A e \in Event : RowsFor(e)' = RowsFor(e)
    BY <2>1 DEF RowsFor
  <2> QED
    BY <2>1, <2>2 DEF CallsInv, QueuedOK, WaitedFor, KnownOK
<1>10. ASSUME NEW p \in Proc, RefuseUpdate(p) \/ RefuseLayout(p) \/ SqlError(p) PROVE CallsInv'
  <2>1. AckErr(p) /\ pc[p] # "idle" /\ UNCHANGED <<db, alive, owner, faulted>>
    BY <1>10 DEF RefuseUpdate, RefuseLayout, SqlError, Rollback, EndTxn, TypeInv, TypeOK
  <2>2. queue[p] # <<>>
    BY <2>1 DEF TypeInv, TxnOK
  <2> QED
    BY <1>7, <2>1, <2>2
<1>11. ASSUME NEW p \in Proc, LayoutAlreadyPinned(p) PROVE CallsInv'
  <2>1. /\ pc[p] = "survey" /\ AckOk(p, 0) /\ db' = work /\ UNCHANGED <<alive, owner, faulted>>
    BY <1>11 DEF LayoutAlreadyPinned, Commit, EndTxn
  <2>2. UNCHANGED db /\ queue[p] # <<>> /\ cmd(p).op = "commit-layout"
    BY <2>1 DEF TxnView, ViewOK, TypeInv, TxnOK
  <2>3. cmd(p).event = LayoutCommitted
    BY <2>2, CmdType DEF CmdOK
  <2>4. /\ queue' = [queue EXCEPT ![p] = Tail(@)]
        /\ \A e \in Event : call'[e] = call[e] /\ rowid'[e] = rowid[e]
    BY <2>1, <2>3, EventsDisjoint DEF AckOk
  <2>5. \A q \in Proc : \A i \in 1..Len(queue'[q]) : QueuedOK(q, i)'
    BY <2>1, <2>2, <2>4, PopKeepsQueued
  <2>6. \A e \in Event : RowsFor(e)' = RowsFor(e)
    BY <2>2 DEF RowsFor
  <2>7. \A e \in Event : KnownOK(e)'
    BY <2>1, <2>2, <2>4, <2>6 DEF CallsInv, KnownOK
  <2>8. \A q \in Proc : ~alive'[q] => queue'[q] = <<>>
    BY <2>1, <2>2, <2>4 DEF CallsInv, TypeInv, TypeOK
  <2> QED
    BY <2>5, <2>7, <2>8 DEF CallsInv
<1>12. ASSUME NEW p \in Proc, LoseCalls(p), UNCHANGED <<db, owner, rowid, faulted>>,
              queue' = [queue EXCEPT ![p] = <<>>],
              \A q \in Proc : ~alive'[q] => queue'[q] = <<>>
       PROVE  CallsInv'
  <2>1. \A e \in Event : call'[e] \in {call[e], "lost"} /\ (owner[e] # p => call'[e] = call[e])
    BY <1>12 DEF LoseCalls
  <2>2. \A q \in Proc : \A i \in 1..Len(queue'[q]) : QueuedOK(q, i)'
    BY <1>12, <2>1, DropKeepsQueued
  <2>3. \A e \in Event : KnownOK(e)'
    BY <1>12, <2>1, KnownFrame
  <2> QED
    BY <1>12, <2>2, <2>3 DEF CallsInv
<1>13. ASSUME NEW p \in Proc, Crash(p) PROVE CallsInv'
  <2>1. \A q \in Proc : ~alive'[q] => queue'[q] = <<>>
    BY <1>13 DEF Crash, CallsInv, TypeInv, TypeOK
  <2> QED
    BY <1>12, <1>13, <2>1 DEF Crash
<1>14. ASSUME NEW p \in Proc, Restart(p) PROVE CallsInv'
  <2>1. queue[p] = <<>> /\ UNCHANGED queue
    BY <1>14 DEF Restart, CallsInv
  <2>2. queue' = [queue EXCEPT ![p] = <<>>]
    BY <2>1 DEF TypeInv, TypeOK
  <2>3. \A q \in Proc : ~alive'[q] => queue'[q] = <<>>
    BY <1>14, <2>1 DEF Restart, CallsInv, TypeInv, TypeOK
  <2> QED
    BY <1>12, <1>14, <2>2, <2>3 DEF Restart
<1>15. ASSUME NEW i \in 1..Len(db), StorageFault(i) PROVE CallsInv'
  <2>1. UNCHANGED <<queue, alive, call, owner, rowid>> /\ faulted'
    BY <1>15 DEF StorageFault
  <2>2. \A e \in Event : RowsFor(e)' = RowsFor(e)
    BY <1>15, DamageKeeps DEF RowsFor
  <2> QED
    BY <2>1, <2>2 DEF CallsInv, QueuedOK, WaitedFor, KnownOK
<1> QED
  BY <1>1, <1>3, <1>4, <1>5, <1>6, <1>8, <1>9, <1>10, <1>11, <1>13, <1>14, <1>15, RecordKnown, UpdateKnown
     DEF Next, Callers, CommitLayout, Shutdown, Thread, RecordTxn, UpdateTxn, LayoutTxn

(* Whatever is told to a caller is what the log holds for good: no lost, no  *)
(* invented and no doubled row, for any number of processes and events.      *)
THEOREM CallersToldTrue == Spec => []AnswersMatchLog
<1>1. CallsInv => AnswersMatchLog
  BY DEF CallsInv, KnownOK, AnswersMatchLog
<1> QED
  BY <1>1, InitTypeInv, NextTypeInv, InitTxnView, NextTxnView, InitCallsInv, NextCallsInv, PTL DEF Spec

------------------------------------------------------------------------------
(* The log its readers see.                                                  *)

LogView == [i \in DOMAIN db |-> [event |-> db[i].event, status |-> db[i].status]]

NoFault == ~faulted

LEMMA InitNoFault == Init => NoFault
BY DEF Init, NoFault

LEMMA NextNoFault == ASSUME ~StorageFaults PROVE NoFault /\ [Next]_vars => NoFault'
<1> SUFFICES ASSUME NoFault, [Next]_vars PROVE UNCHANGED faulted
  BY DEF NoFault
<1>1. CASE UNCHANGED vars
  BY <1>1 DEF vars
<1>2. ASSUME NEW p \in Proc, Callers(p) \/ Thread(p) \/ SqlError(p) \/ Crash(p) \/ Restart(p)
      PROVE  UNCHANGED faulted
  BY <1>2 DEF Callers, Record, UpdateStatus, SendClosed, CommitLayout, Shutdown, Send, Thread, Take,
              BeginImmediate, RetryBusy, GiveUpBusy, StopThread, RecordTxn, InsertRow, TagRow,
              CommitRecord, UpdateTxn, RefuseUpdate, ResignTarget, RechainSuccessor, CommitUpdate,
              LayoutTxn, RefuseLayout, LayoutAlreadyPinned, PinLayout, SqlError, Commit, Rollback,
              EndTxn, Crash, Restart
<1>3. ASSUME NEW i \in 1..Len(db), StorageFault(i) PROVE FALSE
  BY <1>3 DEF StorageFault
<1> QED
  BY <1>1, <1>2, <1>3 DEF Next

(* What the readers see is a sequence as long as the log. *)
LEMMA ViewIsSeq ==
  ASSUME NEW log, IsLog(log)
  PROVE  LET view == [i \in DOMAIN log |-> [event |-> log[i].event, status |-> log[i].status]]
         IN  /\ view \in Seq([event : Event \cup OldEvent \cup {LayoutCommitted}, status : Status])
             /\ Len(view) = Len(log) /\ Len(log) \in Nat /\ DOMAIN log = 1..Len(log)
<1> DEFINE view == [i \in DOMAIN log |-> [event |-> log[i].event, status |-> log[i].status]]
           S    == [event : Event \cup OldEvent \cup {LayoutCommitted}, status : Status]
<1>1. DOMAIN log = 1..Len(log) /\ Len(log) \in Nat /\ \A i \in DOMAIN log : IsRow(log[i])
  BY LenProperties DEF IsLog
<1>2. view \in [1..Len(log) -> S]
  BY <1>1 DEF IsRow
<1> HIDE DEF view, S
<1>3. view \in Seq(S) /\ Len(view) = Len(log)
  BY <1>1, <1>2, FcnIsSeq
<1> QED
  BY <1>1, <1>3 DEF view, S

LEMMA InitImplements == Init => Log!Init
<1> SUFFICES ASSUME Init PROVE Log!Init
  OBVIOUS
<1>1. IsLog(db) /\ \A i \in 1..Len(db) : db[i].event \in OldEvent
  BY InitialLogsVerify DEF Init
<1>2. DOMAIN db = 1..Len(db) /\ Len(db) \in Nat /\ \A i \in DOMAIN db : IsRow(db[i])
  BY <1>1, LenProperties DEF IsLog
<1>3. LogView \in [1..Len(db) -> [event : OldEvent, status : {"ok", "error"} \cup {"started"}]]
  BY <1>1, <1>2 DEF LogView, IsRow, Status
<1>4. LogView \in Seq([event : OldEvent, status : {"ok", "error"} \cup {"started"}])
  BY <1>2, <1>3, FcnIsSeq
<1> QED
  BY <1>4 DEF LogView, Log!Init, Log!Final

(* An appended row is an added entry: no entry of its event exists yet. *)
LEMMA ExtendsAdds ==
  ASSUME TypeInv, TypeInv', CallsInv, LayoutsInOrder, NEW p \in Proc,
         queue[p] # <<>>, cmd(p) \in Cmd, CmdOK(cmd(p)), Extends(p)
  PROVE  Log!Next
<1> DEFINE entry == [event |-> cmd(p).event, status |-> cmd(p).status]
           S     == [event : Event \cup OldEvent \cup {LayoutCommitted}, status : Status]
<1>1. /\ LogView \in Seq(S) /\ Len(LogView) = Len(db)
      /\ Len(db) \in Nat /\ DOMAIN db = 1..Len(db)
      /\ DOMAIN db' = 1..Len(db')
  BY ViewIsSeq DEF TypeInv, TypeOK, LogView
<1>2. Extended(db, db', cmd(p)) /\ Len(db') = Len(db) + 1
  BY DEF Extends, Extended
<1>3. LogView' = Append(LogView, entry)
  <2> DEFINE app == Append(LogView, entry)
  <2>1. LogView' = [i \in 1..(Len(db) + 1) |-> IF i = Len(db) + 1 THEN entry ELSE LogView[i]]
    BY <1>1, <1>2 DEF LogView, Extended
  <2>2. entry \in S
    BY DEF Cmd
  <2> HIDE DEF entry, S
  <2>3. /\ app \in Seq(S)
        /\ Len(app) = Len(db) + 1
        /\ app[Len(db) + 1] = entry
        /\ \A i \in 1..Len(db) : app[i] = LogView[i]
    BY <1>1, <2>2, AppendProperties
  <2> HIDE DEF app
  <2>4. app \in [1..(Len(db) + 1) -> S]
    BY <2>3, LenProperties
  <2>5. \A i \in 1..(Len(db) + 1) : app[i] = IF i = Len(db) + 1 THEN entry ELSE LogView[i]
    BY <1>1, <2>3
  <2>6. LogView' = app
    BY <2>1, <2>4, <2>5
  <2> QED
    BY <2>6 DEF app
<1>4. cmd(p).event \notin {LogView[i].event : i \in DOMAIN LogView}
  <2>1. SUFFICES ASSUME NEW i \in 1..Len(db), db[i].event = cmd(p).event PROVE FALSE
    BY <1>1 DEF LogView
  <2>2. CASE cmd(p).op = "record"
    <3>1. cmd(p) = queue[p][1] /\ 1 \in 1..Len(queue[p])
      BY EmptySeq, LenProperties DEF cmd, TypeInv, TypeOK
    <3>2. cmd(p).event \in Event /\ call[cmd(p).event] = "recording"
      BY <2>2, <3>1 DEF CmdOK, CallsInv, QueuedOK, WaitedFor
    <3>3. RowsFor(cmd(p).event) = {}
      BY <3>2 DEF CallsInv, KnownOK
    <3> QED
      BY <2>1, <3>3 DEF RowsFor
  <2>3. CASE cmd(p).op = "commit-layout"
    <3>1. cmd(p).event = LayoutCommitted /\ Commitments(db) = {}
      BY <2>3 DEF CmdOK, Extends
    <3> QED
      BY <2>1, <3>1 DEF LayoutsInOrder, Commitments, is_layout_commitment
  <2> QED
    BY <2>2, <2>3 DEF Extends
<1>5. cmd(p).op = "record" => cmd(p).event \in Event /\ cmd(p).status \in {"ok", "error"} \cup {"started"}
  BY DEF CmdOK, Cmd, Status
<1>6. cmd(p).op = "commit-layout" => cmd(p).event = LayoutCommitted /\ cmd(p).status = "ok"
  <2>1. cmd(p) = queue[p][1] /\ 1 \in 1..Len(queue[p])
    BY EmptySeq, LenProperties DEF cmd, TypeInv, TypeOK
  <2> QED
    BY <2>1 DEF CmdOK, CallsInv, QueuedOK
<1>7. \E e, s : /\ e \notin {LogView[i].event : i \in DOMAIN LogView}
               /\ LogView' = Append(LogView, [event |-> e, status |-> s])
               /\ \/ e \in Event /\ s \in {"ok", "error"} \cup {"started"}
                  \/ e = LayoutCommitted /\ s = "ok"
  BY <1>3, <1>4, <1>5, <1>6 DEF Extends
<1> QED
  BY <1>7 DEF LogView, Log!Next, Log!Add, Log!Recorded, Log!Final

(* A finished update finishes one entry. *)
LEMMA RewritesFinishes ==
  ASSUME TypeInv, TypeInv', CallsInv, NoFault, NEW p \in Proc,
         queue[p] # <<>>, cmd(p) \in Cmd, CmdOK(cmd(p)), Rewrites(p)
  PROVE  Log!Next
<1> DEFINE t == Target(p)
<1>1. Rewritten(db, db', t, cmd(p), Len(db)) /\ cmd(p).op = "update" /\ cmd(p).event \in Event
  BY DEF Rewrites, CmdOK
<1>2. /\ DOMAIN db = 1..Len(db) /\ DOMAIN db' = 1..Len(db') /\ Len(db') = Len(db)
      /\ t \in 1..Len(db)
  BY <1>1, LenProperties DEF TypeInv, TypeOK, IsLog, Rewritten, Resignable
<1>3. cmd(p) = queue[p][1] /\ 1 \in 1..Len(queue[p])
  BY EmptySeq, LenProperties DEF cmd, TypeInv, TypeOK
<1>4. call[cmd(p).event] = "updating" /\ cmd(p).status \in {"ok", "error"}
  BY <1>1, <1>3 DEF CallsInv, QueuedOK, WaitedFor, Cmd, Status
<1>5. db[t].event \in Event /\ db[t].status = "started"
  <2>1. RowsFor(cmd(p).event) = {t} /\ db[t].status = "started"
    BY <1>1, <1>4 DEF CallsInv, KnownOK, NoFault, Target
  <2> QED
    BY <1>1, <2>1 DEF RowsFor
<1>6. LogView' = [LogView EXCEPT ![t].status = cmd(p).status]
  <2>1. \A i \in 1..Len(db) : /\ db'[i].event = db[i].event
                              /\ db'[i].status = IF i = t THEN cmd(p).status ELSE db[i].status
    BY <1>1, <1>2 DEF Rewritten
  <2>2. LogView' = [i \in 1..Len(db) |-> [event |-> db[i].event,
                                          status |-> IF i = t THEN cmd(p).status ELSE db[i].status]]
    BY <1>2, <2>1 DEF LogView
  <2>3. LogView[t] = [event |-> db[t].event, status |-> db[t].status]
    BY <1>2 DEF LogView
  <2>4. [LogView EXCEPT ![t].status = cmd(p).status]
          = [i \in 1..Len(db) |-> IF i = t THEN [event |-> db[t].event, status |-> cmd(p).status]
                                           ELSE LogView[i]]
    <3>1. [LogView[t] EXCEPT !.status = cmd(p).status] = [event |-> db[t].event, status |-> cmd(p).status]
      BY <2>3
    <3> QED
      BY <1>2, <3>1 DEF LogView
  <2>5. \A i \in 1..Len(db) :
           (IF i = t THEN [event |-> db[t].event, status |-> cmd(p).status] ELSE LogView[i])
             = [event |-> db[i].event, status |-> IF i = t THEN cmd(p).status ELSE db[i].status]
    BY <1>2 DEF LogView
  <2> QED
    BY <2>2, <2>4, <2>5
<1>7. LogView[t].event \in Event /\ LogView[t].status = "started" /\ t \in DOMAIN LogView
  BY <1>2, <1>5 DEF LogView
<1>8. \E i \in DOMAIN LogView, s \in {"ok", "error"} :
         /\ LogView[i].event \in Event /\ LogView[i].status = "started"
         /\ LogView' = [LogView EXCEPT ![i].status = s]
  BY <1>4, <1>6, <1>7
<1> QED
  BY <1>8 DEF LogView, Log!Next, Log!Finish, Log!Final

(* As long as storage returns what was written, the audit database is an     *)
(* append-only log of entries that change once, for any number of processes  *)
(* and whatever they interleave, retry or crash in.                          *)
THEOREM ImplementsLog == ASSUME ~StorageFaults PROVE Spec => ImplementsAuditLog
<1>1. TypeInv /\ TypeInv' /\ TxnView /\ LayoutsInOrder /\ CallsInv /\ NoFault /\ [Next]_vars
        => [Log!Next]_[i \in DOMAIN db |-> [event |-> db[i].event, status |-> db[i].status]]
  <2> SUFFICES ASSUME TypeInv, TypeInv', TxnView, LayoutsInOrder, CallsInv, NoFault, [Next]_vars
               PROVE  Log!Next \/ UNCHANGED db
    OBVIOUS
  <2>1. ASSUME NEW p \in Proc, queue[p] # <<>>, cmd(p) \in Cmd, CmdOK(cmd(p)), Extends(p) \/ Rewrites(p)
        PROVE  Log!Next
    BY <2>1, ExtendsAdds, RewritesFinishes
  <2>2. ASSUME NEW i \in 1..Len(db), StorageFault(i) PROVE FALSE
    BY <2>2 DEF StorageFault
  <2> QED
    BY <2>1, <2>2, LogSteps
<1>2. NoFault /\ [Next]_vars => NoFault'
  BY NextNoFault
<1> QED
  BY <1>1, <1>2, InitTypeInv, NextTypeInv, InitTxnView, NextTxnView, InitLayouts, NextLayouts,
     InitCallsInv, NextCallsInv, InitNoFault, InitImplements, PTL
     DEF Spec, ImplementsAuditLog, Log!Spec

------------------------------------------------------------------------------
(* The schema of the database.                                             *)

Versions == {1, 2, 3}

SchemaTypes ==
  /\ columns \subseteq Column /\ ledger \subseteq Versions
  /\ step \in [Opener -> OpenStep] /\ DOMAIN seen = Opener
  /\ serving \in BOOLEAN

(* Whoever is about to commit a migration holds the write lock, and nobody   *)
(* else does.                                                                *)
Committing(p) == step[p] \in {"commit2", "commit3"}

LockOwned ==
  /\ writer \in Opener \cup {Nobody}
  /\ \A p \in Opener : Committing(p) <=> writer = p

(* A version is entered after those before it, once its columns are there.   *)
LedgerTrue ==
  /\ 2 \in ledger => 1 \in ledger /\ Added[2] \subseteq columns
  /\ 3 \in ledger => 2 \in ledger /\ Added[3] \subseteq columns
  /\ Mark[2] \in columns => Added[2] \subseteq columns
  /\ Mark[3] \in columns => Added[2] \subseteq columns /\ Added[3] \subseteq columns

(* What a process has passed on its way through the versions.                *)
Passed(p) ==
  /\ step[p] \in {"detect2", "detect3", "pending", "begin2", "write2", "commit2"} => 1 \in ledger
  /\ step[p] = "detect3" /\ Mark[2] \in columns => 2 \in ledger
  /\ step[p] \in {"begin3", "write3", "commit3"} => 2 \in ledger
  /\ step[p] = "opened" => 3 \in ledger

(* A process that can still finish the schema: its transaction, if it has    *)
(* begun one, has seen what is there.                                        *)
AtWrite(p) == step[p] \in {"write2", "write3"}

Carrier(p) ==
  /\ step[p] \notin {"opened", "aborted"}
  /\ AtWrite(p) => seen[p] = <<columns, ledger>>

(* Processes that abort each other's migrations always leave one behind that *)
(* will not be: SchemaSound itself is not inductive, as it does not say who. *)
Carried == accident \/ Complete \/ \E p \in Opener : Carrier(p)

SchemaInv ==
  /\ SchemaTypes /\ LockOwned
  /\ ~altered => LedgerTrue /\ Carried /\ \A p \in Opener : Passed(p)

USE DEF Versions

LEMMA VersionColumns ==
  /\ DOMAIN Added = {2, 3} /\ Column = Added[2] \cup Added[3]
  /\ Mark[2] \in Added[2] /\ Mark[3] \in Added[3]
  /\ Mark[2] \notin Added[3] /\ Mark[3] \notin Added[2]
  /\ Added[2] \subseteq Column /\ Added[3] \subseteq Column
  /\ 1..CURRENT_VERSION = Versions
BY DEF Added, Column, Mark, CURRENT_VERSION

(* What current_version says of a ledger without gaps.                       *)
LEMMA NewestVersion ==
  ASSUME ledger \subseteq Versions, LedgerTrue
  PROVE  /\ current_version = 0 <=> 1 \notin ledger
         /\ 1 \in ledger => (current_version < 2 <=> 2 \notin ledger)
         /\ 2 \in ledger => (current_version < 3 <=> 3 \notin ledger)
<1>1. CASE ledger = {}
  BY <1>1 DEF current_version
<1>2. CASE ledger # {}
  <2>1. \E v \in ledger : \A w \in ledger : w <= v
    <3>1. CASE 3 \in ledger
      BY <3>1
    <3>2. CASE 3 \notin ledger /\ 2 \in ledger
      BY <3>2
    <3>3. CASE 3 \notin ledger /\ 2 \notin ledger
      <4>1. ledger = {1}
        BY <1>2, <3>3
      <4> QED BY <4>1
    <3> QED BY <3>1, <3>2, <3>3
  <2>2. current_version \in ledger /\ \A w \in ledger : w <= current_version
    BY <1>2, <2>1 DEF current_version
  <2> QED BY <1>2, <2>2 DEF LedgerTrue
<1> QED BY <1>1, <1>2

LEMMA WholeLedger ==
  ASSUME SchemaTypes, LedgerTrue, 3 \in ledger
  PROVE  Complete
BY VersionColumns DEF SchemaTypes, LedgerTrue, Complete

LEMMA InitSchemaInv == ServiceInit => SchemaInv
<1> SUFFICES ASSUME ServiceInit PROVE SchemaInv
  OBVIOUS
<1> USE VersionColumns
<1>1. PICK d \in Databases : columns = d.columns /\ ledger = d.ledger
  BY DEF ServiceInit, SchemaInit
<1>2. PICK n \in 0..CURRENT_VERSION : ledger = 1..n
  BY <1>1, DatabasesFound
<1>3. SchemaTypes /\ LockOwned
  <2>1. d.columns \subseteq Column
    BY DatabasesFound
  <2>2. ledger \subseteq Versions
    BY <1>2 DEF CURRENT_VERSION
  <2>3. step \in [Opener -> OpenStep] /\ DOMAIN seen = Opener /\ serving \in BOOLEAN
    BY DEF ServiceInit, SchemaInit, OpenStep
  <2>4. LockOwned
    BY NobodyIsNobody DEF ServiceInit, SchemaInit, LockOwned, Committing
  <2> QED BY <1>1, <2>1, <2>2, <2>3, <2>4 DEF SchemaTypes
<1>4. ASSUME ~altered PROVE LedgerTrue
  <2>1. \A v \in {2, 3} : Mark[v] \in columns \/ v \in ledger => \A w \in 2..v : Added[w] \subseteq columns
    BY <1>4 DEF ServiceInit, SchemaInit
  <2> QED BY <1>2, <2>1 DEF LedgerTrue, CURRENT_VERSION
<1>5. Carried /\ \A p \in Opener : Passed(p)
  BY SomebodyOpens DEF ServiceInit, SchemaInit, Carried, Carrier, AtWrite, Passed
<1> QED BY <1>3, <1>4, <1>5 DEF SchemaInv

(* One process moves.                                                        *)
Moves(p, s) ==
  /\ step' = [step EXCEPT ![p] = s]
  /\ \A q \in Opener : q # p => seen'[q] = seen[q]
  /\ accident => accident'

(* A move that leaves the schema alone.                                      *)
LEMMA StepKeeps ==
  ASSUME SchemaTypes, LedgerTrue, Carried, \A q \in Opener : Passed(q),
         NEW p \in Opener, NEW s, Moves(p, s), UNCHANGED <<columns, ledger>>,
         Passed(p)', Carrier(p) => Carried'
  PROVE  LedgerTrue' /\ Carried' /\ \A q \in Opener : Passed(q)'
<1>1. LedgerTrue'
  BY DEF LedgerTrue
<1>2. ASSUME NEW q \in Opener, q # p PROVE step'[q] = step[q] /\ seen'[q] = seen[q]
  BY <1>2 DEF Moves, SchemaTypes
<1>3. ASSUME NEW q \in Opener PROVE Passed(q)'
  BY <1>2, <1>3 DEF Passed
<1>4. Carried'
  <2>1. CASE accident \/ Complete
    BY <2>1 DEF Carried, Complete, Moves
  <2>2. CASE ~(accident \/ Complete)
    <3>1. PICK q \in Opener : Carrier(q)
      BY <2>2 DEF Carried
    <3>2. CASE q = p
      BY <3>1, <3>2
    <3>3. CASE q # p
      BY <1>2, <3>1, <3>3 DEF Carrier, AtWrite, Carried
    <3> QED BY <3>2, <3>3
  <2> QED BY <2>1, <2>2
<1> QED BY <1>1, <1>3, <1>4

(* A move that adds to the schema: whoever adds goes on, or has finished it. *)
LEMMA AddKeeps ==
  ASSUME SchemaTypes, \A q \in Opener : Passed(q),
         NEW p \in Opener, NEW s, Moves(p, s), columns \subseteq columns', ledger \subseteq ledger',
         Mark[2] \in columns' => Mark[2] \in columns \/ 2 \in ledger',
         LedgerTrue', Passed(p)', Complete' \/ s \notin {"opened", "aborted", "write2", "write3"}
  PROVE  LedgerTrue' /\ Carried' /\ \A q \in Opener : Passed(q)'
<1>1. ASSUME NEW q \in Opener, q # p PROVE Passed(q)'
  <2>1. step'[q] = step[q]
    BY <1>1 DEF Moves, SchemaTypes
  <2> QED BY <2>1 DEF Passed
<1>2. Carried'
  <2>1. step'[p] = s
    BY DEF Moves, SchemaTypes
  <2> QED BY <2>1 DEF Carried, Carrier, AtWrite
<1> QED BY <1>1, <1>2

(* Types and the lock.                                                       *)
LEMMA OpenTypes ==
  ASSUME SchemaTypes, LockOwned, NEW p \in Opener, NEW s \in OpenStep, Moves(p, s),
         columns' \subseteq Column, ledger' \subseteq Versions, DOMAIN seen' = DOMAIN seen, serving' = serving,
         \/ writer' = writer /\ (s \in {"commit2", "commit3"} <=> Committing(p))
         \/ writer' = p /\ writer = Nobody /\ s \in {"commit2", "commit3"}
         \/ writer' = Nobody /\ (writer = p \/ writer = Nobody) /\ s \notin {"commit2", "commit3"}
  PROVE  SchemaTypes' /\ LockOwned'
<1>1. step'[p] = s /\ \A q \in Opener : q # p => step'[q] = step[q]
  BY DEF Moves, SchemaTypes
<1>2. SchemaTypes'
  BY DEF SchemaTypes, Moves
<1>3. LockOwned'
  BY <1>1, NobodyIsNobody DEF LockOwned, Committing
<1> QED BY <1>2, <1>3

(* What holds of the schema as long as nobody has altered it by hand.        *)
Sound == LedgerTrue /\ Carried /\ \A q \in Opener : Passed(q)

(* The statements before a migration, which commit by themselves.            *)
LEMMA PreludeInv ==
  ASSUME SchemaTypes, LockOwned, UNCHANGED serving, NEW p \in Opener,
         CreateTables(p) \/ ReadLedger(p) \/ Baseline(p) \/ Pending(p)
  PROVE  SchemaTypes' /\ LockOwned' /\ (Sound => Sound')
<1> USE VersionColumns
<1>1. CASE CreateTables(p)
  <2>1. Moves(p, "ledger")
    BY <1>1 DEF CreateTables, Goto, Moves
  <2>2. SchemaTypes' /\ LockOwned'
    BY <1>1, <2>1, OpenTypes DEF CreateTables, OpenStep, Committing, SchemaTypes
  <2>3. ASSUME Sound PROVE Sound'
    <3>1. step'[p] = "ledger"
      BY <2>1 DEF Moves, SchemaTypes
    <3>2. Carried' /\ Passed(p)'
      BY <3>1 DEF Carried, Carrier, AtWrite, Passed
    <3> QED BY <1>1, <2>1, <2>3, <3>2, StepKeeps DEF CreateTables, Sound
  <2> QED BY <2>2, <2>3
<1>2. CASE ReadLedger(p)
  <2> DEFINE s == IF current_version = 0 THEN "baseline" ELSE "pending"
  <2>1. Moves(p, s)
    BY <1>2 DEF ReadLedger, Goto, Moves
  <2>2. SchemaTypes' /\ LockOwned'
    BY <1>2, <2>1, OpenTypes DEF ReadLedger, OpenStep, Committing, SchemaTypes
  <2>3. ASSUME Sound PROVE Sound'
    <3>1. step'[p] = s
      BY <2>1 DEF Moves, SchemaTypes
    <3>2. Carried'
      BY <3>1 DEF Carried, Carrier, AtWrite
    <3>3. ledger' = ledger /\ (s = "pending" => 1 \in ledger)
      BY <1>2, <2>3, NewestVersion DEF ReadLedger, Sound, SchemaTypes
    <3>4. Passed(p)'
      BY <3>1, <3>3 DEF Passed
    <3> QED BY <1>2, <2>1, <2>3, <3>2, <3>4, StepKeeps DEF ReadLedger, Sound
  <2> QED BY <2>2, <2>3
<1>3. CASE Baseline(p)
  <2>1. Moves(p, "detect2")
    BY <1>3 DEF Baseline, Goto, Moves
  <2>2. SchemaTypes' /\ LockOwned'
    BY <1>3, <2>1, OpenTypes DEF Baseline, OpenStep, Committing, SchemaTypes
  <2>3. ASSUME Sound PROVE Sound'
    <3>1. step'[p] = "detect2" /\ ledger' = ledger \cup {1} /\ columns' = columns
      BY <1>3, <2>1 DEF Moves, SchemaTypes, Baseline
    <3>2. Passed(p)'
      BY <3>1 DEF Passed
    <3>3. LedgerTrue'
      BY <2>3, <3>1 DEF LedgerTrue, Sound
    <3> QED BY <2>1, <2>3, <3>1, <3>2, <3>3, AddKeeps DEF Sound
  <2> QED BY <2>2, <2>3
<1>4. CASE Pending(p)
  <2> DEFINE s == IF current_version < 2 THEN "begin2"
                  ELSE IF current_version < 3 THEN "begin3" ELSE "opened"
  <2>1. Moves(p, s)
    BY <1>4 DEF Pending, Goto, Moves
  <2>2. SchemaTypes' /\ LockOwned'
    BY <1>4, <2>1, OpenTypes DEF Pending, OpenStep, Committing, SchemaTypes
  <2>3. ASSUME Sound PROVE Sound'
    <3>1. step'[p] = s /\ step[p] = "pending" /\ ledger' = ledger /\ columns' = columns
      BY <1>4, <2>1 DEF Moves, SchemaTypes, Pending
    <3>2. 1 \in ledger
      BY <2>3, <3>1 DEF Sound, Passed
    <3>3. /\ s = "begin3" => 2 \in ledger
          /\ s = "opened" => 3 \in ledger
      <4>1. /\ 1 \in ledger => (current_version < 2 <=> 2 \notin ledger)
            /\ 2 \in ledger => (current_version < 3 <=> 3 \notin ledger)
        BY <2>3, NewestVersion DEF Sound, SchemaTypes
      <4> QED BY <3>2, <4>1
    <3>4. Passed(p)'
      BY <3>1, <3>2, <3>3 DEF Passed
    <3>5. s = "opened" => Complete
      BY <2>3, <3>3, WholeLedger DEF Sound
    <3>6. Carried'
      BY <3>1, <3>5 DEF Carried, Carrier, AtWrite, Complete
    <3> QED BY <1>4, <2>1, <2>3, <3>4, <3>6, StepKeeps DEF Pending, Sound
  <2> QED BY <2>2, <2>3
<1> QED BY <1>1, <1>2, <1>3, <1>4

(* A process that aborts, with or without a reason.  It gives up because a   *)
(* writer came between, which has yet to commit, or because its transaction  *)
(* is stale, and then it was not the one that carried on.                    *)
LEMMA AbortInv ==
  ASSUME SchemaTypes, LockOwned, UNCHANGED serving, NEW p \in Opener,
         OpenFails(p) \/ \E v \in DOMAIN Added : AuditMigrationAborted(p, v)
  PROVE  SchemaTypes' /\ LockOwned' /\ (Sound => Sound')
<1> USE VersionColumns
<1>1. CASE OpenFails(p)
  <2>1. Moves(p, "aborted")
    BY <1>1 DEF OpenFails, Goto, Moves
  <2>2. SchemaTypes' /\ LockOwned'
    <3>1. \/ writer = p /\ writer' = Nobody
          \/ writer' = writer /\ ~Committing(p)
      BY <1>1 DEF OpenFails, LockOwned
    <3>2. columns' \subseteq Column /\ ledger' \subseteq Versions /\ DOMAIN seen' = DOMAIN seen
      BY <1>1 DEF OpenFails, SchemaTypes
    <3> QED BY <2>1, <3>1, <3>2, OpenTypes DEF OpenStep
  <2>3. ASSUME Sound PROVE Sound'
    <3>1. step'[p] = "aborted" /\ accident'
      BY <1>1, <2>1 DEF Moves, SchemaTypes, OpenFails
    <3>2. Carried' /\ Passed(p)'
      BY <3>1 DEF Carried, Passed
    <3> QED BY <1>1, <2>1, <2>3, <3>2, StepKeeps DEF OpenFails, Sound
  <2> QED BY <2>2, <2>3
<1>2. ASSUME NEW v \in {2, 3}, AuditMigrationAborted(p, v)
      PROVE  SchemaTypes' /\ LockOwned' /\ (Sound => Sound')
  <2>1. Moves(p, "aborted")
    BY <1>2 DEF AuditMigrationAborted, Goto, Moves
  <2>2. AtWrite(p) /\ ~Fresh(p) /\ ~Committing(p)
    BY <1>2 DEF AuditMigrationAborted, Writing, AtWrite, Committing
  <2>3. SchemaTypes' /\ LockOwned'
    BY <1>2, <2>1, <2>2, OpenTypes DEF AuditMigrationAborted, OpenStep, SchemaTypes
  <2>4. ASSUME Sound PROVE Sound'
    <3>1. step'[p] = "aborted"
      BY <2>1 DEF Moves, SchemaTypes
    <3>2. Passed(p)'
      BY <3>1 DEF Passed
    <3>3. ASSUME Carrier(p) PROVE Carried'
      <4>1. writer # Nobody
        BY <2>2, <3>3 DEF Carrier, Fresh
      <4>2. PICK q \in Opener : Committing(q)
        BY <4>1 DEF LockOwned
      <4>3. q # p /\ step'[q] = step[q]
        BY <2>1, <2>2, <4>2 DEF Moves, SchemaTypes
      <4>4. Carrier(q)'
        BY <4>2, <4>3 DEF Carrier, Committing, AtWrite
      <4> QED BY <4>4 DEF Carried
    <3> QED BY <1>2, <2>1, <2>4, <3>2, <3>3, StepKeeps DEF AuditMigrationAborted, Sound
  <2> QED BY <2>3, <2>4
<1> QED BY <1>1, <1>2

(* The steps of a migration.                                                 *)
LEMMA UpgradeInv ==
  ASSUME SchemaTypes, LockOwned, UNCHANGED serving, NEW p \in Opener, NEW v \in {2, 3},
         Detect(p, v) \/ BeginUpgrade(p, v) \/ LockUpgrade(p, v) \/ CommitUpgrade(p, v)
  PROVE  SchemaTypes' /\ LockOwned' /\ (Sound => Sound')
<1> USE VersionColumns
<1>1. CASE Detect(p, v)
  <2> DEFINE s == IF v = 2 THEN "detect3" ELSE "pending"
  <2>1. Moves(p, s)
    BY <1>1 DEF Detect, Goto, Moves
  <2>2. SchemaTypes' /\ LockOwned'
    BY <1>1, <2>1, OpenTypes DEF Detect, OpenStep, Committing, SchemaTypes
  <2>3. ASSUME Sound PROVE Sound'
    <3>1. /\ step'[p] = s /\ step[p] = (IF v = 2 THEN "detect2" ELSE "detect3")
          /\ columns' = columns /\ ledger \subseteq ledger'
          /\ ledger' = IF Mark[v] \in columns THEN ledger \cup {v} ELSE ledger
      BY <1>1, <2>1 DEF Moves, SchemaTypes, Detect
    <3>2. 1 \in ledger /\ (v = 3 /\ Mark[2] \in columns => 2 \in ledger)
      BY <2>3, <3>1 DEF Sound, Passed
    <3>3. Passed(p)'
      BY <3>1, <3>2 DEF Passed
    <3>4. LedgerTrue'
      <4>1. CASE v = 2
        BY <2>3, <3>1, <3>2, <4>1 DEF LedgerTrue, Sound
      <4>2. CASE v = 3
        <5>1. Mark[3] \in columns => 2 \in ledger
          BY <2>3, <3>2, <4>2 DEF LedgerTrue, Sound
        <5> QED BY <2>3, <3>1, <4>2, <5>1 DEF LedgerTrue, Sound
      <4> QED BY <4>1, <4>2
    <3> QED BY <2>1, <2>3, <3>1, <3>3, <3>4, AddKeeps DEF Sound
  <2> QED BY <2>2, <2>3
<1>2. CASE BeginUpgrade(p, v)
  <2> DEFINE s == IF v = 2 THEN "write2" ELSE "write3"
  <2>1. Moves(p, s)
    BY <1>2 DEF BeginUpgrade, Goto, Moves
  <2>2. SchemaTypes' /\ LockOwned'
    BY <1>2, <2>1, OpenTypes DEF BeginUpgrade, OpenStep, Committing, SchemaTypes
  <2>3. ASSUME Sound PROVE Sound'
    <3>1. /\ step'[p] = s /\ seen'[p] = <<columns, ledger>>
          /\ columns' = columns /\ ledger' = ledger
      BY <1>2, <2>1 DEF Moves, SchemaTypes, BeginUpgrade
    <3>2. Carried'
      BY <3>1 DEF Carried, Carrier
    <3>3. Passed(p)'
      BY <1>2, <2>3, <3>1 DEF Passed, Sound, BeginUpgrade
    <3> QED BY <1>2, <2>1, <2>3, <3>2, <3>3, StepKeeps DEF BeginUpgrade, Sound
  <2> QED BY <2>2, <2>3
<1>3. CASE LockUpgrade(p, v)
  <2> DEFINE s == IF v = 2 THEN "commit2" ELSE "commit3"
  <2>1. Moves(p, s)
    BY <1>3 DEF LockUpgrade, Goto, Moves
  <2>2. SchemaTypes' /\ LockOwned'
    BY <1>3, <2>1, OpenTypes DEF LockUpgrade, Fresh, OpenStep, SchemaTypes
  <2>3. ASSUME Sound PROVE Sound'
    <3>1. step'[p] = s /\ ledger' = ledger
      BY <1>3, <2>1 DEF Moves, SchemaTypes, LockUpgrade
    <3>2. Carried'
      BY <3>1 DEF Carried, Carrier, AtWrite
    <3>3. Passed(p)'
      BY <1>3, <2>3, <3>1 DEF Passed, Sound, LockUpgrade, Writing
    <3> QED BY <1>3, <2>1, <2>3, <3>2, <3>3, StepKeeps DEF LockUpgrade, Sound
  <2> QED BY <2>2, <2>3
<1>4. CASE CommitUpgrade(p, v)
  <2> DEFINE s == IF v = 2 THEN "pending" ELSE "opened"
  <2>1. Moves(p, s)
    BY <1>4 DEF CommitUpgrade, Goto, Moves
  <2>2. SchemaTypes' /\ LockOwned'
    <3>1. writer = p
      BY <1>4 DEF CommitUpgrade, Committing, LockOwned
    <3>2. columns' \subseteq Column /\ ledger' \subseteq Versions
      BY <1>4 DEF CommitUpgrade, SchemaTypes
    <3> QED BY <1>4, <2>1, <3>1, <3>2, OpenTypes DEF CommitUpgrade, OpenStep, SchemaTypes
  <2>3. ASSUME Sound PROVE Sound'
    <3>1. /\ step'[p] = s /\ step[p] = (IF v = 2 THEN "commit2" ELSE "commit3")
          /\ columns' = columns \cup Added[v] /\ ledger' = ledger \cup {v}
      BY <1>4, <2>1 DEF Moves, SchemaTypes, CommitUpgrade
    <3>2. (v = 2 => 1 \in ledger) /\ (v = 3 => 2 \in ledger)
      BY <2>3, <3>1 DEF Sound, Passed
    <3>3. LedgerTrue'
      <4>1. CASE v = 2
        BY <2>3, <3>1, <3>2, <4>1 DEF LedgerTrue, Sound
      <4>2. CASE v = 3
        BY <2>3, <3>1, <3>2, <4>2 DEF LedgerTrue, Sound
      <4> QED BY <4>1, <4>2
    <3>4. Passed(p)'
      <4>1. CASE v = 2
        BY <3>1, <3>2, <4>1 DEF Passed
      <4>2. CASE v = 3
        BY <3>1, <4>2 DEF Passed
      <4> QED BY <4>1, <4>2
    <3>5. s = "opened" => Complete'
      <4>1. ASSUME v = 3 PROVE Complete'
        <5>1. SchemaTypes' /\ LedgerTrue' /\ (3 \in ledger)'
          BY <2>2, <3>1, <3>3, <4>1
        <5>2. columns' = Column
          BY <5>1 DEF SchemaTypes, LedgerTrue
        <5>3. ledger' = Versions
          BY <5>1 DEF SchemaTypes, LedgerTrue
        <5> QED BY <5>2, <5>3 DEF Complete
      <4> QED BY <4>1
    <3>6. Mark[2] \in columns' => Mark[2] \in columns \/ 2 \in ledger'
      BY <3>1
    <3>7. columns \subseteq columns' /\ ledger \subseteq ledger'
      BY <3>1
    <3> QED BY <2>1, <2>3, <3>3, <3>4, <3>5, <3>6, <3>7, AddKeeps DEF Sound
  <2> QED BY <2>2, <2>3
<1> QED BY <1>1, <1>2, <1>3, <1>4

LEMMA OpenNextInv ==
  ASSUME SchemaInv, OpenNext, UNCHANGED serving
  PROVE  SchemaInv'
<1>1. SchemaTypes /\ LockOwned /\ (~altered => Sound)
  BY DEF SchemaInv, Sound
<1>2. PICK p \in Opener :
        \/ CreateTables(p) \/ ReadLedger(p) \/ Baseline(p) \/ Pending(p) \/ OpenFails(p)
        \/ \E v \in {2, 3} : Upgrade(p, v)
  BY VersionColumns DEF OpenNext
<1>3. altered' = altered
  BY <1>2 DEF CreateTables, ReadLedger, Baseline, Pending, OpenFails, Upgrade, Detect,
              BeginUpgrade, LockUpgrade, AuditMigrationAborted, CommitUpgrade
<1>4. SchemaTypes' /\ LockOwned' /\ (Sound => Sound')
  <2>1. CASE CreateTables(p) \/ ReadLedger(p) \/ Baseline(p) \/ Pending(p)
    BY <1>1, <2>1, PreludeInv
  <2>2. CASE OpenFails(p) \/ \E v \in {2, 3} : AuditMigrationAborted(p, v)
    BY <1>1, <2>2, AbortInv, VersionColumns
  <2>3. ASSUME NEW v \in {2, 3},
               Detect(p, v) \/ BeginUpgrade(p, v) \/ LockUpgrade(p, v) \/ CommitUpgrade(p, v)
        PROVE  SchemaTypes' /\ LockOwned' /\ (Sound => Sound')
    BY <1>1, <2>3, UpgradeInv
  <2> QED BY <1>2, <2>1, <2>2, <2>3 DEF Upgrade
<1> QED BY <1>1, <1>3, <1>4 DEF SchemaInv, Sound

LEMMA ServeInv ==
  ASSUME SchemaInv, Serve
  PROVE  SchemaInv'
<1> USE VersionColumns
<1>1. Complete /\ writer = Nobody
  BY DEF Serve, SchemaInv, LockOwned, Committing
<1>2. /\ columns' = Column /\ ledger' = 1..CURRENT_VERSION /\ writer' = Nobody /\ seen' = seen
      /\ step' = [p \in Opener |-> "opened"] /\ serving' = TRUE
  BY <1>1 DEF Serve, Complete
<1>3. SchemaTypes' /\ LockOwned'
  <2>1. SchemaTypes'
    BY <1>2 DEF SchemaInv, SchemaTypes, OpenStep
  <2>2. LockOwned'
    BY <1>2, NobodyIsNobody DEF LockOwned, Committing
  <2> QED BY <2>1, <2>2
<1>4. LedgerTrue'
  BY <1>2 DEF LedgerTrue
<1>5. Carried'
  BY <1>2 DEF Carried, Complete
<1>6. \A p \in Opener : Passed(p)'
  BY <1>2 DEF Passed
<1> QED BY <1>3, <1>4, <1>5, <1>6 DEF SchemaInv

LEMMA ReopenInv ==
  ASSUME SchemaInv, NEW p \in Opener, Reopen(p)
  PROVE  SchemaInv'
<1> USE VersionColumns
<1>1. SchemaTypes /\ LockOwned
  BY DEF SchemaInv
<1>2. Moves(p, "closed") /\ step[p] = "aborted"
  BY DEF Reopen, Goto, Moves
<1>3. SchemaTypes' /\ LockOwned'
  BY <1>1, <1>2, OpenTypes DEF Reopen, OpenStep, Committing, SchemaTypes
<1>4. ASSUME Sound PROVE Sound'
  <2>1. step'[p] = "closed"
    BY <1>1, <1>2 DEF Moves, SchemaTypes
  <2>2. Carried' /\ Passed(p)'
    BY <2>1 DEF Carried, Carrier, AtWrite, Passed
  <2> QED BY <1>1, <1>2, <1>4, <2>2, StepKeeps DEF Reopen, Sound
<1>5. altered' = altered
  BY DEF Reopen
<1> QED BY <1>3, <1>4, <1>5 DEF SchemaInv, Sound

LEMMA ServiceStepInv ==
  ASSUME SchemaInv, [ServiceNext]_services
  PROVE  SchemaInv'
<1>1. CASE OpenNext /\ UNCHANGED serving
  BY <1>1, OpenNextInv
<1>2. CASE Serve
  BY <1>2, ServeInv
<1>3. CASE \E p \in Opener : Reopen(p)
  BY <1>3, ReopenInv
<1>4. CASE UNCHANGED <<schema, serving>>
  BY <1>4 DEF SchemaInv, SchemaTypes, LockOwned, LedgerTrue, Carried, Passed, Committing,
              Carrier, AtWrite, Complete, schema
<1> QED BY <1>1, <1>2, <1>3, <1>4 DEF ServiceNext, services

LEMMA InvIsSound == SchemaInv => SchemaSound
<1> SUFFICES ASSUME SchemaInv, ~altered PROVE SchemaSound
  BY DEF SchemaSound
<1>1. SchemaTypes /\ LedgerTrue /\ Carried /\ \A p \in Opener : Passed(p)
  BY DEF SchemaInv
<1>2. \A v \in ledger \cap DOMAIN Added : Added[v] \subseteq columns
  BY <1>1, VersionColumns DEF LedgerTrue
<1>3. \A p \in Opener : step[p] = "opened" => Complete
  BY <1>1, WholeLedger DEF Passed
<1>4. ~accident /\ (\A p \in Opener : step[p] \in {"opened", "aborted"}) => Complete
  BY <1>1 DEF Carried, Carrier
<1> QED BY <1>2, <1>3, <1>4 DEF SchemaSound

(* However many processes open the database, in whatever order, and whichever *)
(* of them abort or die, the ledger claims no version whose columns are      *)
(* missing, an open that succeeded finds all of them, and conflicts alone do *)
(* not leave the schema unfinished (migrations.rs: apply_pending).           *)
THEOREM SchemaStaysSound == ServiceSpec => []SchemaSound
<1>1. ServiceInit => SchemaInv
  BY InitSchemaInv
<1>2. SchemaInv /\ [ServiceNext]_services => SchemaInv'
  BY ServiceStepInv
<1>3. SchemaInv => SchemaSound
  BY InvIsSound
<1> QED BY <1>1, <1>2, <1>3, PTL DEF ServiceSpec

------------------------------------------------------------------------------
(* The bytes a tag authenticates.                                            *)

(* What a row's columns are made of, and how they are put together. *)
Bytes == Seq(Int)
Join(u, v) == u \o v

LEMMA JoinType == \A u, v \in Bytes : Join(u, v) \in Bytes
BY ConcatProperties DEF Bytes, Join

LEMMA Regroup == \A u, v, w \in Bytes : Join(Join(u, v), w) = Join(u, Join(v, w))
<1> SUFFICES ASSUME NEW u \in Bytes, NEW v \in Bytes, NEW w \in Bytes
             PROVE  Join(Join(u, v), w) = Join(u, Join(v, w))
  OBVIOUS
<1>1. u \in Seq(Int) /\ v \in Seq(Int) /\ w \in Seq(Int)
  BY DEF Bytes
<1>2. (u \o v) \o w = u \o (v \o w)
  BY <1>1, ConcatAssociative, SMT
<1> QED
  BY <1>2, Zenon DEF Join

LEMMA OneByte == \A a \in Int : <<a>> \in Bytes /\ Len(<<a>>) = 1 /\ <<a>>[1] = a
BY DEF Bytes

(* Two texts with beginnings of one length agree on the beginnings and on    *)
(* the rest.                                                                 *)
LEMMA SplitAtLength ==
  \A u, v, x, y \in Bytes : Join(u, x) = Join(v, y) /\ Len(u) = Len(v) => u = v /\ x = y
<1> SUFFICES ASSUME NEW u \in Bytes, NEW v \in Bytes, NEW x \in Bytes, NEW y \in Bytes,
                    Join(u, x) = Join(v, y), Len(u) = Len(v)
             PROVE  u = v /\ x = y
  OBVIOUS
<1>1. \A i \in 1..Len(u) : u[i] = v[i]
  <2> SUFFICES ASSUME NEW i \in 1..Len(u) PROVE u[i] = v[i]
    OBVIOUS
  <2>1. Len(u) \in Nat /\ Len(x) \in Nat /\ Len(y) \in Nat
    BY LenProperties DEF Bytes
  <2>2. Join(u, x)[i] = u[i]
    BY <2>1, ConcatProperties DEF Bytes, Join
  <2>3. Join(v, y)[i] = v[i]
    BY <2>1, ConcatProperties DEF Bytes, Join
  <2> QED
    BY <2>2, <2>3
<1>2. u = v
  BY <1>1, SeqEqual DEF Bytes
<1> QED
  BY <1>2, ConcatSimplifications DEF Bytes, Join

LEMMA FirstByte ==
  \A a, b \in Int, x, y \in Bytes : Join(<<a>>, x) = Join(<<b>>, y) => a = b /\ x = y
<1> SUFFICES ASSUME NEW a \in Int, NEW b \in Int, NEW x \in Bytes, NEW y \in Bytes,
                    Join(<<a>>, x) = Join(<<b>>, y)
             PROVE  a = b /\ x = y
  OBVIOUS
<1>1. <<a>> = <<b>> /\ x = y
  BY OneByte, SplitAtLength
<1> QED
  BY <1>1, OneByte

(* A string with its length before it ends where it says. *)
LEMMA PutStrJoin == \A u \in Bytes : put_str(u) = Join(<<Len(u)>>, u) /\ <<Len(u)>> \in Bytes /\ Len(u) \in Int
<1> SUFFICES ASSUME NEW u \in Bytes
             PROVE  put_str(u) = Join(<<Len(u)>>, u) /\ <<Len(u)>> \in Bytes /\ Len(u) \in Int
  OBVIOUS
<1>1. Len(u) \in Int
  BY LenProperties DEF Bytes
<1> QED
  BY <1>1, OneByte DEF put_str, Join

LEMMA PutStrSplits ==
  \A u, v, x, y \in Bytes : Join(put_str(u), x) = Join(put_str(v), y) => u = v /\ x = y
<1> SUFFICES ASSUME NEW u \in Bytes, NEW v \in Bytes, NEW x \in Bytes, NEW y \in Bytes,
                    Join(put_str(u), x) = Join(put_str(v), y)
             PROVE  u = v /\ x = y
  OBVIOUS
<1>1. Join(<<Len(u)>>, Join(u, x)) = Join(<<Len(v)>>, Join(v, y))
  <2>1. ASSUME NEW w \in Bytes, NEW z \in Bytes
        PROVE  Join(put_str(w), z) = Join(<<Len(w)>>, Join(w, z))
    <3>1. put_str(w) = Join(<<Len(w)>>, w) /\ <<Len(w)>> \in Bytes
      BY PutStrJoin
    <3>2. Join(Join(<<Len(w)>>, w), z) = Join(<<Len(w)>>, Join(w, z))
      BY <3>1, Regroup
    <3> QED
      BY <3>1, <3>2
  <2> QED
    BY <2>1
<1>2. Len(u) = Len(v) /\ Join(u, x) = Join(v, y)
  BY <1>1, PutStrJoin, JoinType, FirstByte
<1> QED
  BY <1>2, SplitAtLength

(* So does an optional string with its mark, and NULL is not the empty one.  *)
LEMMA PutOptJoin ==
  /\ put_opt(Null) = <<0>>
  /\ \A o \in Bytes \ {Null} : put_opt(o) = Join(<<1>>, put_str(o))
BY DEF put_opt, Join

LEMMA PutType == \A u \in Bytes : put_str(u) \in Bytes /\ put_opt(u) \in Bytes
<1> SUFFICES ASSUME NEW u \in Bytes PROVE put_str(u) \in Bytes /\ put_opt(u) \in Bytes
  OBVIOUS
<1>1. put_str(u) \in Bytes
  BY PutStrJoin, JoinType
<1>2. <<0>> \in Bytes /\ <<1>> \in Bytes
  BY OneByte
<1> QED
  BY <1>1, <1>2, PutOptJoin, JoinType

LEMMA PutOptSplits ==
  \A o, p, x, y \in Bytes : Join(put_opt(o), x) = Join(put_opt(p), y) => o = p /\ x = y
<1> SUFFICES ASSUME NEW o \in Bytes, NEW p \in Bytes, NEW x \in Bytes, NEW y \in Bytes,
                    Join(put_opt(o), x) = Join(put_opt(p), y)
             PROVE  o = p /\ x = y
  OBVIOUS
<1>1. <<0>> \in Bytes /\ <<1>> \in Bytes
  BY OneByte
<1>2. ASSUME NEW q \in Bytes \ {Null}, NEW z \in Bytes
      PROVE  Join(put_opt(q), z) = Join(<<1>>, Join(put_str(q), z)) /\ Join(put_str(q), z) \in Bytes
  BY <1>1, PutOptJoin, PutType, Regroup, JoinType
<1>3. CASE o = Null /\ p = Null
  BY <1>3, PutOptJoin, FirstByte
<1>4. CASE o = Null /\ p # Null
  <2>1. Join(<<0>>, x) = Join(<<1>>, Join(put_str(p), y)) /\ Join(put_str(p), y) \in Bytes
    BY <1>2, <1>4, PutOptJoin
  <2>2. 0 = 1
    BY <2>1, FirstByte
  <2> QED
    BY <2>2
<1>5. CASE o # Null /\ p = Null
  <2>1. Join(<<1>>, Join(put_str(o), x)) = Join(<<0>>, y) /\ Join(put_str(o), x) \in Bytes
    BY <1>2, <1>5, PutOptJoin
  <2>2. 1 = 0
    BY <2>1, FirstByte
  <2> QED
    BY <2>2
<1>6. CASE o # Null /\ p # Null
  <2>1. Join(put_str(o), x) = Join(put_str(p), y)
    BY <1>2, <1>6, FirstByte
  <2> QED
    BY <2>1, PutStrSplits
<1> QED
  BY <1>3, <1>4, <1>5, <1>6

------------------------------------------------------------------------------
(* The columns of a row, and Null, are texts. *)
ColumnsAreBytes(r) ==
  /\ r.id \in Int /\ r.ts \in Int /\ r.flags \in Bytes /\ r.prev \in Bytes
  /\ r.remote \in Bytes /\ r.code \in Bytes /\ r.message \in Bytes

LEMMA NullIsOdd == Null \in Bytes /\ Null \notin Words /\ Null \notin Codes
<1>1. -1 \in Int
  OBVIOUS
<1>2. Null \in Bytes /\ Null[1] = -1 /\ Len(Null) = 1
  BY <1>1, OneByte DEF Null
<1>3. ASSUME Null \in Seq(Nat) PROVE FALSE
  <2>1. Null[1] \in Nat
    BY <1>2, <1>3, ElementOfSeq
  <2> QED
    BY <1>2, <2>1
<1> QED
  BY <1>2, <1>3, EncodingConstants

LEMMA RowsAreBytes == \A r \in RowFields : ColumnsAreBytes(r)
<1>1. Words \subseteq Bytes /\ Codes \subseteq Bytes /\ Number \subseteq Int
  BY EncodingConstants DEF Bytes
<1> QED
  BY <1>1, NullIsOdd DEF RowFields, ColumnsAreBytes

(* An encoding with lengths: a head of six bytes and the columns. *)
Columns(r) ==
  Join(put_str(r.flags), Join(put_str(r.prev),
    Join(put_opt(r.remote), Join(put_opt(r.code), Join(put_opt(r.message), <<>>)))))

LEMMA SixParts ==
  \A a, b, c, d, e, f \in Bytes :
    Join(Join(Join(Join(Join(a, b), c), d), e), f) = Join(a, Join(b, Join(c, Join(d, Join(e, f)))))
<1> SUFFICES ASSUME NEW a \in Bytes, NEW b \in Bytes, NEW c \in Bytes, NEW d \in Bytes,
                    NEW e \in Bytes, NEW f \in Bytes
             PROVE  Join(Join(Join(Join(Join(a, b), c), d), e), f)
                      = Join(a, Join(b, Join(c, Join(d, Join(e, f)))))
  OBVIOUS
<1>1. /\ Join(a, b) \in Bytes /\ Join(Join(a, b), c) \in Bytes
      /\ Join(Join(Join(a, b), c), d) \in Bytes
      /\ Join(e, f) \in Bytes /\ Join(d, Join(e, f)) \in Bytes /\ Join(c, Join(d, Join(e, f))) \in Bytes
  BY JoinType
<1>2. Join(Join(Join(Join(Join(a, b), c), d), e), f) = Join(Join(Join(Join(a, b), c), d), Join(e, f))
  BY <1>1, Regroup
<1>3. @ = Join(Join(Join(a, b), c), Join(d, Join(e, f)))
  BY <1>1, Regroup
<1>4. @ = Join(Join(a, b), Join(c, Join(d, Join(e, f))))
  BY <1>1, Regroup
<1>5. @ = Join(a, Join(b, Join(c, Join(d, Join(e, f)))))
  BY <1>1, Regroup
<1> QED
  BY <1>2, <1>3, <1>4, <1>5

LEMMA EmptyIsBytes == <<>> \in Bytes /\ \A u \in Bytes : Join(u, <<>>) = u
BY ConcatEmptySeq, EmptySeq DEF Bytes, Join

LEMMA InjectiveMacParts ==
  ASSUME NEW domain \in Bytes, NEW l \in Int, NEW r, ColumnsAreBytes(r)
  PROVE  /\ <<l, r.id, r.ts>> \in Bytes /\ Columns(r) \in Bytes
         /\ injective_mac(domain, l, r) = Join(domain, Join(<<l, r.id, r.ts>>, Columns(r)))
<1> DEFINE h == <<l, r.id, r.ts>>
           a == Join(domain, h)
           b == put_str(r.flags)
           c == put_str(r.prev)
           d == put_opt(r.remote)
           e == put_opt(r.code)
           f == put_opt(r.message)
<1>1. h \in Bytes
  BY DEF ColumnsAreBytes, Bytes
<1>2. a \in Bytes /\ b \in Bytes /\ c \in Bytes /\ d \in Bytes /\ e \in Bytes /\ f \in Bytes
  BY <1>1, JoinType, PutType DEF ColumnsAreBytes
<1>3. injective_mac(domain, l, r) = Join(Join(Join(Join(Join(a, b), c), d), e), f)
  BY Zenon DEF injective_mac, Join
<1>4. Columns(r) = Join(b, Join(c, Join(d, Join(e, f))))
  BY <1>2, EmptyIsBytes DEF Columns
<1> HIDE DEF h, a, b, c, d, e, f
<1>5. Columns(r) \in Bytes
  BY <1>2, <1>4, JoinType
<1>6. injective_mac(domain, l, r) = Join(a, Columns(r))
  BY <1>2, <1>3, <1>4, SixParts
<1>7. Join(a, Columns(r)) = Join(domain, Join(h, Columns(r)))
  BY <1>1, <1>5, Regroup DEF a
<1> QED
  BY <1>1, <1>5, <1>6, <1>7 DEF h

LEMMA ColumnsSplit ==
  ASSUME NEW r, NEW s, ColumnsAreBytes(r), ColumnsAreBytes(s), Columns(r) = Columns(s)
  PROVE  /\ r.flags = s.flags /\ r.prev = s.prev /\ r.remote = s.remote
         /\ r.code = s.code /\ r.message = s.message
<1> DEFINE R5(x) == Join(put_opt(x.message), <<>>)
           R4(x) == Join(put_opt(x.code), R5(x))
           R3(x) == Join(put_opt(x.remote), R4(x))
           R2(x) == Join(put_str(x.prev), R3(x))
<1>1. ASSUME NEW x, ColumnsAreBytes(x)
      PROVE  R5(x) \in Bytes /\ R4(x) \in Bytes /\ R3(x) \in Bytes /\ R2(x) \in Bytes
  BY <1>1, PutType, JoinType, EmptyIsBytes DEF ColumnsAreBytes
<1>2. Join(put_str(r.flags), R2(r)) = Join(put_str(s.flags), R2(s))
  BY DEF Columns
<1>8. /\ R5(r) \in Bytes /\ R4(r) \in Bytes /\ R3(r) \in Bytes /\ R2(r) \in Bytes
      /\ R5(s) \in Bytes /\ R4(s) \in Bytes /\ R3(s) \in Bytes /\ R2(s) \in Bytes
  BY <1>1
<1>9. /\ R2(r) = Join(put_str(r.prev), R3(r)) /\ R2(s) = Join(put_str(s.prev), R3(s))
      /\ R3(r) = Join(put_opt(r.remote), R4(r)) /\ R3(s) = Join(put_opt(s.remote), R4(s))
      /\ R4(r) = Join(put_opt(r.code), R5(r)) /\ R4(s) = Join(put_opt(s.code), R5(s))
  OBVIOUS
<1> USE DEF ColumnsAreBytes
<1> HIDE DEF R2, R3, R4, R5
<1>3. r.flags = s.flags /\ R2(r) = R2(s)
  BY <1>8, <1>2, PutStrSplits
<1>4. r.prev = s.prev /\ R3(r) = R3(s)
  BY <1>8, <1>9, <1>3, PutStrSplits
<1>5. r.remote = s.remote /\ R4(r) = R4(s)
  BY <1>8, <1>9, <1>4, PutOptSplits
<1>6. r.code = s.code /\ R5(r) = R5(s)
  <2>1. Join(put_opt(r.code), R5(r)) = Join(put_opt(s.code), R5(s))
    BY <1>5, <1>9
  <2>2. r.code \in Bytes /\ s.code \in Bytes
    OBVIOUS
  <2> HIDE DEF ColumnsAreBytes
  <2> QED
    BY <1>8, <2>1, <2>2, PutOptSplits
<1>7. r.message = s.message
  BY <1>6, EmptyIsBytes, PutOptSplits DEF R5
<1> QED
  BY <1>3, <1>4, <1>5, <1>6, <1>7

(* Both domains of three bytes: the encoding with lengths loses nothing. *)
LEMMA InjectiveMacIsInjective ==
  ASSUME NEW d \in Bytes, NEW c \in Bytes, Len(d) = Len(c), NEW l \in Int, NEW k \in Int,
         NEW r, NEW s, ColumnsAreBytes(r), ColumnsAreBytes(s),
         injective_mac(d, l, r) = injective_mac(c, k, s)
  PROVE  /\ d = c /\ l = k /\ r.id = s.id /\ r.ts = s.ts
         /\ r.flags = s.flags /\ r.prev = s.prev /\ r.remote = s.remote
         /\ r.code = s.code /\ r.message = s.message
<1> DEFINE h == <<l, r.id, r.ts>>
           g == <<k, s.id, s.ts>>
<1>1. h \in Bytes /\ g \in Bytes /\ Columns(r) \in Bytes /\ Columns(s) \in Bytes
  BY InjectiveMacParts
<1>2. Len(h) = Len(g)
  OBVIOUS
<1>3. Join(d, Join(h, Columns(r))) = Join(c, Join(g, Columns(s)))
  BY InjectiveMacParts
<1> HIDE DEF h, g
<1>4. Join(h, Columns(r)) \in Bytes /\ Join(g, Columns(s)) \in Bytes
  BY <1>1, JoinType
<1>5. d = c /\ Join(h, Columns(r)) = Join(g, Columns(s))
  BY <1>3, <1>4, SplitAtLength
<1>6. h = g /\ Columns(r) = Columns(s)
  BY <1>1, <1>2, <1>5, SplitAtLength
<1>7. l = k /\ r.id = s.id /\ r.ts = s.ts
  BY <1>6 DEF h, g
<1> QED
  BY <1>5, <1>6, <1>7, ColumnsSplit

------------------------------------------------------------------------------
(* A legacy encoding: what comes after a column begins with a bar or is the  *)
(* end, so that a column without a bar ends where it did.                    *)
Barless(u) == \A i \in 1..Len(u) : u[i] # Bar
BarOrEnd(x) == Len(x) = 0 \/ x[1] = Bar

LEMMA BarredJoin == \A u \in Bytes : Barred(u) = Join(<<Bar>>, u) /\ Barred(u) \in Bytes
<1>1. <<Bar>> \in Bytes
  BY OneByte DEF Bar
<1> QED
  BY <1>1, JoinType DEF Barred, Join

LEMMA BarredShift == \A u, x \in Bytes : Join(Barred(u), x) = Join(<<Bar>>, Join(u, x))
<1> SUFFICES ASSUME NEW u \in Bytes, NEW x \in Bytes
             PROVE  Join(Barred(u), x) = Join(<<Bar>>, Join(u, x))
  OBVIOUS
<1>1. <<Bar>> \in Bytes /\ Barred(u) = Join(<<Bar>>, u)
  BY OneByte, BarredJoin DEF Bar
<1>2. Join(Join(<<Bar>>, u), x) = Join(<<Bar>>, Join(u, x))
  BY <1>1, Regroup
<1> QED
  BY <1>1, <1>2

LEMMA BarredBegins == \A u, x \in Bytes : BarOrEnd(Join(Barred(u), x)) /\ Len(Join(Barred(u), x)) > 0
<1> SUFFICES ASSUME NEW u \in Bytes, NEW x \in Bytes
             PROVE  BarOrEnd(Join(Barred(u), x)) /\ Len(Join(Barred(u), x)) > 0
  OBVIOUS
<1>1. <<Bar>> \in Bytes /\ Len(<<Bar>>) = 1 /\ <<Bar>>[1] = Bar
  BY OneByte DEF Bar
<1>2. Join(Barred(u), x) = Join(<<Bar>>, Join(u, x)) /\ Join(u, x) \in Bytes
  BY BarredShift, JoinType
<1> DEFINE y == Join(u, x)
<1> HIDE DEF y
<1>3. Len(y) \in Nat
  BY <1>2, LenProperties DEF Bytes, y
<1>4. Len(Join(<<Bar>>, y)) = 1 + Len(y) /\ Join(<<Bar>>, y)[1] = <<Bar>>[1]
  BY <1>1, <1>2, <1>3, ConcatProperties DEF Bytes, Join, y
<1> QED
  BY <1>1, <1>2, <1>3, <1>4 DEF BarOrEnd, y

LEMMA NotShorter ==
  ASSUME NEW u \in Bytes, NEW v \in Bytes, NEW x \in Bytes, NEW y \in Bytes,
         Barless(v), BarOrEnd(x), Join(u, x) = Join(v, y)
  PROVE  Len(v) <= Len(u)
<1> SUFFICES ASSUME Len(v) > Len(u) PROVE FALSE
  BY LenProperties DEF Bytes
<1>1. Len(u) \in Nat /\ Len(v) \in Nat /\ Len(x) \in Nat /\ Len(y) \in Nat
  BY LenProperties DEF Bytes
<1>2. Len(Join(u, x)) = Len(u) + Len(x) /\ Len(Join(v, y)) = Len(v) + Len(y)
  BY ConcatProperties DEF Bytes, Join
<1>3. Len(x) > 0
  BY <1>1, <1>2
<1>4. Join(u, x)[Len(u) + 1] = x[1]
  <2>1. Len(u) + 1 \in 1..Len(u) + Len(x) /\ ~(Len(u) + 1 <= Len(u)) /\ (Len(u) + 1) - Len(u) = 1
    BY <1>1, <1>3
  <2> QED
    BY <2>1, ConcatProperties DEF Bytes, Join
<1>5. Join(v, y)[Len(u) + 1] = v[Len(u) + 1]
  <2>1. Len(u) + 1 \in 1..Len(v) + Len(y) /\ Len(u) + 1 <= Len(v)
    BY <1>1
  <2> QED
    BY <2>1, ConcatProperties DEF Bytes, Join
<1>6. Len(u) + 1 \in 1..Len(v)
  BY <1>1
<1> QED
  BY <1>3, <1>4, <1>5, <1>6 DEF Barless, BarOrEnd

LEMMA BarredSplits ==
  ASSUME NEW u \in Bytes, NEW v \in Bytes, NEW x \in Bytes, NEW y \in Bytes,
         Barless(u), Barless(v), BarOrEnd(x), BarOrEnd(y),
         Join(Barred(u), x) = Join(Barred(v), y)
  PROVE  u = v /\ x = y
<1>1. <<Bar>> \in Bytes /\ Len(<<Bar>>) = 1
  BY OneByte DEF Bar
<1>2. Join(<<Bar>>, Join(u, x)) = Join(<<Bar>>, Join(v, y))
  BY BarredShift
<1>3. Join(u, x) = Join(v, y)
  BY <1>1, <1>2, JoinType, SplitAtLength
<1>4. Len(v) <= Len(u) /\ Len(u) <= Len(v)
  BY <1>3, NotShorter
<1>5. Len(u) = Len(v)
  BY <1>4, LenProperties DEF Bytes
<1> QED
  BY <1>3, <1>5, SplitAtLength

(* What a legacy layout puts behind the previous tag. *)
OfRemote(l, r) == IF l >= 2 THEN Barred(OrEmpty(r.remote)) ELSE <<>>
OfError(l, r)  == IF l >= 3 THEN Join(Barred(OrEmpty(r.code)), Barred(OrEmpty(r.message))) ELSE <<>>
Behind(l, r)   == Join(OfRemote(l, r), OfError(l, r))

LEMMA OrEmptyType == \A o \in Bytes : OrEmpty(o) \in Bytes
BY EmptyIsBytes DEF OrEmpty

LEMMA BehindType ==
  ASSUME NEW l \in 1..3, NEW r, ColumnsAreBytes(r)
  PROVE  OfRemote(l, r) \in Bytes /\ OfError(l, r) \in Bytes /\ Behind(l, r) \in Bytes
<1>1. OrEmpty(r.remote) \in Bytes /\ OrEmpty(r.code) \in Bytes /\ OrEmpty(r.message) \in Bytes
  BY OrEmptyType DEF ColumnsAreBytes
<1>2. OfRemote(l, r) \in Bytes
  BY <1>1, BarredJoin, EmptyIsBytes DEF OfRemote
<1>3. OfError(l, r) \in Bytes
  <2>1. Join(Barred(OrEmpty(r.code)), Barred(OrEmpty(r.message))) \in Bytes
    BY <1>1, BarredJoin, JoinType
  <2> QED
    BY <2>1, EmptyIsBytes DEF OfError
<1> QED
  BY <1>2, <1>3, JoinType DEF Behind

LEMMA LegacyMacParts ==
  ASSUME NEW l \in 1..3, NEW r, ColumnsAreBytes(r)
  PROVE  /\ <<r.id, Bar, r.ts>> \in Bytes
         /\ legacy_mac(l, r) = Join(<<r.id, Bar, r.ts>>,
                                   Join(Barred(r.flags), Join(Barred(r.prev), Behind(l, r))))
<1> DEFINE h == <<r.id, Bar, r.ts>>
           b == Barred(r.flags)
           c == Barred(r.prev)
           d == OfRemote(l, r)
           e == OfError(l, r)
<1>1. h \in Bytes
  BY DEF ColumnsAreBytes, Bytes, Bar
<1>2. b \in Bytes /\ c \in Bytes /\ d \in Bytes /\ e \in Bytes
  BY BarredJoin, BehindType DEF ColumnsAreBytes
<1>3. legacy_mac(l, r) = Join(Join(Join(Join(h, b), c), d), e)
  BY Zenon DEF legacy_mac, OfRemote, OfError, Join
<1>4. Behind(l, r) = Join(d, e)
  BY DEF Behind
<1> HIDE DEF h, b, c, d, e
<1>5. Join(h, b) \in Bytes /\ Join(Join(h, b), c) \in Bytes /\ Join(d, e) \in Bytes /\ Join(c, Join(d, e)) \in Bytes
  BY <1>1, <1>2, JoinType
<1>6. Join(Join(Join(Join(h, b), c), d), e) = Join(Join(Join(h, b), c), Join(d, e))
  BY <1>2, <1>5, Regroup
<1>7. @ = Join(Join(h, b), Join(c, Join(d, e)))
  BY <1>1, <1>2, <1>5, Regroup
<1>8. @ = Join(h, Join(b, Join(c, Join(d, e))))
  BY <1>1, <1>2, <1>5, Regroup
<1> QED
  BY <1>1, <1>3, <1>4, <1>6, <1>7, <1>8 DEF h, b, c

(* A row a legacy layout accepts has no bar in any column but the last. *)
LEMMA CanonicalBarless ==
  ASSUME NEW l \in 1..3, NEW r, ColumnsAreBytes(r), ~noncanonical(l, r)
  PROVE  /\ Barless(r.flags) /\ Barless(r.prev)
         /\ l >= 2 => Barless(OrEmpty(r.remote))
         /\ l >= 3 => Barless(OrEmpty(r.code))
<1>1. ASSUME NEW u \in Bytes, ~HasBar(u) PROVE Barless(u)
  BY <1>1 DEF HasBar, Range, Barless, Bytes
<1> QED
  BY <1>1, OrEmptyType DEF noncanonical, ColumnsAreBytes

LEMMA BehindForms ==
  ASSUME NEW l \in 1..3, NEW r, ColumnsAreBytes(r)
  PROVE  /\ l = 1 => Behind(l, r) = <<>>
         /\ l = 2 => Behind(l, r) = Join(Barred(OrEmpty(r.remote)), <<>>)
         /\ l = 3 => Behind(l, r) = Join(Barred(OrEmpty(r.remote)),
                                    Join(Barred(OrEmpty(r.code)), Barred(OrEmpty(r.message))))
         /\ BarOrEnd(Behind(l, r))
         /\ l >= 2 => Len(Behind(l, r)) > 0
<1>1. OrEmpty(r.remote) \in Bytes /\ OrEmpty(r.code) \in Bytes /\ OrEmpty(r.message) \in Bytes
  BY OrEmptyType DEF ColumnsAreBytes
<1>2. <<>> \in Bytes /\ Join(<<>>, <<>>) = <<>>
  BY EmptyIsBytes
<1>3. OfError(l, r) \in Bytes
  BY BehindType
<1>4. CASE l = 1
  BY <1>2, <1>4 DEF Behind, OfRemote, OfError, BarOrEnd
<1>5. CASE l >= 2
  <2>1. Behind(l, r) = Join(Barred(OrEmpty(r.remote)), OfError(l, r))
    BY <1>5 DEF Behind, OfRemote
  <2>2. BarOrEnd(Behind(l, r)) /\ Len(Behind(l, r)) > 0
    BY <1>1, <1>3, <2>1, BarredBegins
  <2> QED
    BY <1>5, <2>1, <2>2 DEF OfError
<1> QED
  BY <1>4, <1>5

(* Behind the previous tag two accepted rows agree only if they agree on the *)
(* layout and on what it puts there.                                         *)
LEMMA BehindSplits ==
  ASSUME NEW l \in 1..3, NEW k \in 1..3, NEW r, NEW s, ColumnsAreBytes(r), ColumnsAreBytes(s),
         ~noncanonical(l, r), ~noncanonical(k, s), Behind(l, r) = Behind(k, s)
  PROVE  /\ l = k
         /\ l >= 2 => OrEmpty(r.remote) = OrEmpty(s.remote)
         /\ l >= 3 => OrEmpty(r.code) = OrEmpty(s.code) /\ OrEmpty(r.message) = OrEmpty(s.message)
<1> DEFINE rr == OrEmpty(r.remote)
           rc == OrEmpty(r.code)
           rm == OrEmpty(r.message)
           sr == OrEmpty(s.remote)
           sc == OrEmpty(s.code)
           sm == OrEmpty(s.message)
           rx == OfError(l, r)
           sx == OfError(k, s)
<1>1. /\ rr \in Bytes /\ rc \in Bytes /\ rm \in Bytes
      /\ sr \in Bytes /\ sc \in Bytes /\ sm \in Bytes
      /\ Barred(rm) \in Bytes /\ Barred(sm) \in Bytes
  BY OrEmptyType, BarredJoin DEF ColumnsAreBytes
<1>2. rx \in Bytes /\ sx \in Bytes
  BY BehindType
<1>3. /\ l >= 2 => Behind(l, r) = Join(Barred(rr), rx)
      /\ k >= 2 => Behind(k, s) = Join(Barred(sr), sx)
  BY DEF Behind, OfRemote
<1>4. /\ l < 3 => rx = <<>>
      /\ k < 3 => sx = <<>>
      /\ l >= 3 => rx = Join(Barred(rc), Barred(rm))
      /\ k >= 3 => sx = Join(Barred(sc), Barred(sm))
  BY DEF OfError
<1>5. /\ l >= 2 => Barless(rr)
      /\ k >= 2 => Barless(sr)
      /\ l >= 3 => Barless(rc)
      /\ k >= 3 => Barless(sc)
  BY CanonicalBarless
<1> HIDE DEF rr, rc, rm, sr, sc, sm, rx, sx
<1>6. /\ BarOrEnd(rx) /\ (l >= 3 => Len(rx) > 0) /\ (l < 3 => Len(rx) = 0)
      /\ BarOrEnd(sx) /\ (k >= 3 => Len(sx) > 0) /\ (k < 3 => Len(sx) = 0)
  <2>1. Len(<<>>) = 0 /\ BarOrEnd(<<>>)
    BY DEF BarOrEnd
  <2>2. /\ l >= 3 => BarOrEnd(rx) /\ Len(rx) > 0
        /\ k >= 3 => BarOrEnd(sx) /\ Len(sx) > 0
    BY <1>1, <1>4, BarredBegins
  <2> QED
    BY <1>4, <2>1, <2>2
<1>7. (l = 1 => Len(Behind(l, r)) = 0) /\ (k = 1 => Len(Behind(k, s)) = 0)
  BY BehindForms
<1>8. (l >= 2 => Len(Behind(l, r)) > 0) /\ (k >= 2 => Len(Behind(k, s)) > 0)
  BY BehindForms
<1>9. l >= 2 <=> k >= 2
  BY <1>7, <1>8
<1>10. l >= 2 => rr = sr /\ rx = sx
  BY <1>1, <1>2, <1>3, <1>5, <1>6, <1>9, BarredSplits
<1>11. l = k
  BY <1>6, <1>9, <1>10
<1>12. l >= 3 => rc = sc /\ Barred(rm) = Barred(sm)
  <2> SUFFICES ASSUME l >= 3 PROVE rc = sc /\ Barred(rm) = Barred(sm)
    OBVIOUS
  <2>1. Join(Barred(rc), Barred(rm)) = Join(Barred(sc), Barred(sm))
    BY <1>4, <1>10, <1>11
  <2>2. ASSUME NEW u \in Bytes PROVE BarOrEnd(Barred(u))
    <3>1. Join(Barred(u), <<>>) = Barred(u) /\ <<>> \in Bytes
      BY BarredJoin, EmptyIsBytes
    <3> QED
      BY <3>1, BarredBegins
  <2>3. BarOrEnd(Barred(rm)) /\ BarOrEnd(Barred(sm))
    BY <1>1, <2>2
  <2>4. Barless(rc) /\ Barless(sc)
    BY <1>5, <1>11
  <2> QED
    BY <1>1, <2>1, <2>3, <2>4, BarredSplits
<1>13. l >= 3 => rm = sm
  <2> SUFFICES ASSUME l >= 3 PROVE rm = sm
    OBVIOUS
  <2>1. Join(<<Bar>>, rm) = Join(<<Bar>>, sm)
    BY <1>1, <1>12, BarredJoin
  <2>2. Bar \in Int
    BY DEF Bar
  <2> QED
    BY <1>1, <2>1, <2>2, FirstByte
<1> QED
  BY <1>10, <1>11, <1>12, <1>13 DEF rr, rc, rm, sr, sc, sm

LEMMA LegacyMacIsInjective ==
  ASSUME NEW l \in 1..3, NEW k \in 1..3, NEW r, NEW s, ColumnsAreBytes(r), ColumnsAreBytes(s),
         ~noncanonical(l, r), ~noncanonical(k, s), legacy_mac(l, r) = legacy_mac(k, s)
  PROVE  /\ l = k /\ r.id = s.id /\ r.ts = s.ts /\ r.flags = s.flags /\ r.prev = s.prev
         /\ l >= 2 => OrEmpty(r.remote) = OrEmpty(s.remote)
         /\ l >= 3 => OrEmpty(r.code) = OrEmpty(s.code) /\ OrEmpty(r.message) = OrEmpty(s.message)
<1> DEFINE h == <<r.id, Bar, r.ts>>
           g == <<s.id, Bar, s.ts>>
           rb == Behind(l, r)
           sb == Behind(k, s)
           rp == Join(Barred(r.prev), rb)
           sp == Join(Barred(s.prev), sb)
           rf == Join(Barred(r.flags), rp)
           sf == Join(Barred(s.flags), sp)
<1>1. h \in Bytes /\ g \in Bytes /\ Len(h) = Len(g)
  BY LegacyMacParts
<1>2. /\ r.flags \in Bytes /\ r.prev \in Bytes /\ s.flags \in Bytes /\ s.prev \in Bytes
      /\ Barless(r.flags) /\ Barless(r.prev) /\ Barless(s.flags) /\ Barless(s.prev)
  BY CanonicalBarless DEF ColumnsAreBytes
<1>3. rb \in Bytes /\ sb \in Bytes /\ BarOrEnd(rb) /\ BarOrEnd(sb)
  BY BehindType, BehindForms
<1>4. Join(h, rf) = Join(g, sf)
  BY LegacyMacParts
<1> HIDE DEF h, g, rb, sb
<1>5. rp \in Bytes /\ sp \in Bytes /\ BarOrEnd(rp) /\ BarOrEnd(sp)
  BY <1>2, <1>3, BarredJoin, BarredBegins, JoinType
<1> HIDE DEF rp, sp
<1>6. rf \in Bytes /\ sf \in Bytes
  BY <1>2, <1>5, BarredJoin, JoinType
<1>7. h = g /\ rf = sf
  <2> HIDE DEF rf, sf
  <2> QED
    BY <1>1, <1>4, <1>6, SplitAtLength
<1>8. r.id = s.id /\ r.ts = s.ts
  BY <1>7 DEF h, g
<1>9. r.flags = s.flags /\ rp = sp
  BY <1>2, <1>5, <1>7, BarredSplits
<1>10. r.prev = s.prev /\ rb = sb
  BY <1>2, <1>3, <1>9, BarredSplits DEF rp, sp
<1> QED
  BY <1>8, <1>9, <1>10, BehindSplits DEF rb, sb

(* The second byte tells a legacy encoding from one with lengths. *)
LEMMA SecondByte ==
  ASSUME NEW a \in Bytes, NEW x \in Bytes, Len(a) = 3
  PROVE  Join(a, x)[2] = a[2]
<1>1. Len(x) \in Nat
  BY LenProperties DEF Bytes
<1>2. 2 \in 1..Len(a) + Len(x) /\ 2 <= Len(a)
  BY <1>1
<1> QED
  BY <1>2, ConcatProperties DEF Bytes, Join

LEMMA Domains ==
  /\ V4_DOMAIN \in Bytes /\ Len(V4_DOMAIN) = 3 /\ V4_DOMAIN[2] = 1
  /\ NONCANONICAL_LEGACY_DOMAIN \in Bytes /\ Len(NONCANONICAL_LEGACY_DOMAIN) = 3
  /\ NONCANONICAL_LEGACY_DOMAIN[2] = 1
  /\ V4_DOMAIN # NONCANONICAL_LEGACY_DOMAIN
<1>1. <<1, 1, 2>>[3] # <<1, 1, 3>>[3]
  OBVIOUS
<1> QED
  BY <1>1 DEF V4_DOMAIN, NONCANONICAL_LEGACY_DOMAIN, Bytes

LEMMA LegacyIsNotInjective ==
  ASSUME NEW l \in 1..3, NEW k \in Int, NEW r, NEW s, ColumnsAreBytes(r), ColumnsAreBytes(s),
         NEW d \in {V4_DOMAIN, NONCANONICAL_LEGACY_DOMAIN}
  PROVE  legacy_mac(l, r) # injective_mac(d, k, s)
<1>1. legacy_mac(l, r)[2] = Bar
  <2> DEFINE h == <<r.id, Bar, r.ts>>
             x == Join(Barred(r.flags), Join(Barred(r.prev), Behind(l, r)))
  <2>1. h \in Bytes /\ legacy_mac(l, r) = Join(h, x)
    BY LegacyMacParts
  <2>2. x \in Bytes
    BY BehindType, BarredJoin, JoinType DEF ColumnsAreBytes
  <2>3. Len(h) = 3 /\ h[2] = Bar
    OBVIOUS
  <2> HIDE DEF h, x
  <2> QED
    BY <2>1, <2>2, <2>3, SecondByte
<1>2. injective_mac(d, k, s)[2] = 1
  <2> DEFINE x == Join(<<k, s.id, s.ts>>, Columns(s))
  <2>1. d \in Bytes /\ Len(d) = 3 /\ d[2] = 1
    BY Domains
  <2>2. x \in Bytes /\ injective_mac(d, k, s) = Join(d, x)
    BY <2>1, InjectiveMacParts, JoinType
  <2> HIDE DEF x
  <2> QED
    BY <2>1, <2>2, SecondByte
<1> QED
  BY <1>1, <1>2 DEF Bar

(* What the builder of a layout is given of a row. *)
Given(l, r) ==
  IF l = 1 THEN [r EXCEPT !.remote = Null, !.code = Null, !.message = Null]
  ELSE IF l = 2 THEN [r EXCEPT !.code = Null, !.message = Null]
  ELSE r

LEMMA GivenColumns ==
  ASSUME NEW l \in Layouts, NEW r \in RowFields
  PROVE  /\ Given(l, r) \in RowFields /\ ColumnsAreBytes(Given(l, r))
         /\ Given(l, r).id = r.id /\ Given(l, r).ts = r.ts
         /\ Given(l, r).flags = r.flags /\ Given(l, r).prev = r.prev
         /\ Given(l, r).remote = IF l < 2 THEN Null ELSE r.remote
         /\ Given(l, r).code = IF l < 3 THEN Null ELSE r.code
         /\ Given(l, r).message = IF l < 3 THEN Null ELSE r.message
         /\ noncanonical(l, Given(l, r)) <=> noncanonical(l, r)
<1>1. Given(l, r) \in RowFields
  BY DEF Given, RowFields
<1>5. l \in 1..4
  BY DEF Layouts
<1>2. /\ Given(l, r).id = r.id /\ Given(l, r).ts = r.ts
      /\ Given(l, r).flags = r.flags /\ Given(l, r).prev = r.prev
      /\ Given(l, r).remote = IF l < 2 THEN Null ELSE r.remote
      /\ Given(l, r).code = IF l < 3 THEN Null ELSE r.code
      /\ Given(l, r).message = IF l < 3 THEN Null ELSE r.message
  <2>1. CASE l = 1
    BY <2>1 DEF Given, RowFields
  <2>2. CASE l = 2
    BY <2>2 DEF Given, RowFields
  <2>3. CASE l >= 3
    BY <1>5, <2>3 DEF Given
  <2> QED
    BY <1>5, <2>1, <2>2, <2>3
<1>3. /\ l >= 2 => Given(l, r).remote = r.remote
      /\ l >= 3 => Given(l, r).code = r.code
  BY <1>2 DEF Layouts
<1>4. noncanonical(l, Given(l, r)) <=> noncanonical(l, r)
  BY <1>2, <1>3 DEF noncanonical
<1> QED
  BY <1>1, <1>2, <1>4, RowsAreBytes

LEMMA EncodingForms ==
  ASSUME NEW l \in Layouts, NEW r \in RowFields
  PROVE  /\ l = 4 => Encoding(l, r) = injective_mac(V4_DOMAIN, 4, Given(l, r))
         /\ l # 4 /\ noncanonical(l, r) =>
              Encoding(l, r) = injective_mac(NONCANONICAL_LEGACY_DOMAIN, l, Given(l, r))
         /\ l # 4 /\ ~noncanonical(l, r) => Encoding(l, r) = legacy_mac(l, Given(l, r))
<1>1. /\ l = 1 => Given(l, r) = [r EXCEPT !.remote = Null, !.code = Null, !.message = Null]
      /\ l = 2 => Given(l, r) = [r EXCEPT !.code = Null, !.message = Null]
      /\ l \in {3, 4} => Given(l, r) = r
  BY DEF Given
<1>2. noncanonical(l, Given(l, r)) <=> noncanonical(l, r)
  BY GivenColumns
<1>3. /\ l = 1 => Encoding(l, r) = compute_hmac_v1(r)
      /\ l = 2 => Encoding(l, r) = compute_hmac_v2(r)
      /\ l = 3 => Encoding(l, r) = compute_hmac_v3(r)
      /\ l = 4 => Encoding(l, r) = compute_hmac_v4(r)
  BY DEF Encoding
<1>4. l # 4 => Encoding(l, r) = legacy_or_noncanonical(l, Given(l, r))
  BY <1>1, <1>3 DEF compute_hmac_v1, compute_hmac_v2, compute_hmac_v3, Layouts
<1>5. l = 4 => Encoding(l, r) = injective_mac(V4_DOMAIN, 4, Given(l, r))
  BY <1>1, <1>3 DEF compute_hmac_v4
<1> QED
  BY <1>2, <1>4, <1>5 DEF legacy_or_noncanonical

(* What a layout binds, by what its builder is given. *)
LEMMA BoundForms ==
  ASSUME NEW l \in Layouts, NEW r \in RowFields
  PROVE  /\ l = 4 \/ noncanonical(l, r) =>
              Bound(l, r) = <<l, r.id, r.ts, r.flags, r.prev, Given(l, r).remote,
                              Given(l, r).code, Given(l, r).message>>
         /\ ~(l = 4 \/ noncanonical(l, r)) =>
              Bound(l, r) = <<l, r.id, r.ts, r.flags, r.prev, OrEmpty(Given(l, r).remote),
                              OrEmpty(Given(l, r).code), OrEmpty(Given(l, r).message)>>
BY GivenColumns DEF Bound

(* Rows whose encodings are equal are rows of one layout that agree on all   *)
(* that it binds, whatever bytes their columns hold (hmac.rs:22-36).         *)
THEOREM EncodingLosesNothing ==
  \A l, k \in Layouts, r, s \in RowFields : Encoding(l, r) = Encoding(k, s) => Bound(l, r) = Bound(k, s)
<1> SUFFICES ASSUME NEW l \in Layouts, NEW k \in Layouts, NEW r \in RowFields, NEW s \in RowFields,
                    Encoding(l, r) = Encoding(k, s)
             PROVE  Bound(l, r) = Bound(k, s)
  OBVIOUS
<1> DEFINE plain(m, x) == m # 4 /\ ~noncanonical(m, x)
           dom(m) == IF m = 4 THEN V4_DOMAIN ELSE NONCANONICAL_LEGACY_DOMAIN
<1>1. l \in 1..4 /\ k \in 1..4
  BY DEF Layouts
<1>2. ASSUME NEW m \in Layouts, NEW x \in RowFields, ~plain(m, x)
      PROVE  Encoding(m, x) = injective_mac(dom(m), m, Given(m, x))
  BY <1>2, EncodingForms
<1>3. CASE plain(l, r) /\ plain(k, s)
  <2>1. l \in 1..3 /\ k \in 1..3
    BY <1>1, <1>3
  <2>2. legacy_mac(l, Given(l, r)) = legacy_mac(k, Given(k, s))
    BY <1>3, EncodingForms
  <2>3. ~noncanonical(l, Given(l, r)) /\ ~noncanonical(k, Given(k, s))
    BY <1>3, GivenColumns
  <2>4. ColumnsAreBytes(Given(l, r)) /\ ColumnsAreBytes(Given(k, s))
    BY GivenColumns
  <2>5. /\ l = k /\ Given(l, r).id = Given(k, s).id /\ Given(l, r).ts = Given(k, s).ts
        /\ Given(l, r).flags = Given(k, s).flags /\ Given(l, r).prev = Given(k, s).prev
        /\ l >= 2 => OrEmpty(Given(l, r).remote) = OrEmpty(Given(k, s).remote)
        /\ l >= 3 => /\ OrEmpty(Given(l, r).code) = OrEmpty(Given(k, s).code)
                     /\ OrEmpty(Given(l, r).message) = OrEmpty(Given(k, s).message)
    BY <2>1, <2>2, <2>3, <2>4, LegacyMacIsInjective
  <2>6. /\ OrEmpty(Given(l, r).remote) = OrEmpty(Given(k, s).remote)
        /\ OrEmpty(Given(l, r).code) = OrEmpty(Given(k, s).code)
        /\ OrEmpty(Given(l, r).message) = OrEmpty(Given(k, s).message)
    BY <2>1, <2>5, GivenColumns
  <2>7. r.id = s.id /\ r.ts = s.ts /\ r.flags = s.flags /\ r.prev = s.prev
    BY <2>5, GivenColumns
  <2> QED
    BY <1>3, <2>5, <2>6, <2>7, BoundForms
<1>4. CASE ~plain(l, r) /\ ~plain(k, s)
  <2>1. injective_mac(dom(l), l, Given(l, r)) = injective_mac(dom(k), k, Given(k, s))
    BY <1>2, <1>4
  <2>2. dom(l) \in Bytes /\ dom(k) \in Bytes /\ Len(dom(l)) = Len(dom(k))
    BY Domains
  <2>3. ColumnsAreBytes(Given(l, r)) /\ ColumnsAreBytes(Given(k, s)) /\ l \in Int /\ k \in Int
    BY <1>1, GivenColumns
  <2> HIDE DEF dom
  <2>4. /\ l = k /\ Given(l, r).id = Given(k, s).id /\ Given(l, r).ts = Given(k, s).ts
        /\ Given(l, r).flags = Given(k, s).flags /\ Given(l, r).prev = Given(k, s).prev
        /\ Given(l, r).remote = Given(k, s).remote
        /\ Given(l, r).code = Given(k, s).code
        /\ Given(l, r).message = Given(k, s).message
    BY <2>1, <2>2, <2>3, InjectiveMacIsInjective
  <2>5. r.id = s.id /\ r.ts = s.ts /\ r.flags = s.flags /\ r.prev = s.prev
    BY <2>4, GivenColumns
  <2>6. (l = 4 \/ noncanonical(l, r)) /\ (k = 4 \/ noncanonical(k, s))
    BY <1>4
  <2> QED
    BY <2>4, <2>5, <2>6, BoundForms
<1>5. ASSUME NEW m \in Layouts, NEW x \in RowFields, NEW n \in Layouts, NEW y \in RowFields,
             plain(m, x), ~plain(n, y)
      PROVE  Encoding(m, x) # Encoding(n, y)
  <2>1. m \in 1..3 /\ n \in Int /\ dom(n) \in {V4_DOMAIN, NONCANONICAL_LEGACY_DOMAIN}
    BY <1>5 DEF Layouts
  <2>2. Encoding(m, x) = legacy_mac(m, Given(m, x)) /\ Encoding(n, y) = injective_mac(dom(n), n, Given(n, y))
    BY <1>2, <1>5, EncodingForms
  <2>3. ColumnsAreBytes(Given(m, x)) /\ ColumnsAreBytes(Given(n, y))
    BY GivenColumns
  <2> HIDE DEF dom
  <2> QED
    BY <2>1, <2>2, <2>3, LegacyIsNotInjective
<1> QED
  BY <1>3, <1>4, <1>5

(* Finite columns make finitely many rows. *)
LEMMA RowsFinite == IsFiniteSet(Rows)
<1> DEFINE P1 == Words \cup {Null}
           P2 == Codes \cup {Null}
           T == Number \X (Number \X (Words \X (Words \X (P2 \X (P2 \X P1)))))
           f == [t \in T |-> [id |-> t[1], ts |-> t[2][1], flags |-> t[2][2][1], prev |-> t[2][2][2][1],
                              remote |-> t[2][2][2][2][1], code |-> t[2][2][2][2][2][1],
                              message |-> t[2][2][2][2][2][2]]]
<1>1. IsFiniteSet(P1) /\ IsFiniteSet(P2)
  BY EncodingConstants, FS_Singleton, FS_Union
<1>2. IsFiniteSet(T)
  <2> HIDE DEF P1, P2
  <2>1. IsFiniteSet(P2 \X P1)
    BY <1>1, FS_Product
  <2>2. IsFiniteSet(P2 \X (P2 \X P1))
    BY <1>1, <2>1, FS_Product
  <2>3. IsFiniteSet(Words \X (P2 \X (P2 \X P1)))
    BY <2>2, EncodingConstants, FS_Product
  <2>4. IsFiniteSet(Words \X (Words \X (P2 \X (P2 \X P1))))
    BY <2>3, EncodingConstants, FS_Product
  <2>5. IsFiniteSet(Number \X (Words \X (Words \X (P2 \X (P2 \X P1)))))
    BY <2>4, EncodingConstants, FS_Product
  <2> QED
    BY <2>5, EncodingConstants, FS_Product
<1>3. f \in [T -> RowFields]
  BY DEF RowFields
<1>4. ASSUME NEW r \in RowFields PROVE \E t \in T : f[t] = r
  <2> DEFINE t == <<r.id, <<r.ts, <<r.flags, <<r.prev, <<r.remote, <<r.code, r.message>>>>>>>>>>>>
  <2>1. t \in T
    BY DEF RowFields
  <2>2. f[t] = [id |-> r.id, ts |-> r.ts, flags |-> r.flags, prev |-> r.prev,
                remote |-> r.remote, code |-> r.code, message |-> r.message]
    BY <2>1
  <2>3. r = [id |-> r.id, ts |-> r.ts, flags |-> r.flags, prev |-> r.prev,
             remote |-> r.remote, code |-> r.code, message |-> r.message]
    BY DEF RowFields
  <2> QED
    BY <2>1, <2>2, <2>3
<1>5. f \in Surjection(T, RowFields)
  <2> HIDE DEF f, T
  <2> QED
    BY <1>3, <1>4 DEF Surjection
<1>6. IsFiniteSet(RowFields)
  <2> HIDE DEF f, T
  <2> QED
    BY <1>2, <1>5, FS_Surjection
<1>7. IsFiniteSet(Layouts)
  <2>1. PICK n \in Nat : n = 4
    OBVIOUS
  <2>2. IsFiniteSet(1..n)
    BY FS_Interval
  <2> QED
    BY <2>1, <2>2 DEF Layouts
<1> QED
  BY <1>6, <1>7, FS_Product DEF Rows

LEMMA BuiltFinite == IsFiniteSet(Built)
<1> DEFINE f == [x \in Rows |-> <<Encoding(x[1], x[2]), Bound(x[1], x[2])>>]
<1>1. f \in Surjection(Rows, Built)
  BY DEF Surjection, Built
<1> HIDE DEF f
<1> QED
  BY <1>1, RowsFinite, FS_Surjection

(* What a verifier recomputes is what the builder made, unless it refuses.   *)
LEMMA RecomputedIsBuilt == {v \in Recomputed : v[1] # Refused} \subseteq Built
<1> SUFFICES ASSUME NEW x \in Rows, compute_for_layout(x[1], x[2]) # Refused
             PROVE  compute_for_layout(x[1], x[2]) = Encoding(x[1], x[2])
  BY DEF Recomputed, Built
<1> DEFINE l == x[1]
           r == x[2]
<1>1. l \in Layouts /\ r \in RowFields
  BY DEF Rows
<1> HIDE DEF l, r
<1>2. CASE l = 4
  <2>1. Encoding(l, r) = injective_mac(V4_DOMAIN, 4, r)
    BY <1>2 DEF Encoding, compute_hmac_v4
  <2>2. compute_for_layout(l, r) = injective_mac(V4_DOMAIN, 4, r)
    BY <1>2 DEF compute_for_layout
  <2> QED
    BY <2>1, <2>2 DEF l, r
<1>3. CASE l \in 1..3
  <2>1. ~noncanonical(l, r)
    BY <1>3 DEF compute_for_layout, l, r
  <2>2. compute_for_layout(l, r) = legacy_mac(l, r)
    BY <1>3, <2>1 DEF compute_for_layout
  <2>3. Encoding(l, r) = legacy_mac(l, Given(l, r))
    BY <1>1, <1>3, <2>1, EncodingForms
  <2>4. legacy_mac(l, Given(l, r)) = legacy_mac(l, r)
    <3>1. /\ Given(l, r).id = r.id /\ Given(l, r).ts = r.ts
          /\ Given(l, r).flags = r.flags /\ Given(l, r).prev = r.prev
          /\ l >= 2 => Given(l, r).remote = r.remote
          /\ l >= 3 => Given(l, r).code = r.code /\ Given(l, r).message = r.message
      BY <1>1, <1>3, GivenColumns
    <3> QED
      BY <3>1, <1>3 DEF legacy_mac
  <2> QED
    BY <2>2, <2>3, <2>4 DEF l, r
<1> QED
  BY <1>1, <1>2, <1>3 DEF Layouts

(* The property as the run computes it: as many tags as things bound, and    *)
(* no row accepted in the place of another.                                  *)
LEMMA TagsAreInjective == TagsInjective
<1> DEFINE Tags == {b[1] : b \in Built}
           f == [b \in Built |-> b[1]]
<1>1. f \in Surjection(Built, Tags)
  BY DEF Surjection
<1>2. ASSUME NEW b \in Built, NEW c \in Built, b[1] = c[1] PROVE b = c
  <2>1. PICK x \in Rows : b = <<Encoding(x[1], x[2]), Bound(x[1], x[2])>>
    BY DEF Built
  <2>2. PICK y \in Rows : c = <<Encoding(y[1], y[2]), Bound(y[1], y[2])>>
    BY DEF Built
  <2>3. x[1] \in Layouts /\ x[2] \in RowFields /\ y[1] \in Layouts /\ y[2] \in RowFields
    BY DEF Rows
  <2>4. Encoding(x[1], x[2]) = Encoding(y[1], y[2])
    BY <1>2, <2>1, <2>2
  <2>5. Bound(x[1], x[2]) = Bound(y[1], y[2])
    BY <2>3, <2>4, EncodingLosesNothing
  <2> QED
    BY <2>1, <2>2, <2>4, <2>5
<1>3. f \in Injection(Built, Tags)
  BY <1>1, <1>2 DEF Surjection, Injection, IsInjective
<1> HIDE DEF f, Tags
<1>4. Cardinality(Tags) = Cardinality(Built)
  BY <1>1, <1>3, BuiltFinite, FS_Surjection
<1> QED
  BY <1>4, RecomputedIsBuilt DEF TagsInjective, Tags

(* No two rows have one tag unless they agree on the layout and on what it   *)
(* binds, and no row is accepted in the place of one of another layout, for  *)
(* all texts, codes and numbers a row may hold (hmac.rs:22-36).              *)
THEOREM RowsAlwaysToldApart == ServiceSpec => []RowsToldApart
<1>1. RowsToldApart
  BY TagsAreInjective DEF RowsToldApart
<1> QED
  BY <1>1, PTL

------------------------------------------------------------------------------
(* Exports.  Kept is computed row by row; what it computes is proved by      *)
(* induction over the rows.                                                  *)

(* What holds at 0 and is handed on up to n holds up to n.                   *)
LEMMA HandedOn ==
  ASSUME NEW n \in Nat, NEW T \in SUBSET (0..n), 0 \in T,
         \A i \in 0..n : i + 1 \in 0..n /\ i \in T => i + 1 \in T
  PROVE  T = 0..n
<1>1. ASSUME 0..n \ T # {} PROVE FALSE
  <2>1. 0..n \ T \subseteq Nat
    OBVIOUS
  <2>2. PICK k \in 0..n \ T : \A j \in 0..n \ T : ~(<<j, k>> \in OpToRel(<, Nat))
    BY <1>1, <2>1, NatLessThanWellFounded, WFMin
  <2>3. \A j \in 0..n \ T : ~(j < k)
    BY <2>1, <2>2 DEF OpToRel
  <2>4. k # 0 /\ k - 1 \in 0..n /\ k - 1 \in T
    BY <2>3
  <2> QED  BY <2>4
<1> QED  BY <1>1

(* What is kept of the first n rows, for each n: kept as Kept computes it.   *)
Entry(log, i) == [id |-> i, row |-> log[i]]
KeptRun(log, ids, n, kept) ==
  kept = [i \in 0..n |-> IF i = 0 THEN <<>>
                         ELSE IF i \in ids THEN Append(kept[i - 1], Entry(log, i)) ELSE kept[i - 1]]

LEMMA KeptRuns ==
  ASSUME NEW log, NEW ids, Len(log) \in Nat
  PROVE  \E kept : KeptRun(log, ids, Len(log), kept) /\ Kept(log, ids) = kept[Len(log)]
<1> DEFINE T == {n \in 0..Len(log) : \E kept : KeptRun(log, ids, n, kept)}
<1>1. 0 \in T
  <2>1. KeptRun(log, ids, 0, [i \in 0..0 |-> <<>>])
    BY DEF KeptRun
  <2> QED  BY <2>1
<1>2. ASSUME NEW i \in 0..Len(log), i + 1 \in 0..Len(log), i \in T PROVE i + 1 \in T
  <2>1. PICK kept : KeptRun(log, ids, i, kept)
    BY <1>2
  <2> DEFINE next == [k \in 0..(i + 1) |->
                        IF k = i + 1 THEN IF k \in ids THEN Append(kept[i], Entry(log, k)) ELSE kept[i]
                        ELSE kept[k]]
  <2>2. KeptRun(log, ids, i + 1, next)
    <3>1. \A k \in 0..i : kept[k] = IF k = 0 THEN <<>>
                                    ELSE IF k \in ids THEN Append(kept[k - 1], Entry(log, k)) ELSE kept[k - 1]
      BY <2>1 DEF KeptRun
    <3>2. ASSUME NEW k \in 0..(i + 1)
          PROVE  next[k] = IF k = 0 THEN <<>>
                           ELSE IF k \in ids THEN Append(next[k - 1], Entry(log, k)) ELSE next[k - 1]
      BY <3>1
    <3> QED  BY <3>2 DEF KeptRun
  <2> QED  BY <1>2, <2>2
<1> HIDE DEF T
<1>3. T = 0..Len(log)
  <2>1. T \in SUBSET (0..Len(log)) /\ Len(log) \in Nat
    BY DEF T
  <2> QED  BY <1>1, <1>2, <2>1, HandedOn
<1>4. \E kept : KeptRun(log, ids, Len(log), kept)
  BY <1>3 DEF T
<1>5. \E kept : kept = [i \in 0..Len(log) |->
                          IF i = 0 THEN <<>>
                          ELSE IF i \in ids THEN Append(kept[i - 1], [id |-> i, row |-> log[i]]) ELSE kept[i - 1]]
  BY <1>4 DEF KeptRun, Entry
<1> QED  BY <1>5 DEF Kept, KeptRun, Entry

(* The events of an export are the rows kept, each once, in their order.     *)
Lists(log, ids, ev) ==
  /\ ev \in Seq({Entry(log, i) : i \in ids}) /\ Len(ev) \in Nat /\ DOMAIN ev = 1..Len(ev)
  /\ \A m \in 1..Len(ev) : ev[m].id \in ids /\ ev[m].row = log[ev[m].id]
  /\ \A m, l \in 1..Len(ev) : m < l => ev[m].id < ev[l].id
  /\ \A i \in ids : \E m \in 1..Len(ev) : ev[m].id = i

LEMMA ListsMore ==
  ASSUME NEW log, NEW i \in Nat, NEW ids \in SUBSET (1..i), NEW ev, Lists(log, ids, ev)
  PROVE  Lists(log, ids \cup {i + 1}, Append(ev, Entry(log, i + 1)))
<1> DEFINE S == {Entry(log, k) : k \in ids \cup {i + 1}}
           e == Entry(log, i + 1)
           new == Append(ev, e)
<1>1. ev \in Seq(S) /\ e \in S /\ e.id = i + 1 /\ e.row = log[i + 1] /\ Len(ev) \in Nat
  <2>1. ev \in Seq({Entry(log, k) : k \in ids}) /\ {Entry(log, k) : k \in ids} \subseteq S
    BY DEF Lists
  <2> QED  BY <2>1 DEF Entry, Lists
<1> HIDE DEF S, e
<1>2. /\ new \in Seq(S) /\ Len(new) = Len(ev) + 1 /\ new[Len(ev) + 1] = e /\ DOMAIN new = 1..Len(new)
      /\ \A m \in 1..Len(ev) : new[m] = ev[m]
  BY <1>1
<1> HIDE DEF new
<1>3. /\ \A m \in 1..Len(ev) : ev[m].id \in ids /\ ev[m].row = log[ev[m].id]
      /\ \A m, l \in 1..Len(ev) : m < l => ev[m].id < ev[l].id
      /\ \A k \in ids : \E m \in 1..Len(ev) : ev[m].id = k
  BY DEF Lists
<1>4. \A m \in 1..Len(new) : new[m].id \in ids \cup {i + 1} /\ new[m].row = log[new[m].id]
  BY <1>1, <1>2, <1>3
<1>5. ASSUME NEW m \in 1..Len(new), NEW l \in 1..Len(new), m < l PROVE new[m].id < new[l].id
  <2>1. m \in 1..Len(ev)
    BY <1>1, <1>2, <1>5
  <2>2. new[m].id = ev[m].id /\ ev[m].id \in 1..i
    BY <1>2, <1>3, <2>1
  <2>3. CASE l = Len(ev) + 1
    BY <1>1, <1>2, <2>2, <2>3
  <2>4. CASE l # Len(ev) + 1
    <3>1. l \in 1..Len(ev)
      BY <1>1, <1>2, <2>4
    <3> QED  BY <1>2, <1>3, <1>5, <2>1, <3>1
  <2> QED  BY <2>3, <2>4
<1>6. ASSUME NEW k \in ids \cup {i + 1} PROVE \E m \in 1..Len(new) : new[m].id = k
  <2>1. CASE k = i + 1
    BY <1>1, <1>2, <2>1
  <2>2. CASE k \in ids
    <3>1. PICK m \in 1..Len(ev) : ev[m].id = k
      BY <1>3, <2>2
    <3>2. m \in 1..Len(new) /\ new[m].id = k
      BY <1>1, <1>2, <3>1
    <3> QED  BY <3>2
  <2> QED  BY <2>1, <2>2
<1>7. Len(new) \in Nat
  BY <1>1, <1>2
<1> QED  BY <1>2, <1>4, <1>5, <1>6, <1>7 DEF Lists, S, e, new

LEMMA KeptLists ==
  ASSUME NEW log, Len(log) \in Nat, NEW ids \in SUBSET (1..Len(log))
  PROVE  Lists(log, ids, Kept(log, ids))
<1>1. PICK kept : KeptRun(log, ids, Len(log), kept) /\ Kept(log, ids) = kept[Len(log)]
  BY KeptRuns
<1>2. \A i \in 0..Len(log) :
         kept[i] = IF i = 0 THEN <<>>
                   ELSE IF i \in ids THEN Append(kept[i - 1], Entry(log, i)) ELSE kept[i - 1]
  BY <1>1 DEF KeptRun
<1> DEFINE upto(i) == ids \cap 1..i
           T == {i \in 0..Len(log) : Lists(log, upto(i), kept[i])}
<1>3. 0 \in T
  <2>1. kept[0] = <<>> /\ upto(0) = {}
    BY <1>2
  <2>2. Lists(log, {}, <<>>)
    BY DEF Lists
  <2> QED  BY <2>1, <2>2
<1>4. ASSUME NEW i \in 0..Len(log), i + 1 \in 0..Len(log), i \in T PROVE i + 1 \in T
  <2>1. i \in Nat /\ upto(i) \in SUBSET (1..i) /\ Lists(log, upto(i), kept[i])
    BY <1>4
  <2>2. kept[i + 1] = IF i + 1 \in ids THEN Append(kept[i], Entry(log, i + 1)) ELSE kept[i]
    BY <1>2, <1>4
  <2>3. upto(i + 1) = IF i + 1 \in ids THEN upto(i) \cup {i + 1} ELSE upto(i)
    BY <2>1
  <2> HIDE DEF upto
  <2>4. Lists(log, upto(i) \cup {i + 1}, Append(kept[i], Entry(log, i + 1)))
    BY <2>1, ListsMore
  <2>5. Lists(log, upto(i + 1), kept[i + 1])
    BY <2>1, <2>2, <2>3, <2>4
  <2> QED  BY <1>4, <2>5
<1>5. T = 0..Len(log)
  <2>1. T \in SUBSET (0..Len(log))
    OBVIOUS
  <2> HIDE DEF T
  <2> QED  BY <1>3, <1>4, <2>1, HandedOn
<1>6. Lists(log, upto(Len(log)), kept[Len(log)])
  BY <1>5
<1>7. upto(Len(log)) = ids
  OBVIOUS
<1> QED  BY <1>1, <1>6, <1>7

(* The ids of an export grow by one exactly when no row is left out between. *)
Naturals(ids) == \A i \in ids : i \in Nat
Together(ids) == \A i, j \in ids : i..j \subseteq ids
Steady(ev) == \A m \in 1..(Len(ev) - 1) : ev[m + 1].id = ev[m].id + 1

LEMMA TogetherIsSteady ==
  ASSUME NEW log, NEW ids, Naturals(ids), NEW ev, Lists(log, ids, ev), Together(ids)
  PROVE  Steady(ev)
<1>1. /\ Len(ev) \in Nat
      /\ \A m \in 1..Len(ev) : ev[m].id \in ids
      /\ \A m, l \in 1..Len(ev) : m < l => ev[m].id < ev[l].id
      /\ \A i \in ids : \E m \in 1..Len(ev) : ev[m].id = i
  BY DEF Lists
<1>2. ASSUME NEW m \in 1..(Len(ev) - 1) PROVE ev[m + 1].id = ev[m].id + 1
  <2>1. m \in 1..Len(ev) /\ m + 1 \in 1..Len(ev) /\ m < m + 1
    BY <1>1
  <2>2. ev[m].id \in ids /\ ev[m + 1].id \in ids /\ ev[m].id < ev[m + 1].id
    BY <1>1, <2>1
  <2>n. ev[m].id \in Nat /\ ev[m + 1].id \in Nat
    BY <2>2 DEF Naturals
  <2> DEFINE a == ev[m].id
             c == ev[m + 1].id
  <2>a. a \in Nat /\ c \in Nat /\ a < c
    BY <2>2, <2>n
  <2> HIDE DEF a, c
  <2>b. a + 1 \in a..c /\ a + 1 \in Nat
    BY <2>a
  <2>3. ev[m].id + 1 \in ev[m].id..ev[m + 1].id /\ ev[m].id + 1 \in Nat
    BY <2>b DEF a, c
  <2>4. ev[m].id + 1 \in ids
    BY <2>2, <2>3 DEF Together
  <2>5. PICK k \in 1..Len(ev) : ev[k].id = ev[m].id + 1
    BY <1>1, <2>4
  <2>6. ~(k < m) /\ k # m
    <3>1. k < m => ev[k].id < ev[m].id
      BY <1>1, <2>1
    <3>2. ev[k].id = a + 1 /\ ev[m].id = a
      BY <2>5 DEF a
    <3> QED  BY <2>a, <3>1, <3>2
  <2>7. ~(m + 1 < k)
    <3>1. m + 1 < k => ev[m + 1].id < ev[k].id
      BY <1>1, <2>1
    <3>2. ev[k].id = a + 1 /\ ev[m + 1].id = c
      BY <2>5 DEF a, c
    <3> QED  BY <2>a, <3>1, <3>2
  <2>8. k = m + 1
    BY <1>1, <2>1, <2>6, <2>7
  <2> QED  BY <2>5, <2>8
<1> QED  BY <1>2 DEF Steady

LEMMA SteadyIds ==
  ASSUME NEW log, NEW ids, Naturals(ids), NEW ev, Lists(log, ids, ev), Steady(ev)
  PROVE  \A m \in 1..Len(ev) : ev[m].id = ev[1].id + m - 1
<1>1. SUFFICES ASSUME Len(ev) # 0 PROVE \A m \in 1..Len(ev) : ev[m].id = ev[1].id + m - 1
  BY DEF Lists
<1>2. Len(ev) - 1 \in Nat /\ 1 \in 1..Len(ev) /\ ev[1].id \in Nat
  <2>1. Len(ev) \in Nat /\ \A m \in 1..Len(ev) : ev[m].id \in ids
    BY DEF Lists
  <2>2. Len(ev) - 1 \in Nat /\ 1 \in 1..Len(ev)
    BY <1>1, <2>1
  <2> QED  BY <2>1, <2>2 DEF Naturals
<1> DEFINE T == {k \in 0..(Len(ev) - 1) : ev[k + 1].id = ev[1].id + k}
<1>3. 0 \in T
  BY <1>2
<1>4. ASSUME NEW k \in 0..(Len(ev) - 1), k + 1 \in 0..(Len(ev) - 1), k \in T PROVE k + 1 \in T
  <2>1. ev[k + 1].id = ev[1].id + k /\ k + 1 \in 1..(Len(ev) - 1)
    BY <1>2, <1>4
  <2>2. ev[(k + 1) + 1].id = ev[k + 1].id + 1
    BY <2>1 DEF Steady
  <2>3. ev[(k + 1) + 1].id = ev[1].id + (k + 1)
    <3> DEFINE a == ev[1].id
               c == ev[k + 1].id
               d == ev[(k + 1) + 1].id
    <3>1. a \in Nat /\ k \in Nat /\ c = a + k /\ d = c + 1
      BY <1>2, <2>1, <2>2
    <3> HIDE DEF a, c, d
    <3>2. d = a + (k + 1)
      BY <3>1
    <3> QED  BY <3>2 DEF a, d
  <2> QED  BY <1>4, <2>3
<1>5. T = 0..(Len(ev) - 1)
  <2>1. T \in SUBSET (0..(Len(ev) - 1))
    OBVIOUS
  <2> HIDE DEF T
  <2> QED  BY <1>2, <1>3, <1>4, <2>1, HandedOn
<1>6. ASSUME NEW m \in 1..Len(ev) PROVE ev[m].id = ev[1].id + m - 1
  <2>1. m - 1 \in T /\ (m - 1) + 1 = m
    BY <1>2, <1>5
  <2>2. ev[(m - 1) + 1].id = ev[1].id + (m - 1)
    BY <2>1
  <2>3. ev[m].id = ev[1].id + (m - 1)
    BY <2>1, <2>2
  <2> QED  BY <1>2, <2>3
<1> QED  BY <1>6

LEMMA SteadyIsTogether ==
  ASSUME NEW log, NEW ids, Naturals(ids), NEW ev, Lists(log, ids, ev), Steady(ev)
  PROVE  Together(ids)
<1>1. \A m \in 1..Len(ev) : ev[m].id = ev[1].id + m - 1
  BY SteadyIds
<1>2. ASSUME NEW i \in ids, NEW j \in ids, NEW k \in i..j PROVE k \in ids
  <2>1. PICK a \in 1..Len(ev) : ev[a].id = i
    BY DEF Lists
  <2>2. PICK b \in 1..Len(ev) : ev[b].id = j
    BY DEF Lists
  <2>3. Len(ev) \in Nat /\ 1 \in 1..Len(ev) /\ ev[1].id \in Nat /\ i \in Nat /\ j \in Nat
    <3>1. Len(ev) \in Nat /\ \A m \in 1..Len(ev) : ev[m].id \in ids
      BY DEF Lists
    <3>2. 1 \in 1..Len(ev)
      BY <2>1, <3>1
    <3> QED  BY <3>1, <3>2 DEF Naturals
  <2>4. i = ev[1].id + a - 1 /\ j = ev[1].id + b - 1
    BY <1>1, <2>1, <2>2
  <2>5. PICK m \in 1..Len(ev) : k = ev[1].id + m - 1
    <3> DEFINE c == ev[1].id
               l == Len(ev)
    <3>1. c \in Nat /\ l \in Nat /\ k \in Int /\ c + a - 1 <= k /\ k <= c + b - 1 /\ a \in 1..l /\ b \in 1..l
      BY <2>3, <2>4
    <3> HIDE DEF c, l
    <3>2. k - c + 1 \in 1..l /\ k = c + (k - c + 1) - 1
      BY <3>1
    <3> QED  BY <3>2 DEF c, l
  <2>6. ev[m].id = k /\ ev[m].id \in ids
    BY <1>1, <2>5 DEF Lists
  <2> QED  BY <2>6
<1> QED  BY <1>2 DEF Together

(* A bundle passes when each of its events does.                             *)
Passes(log, ids) == verify_bundle(run_export(log, ids))

LEMMA BundleOf ==
  ASSUME NEW log, Len(log) \in Nat, NEW ids \in SUBSET (1..Len(log))
  PROVE  \E ev, b : /\ Lists(log, ids, ev)
                    /\ b = run_export(log, ids) /\ b.events = ev
                    /\ Len(ev) # 0 => b.root = ev[1].row.prev
                    /\ Passes(log, ids) <=> \A m \in 1..Len(ev) : EventVerifies(b, m)
<1> DEFINE ev == Kept(log, ids)
           b  == build_bundle(ev)
<1>1. Lists(log, ids, ev)
  BY KeptLists
<1> HIDE DEF ev
<1>2. b.events = ev /\ (ev # <<>> => b.root = ev[1].row.prev /\ b.end = ev[Len(ev)].row.tag)
  BY DEF build_bundle
<1>3. ev = <<>> <=> Len(ev) = 0
  <2>1. ev \in Seq({Entry(log, i) : i \in ids})
    BY <1>1 DEF Lists
  <2> QED  BY <2>1, EmptySeq
<1> HIDE DEF b
<1>4. ev # <<>> => PrevOf(b, Len(ev) + 1) = b.end
  <2>1. Len(ev) \in Nat
    BY <1>1 DEF Lists
  <2>2. Len(ev) # 0 => Len(ev) + 1 # 1 /\ (Len(ev) + 1) - 1 = Len(ev)
    BY <2>1
  <2> QED  BY <1>2, <1>3, <2>2 DEF PrevOf
<1>5. verify_bundle(b) <=> \A m \in 1..Len(ev) : EventVerifies(b, m)
  <2>1. DOMAIN ev = 1..Len(ev)
    BY <1>1 DEF Lists
  <2> QED  BY <1>2, <1>4, <2>1 DEF verify_bundle
<1>6. b = run_export(log, ids)
  BY DEF b, ev, run_export
<1> QED  BY <1>1, <1>2, <1>3, <1>5, <1>6 DEF Passes

(* The empty hmac column is no tag.                                          *)
EmptyIsNoTag == \A id, row : Mac(id, row) # EmptyTag

(* Of a log that verifies, an export that passes has left out no row between. *)
LEMMA PassesIsSteady ==
  ASSUME NEW log, Len(log) \in Nat, Verifies(log), NEW ids \in SUBSET (1..Len(log)),
         NEW ev, Lists(log, ids, ev), NEW b, b.events = ev,
         \A m \in 1..Len(ev) : EventVerifies(b, m)
  PROVE  Steady(ev)
<1>1. /\ Len(ev) \in Nat
      /\ \A m \in 1..Len(ev) : ev[m].id \in 1..Len(log) /\ ev[m].row = log[ev[m].id]
      /\ \A m, l \in 1..Len(ev) : m < l => ev[m].id < ev[l].id
  BY DEF Lists
<1>2. ASSUME NEW m \in 1..(Len(ev) - 1) PROVE ev[m + 1].id = ev[m].id + 1
  <2>1. m \in 1..Len(ev) /\ m + 1 \in 1..Len(ev) /\ m < m + 1 /\ m + 1 # 1 /\ (m + 1) - 1 = m
    BY <1>1
  <2>2. PICK i : i = ev[m].id
    OBVIOUS
  <2>3. PICK j : j = ev[m + 1].id
    OBVIOUS
  <2>4. i \in 1..Len(log) /\ j \in 1..Len(log) /\ i < j /\ ev[m].row = log[i] /\ ev[m + 1].row = log[j]
    BY <1>1, <2>1, <2>2, <2>3
  <2>5. log[j].prev = log[i].tag
    BY <2>1, <2>4 DEF EventVerifies, PrevOf
  <2>6. j - 1 \in 1..Len(log) /\ j # 1
    BY <2>4
  <2>7. log[j].prev = log[j - 1].tag /\ log[j - 1].tag = Mac(j - 1, log[j - 1]) /\ log[i].tag = Mac(i, log[i])
    BY <2>4, <2>6 DEF Verifies, LinkOK, MacOK, TagBefore
  <2>8. j - 1 = i
    <3>1. Mac(j - 1, log[j - 1]) = Mac(i, log[i])
      BY <2>5, <2>7
    <3> QED  BY <3>1 DEF Mac
  <2> QED  BY <2>2, <2>3, <2>4, <2>8
<1> QED  BY <1>2 DEF Steady

(* The events begin with the first n rows. *)
FirstRows(log, ev, n) == \A k \in 1..n : ev[k].id = k /\ ev[k].row = log[k]

(* In a bundle of the first rows, the digest is that over the log.           *)
LEMMA DigestsMatch ==
  ASSUME NEW log, NEW b, NEW m, FirstRows(log, b.events, m - 1)
  PROVE  BundleDigest(b, m) = LegacyDigest(log, m - 1)
<1> DEFINE legacy == {j \in 1..(m - 1) : is_legacy_layout(b.events[j].row.layout)}
<1>1. legacy = {j \in 1..(m - 1) : is_legacy_layout(log[j].layout)}
  BY DEF FirstRows
<1>2. \A j \in legacy : b.events[j].id = j /\ b.events[j].row = log[j]
  BY DEF FirstRows
<1> HIDE DEF legacy
<1>3. {b.events[j].id : j \in legacy} = legacy
  BY <1>2
<1>4. ASSUME NEW id \in legacy PROVE b.events[CHOOSE j \in legacy : b.events[j].id = id].row = log[id]
  <2>1. \A j \in legacy : b.events[j].id = id <=> j = id
    BY <1>2
  <2>2. (CHOOSE j \in legacy : b.events[j].id = id) = id
    BY <2>1
  <2> QED  BY <1>2, <2>2
<1>5. BundleDigest(b, m) = [id \in legacy |-> b.events[CHOOSE j \in legacy : b.events[j].id = id].row]
  BY <1>3, Zenon DEF BundleDigest, legacy
<1>6. LegacyDigest(log, m - 1) = [id \in legacy |-> log[id]]
  BY <1>1 DEF LegacyDigest
<1>7. [id \in legacy |-> b.events[CHOOSE j \in legacy : b.events[j].id = id].row] = [id \in legacy |-> log[id]]
  BY <1>4
<1> QED  BY <1>5, <1>6, <1>7

(* A steady export of a log that verifies passes.                            *)
LEMMA SteadyPasses ==
  ASSUME EmptyIsNoTag, NEW log, Len(log) \in Nat, Verifies(log), NEW ids \in SUBSET (1..Len(log)),
         NEW ev, Lists(log, ids, ev), NEW b, b.events = ev, Len(ev) # 0 => b.root = ev[1].row.prev,
         Steady(ev)
  PROVE  \A m \in 1..Len(ev) : EventVerifies(b, m)
<1>1. /\ Len(ev) \in Nat
      /\ \A m \in 1..Len(ev) : ev[m].id \in 1..Len(log) /\ ev[m].row = log[ev[m].id]
      /\ \A m, l \in 1..Len(ev) : m < l => ev[m].id < ev[l].id
  BY DEF Lists
<1> DEFINE Runs == \A k \in 1..Len(ev) : ev[k].id = ev[1].id + k - 1
<1>0. Runs
  <2>1. Naturals(ids)
    BY DEF Naturals
  <2> QED  BY <2>1, SteadyIds
<1> HIDE DEF Runs
<1>2. TAKE m \in 1..Len(ev)
<1>3. PICK i : i = ev[m].id
  OBVIOUS
<1>4. i \in 1..Len(log) /\ ev[m].row = log[i] /\ 1 \in 1..Len(ev) /\ Len(ev) # 0
  BY <1>1, <1>3
<1>5. LinkOK(log, i) /\ LayoutOK(log, i) /\ MacOK(log, i) /\ PinOK(log, i)
  BY <1>4 DEF Verifies
<1>6. log[i].prev = PrevOf(b, m)
  <2>1. CASE m = 1
    BY <1>4, <2>1 DEF PrevOf
  <2>2. CASE m # 1
    <3>1. m - 1 \in 1..(Len(ev) - 1) /\ m - 1 \in 1..Len(ev) /\ (m - 1) + 1 = m
      BY <1>1, <2>2
    <3>2. ev[m - 1].id \in 1..Len(log) /\ ev[m - 1].row = log[ev[m - 1].id] /\ i = ev[m - 1].id + 1
      BY <1>1, <1>3, <3>1 DEF Steady
    <3>3. ev[m - 1].id = i - 1 /\ i # 1
      BY <3>2
    <3>4. log[i].prev = log[i - 1].tag
      BY <1>5, <3>3 DEF LinkOK, TagBefore
    <3> QED  BY <2>2, <3>2, <3>3, <3>4 DEF PrevOf
  <2> QED  BY <2>1, <2>2
<1>7. is_legacy_layout(log[i].layout) => \A j \in 1..(m - 1) : is_legacy_layout(ev[j].row.layout)
  <2>1. ASSUME is_legacy_layout(log[i].layout), NEW j \in 1..(m - 1)
        PROVE  is_legacy_layout(ev[j].row.layout)
    <3>1. j \in 1..Len(ev) /\ j < m
      BY <1>1
    <3>2. ev[j].id \in 1..Len(log) /\ ev[j].id < i /\ ev[j].row = log[ev[j].id]
      BY <1>1, <1>3, <3>1
    <3>3. ev[j].id \in 1..(i - 1)
      BY <1>4, <3>2
    <3> QED  BY <1>5, <2>1, <3>2, <3>3 DEF LayoutOK
  <2> QED  BY <2>1
<1>8. GenesisRooted(b) => BundleDigest(b, m) = LegacyDigest(log, i - 1)
  <2> SUFFICES ASSUME GenesisRooted(b) PROVE BundleDigest(b, m) = LegacyDigest(log, i - 1)
    OBVIOUS
  <2>1. PICK a : a = ev[1].id
    OBVIOUS
  <2>2. a \in 1..Len(log) /\ log[a].prev = EmptyTag
    BY <1>1, <1>4, <2>1 DEF GenesisRooted
  <2>3. a = 1
    <3>1. SUFFICES ASSUME a # 1 PROVE FALSE
      OBVIOUS
    <3>2. a - 1 \in 1..Len(log)
      BY <2>2, <3>1
    <3>3. log[a].prev = log[a - 1].tag /\ log[a - 1].tag = Mac(a - 1, log[a - 1])
      BY <2>2, <3>1, <3>2 DEF Verifies, LinkOK, MacOK, TagBefore
    <3> QED  BY <2>2, <3>3 DEF EmptyIsNoTag
  <2>4. \A k \in 1..Len(ev) : ev[k].id = k
    <3>3. ASSUME NEW k \in 1..Len(ev) PROVE ev[k].id = k
      BY <1>0, <2>1, <2>3 DEF Runs
    <3> QED  BY <3>3
  <2>5. \A k \in 1..(m - 1) : ev[k].id = k /\ ev[k].row = log[k]
    <3>1. ASSUME NEW k \in 1..(m - 1) PROVE k \in 1..Len(ev)
      BY <1>1
    <3> QED  BY <1>1, <2>4, <3>1
  <2>6. BundleDigest(b, m) = LegacyDigest(log, m - 1)
    <3>1. FirstRows(log, b.events, m - 1)
      BY <2>5 DEF FirstRows
    <3> QED  BY <3>1, DigestsMatch
  <2>7. m = i
    BY <1>3, <2>4
  <2> QED  BY <2>6, <2>7
<1>9. log[i].tag = Mac(ev[m].id, log[i]) /\ (is_layout_commitment(log[i]) => log[i].args = LegacyDigest(log, i - 1))
  BY <1>3, <1>5 DEF MacOK, PinOK
<1> QED  BY <1>4, <1>6, <1>7, <1>8, <1>9 DEF EventVerifies

(* The export of every row passes exactly when the log verifies.             *)
LEMMA WholeLogAgrees ==
  ASSUME NEW log, Len(log) \in Nat, DOMAIN log = 1..Len(log), Len(log) > 0 => log[1].prev = EmptyTag
  PROVE  Passes(log, DOMAIN log) <=> Verifies(log)
<1> DEFINE ids == 1..Len(log)
<1>1. PICK ev, b : /\ Lists(log, ids, ev)
                   /\ b.events = ev
                   /\ Len(ev) # 0 => b.root = ev[1].row.prev
                   /\ Passes(log, ids) <=> \A m \in 1..Len(ev) : EventVerifies(b, m)
  <2>1. ids \in SUBSET (1..Len(log))
    OBVIOUS
  <2> HIDE DEF ids
  <2> QED  BY <2>1, BundleOf
<1>2. /\ Len(ev) \in Nat
      /\ \A m \in 1..Len(ev) : ev[m].id \in ids /\ ev[m].row = log[ev[m].id]
      /\ \A m, l \in 1..Len(ev) : m < l => ev[m].id < ev[l].id
      /\ \A i \in ids : \E m \in 1..Len(ev) : ev[m].id = i
  BY <1>1 DEF Lists
<1>3. \A m \in 1..Len(ev) : ev[m].id = m
  <2>1. Steady(ev)
    <3>1. Together(ids)
      BY DEF Together
    <3>2. Naturals(ids)
      BY DEF Naturals
    <3> HIDE DEF ids
    <3> QED  BY <1>1, <3>1, <3>2, TogetherIsSteady
  <2>2. \A m \in 1..Len(ev) : ev[m].id = ev[1].id + m - 1
    <3>1. Naturals(ids)
      BY DEF Naturals
    <3> HIDE DEF ids
    <3> QED  BY <1>1, <2>1, <3>1, SteadyIds
  <2>3. ASSUME NEW m \in 1..Len(ev) PROVE ev[1].id = 1
    <3>1. 1 \in 1..Len(ev) /\ ev[1].id \in 1..Len(log)
      BY <1>2
    <3>2. 1 \in ids
      BY <3>1
    <3>3. PICK k \in 1..Len(ev) : ev[k].id = 1
      BY <1>2, <3>2
    <3>4. 1 < k => ev[1].id < ev[k].id
      BY <1>2, <3>1
    <3> QED  BY <3>1, <3>3, <3>4
  <2>4. ASSUME NEW m \in 1..Len(ev) PROVE ev[m].id = m
    <3>1. ev[m].id = 1 + m - 1
      BY <2>2, <2>3
    <3> QED  BY <3>1
  <2> QED  BY <2>4
<1>4. Len(ev) = Len(log)
  <2>1. Len(log) > 0 => \E m \in 1..Len(ev) : m = Len(log)
    <3>1. Len(log) > 0 => Len(log) \in ids
      OBVIOUS
    <3> QED  BY <1>2, <1>3, <3>1
  <2>2. Len(ev) > 0 => Len(ev) \in ids
    <3>1. Len(ev) > 0 => Len(ev) \in 1..Len(ev)
      BY <1>2
    <3> HIDE DEF ids
    <3> QED  BY <1>2, <1>3, <3>1
  <2> QED  BY <1>2, <2>1, <2>2
<1>5. \A m \in 1..Len(log) : ev[m].id = m /\ ev[m].row = log[m]
  <2>1. ASSUME NEW m \in 1..Len(log) PROVE ev[m].id = m /\ ev[m].row = log[m]
    <3>1. m \in 1..Len(ev)
      BY <1>4
    <3>2. ev[m].id = m /\ ev[m].row = log[ev[m].id]
      BY <1>2, <1>3, <3>1
    <3> QED  BY <3>2
  <2> QED  BY <2>1
<1>6. ASSUME NEW m \in 1..Len(log)
      PROVE  EventVerifies(b, m) <=> LinkOK(log, m) /\ LayoutOK(log, m) /\ MacOK(log, m) /\ PinOK(log, m)
  <2>1. 1 \in 1..Len(log) /\ Len(log) > 0
    OBVIOUS
  <2>2. b.root = EmptyTag /\ GenesisRooted(b)
    BY <1>1, <1>4, <1>5, <2>1 DEF GenesisRooted
  <2>3. PrevOf(b, m) = TagBefore(log, m)
    <3>1. m # 1 => m - 1 \in 1..Len(log)
      OBVIOUS
    <3> QED  BY <1>1, <1>5, <2>2, <3>1 DEF PrevOf, TagBefore
  <2>4. \A j \in 1..(m - 1) : ev[j].id = j /\ ev[j].row = log[j]
    <3>1. ASSUME NEW j \in 1..(m - 1) PROVE j \in 1..Len(log)
      OBVIOUS
    <3> QED  BY <1>5, <3>1
  <2>5. BundleDigest(b, m) = LegacyDigest(log, m - 1)
    <3>1. FirstRows(log, b.events, m - 1)
      BY <1>1, <2>4 DEF FirstRows
    <3> QED  BY <3>1, DigestsMatch
  <2>6. ev[m].id = m /\ ev[m].row = log[m]
    BY <1>5
  <2> QED  BY <1>1, <2>2, <2>3, <2>4, <2>5, <2>6 DEF EventVerifies, LinkOK, LayoutOK, MacOK, PinOK
<1>7. Verifies(log) <=> \A m \in 1..Len(log) : EventVerifies(b, m)
  BY <1>6 DEF Verifies
<1> QED  BY <1>1, <1>4, <1>7

(* What offline verification says of the exports of a log whose first row    *)
(* begins the chain is what the verification of the log says.                *)
LEMMA LogAgrees ==
  ASSUME EmptyIsNoTag, NEW log, Len(log) \in Nat, DOMAIN log = 1..Len(log),
         Len(log) > 0 => log[1].prev = EmptyTag
  PROVE  ExportsAgree(log)
<1>1. Passes(log, DOMAIN log) <=> Verifies(log)
  BY WholeLogAgrees
<1>2. ASSUME Verifies(log), NEW ids \in SUBSET DOMAIN log PROVE Passes(log, ids) <=> Together(ids)
  <2>1. ids \in SUBSET (1..Len(log)) /\ Naturals(ids)
    BY <1>2 DEF Naturals
  <2>2. PICK ev, b : /\ Lists(log, ids, ev)
                     /\ b.events = ev
                     /\ Len(ev) # 0 => b.root = ev[1].row.prev
                     /\ Passes(log, ids) <=> \A m \in 1..Len(ev) : EventVerifies(b, m)
    BY <2>1, BundleOf
  <2>3. Passes(log, ids) => Steady(ev)
    BY <1>2, <2>1, <2>2, PassesIsSteady
  <2>4. Steady(ev) => Passes(log, ids)
    BY <1>2, <2>1, <2>2, SteadyPasses
  <2>5. Steady(ev) => Together(ids)
    BY <2>1, <2>2, SteadyIsTogether
  <2>6. Together(ids) => Steady(ev)
    BY <2>1, <2>2, TogetherIsSteady
  <2> QED  BY <2>3, <2>4, <2>5, <2>6
<1> QED  BY <1>1, <1>2 DEF ExportsAgree, Passes, Together

(* The first row begins the chain, even of a damaged log: a damage empties   *)
(* the column that links it or leaves it alone.                              *)
FirstRow ==
  /\ faulted => Len(db) > 0
  /\ Len(db) > 0 => db[1].prev = EmptyTag

LEMMA VerifiedFirst ==
  ASSUME NEW log, Len(log) \in Nat, Len(log) > 0, Verifies(log)
  PROVE  log[1].prev = EmptyTag
<1>1. 1 \in 1..Len(log)
  OBVIOUS
<1> QED  BY <1>1 DEF Verifies, LinkOK, TagBefore

LEMMA InitFirstRow == Init /\ TypeInv => FirstRow
<1> SUFFICES ASSUME Init, TypeInv PROVE FirstRow
  OBVIOUS
<1>1. Verifies(db) /\ ~faulted /\ Len(db) \in Nat
  BY InitialLogsVerify DEF Init, TypeInv, TypeOK, IsLog
<1> QED  BY <1>1, VerifiedFirst DEF FirstRow

LEMMA NextFirstRow == TypeInv /\ TypeInv' /\ TxnView /\ ChainInv' /\ FirstRow /\ [Next]_vars => FirstRow'
<1> SUFFICES ASSUME TypeInv, TypeInv', TxnView, ChainInv', FirstRow, [Next]_vars PROVE FirstRow'
  OBVIOUS
<1>1. Len(db) \in Nat /\ Len(db') \in Nat /\ db \in Seq(RowsOf(db)) /\ IsLog(db)
  BY LenProperties DEF TypeInv, TypeOK, IsLog
<1>2. CASE ~faulted'
  <2>1. PICK new : new = db'
    OBVIOUS
  <2>2. Verifies(new) /\ Len(new) \in Nat
    BY <1>1, <1>2, <2>1 DEF ChainInv
  <2>3. Len(new) > 0 => new[1].prev = EmptyTag
    BY <2>2, VerifiedFirst
  <2> QED  BY <1>2, <2>1, <2>3 DEF FirstRow
<1>3. CASE faulted' /\ faulted
  <2>1. Len(db) > 0 /\ db[1].prev = EmptyTag /\ 1 \in 1..Len(db)
    BY <1>1, <1>3 DEF FirstRow
  <2>2. CASE UNCHANGED db
    BY <2>1, <2>2, <1>3 DEF FirstRow
  <2>3. ASSUME NEW p \in Proc, Extends(p) PROVE FirstRow'
    <3>1. Len(db') = Len(db) + 1 /\ db'[1] = db[1]
      BY <2>1, <2>3 DEF Extends, Extended
    <3> QED  BY <1>1, <2>1, <3>1 DEF FirstRow
  <2>4. ASSUME NEW p \in Proc, Rewrites(p) PROVE FirstRow'
    <3>1. /\ Len(db') = Len(db) /\ Target(p) \in 1..Len(db)
          /\ db'[Target(p)].prev = db[Target(p)].prev
          /\ \A i \in 1..Len(db) : i < Target(p) => db'[i] = db[i]
      BY <2>4 DEF Rewrites, Rewritten, Resignable
    <3>2. db'[1].prev = db[1].prev
      <4>1. CASE Target(p) = 1
        BY <3>1, <4>1
      <4>2. CASE Target(p) # 1
        BY <1>1, <2>1, <3>1, <4>2
      <4> QED  BY <4>1, <4>2
    <3> QED  BY <2>1, <3>1, <3>2 DEF FirstRow
  <2>5. \A i \in 1..Len(db) : ~StorageFault(i)
    BY <1>3 DEF StorageFault
  <2> QED  BY <2>2, <2>3, <2>4, <2>5, LogSteps
<1>4. CASE faulted' /\ ~faulted
  <2>1. PICK i \in 1..Len(db) : StorageFault(i) \/ UNCHANGED db
    <3>1. UNCHANGED vars => faulted' = faulted
      BY DEF vars
    <3>2. \E i \in 1..Len(db) : StorageFault(i)
      <4>1. ASSUME NEW p \in Proc, Callers(p) \/ Thread(p) \/ SqlError(p) \/ Crash(p) \/ Restart(p)
            PROVE  faulted' = faulted
        <5>1. CASE Callers(p)
          BY <5>1 DEF Callers, Record, UpdateStatus, SendClosed, CommitLayout, Shutdown, Send
        <5>2. CASE Take(p)
          BY <5>2 DEF Take, BeginImmediate, RetryBusy, GiveUpBusy, StopThread
        <5>3. CASE RecordTxn(p)
          BY <5>3 DEF RecordTxn, InsertRow, TagRow, CommitRecord, Commit, EndTxn
        <5>4. CASE UpdateTxn(p)
          BY <5>4 DEF UpdateTxn, RefuseUpdate, ResignTarget, RechainSuccessor, CommitUpdate, Commit, Rollback, EndTxn
        <5>5. CASE LayoutTxn(p)
          BY <5>5 DEF LayoutTxn, RefuseLayout, LayoutAlreadyPinned, PinLayout, Commit, Rollback, EndTxn
        <5>6. CASE SqlError(p) \/ Crash(p) \/ Restart(p)
          BY <5>6 DEF SqlError, Rollback, EndTxn, Crash, Restart
        <5> QED  BY <4>1, <5>1, <5>2, <5>3, <5>4, <5>5, <5>6 DEF Thread
      <4> QED  BY <1>4, <3>1, <4>1 DEF Next
    <3> QED  BY <3>2
  <2>2. 1 \in 1..Len(db) /\ Len(db) > 0 /\ db[1].prev = EmptyTag
    BY <1>1 DEF FirstRow
  <2>3. CASE UNCHANGED db
    BY <2>2, <2>3 DEF FirstRow
  <2>4. CASE StorageFault(i)
    <3>1. PICK row \in Damaged(db[i]) : db' = [db EXCEPT ![i] = row]
      BY <2>4 DEF StorageFault
    <3>2. IsRow(db[i]) /\ IsRow(db[1])
      BY <1>1, <2>2 DEF IsLog
    <3>3. IsRow(row) /\ row.prev \in {db[i].prev, EmptyTag}
      BY <3>1, <3>2 DEF Damaged, IsRow
    <3>4. /\ Len(db') = Len(db) /\ db'[i] = row
          /\ \A j \in 1..Len(db) : j # i => db'[j] = db[j]
      BY <1>1, <3>1, <3>3, SetRow
    <3>5. db'[1].prev = EmptyTag
      BY <2>2, <3>3, <3>4
    <3> QED  BY <2>2, <3>4, <3>5 DEF FirstRow
  <2> QED  BY <2>1, <2>3, <2>4
<1> QED  BY <1>2, <1>3, <1>4 DEF TypeInv, TypeOK

(* Verifying an export offline is verifying the log: of a whole log always,  *)
(* of a selection of a sound log exactly when it leaves out no row between,  *)
(* for any rows, filters and windows, with the writers at work and the log   *)
(* damaged or not.  EmptyIsNoTag is what the 64 hex digits of a tag give.    *)
THEOREM ExportsAlwaysAgree == EmptyIsNoTag => (Spec => []ExportsVerifyAsLog)
<1>1. EmptyIsNoTag /\ TypeInv /\ FirstRow => ExportsVerifyAsLog
  <2> SUFFICES ASSUME EmptyIsNoTag, TypeInv, FirstRow PROVE ExportsVerifyAsLog
    OBVIOUS
  <2>1. Len(db) \in Nat /\ DOMAIN db = 1..Len(db)
    BY LenProperties DEF TypeInv, TypeOK, IsLog
  <2>2. Len(db) > 0 => db[1].prev = EmptyTag
    BY DEF FirstRow
  <2> QED  BY <2>1, <2>2, LogAgrees DEF ExportsVerifyAsLog
<1> SUFFICES ASSUME EmptyIsNoTag PROVE Spec => []ExportsVerifyAsLog
  OBVIOUS
<1>2. TypeInv /\ FirstRow => ExportsVerifyAsLog
  BY <1>1
<1> QED
  BY <1>2, InitTypeInv, NextTypeInv, InitTxnView, NextTxnView, InitChainInv, NextChainInv,
     InitFirstRow, NextFirstRow, PTL DEF Spec
=============================================================================
