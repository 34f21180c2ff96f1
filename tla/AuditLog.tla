------------------------------- MODULE AuditLog -------------------------------
(***************************************************************************)
(* What the audit log promises its readers, without tags, transactions or  *)
(* processes: what was inherited stays as it is, entries are only ever     *)
(* appended, an event has at most one entry, and an entry changes once,    *)
(* from started to its final status.                                       *)
(***************************************************************************)
EXTENDS Integers, Sequences

CONSTANTS Event, OldEvent, LayoutCommitted

VARIABLE entries  \* sequence of [event, status], oldest first

Final == {"ok", "error"}

Recorded == {entries[i].event : i \in DOMAIN entries}

Init == entries \in Seq([event : OldEvent, status : Final \cup {"started"}])

Add(event, status) ==
  /\ event \notin Recorded
  /\ entries' = Append(entries, [event |-> event, status |-> status])

Finish(i, status) ==
  /\ entries[i].event \in Event
  /\ entries[i].status = "started"
  /\ entries' = [entries EXCEPT ![i].status = status]

Next ==
  \/ \E e \in Event, s \in Final \cup {"started"} : Add(e, s)
  \/ Add(LayoutCommitted, "ok")
  \/ \E i \in DOMAIN entries, s \in Final : Finish(i, s)

Spec == Init /\ [][Next]_entries
===============================================================================
