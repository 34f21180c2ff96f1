------------------------------ MODULE AuditChain ------------------------------
(***************************************************************************)
(* The rows of the audit database and what it means for the HMAC chain     *)
(* over them to verify (src/audit/hmac.rs, reader.rs, layout_commit.rs).   *)
(*                                                                         *)
(* A log is the sequence of rows of audit_events; a row's id is its        *)
(* position: ids are AUTOINCREMENT, a rolled-back INSERT gives its id back *)
(* and nothing deletes rows.  A tag is modelled as the term it             *)
(* authenticates, so two tags are equal exactly when the columns they bind *)
(* are.  The columns every layout binds alike (time, profile, primitive,   *)
(* action, flags) are one value, the event; diag stands for the columns    *)
(* the layouts treat differently (error_code and error_message: unbound    *)
(* before layout 3, NULL read as '' before layout 4).                      *)
(***************************************************************************)
EXTENDS Integers, Sequences

CONSTANTS Event,            \* the audit events callers may record
          OldEvent,         \* the events of rows an earlier version recorded
          LayoutCommitted,  \* the event of a layout commitment row
          EmptyTag          \* the empty hmac column: genesis link, placeholder

ASSUME EventsDisjoint ==
  Event \cap OldEvent = {} /\ LayoutCommitted \notin Event \cup OldEvent

CURRENT_HMAC_LAYOUT == 4
Layout == 1..CURRENT_HMAC_LAYOUT
Status == {"started", "ok", "error"}
Diag   == {"null", "empty", "text"}

is_legacy_layout(layout) == layout < CURRENT_HMAC_LAYOUT

(* What the MAC of a layout sees of the diagnostics column. *)
BoundDiag(layout, diag) ==
  CASE layout < 3                   -> "empty"
    [] layout = 3 /\ diag = "null"  -> "empty"
    [] OTHER                        -> diag

(* The tag of row number id: the layout, the id and every bound column. *)
Mac(id, row) ==
  [layout |-> row.layout, id |-> id, event |-> row.event, args |-> row.args,
   status |-> row.status, diag |-> BoundDiag(row.layout, row.diag),
   prev |-> row.prev]

(* The digest a commitment carries: every column of every legacy row among *)
(* the first n rows, whether its MAC binds the column or not.              *)
LegacyDigest(log, n) ==
  [i \in {j \in 1..n : is_legacy_layout(log[j].layout)} |-> log[i]]

HasLegacyRows(log) == \E i \in 1..Len(log) : is_legacy_layout(log[i].layout)

(* Rows appended by commit-layout; their flag is server-only vocabulary.    *)
is_layout_commitment(row) ==
  row.layout = CURRENT_HMAC_LAYOUT /\ row.event = LayoutCommitted

Commitments(log) == {i \in 1..Len(log) : is_layout_commitment(log[i])}

(* The hmac column the next row after position i links to. *)
TagBefore(log, i) == IF i = 1 THEN EmptyTag ELSE log[i - 1].tag

LinkOK(log, i)   == log[i].prev = TagBefore(log, i)
MacOK(log, i)    == log[i].tag = Mac(i, log[i])
LayoutOK(log, i) ==
  is_legacy_layout(log[i].layout) =>
     \A j \in 1..(i - 1) : is_legacy_layout(log[j].layout)
PinOK(log, i)    ==
  is_layout_commitment(log[i]) => log[i].args = LegacyDigest(log, i - 1)

(* verify_chain_report: all four tests pass on every row. *)
Verifies(log) ==
  \A i \in 1..Len(log) :
     LinkOK(log, i) /\ LayoutOK(log, i) /\ MacOK(log, i) /\ PinOK(log, i)

ResignableAnyway(log, id) == id \in 1..Len(log)  \* variant: re-signs unverified rows

(* The precondition of a status update of row id (step 1 of update_in_txn): *)
(* the row and everything chained after it is authentic as it stands.       *)
Resignable(log, id) ==
  /\ id \in 1..Len(log)
  /\ MacOK(log, id)
  /\ id < Len(log) => ~is_legacy_layout(log[id].layout)
  /\ \A i \in (id + 1)..Len(log) :
        LinkOK(log, i) /\ ~is_legacy_layout(log[i].layout) /\ MacOK(log, i)

(* Well-formed rows and logs (tags are terms and have no set of their own). *)
IsRow(row) ==
  /\ DOMAIN row = {"layout", "event", "args", "status", "diag", "prev", "tag"}
  /\ row.layout \in Layout
  /\ row.event \in Event \cup OldEvent \cup {LayoutCommitted}
  /\ row.status \in Status
  /\ row.diag \in Diag

RowsOf(log) == {log[i] : i \in DOMAIN log}

IsLog(log) == log \in Seq(RowsOf(log)) /\ \A i \in DOMAIN log : IsRow(log[i])

------------------------------------------------------------------------------
(* Exports of the log and their offline verification (src/audit/export,     *)
(* cli/audit.rs).  An export keeps the rows of a time window that a filter  *)
(* matches, with the tag the first of them links to and the tag of the     *)
(* last; verify-export knows nothing else of the log.  Which rows a window  *)
(* and a filter keep is left open: times are taken by the callers, so that  *)
(* they need not grow with the row number.                                  *)

(* The rows that the window and the filter keep, in the order of their ids. *)
Kept(log, ids) ==
  LET kept[i \in 0..Len(log)] ==
        IF i = 0 THEN <<>>
        ELSE IF i \in ids THEN Append(kept[i - 1], [id |-> i, row |-> log[i]]) ELSE kept[i - 1]
  IN  kept[Len(log)]

build_bundle(events) ==
  [events |-> events,
   root   |-> IF events = <<>> THEN EmptyTag ELSE events[1].row.prev,
   end    |-> IF events = <<>> THEN EmptyTag ELSE events[Len(events)].row.tag]

run_export(log, ids) == build_bundle(Kept(log, ids))

(* The tag that the event before position i of a bundle has left. *)
PrevOf(b, i) == IF i = 1 THEN b.root ELSE b.events[i - 1].row.tag

(* Only a bundle that begins with the first row holds every legacy row.      *)
GenesisRooted(b) == b.root = EmptyTag

(* The digest over the legacy rows before position i of the bundle. *)
BundleDigest(b, i) ==
  LET legacy == {j \in 1..(i - 1) : is_legacy_layout(b.events[j].row.layout)}
  IN  [id \in {b.events[j].id : j \in legacy} |->
         b.events[CHOOSE j \in legacy : b.events[j].id = id].row]

(* Variant: the digest is not recomputed. *)
EventVerifiesByMac(b, i) ==
  LET ev == b.events[i]
  IN  /\ ev.row.prev = PrevOf(b, i)
      /\ is_legacy_layout(ev.row.layout) =>
           \A j \in 1..(i - 1) : is_legacy_layout(b.events[j].row.layout)
      /\ ev.row.tag = Mac(ev.id, ev.row)

EventVerifies(b, i) ==
  LET ev == b.events[i]
  IN  /\ ev.row.prev = PrevOf(b, i)
      /\ is_legacy_layout(ev.row.layout) =>
           \A j \in 1..(i - 1) : is_legacy_layout(b.events[j].row.layout)
      /\ ev.row.tag = Mac(ev.id, ev.row)
      /\ GenesisRooted(b) /\ is_layout_commitment(ev.row) => ev.row.args = BundleDigest(b, i)

verify_bundle(b) ==
  /\ \A i \in DOMAIN b.events : EventVerifies(b, i)
  /\ b.events # <<>> => PrevOf(b, Len(b.events) + 1) = b.end

------------------------------------------------------------------------------
(* Properties.                                                               *)

(* What offline verification says of an export is what `audit --verify` says *)
(* of the log: of the whole log exactly the same; a window of consecutive    *)
(* rows of a sound log passes, although a commitment in it may pin rows      *)
(* outside; and a selection that leaves out a row between two it keeps never *)
(* does, so that rows cannot be dropped from an export unseen (nor can an    *)
(* export made with --filter verify, see the README).                        *)
ExportsAgree(log) ==
  LET Passes(ids) == verify_bundle(run_export(log, ids))
  IN  /\ Passes(DOMAIN log) <=> Verifies(log)
      /\ Verifies(log) =>
           \A ids \in SUBSET DOMAIN log :
              Passes(ids) <=> \A i, j \in ids : i..j \subseteq ids
================================================================================
