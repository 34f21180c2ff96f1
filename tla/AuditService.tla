------------------------------ MODULE AuditService ------------------------------
(***************************************************************************)
(* The processes of AuditWriter from the start: each first opens the       *)
(* database (AuditSchema), which the inherited log has in the schema of    *)
(* its time, and only then has a writer thread.  Opening neither reads nor *)
(* writes a row, so that it comes first for all of them here.              *)
(***************************************************************************)
EXTENDS AuditWriter, AuditSchema, AuditEncoding

VARIABLE serving \* have the processes opened the database?

services == <<vars, schema, serving>>

(* The columns that the rows of a log were written with. *)
NeededBy(log) == UNION {Added[v] : v \in {w \in DOMAIN Added : \E i \in DOMAIN log : log[i].layout >= w}}

ServiceInit ==
  /\ Init /\ SchemaInit /\ serving = FALSE
  /\ NeededBy(db) \subseteq columns

(* The last one has opened; one that has not is started again. *)
Serve ==
  /\ ~serving
  /\ \A p \in Opener : step[p] \in {"opened", "aborted"}
  /\ Complete
  /\ serving' = TRUE
  /\ step' = [p \in Opener |-> "opened"] /\ accident' = FALSE /\ altered' = FALSE
  /\ UNCHANGED <<vars, columns, ledger, writer, seen>>

Reopen(p) ==
  /\ ~serving /\ step[p] = "aborted"
  /\ Goto(p, "closed")
  /\ UNCHANGED <<vars, columns, ledger, writer, seen, accident, altered, serving>>

ServiceNext ==
  \/ ~serving /\ OpenNext /\ UNCHANGED <<vars, serving>>
  \/ Serve
  \/ \E p \in Opener : Reopen(p)
  \/ serving /\ Next /\ UNCHANGED <<schema, serving>>

ServiceSpec ==
  /\ ServiceInit /\ [][ServiceNext]_services
  /\ \A p \in Proc : WF_services(serving /\ Thread(p) /\ UNCHANGED <<schema, serving>>)

------------------------------------------------------------------------------
(* Properties.                                                               *)

(* TagsInjective of AuditEncoding, looked at once. *)
RowsToldApart == step = [p \in Opener |-> "closed"] => TagsInjective
=================================================================================
