------------------------------ MODULE AuditSchema ------------------------------
(***************************************************************************)
(* Several processes open the audit database at once (src/audit/schema.rs, *)
(* migrations.rs): each creates the tables, reads in the ledger of         *)
(* migrations what was applied, and applies the rest.  Statements outside  *)
(* a transaction commit by themselves and wait for the write lock.  A      *)
(* migration is a deferred transaction that reads before it writes: SQLite *)
(* refuses it at its first write, without waiting, when somebody else has  *)
(* the lock or has committed since.                                        *)
(***************************************************************************)
EXTENDS Integers, FiniteSets

CONSTANTS Opener,   \* processes that open the database
          Nobody,   \* nobody holds the write lock
          Databases \* the schemas that may be found

ASSUME NobodyIsNobody == Nobody \notin Opener
ASSUME SomebodyOpens == Opener # {}

VARIABLES
  columns,  \* columns added to audit_events after version 1
  ledger,   \* schema_migrations: versions marked as applied
  writer,   \* the process whose transaction holds the write lock
  step,     \* per process: what it does next
  seen,     \* per process: the schema its transaction has read
  accident, \* ghost: a process died, or failed for want of disk or patience
  altered   \* ghost: were columns of some version found without all before them?

schema == <<columns, ledger, writer, step, seen, accident, altered>>

CURRENT_VERSION == 3

Added == [v \in {2, 3} |-> IF v = 2 THEN {"remote_audit_id", "hmac_version"}
                                    ELSE {"error_code", "error_message"}]
Column == UNION {Added[v] : v \in DOMAIN Added}

(* A ledger has only ever been written by apply_pending, version by version. *)
ASSUME DatabasesFound ==
  Databases \subseteq [columns : SUBSET Column, ledger : {1..n : n \in 0..CURRENT_VERSION}]

(* The column by which a version is recognised in a database without ledger. *)
Mark == [v \in {2, 3} |-> IF v = 2 THEN "remote_audit_id" ELSE "error_code"]

current_version == IF ledger = {} THEN 0 ELSE CHOOSE v \in ledger : \A w \in ledger : w <= v

OpenStep == {"closed", "ledger", "baseline", "detect2", "detect3", "pending",
             "begin2", "write2", "commit2", "begin3", "write3", "commit3", "opened", "aborted"}

SchemaInit ==
  /\ \E d \in Databases : columns = d.columns /\ ledger = d.ledger
  /\ writer = Nobody
  /\ step = [p \in Opener |-> "closed"]
  /\ seen = [p \in Opener |-> <<>>]
  /\ accident = FALSE
  /\ altered = \E v \in DOMAIN Added :
                 /\ Mark[v] \in columns \/ v \in ledger
                 /\ \E w \in 2..v : ~(Added[w] \subseteq columns)

Goto(p, s) == step' = [step EXCEPT ![p] = s]

(* schema::init: the pragmas and CREATE TABLE IF NOT EXISTS, of version 1.   *)
CreateTables(p) ==
  /\ step[p] = "closed" /\ writer = Nobody
  /\ Goto(p, "ledger")
  /\ UNCHANGED <<columns, ledger, writer, seen, accident, altered>>

(* apply_pending: CREATE TABLE IF NOT EXISTS schema_migrations, and read it. *)
ReadLedger(p) ==
  /\ step[p] = "ledger" /\ writer = Nobody
  /\ Goto(p, IF current_version = 0 THEN "baseline" ELSE "pending")
  /\ UNCHANGED <<columns, ledger, writer, seen, accident, altered>>

(* Variant: a database without ledger is taken for a new one. *)
BaselineCurrent(p) ==
  /\ step[p] = "baseline" /\ writer = Nobody
  /\ ledger' = ledger \cup 1..CURRENT_VERSION
  /\ Goto(p, "detect2")
  /\ UNCHANGED <<columns, writer, seen, accident, altered>>

Baseline(p) ==
  /\ step[p] = "baseline" /\ writer = Nobody
  /\ ledger' = ledger \cup {1}
  /\ Goto(p, "detect2")
  /\ UNCHANGED <<columns, writer, seen, accident, altered>>

(* Columns that are there already are entered in the ledger. *)
Detect(p, v) ==
  /\ step[p] = (IF v = 2 THEN "detect2" ELSE "detect3") /\ writer = Nobody
  /\ ledger' = IF Mark[v] \in columns THEN ledger \cup {v} ELSE ledger
  /\ Goto(p, IF v = 2 THEN "detect3" ELSE "pending")
  /\ UNCHANGED <<columns, writer, seen, accident, altered>>

(* What is pending is read again before each migration; the backup made here *)
(* is read by nobody.                                                        *)
Pending(p) ==
  /\ step[p] = "pending"
  /\ Goto(p, IF current_version < 2 THEN "begin2"
             ELSE IF current_version < 3 THEN "begin3" ELSE "opened")
  /\ UNCHANGED <<columns, ledger, writer, seen, accident, altered>>

(* apply_v2, apply_v3: the transaction begins by looking at the columns ...  *)
BeginUpgrade(p, v) ==
  /\ step[p] = (IF v = 2 THEN "begin2" ELSE "begin3")
  /\ seen' = [seen EXCEPT ![p] = <<columns, ledger>>]
  /\ Goto(p, IF v = 2 THEN "write2" ELSE "write3")
  /\ UNCHANGED <<columns, ledger, writer, accident, altered>>

(* ... and becomes a writer at its first ALTER TABLE, CREATE INDEX or INSERT *)
(* unless somebody else has come between.                                    *)
Writing(p, v) == step[p] = (IF v = 2 THEN "write2" ELSE "write3")
Fresh(p) == writer = Nobody /\ seen[p] = <<columns, ledger>>

LockUpgrade(p, v) ==
  /\ Writing(p, v) /\ Fresh(p)
  /\ writer' = p
  /\ Goto(p, IF v = 2 THEN "commit2" ELSE "commit3")
  /\ UNCHANGED <<columns, ledger, seen, accident, altered>>

AuditMigrationAborted(p, v) ==
  /\ Writing(p, v) /\ ~Fresh(p)
  /\ seen' = [seen EXCEPT ![p] = <<>>]
  /\ Goto(p, "aborted")
  /\ UNCHANGED <<columns, ledger, writer, accident, altered>>

CommitUpgrade(p, v) ==
  /\ step[p] = (IF v = 2 THEN "commit2" ELSE "commit3")
  /\ columns' = columns \cup Added[v]
  /\ ledger' = ledger \cup {v}
  /\ writer' = Nobody
  /\ seen' = [seen EXCEPT ![p] = <<>>]
  /\ Goto(p, IF v = 2 THEN "pending" ELSE "opened")
  /\ UNCHANGED <<accident, altered>>

(* An error or the death of the process: a transaction leaves nothing.       *)
OpenFails(p) ==
  /\ step[p] \notin {"closed", "opened", "aborted"}
  /\ writer' = IF writer = p THEN Nobody ELSE writer
  /\ seen' = [seen EXCEPT ![p] = <<>>]
  /\ accident' = TRUE
  /\ Goto(p, "aborted")
  /\ UNCHANGED <<columns, ledger, altered>>

Upgrade(p, v) ==
  \/ Detect(p, v) \/ BeginUpgrade(p, v) \/ LockUpgrade(p, v)
  \/ AuditMigrationAborted(p, v) \/ CommitUpgrade(p, v)

OpenNext ==
  \E p \in Opener :
    \/ CreateTables(p) \/ ReadLedger(p) \/ Baseline(p) \/ Pending(p) \/ OpenFails(p)
    \/ \E v \in DOMAIN Added : Upgrade(p, v)

------------------------------------------------------------------------------
(* Properties.                                                               *)

Complete == columns = Column /\ ledger = 1..CURRENT_VERSION

(* The ledger never claims a version whose columns are missing, a process    *)
(* whose open succeeded finds every column it will write, and processes that *)
(* abort each other's migrations leave a finished schema behind, not one     *)
(* that all of them have given up; unless somebody had added a part of a     *)
(* version's columns by hand, or those of a later version only, which the    *)
(* detection of a database without ledger takes for all (migrations.rs:97-99).*)
SchemaSound ==
  ~altered =>
    /\ \A v \in ledger \cap DOMAIN Added : Added[v] \subseteq columns
    /\ \A p \in Opener : step[p] = "opened" => Complete
    /\ ~accident /\ (\A p \in Opener : step[p] \in {"opened", "aborted"}) => Complete
===============================================================================
