---------------------------- MODULE MCAuditService ----------------------------
(* Small instance of AuditService: every schema that a version has left, one *)
(* whose columns were added by hand, and two where that was done by half.    *)
EXTENDS AuditService, MCAuditWriter

MCDatabases ==
  {[columns |-> {}, ledger |-> l] : l \in {{}, {1}}}
    \cup {[columns |-> Added[2], ledger |-> l] : l \in {{}, {1, 2}}}
    \cup {[columns |-> Column, ledger |-> l] : l \in {{}, {1, 2, 3}}}
    \cup {[columns |-> c, ledger |-> {}] : c \in {{"remote_audit_id"}, Added[3]}}

MCWords == UNION {[1..n -> {Bar, 1}] : n \in 0..2}
MCCodes == UNION {[1..n -> {Bar, 1}] : n \in 0..1}
===============================================================================
