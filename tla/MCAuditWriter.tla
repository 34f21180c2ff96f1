---------------------------- MODULE MCAuditWriter ----------------------------
(* Small instance of AuditWriter: inherited logs of at most one legacy row   *)
(* of each layout.                                                           *)
EXTENDS AuditWriter, TLC

Legacy(layout, status, diag) ==
  LET row == [layout |-> layout, event |-> CHOOSE e \in OldEvent : TRUE, args |-> <<>>, status |-> status,
              diag |-> diag, prev |-> EmptyTag, tag |-> EmptyTag]
  IN  << [row EXCEPT !.tag = Mac(1, row)] >>

MCSymmetry == Permutations(Proc) \cup Permutations(Event)

MCInitialLogs ==
  {<<>>, Legacy(1, "ok", "null"), Legacy(3, "error", "text"), Legacy(3, "ok", "null")}
==============================================================================
