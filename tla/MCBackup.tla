------------------------------- MODULE MCBackup -------------------------------
(* Small instance of Backup and VarsStore: two commands at once.             *)
EXTENDS Backup, TLC

(* One variable set and confirmed earlier. *)
MCOldDoc ==
  {[Nothing EXCEPT ![1] = [value |-> CHOOSE v \in Value : TRUE, verified |-> TRUE, origin |-> "set"]]}

MCSymmetry == Permutations(Proc)
===============================================================================
