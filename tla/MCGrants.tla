------------------------------ MODULE MCGrants ------------------------------
(* Small instance of Grants: two commands at once, two workspaces of one    *)
(* base name, one operation.                                                *)
EXTENDS Grants, TLC

Symmetric == Permutations(Proc) \cup Permutations(Root)
=============================================================================
