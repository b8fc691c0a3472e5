-------------------------- MODULE MCSecurityIssues --------------------------
(* SecurityIssues with interchangeable rules. *)
EXTENDS SecurityIssues, TLC

RulesAlike == Permutations(Rules)
=============================================================================
