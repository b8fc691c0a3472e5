---------------------------- MODULE MCDashboard -----------------------------
(* One workflow and its sub-feature: two rows whose ids share a prefix. *)
EXTENDS Dashboard

CONSTANTS Parent, Sub

PrefixIds == [i \in {Parent, Sub} |-> IF i = Sub THEN {Parent, Sub} ELSE {Parent}]

\* The sub-feature is added, enabled by default.
TwoRegistries == {[i \in {Parent} |-> FALSE],
                  [i \in {Parent, Sub} |-> i = Sub]}
=============================================================================
