------------------------------ MODULE MCGates -------------------------------
(* Two orgs share a service with a sub-feature and another one. *)
EXTENDS Gates

CONSTANTS automerge, collection, review

ParentService == [s \in {automerge, collection, review} |->
                    IF s = collection THEN automerge ELSE s]
=============================================================================
