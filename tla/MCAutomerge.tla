----------------------------- MODULE MCAutomerge ----------------------------
(* One collection; every file of a head is of it, or some file is of none. *)
EXTENDS Automerge

CONSTANT Go

AllGo == {[h \in Heads |-> Go]}
OneOther == {[h \in Heads |-> IF h = other THEN Unclassified ELSE Go] :
               other \in 0 .. 1}
=============================================================================
