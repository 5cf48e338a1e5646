--------------------------- MODULE MCRevisionStore ---------------------------
(* Small instances of RevisionStore: two processes, one of them with two
   goroutines; two bodies that differ in canonical form, and one that does
   not parse.                                                              *)
EXTENDS RevisionRefinement, TLC

CONSTANTS c1, c2, c3, h1, h2, body1, other, bad, formA, formB

MCHandleOf == c1 :> h1 @@ c2 :> h1 @@ c3 :> h2
OnePerHandle == c1 :> h1 @@ c3 :> h2
TwoBodies == body1 :> formA @@ other :> formB
TwoBodiesOneBad == TwoBodies @@ bad :> Nil

NoDamage == {}
(* The bytes of another contract. *)
OneCell == {[Column |-> "Body", Value |-> formB]}

RowSymmetry ==
  Permutations(OperationIDs) \cup Permutations(RevisionIDs) \cup Permutations(Pipelines)
=============================================================================
