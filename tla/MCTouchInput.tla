---------------------------- MODULE MCTouchInput ----------------------------
(***************************************************************************)
(* Instances of TouchInput.  No definition tells two pointer ids apart, so *)
(* they are interchangeable.                                               *)
(***************************************************************************)
EXTENDS TouchInput

Symmetry == Permutations(Pointer)
=============================================================================
