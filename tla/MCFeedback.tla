---------------------------- MODULE MCFeedback ----------------------------
(* Instances of Feedback for TLC. *)
EXTENDS Feedback, TLC

Symmetry == Permutations(Customers) \cup Permutations(Managers)
=============================================================================
