------------------------------ MODULE MCLoans ------------------------------
(* Instances of Loans for TLC. *)
EXTENDS Loans, TLC

\* Users of one role are interchangeable.
Symmetry == Permutations(Customers) \cup Permutations(Employees) \cup Permutations(Managers)
=============================================================================
