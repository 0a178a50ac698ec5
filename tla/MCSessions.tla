----------------------------- MODULE MCSessions -----------------------------
(* Instances of Sessions for TLC. *)
EXTENDS Sessions, TLC

MCRole ==
  [u \in Users |-> CASE u = "carl" -> "CUSTOMER"
                     [] u = "mark" -> "MANAGER"
                     [] u = "emma" -> "EMPLOYEE"]

Symmetry == Permutations(Conns)
=============================================================================
