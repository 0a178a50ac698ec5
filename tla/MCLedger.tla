------------------------------ MODULE MCLedger ------------------------------
(* Instances of Ledger for TLC. *)
EXTENDS Ledger

\* Each account has its own customer.
MCOwner == [a \in Accounts |-> IF a = 1 THEN "alice" ELSE "bob"]

\* Alice owns two accounts, Bob the rest.
MCOwnerOfTwo == [a \in Accounts |-> IF a <= 2 THEN "alice" ELSE "bob"]

MCBalance == [a \in Accounts |-> 1]

\* Only the first account has money.
MCBalanceFirst == [a \in Accounts |-> IF a = 1 THEN 1 ELSE 0]
=============================================================================
