-------------------------------- MODULE Bank --------------------------------
(***************************************************************************)
(* What the banking server promises about money, with every operation of a *)
(* client in one step: no journal, no crash, no other session in between.  *)
(* Module Ledger implements it as long as handlers that overlap work on    *)
(* different accounts and no two of them transfer.                         *)
(***************************************************************************)
EXTENDS Integers

CONSTANTS Accounts, Amounts, InitialBalance

VARIABLES
  balance,  \* money in each account
  active    \* accounts that may take part in a transfer

vars == <<balance, active>>

Init ==
  /\ balance = InitialBalance
  /\ active = [a \in Accounts |-> TRUE]

\* A deposit by the owner, or the credit of an approved loan.
Deposit(a, n) ==
  /\ balance' = [balance EXCEPT ![a] = @ + n]
  /\ UNCHANGED active

Withdraw(a, n) ==
  /\ n <= balance[a]
  /\ balance' = [balance EXCEPT ![a] = @ - n]
  /\ UNCHANGED active

Transfer(a, b, n) ==
  /\ a # b
  /\ active[a] /\ active[b]
  /\ n <= balance[a]
  /\ balance' = [balance EXCEPT ![a] = @ - n, ![b] = @ + n]
  /\ UNCHANGED active

SetStatus(a, status) ==
  /\ active' = [active EXCEPT ![a] = status]
  /\ UNCHANGED balance

Next ==
  \/ \E a \in Accounts, n \in Amounts : Deposit(a, n) \/ Withdraw(a, n)
  \/ \E a \in Accounts, b \in Accounts, n \in Amounts : Transfer(a, b, n)
  \/ \E a \in Accounts, status \in BOOLEAN : SetStatus(a, status)

Spec == Init /\ [][Next]_vars
=============================================================================
