------------------------------ MODULE MCUsers ------------------------------
(* Instances of Users for TLC. *)
EXTENDS Users, TLC

MCContact == <<"p1", "p2", "p3", "p4", "p5">>
MCUser(id, role) == [userId |-> id, role |-> role, isActive |-> TRUE,
                     password |-> "old", contact |-> MCContact[id]]

\* The users of admin_util.c and a second employee.
MCInitialUsers == <<MCUser(1, "ADMINISTRATOR"), MCUser(2, "CUSTOMER"),
                    MCUser(3, "EMPLOYEE"), MCUser(4, "MANAGER"), MCUser(5, "EMPLOYEE")>>

\* The accounts of admin_util.c: both are the customer's.
MCInitialAccounts ==
  [a \in 1..2 |-> [accountId |-> a, ownerUserId |-> 2, accountNumber |-> a,
                   isActive |-> TRUE]]
=============================================================================
