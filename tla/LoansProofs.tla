----------------------------- MODULE LoansProofs -----------------------------
(* Theorems about Loans, for any sets of users and any bounds. *)
EXTENDS Loans, TLAPS, SequenceTheorems

\* Places in which a session has a copy of a record.
Deciding == {"decide", "credit", "save"}
Working  == Deciding \cup {"assign"}

Op == [pc : {"menu", "append", "choose", "assign", "decide", "credit", "save"},
       row : Rows, loan : Loan]

\* A session about to append has an id that is not too large, and the right one
\* as long as no application has been appended during another.
Appending(s) ==
  At(s, "append") =>
    /\ s \in Customers
    /\ op[s].loan = Application(op[s].loan.loanId)
    /\ op[s].loan.loanId <= Len(loans) + 1
    /\ ~overlapped => op[s].loan.loanId = Len(loans) + 1

\* A copy belongs to its record.
Copied(s) ==
  op[s].pc \in Working =>
    op[s].row \in DOMAIN loans /\ loans[op[s].row].loanId = op[s].loan.loanId

\* A manager's copy is an unassigned loan, still current unless another manager
\* had it too.
Assigning(s) ==
  /\ op[s].pc \in {"choose", "assign"} => s \in Managers
  /\ At(s, "assign") =>
       /\ Assignable(op[s].loan)
       /\ op[s].row \notin raced => loans[op[s].row] = op[s].loan

\* An employee's copy is a loan of his, and his alone to change.
Processing(s) ==
  op[s].pc \in Deciding =>
    /\ s \in Employees
    /\ op[s].loan.assignedTo = s
    /\ op[s].row \notin raced => Processable(s, loans[op[s].row])
    /\ At(s, "decide") /\ op[s].row \notin raced => op[s].loan = loans[op[s].row]
    /\ At(s, "credit") => op[s].loan.status = "APPROVED"
    /\ At(s, "save") => op[s].loan.status \in {"APPROVED", "REJECTED"}

Sound(s) == Appending(s) /\ Copied(s) /\ Assigning(s) /\ Processing(s)

RaceSeen ==
  \A m, n \in Sessions :
    At(m, "assign") /\ At(n, "assign") /\ op[m].row = op[n].row =>
      m = n \/ op[m].row \in raced

\* Ids never run ahead of the positions.
Ids == \A r \in DOMAIN loans : loans[r].loanId <= r /\ (~overlapped => loans[r].loanId = r)

\* Nothing is credited before there is a record.
NotYet == \A r \in Rows \ DOMAIN loans : credited[r] = 0 /\ cut[r] = 0

Inv ==
  /\ TypeOK
  /\ \A s \in Sessions : Sound(s)
  /\ RaceSeen
  /\ Ids
  /\ NotYet
  /\ CreditsExplained

-----------------------------------------------------------------------------
(* The file *)

LEMMA File ==
  ASSUME TypeOK
  PROVE  /\ Len(loans) \in Nat /\ Len(loans) <= MaxLoans
         /\ DOMAIN loans = 1..Len(loans)
         /\ DOMAIN loans \subseteq Rows
         /\ \A r \in DOMAIN loans : loans[r] \in Loan
<1>1. loans \in Seq(Loan) /\ Len(loans) <= MaxLoans /\ MaxLoans \in Nat
  BY LoansAssumption DEF TypeOK
<1>2. Len(loans) \in Nat /\ DOMAIN loans = 1..Len(loans) /\ loans \in [1..Len(loans) -> Loan]
  BY <1>1, LenProperties, Zenon
<1> QED BY <1>1, <1>2 DEF Rows

LEMMA NextId ==
  ASSUME Inv
  PROVE  /\ GetNextLoanId \in Nat /\ GetNextLoanId >= 1
         /\ GetNextLoanId <= Len(loans) + 1
         /\ ~overlapped => GetNextLoanId = Len(loans) + 1
<1>1. TypeOK /\ Ids
  BY DEF Inv
<1>2. CASE loans = <<>>
  BY <1>2 DEF GetNextLoanId
<1>3. CASE loans # <<>>
  <2>1. Len(loans) \in Nat \ {0} /\ Len(loans) \in DOMAIN loans
    BY <1>1, <1>3, File, EmptySeq DEF TypeOK
  <2>2. loans[Len(loans)].loanId \in Nat /\ loans[Len(loans)].loanId >= 1
    BY <1>1, <2>1, File DEF Loan, Rows
  <2> QED BY <1>1, <1>3, <2>1, <2>2 DEF GetNextLoanId, Ids
<1> QED BY <1>2, <1>3

LEMMA NewApplication ==
  ASSUME NEW id \in Rows
  PROVE  Application(id) \in Loan
BY DEF Application, Loan, Statuses

LEMMA IdleIsOp == Idle \in Op /\ Idle.pc = "menu"
<1>1. 1 \in Rows
  BY LoansAssumption DEF Rows
<1> QED BY <1>1, NewApplication DEF Idle, Op

-----------------------------------------------------------------------------
(* Steps that leave the file alone *)

\* A session that does not move stays sound while its record stays, whatever
\* races are seen.
LEMMA Elsewhere ==
  ASSUME NEW t \in Sessions, Sound(t), op'[t] = op[t],
         loans' = loans, raced \subseteq raced', overlapped' = overlapped
  PROVE  Sound(t)'
BY DEF Sound, Appending, Copied, Assigning, Processing, At, Assignable, Processable

\* Session s is about to save the approval of record r.
Approving(s, r) == At(s, "save") /\ op[s].row = r /\ op[s].loan.status = "APPROVED"

\* Session s changes its local variables; it has no approval to save, neither
\* before nor after.
LEMMA LocalStep ==
  ASSUME Inv, NEW s \in Sessions,
         op' = [op EXCEPT ![s] = op'[s]], op'[s] \in Op,
         UNCHANGED <<loans, credited, cut, overlapped>>,
         raced \subseteq raced', raced' \subseteq Rows,
         crashes' \in 0..MaxCrashes, faults' \in 0..MaxFaults,
         Sound(s)',
         \A r : ~Approving(s, r) /\ ~Approving(s, r)',
         \A t \in Sessions \ {s} :
            At(s, "assign")' /\ At(t, "assign") /\ op[t].row = op'[s].row =>
              op[t].row \in raced'
  PROVE  Inv'
<1>1. /\ op'[s] \in Op
      /\ \A t \in Sessions \ {s} : op'[t] = op[t]
      /\ TypeOK
  BY DEF Inv, TypeOK
<1>2. TypeOK'
  BY DEF Inv, TypeOK, Op
<1>3. \A t \in Sessions : Sound(t)'
  BY <1>1, Elsewhere DEF Inv
<1>4. RaceSeen'
  BY <1>1 DEF Inv, RaceSeen, At
<1>5. Ids' /\ NotYet'
  BY DEF Inv, Ids, NotYet
<1>6. \A r : Saving(r)' = Saving(r)
  <2>1. ASSUME NEW r, NEW t \in Employees
        PROVE  CutBy(t, r)' = CutBy(t, r)
    BY <1>1 DEF Approving, CutBy, At, Sessions
  <2> QED BY <2>1 DEF Saving
<1>7. CreditsExplained'
  BY <1>6 DEF Inv, CreditsExplained
<1> QED BY <1>2, <1>3, <1>4, <1>5, <1>7 DEF Inv

\* Session s goes back to the menu with nothing to save.
LEMMA ToMenu ==
  ASSUME Inv, NEW s \in Sessions, Finish(s), \A r : ~Approving(s, r),
         UNCHANGED <<loans, credited, cut, overlapped, crashes>>,
         raced \subseteq raced', raced' \subseteq Rows,
         faults' \in 0..MaxFaults
  PROVE  Inv'
<1>1. op' = [op EXCEPT ![s] = Idle] /\ op \in [Sessions -> Op] /\ TypeOK
  BY DEF Inv, TypeOK, Op, Finish
<1>2. op'[s] = Idle /\ op'[s] \in Op /\ op'[s].pc = "menu" /\ op' = [op EXCEPT ![s] = op'[s]]
  BY <1>1, IdleIsOp
<1>3. Sound(s)'
  BY <1>2 DEF Sound, Appending, Copied, Assigning, Processing, At, Working, Deciding
<1>4. (\A r : ~Approving(s, r)') /\ ~At(s, "assign")'
  BY <1>2 DEF Approving, At
<1>5. crashes' \in 0..MaxCrashes
  BY <1>1 DEF TypeOK
<1> QED BY <1>2, <1>3, <1>4, <1>5, LocalStep

LEMMA FaultBound ==
  ASSUME TypeOK, Fault
  PROVE  faults' \in 0..MaxFaults
BY LoansAssumption DEF TypeOK, Fault

LEMMA ReadLoanIdInv == ASSUME Inv, NEW s \in Sessions, ReadLoanId(s) PROVE Inv'
<1>1. TypeOK /\ op \in [Sessions -> Op]
  BY DEF Inv, TypeOK, Op
<1>2. GetNextLoanId \in Rows
  BY <1>1, NextId, File, LoansAssumption DEF ReadLoanId, Rows
<1>3. /\ op'[s] = [pc |-> "append", row |-> 1, loan |-> Application(GetNextLoanId)]
      /\ op' = [op EXCEPT ![s] = op'[s]]
  BY <1>1 DEF ReadLoanId, Work
<1>4. op'[s] \in Op
  BY <1>2, <1>3, NewApplication, LoansAssumption DEF Op, Rows
<1>5. Sound(s)'
  BY <1>3, NextId DEF ReadLoanId, audit, Sound, Appending, Copied, Assigning,
     Processing, At, Working, Deciding, Application
<1>6. (\A r : ~Approving(s, r) /\ ~Approving(s, r)') /\ ~At(s, "assign")'
  BY <1>3 DEF ReadLoanId, Approving, At
<1> QED BY <1>1, <1>3, <1>4, <1>5, <1>6, LocalStep DEF ReadLoanId, audit, TypeOK

LEMMA ListUnassignedInv == ASSUME Inv, NEW s \in Sessions, ListUnassigned(s) PROVE Inv'
<1>1. TypeOK /\ op \in [Sessions -> Op]
  BY DEF Inv, TypeOK, Op
<1>2. op'[s] = [op[s] EXCEPT !.pc = "choose"] /\ op' = [op EXCEPT ![s] = op'[s]]
  BY <1>1 DEF ListUnassigned
<1>3. op'[s] \in Op /\ op'[s].pc = "choose"
  BY <1>1, <1>2 DEF Op
<1>4. Sound(s)'
  BY <1>3 DEF ListUnassigned, Sound, Appending, Copied, Assigning,
     Processing, At, Working, Deciding
<1>5. (\A r : ~Approving(s, r) /\ ~Approving(s, r)') /\ ~At(s, "assign")'
  BY <1>3 DEF ListUnassigned, Approving, At
<1> QED BY <1>1, <1>2, <1>3, <1>4, <1>5, LocalStep DEF ListUnassigned, audit, TypeOK

LEMMA CancelInv == ASSUME Inv, NEW s \in Sessions, Cancel(s) PROVE Inv'
<1>1. TypeOK /\ \A r : ~Approving(s, r)
  BY DEF Inv, Cancel, Approving, At
<1> QED BY <1>1, ToMenu DEF Cancel, audit, TypeOK

LEMMA ReadToAssignInv == ASSUME Inv, NEW s \in Sessions, ReadToAssign(s) PROVE Inv'
<1>1. TypeOK /\ op \in [Sessions -> Op] /\ Sound(s) /\ s \in Managers
  BY DEF Inv, TypeOK, Op, ReadToAssign, Sound, Assigning, At
<1>2. PICK id \in Rows, r \in Rows :
        /\ FindLoanRecord(id, r)
        /\ IF Assignable(loans[r]) THEN Work(s, "assign", r, loans[r]) ELSE Finish(s)
        /\ raced' = IF \E t \in Managers \ {s} : At(t, "assign") /\ op[t].row = r
                      THEN raced \cup {r} ELSE raced
  BY DEF ReadToAssign
<1>3. raced \subseteq raced' /\ raced' \subseteq Rows
  BY <1>1, <1>2 DEF TypeOK
<1>4. \A q : ~Approving(s, q)
  BY DEF ReadToAssign, Approving, At
<1>5. CASE ~Assignable(loans[r])
  BY <1>1, <1>2, <1>3, <1>4, <1>5, ToMenu DEF ReadToAssign, TypeOK
<1>6. CASE Assignable(loans[r])
  <2>1. /\ op'[s] = [pc |-> "assign", row |-> r, loan |-> loans[r]]
        /\ op' = [op EXCEPT ![s] = op'[s]]
    BY <1>1, <1>2, <1>6 DEF Work
  <2>2. r \in DOMAIN loans /\ loans[r] \in Loan
    BY <1>1, <1>2, File DEF FindLoanRecord
  <2>3. op'[s] \in Op
    BY <2>1, <2>2 DEF Op
  <2>4. Sound(s)'
    BY <1>1, <1>6, <2>1, <2>2 DEF ReadToAssign, Sound, Appending, Copied, Assigning,
       Processing, At, Working, Deciding, Assignable
  <2>5. \A q : ~Approving(s, q)'
    BY <2>1 DEF Approving, At
  <2>6. \A t \in Sessions \ {s} : At(t, "assign") /\ op[t].row = op'[s].row =>
          op[t].row \in raced'
    BY <1>2, <2>1 DEF Inv, Sound, Assigning, At
  <2> QED BY <1>1, <1>3, <1>4, <2>1, <2>3, <2>4, <2>5, <2>6, LocalStep
          DEF ReadToAssign, TypeOK
<1> QED BY <1>5, <1>6

LEMMA ReadToProcessInv == ASSUME Inv, NEW s \in Sessions, ReadToProcess(s) PROVE Inv'
<1>1. TypeOK /\ op \in [Sessions -> Op] /\ s \in Employees
  BY DEF Inv, TypeOK, Op, ReadToProcess
<1>2. PICK id \in Rows, r \in Rows :
        GetLoan(s, "decide", id, r) /\ Processable(s, loans[r])
  BY DEF ReadToProcess
<1>3. /\ op'[s] = [pc |-> "decide", row |-> r, loan |-> loans[r]]
      /\ op' = [op EXCEPT ![s] = op'[s]]
  BY <1>1, <1>2 DEF GetLoan, Work
<1>4. r \in DOMAIN loans /\ loans[r] \in Loan
  BY <1>1, <1>2, File DEF GetLoan, FindLoanRecord
<1>5. op'[s] \in Op
  BY <1>3, <1>4 DEF Op
<1>6. Sound(s)'
  BY <1>1, <1>2, <1>3, <1>4 DEF ReadToProcess, Sound, Appending, Copied, Assigning,
     Processing, At, Working, Deciding, Processable
<1>7. (\A q : ~Approving(s, q) /\ ~Approving(s, q)') /\ ~At(s, "assign")'
  BY <1>3 DEF ReadToProcess, Approving, At
<1> QED BY <1>1, <1>3, <1>5, <1>6, <1>7, LocalStep DEF ReadToProcess, audit, TypeOK

LEMMA ApproveInv == ASSUME Inv, NEW s \in Sessions, Approve(s) PROVE Inv'
<1>1. TypeOK /\ op \in [Sessions -> Op] /\ Sound(s)
  BY DEF Inv, TypeOK, Op
<1>2. /\ op'[s].pc = "credit" /\ op'[s].row = op[s].row
      /\ op'[s].loan = [op[s].loan EXCEPT !.status = "APPROVED"]
      /\ op'[s] \in Op
      /\ op' = [op EXCEPT ![s] = op'[s]]
  <2> DEFINE loan == [op[s].loan EXCEPT !.status = "APPROVED"]
             new  == [op[s] EXCEPT !.pc = "credit", !.loan = loan]
  <2>1. op[s] \in Op /\ op[s].loan \in Loan
    BY <1>1 DEF Op
  <2>2. loan \in Loan
    BY <2>1 DEF Loan, Statuses
  <2>3. op' = [op EXCEPT ![s] = new]
    BY DEF Approve
  <2> HIDE DEF loan
  <2>4. new \in Op /\ new.pc = "credit" /\ new.row = op[s].row /\ new.loan = loan
    BY <2>1, <2>2 DEF Op
  <2> HIDE DEF new
  <2>5. op'[s] = new
    BY <1>1, <2>3
  <2> QED BY <2>3, <2>4, <2>5 DEF loan
<1>3. op'[s].loan.loanId = op[s].loan.loanId /\ op'[s].loan.status = "APPROVED"
      /\ op'[s].loan.assignedTo = op[s].loan.assignedTo
  BY <1>1, <1>2 DEF Op, Loan
<1>4. Sound(s)'
  BY <1>1, <1>2, <1>3 DEF Approve, Sound, Appending, Copied, Assigning,
     Processing, At, Working, Deciding, Processable, audit
<1>5. (\A r : ~Approving(s, r) /\ ~Approving(s, r)') /\ ~At(s, "assign")'
  BY <1>2 DEF Approve, Approving, At
<1> QED BY <1>1, <1>2, <1>4, <1>5, LocalStep DEF Approve, audit, TypeOK

LEMMA RejectInv == ASSUME Inv, NEW s \in Sessions, Reject(s) PROVE Inv'
<1>1. TypeOK /\ op \in [Sessions -> Op] /\ Sound(s)
  BY DEF Inv, TypeOK, Op
<1>2. /\ op'[s].pc = "save" /\ op'[s].row = op[s].row
      /\ op'[s].loan = [op[s].loan EXCEPT !.status = "REJECTED"]
      /\ op'[s] \in Op
      /\ op' = [op EXCEPT ![s] = op'[s]]
  <2> DEFINE loan == [op[s].loan EXCEPT !.status = "REJECTED"]
             new  == [op[s] EXCEPT !.pc = "save", !.loan = loan]
  <2>1. op[s] \in Op /\ op[s].loan \in Loan
    BY <1>1 DEF Op
  <2>2. loan \in Loan
    BY <2>1 DEF Loan, Statuses
  <2>3. op' = [op EXCEPT ![s] = new]
    BY DEF Reject
  <2> HIDE DEF loan
  <2>4. new \in Op /\ new.pc = "save" /\ new.row = op[s].row /\ new.loan = loan
    BY <2>1, <2>2 DEF Op
  <2> HIDE DEF new
  <2>5. op'[s] = new
    BY <1>1, <2>3
  <2> QED BY <2>3, <2>4, <2>5 DEF loan
<1>3. op'[s].loan.loanId = op[s].loan.loanId /\ op'[s].loan.status = "REJECTED"
      /\ op'[s].loan.assignedTo = op[s].loan.assignedTo
  BY <1>1, <1>2 DEF Op, Loan
<1>4. Sound(s)'
  BY <1>1, <1>2, <1>3 DEF Reject, Sound, Appending, Copied, Assigning,
     Processing, At, Working, Deciding, Processable, audit
<1>5. (\A r : ~Approving(s, r) /\ ~Approving(s, r)') /\ ~At(s, "assign")'
  BY <1>2, <1>3 DEF Reject, Approving, At
<1> QED BY <1>1, <1>2, <1>4, <1>5, LocalStep DEF Reject, audit, TypeOK

LEMMA NoActionInv == ASSUME Inv, NEW s \in Sessions, NoAction(s) PROVE Inv'
<1>1. TypeOK /\ \A r : ~Approving(s, r)
  BY DEF Inv, NoAction, Approving, At
<1> QED BY <1>1, ToMenu DEF NoAction, audit, TypeOK

-----------------------------------------------------------------------------
(* Steps that change the file or the account *)

\* Two copies of one record are two managers', who were seen to race: an
\* employee's copy is of a loan assigned to him, a manager's of one assigned to
\* nobody.
LEMMA Alone ==
  ASSUME Inv, NEW s \in Sessions, NEW t \in Sessions, s # t,
         op[s].pc \in Working, op[t].pc \in Working, op[s].row = op[t].row
  PROVE  op[s].row \in raced
<1> SUFFICES ASSUME op[s].row \notin raced PROVE FALSE
  OBVIOUS
<1>1. Sound(s) /\ Sound(t) /\ RaceSeen
  BY DEF Inv
<1>2. ~(At(s, "assign") /\ At(t, "assign"))
  BY <1>1 DEF RaceSeen
<1>3. ASSUME NEW u \in Sessions, Sound(u), op[u].pc \in Deciding, op[u].row \notin raced
      PROVE  loans[op[u].row].assignedTo = u /\ u \in Employees
  BY <1>3 DEF Sound, Processing, Processable
<1>4. ASSUME NEW u \in Sessions, Sound(u), At(u, "assign"), op[u].row \notin raced
      PROVE  loans[op[u].row].assignedTo = Nobody
  BY <1>4 DEF Sound, Assigning, Assignable
<1> QED BY <1>1, <1>2, <1>3, <1>4, LoansAssumption DEF Working, At

\* At most one employee is saving the approval of a record.
LEMMA SavingAlone ==
  ASSUME Inv, NEW s \in Sessions, NEW r, r \notin raced, op[s].pc \in Working, op[s].row = r
  PROVE  Saving(r) = IF Approving(s, r) THEN {s} ELSE {}
<1>1. \A t \in Employees : t \in Saving(r) <=> Approving(t, r)
  BY DEF Saving, CutBy, Approving
<1>2. Approving(s, r) => s \in Employees
  BY DEF Inv, Sound, Processing, Approving, At, Deciding
<1>3. \A t \in Employees \ {s} : ~Approving(t, r)
  BY Alone DEF Approving, At, Working, Deciding, Sessions
<1>4. Saving(r) \subseteq Employees
  BY DEF Saving
<1> QED BY <1>1, <1>2, <1>3, <1>4

\* A record that is being saved is in the file.
LEMMA SavingInFile ==
  ASSUME Inv, NEW r, Saving(r) # {}
  PROVE  r \in DOMAIN loans
<1>1. PICK t \in Employees : CutBy(t, r) = 1
  BY DEF Saving
<1>2. At(t, "save") /\ op[t].row = r
  BY <1>1 DEF CutBy
<1> QED BY <1>2 DEF Inv, Sound, Copied, Working, Deciding, At, Sessions

\* A step of session s leaves what the others are saving, and all that is saved
\* of the records that s has no approval for.
LEMMA SavingElsewhere ==
  ASSUME Inv, NEW s \in Sessions, \A t \in Sessions \ {s} : op'[t] = op[t],
         NEW r, ~Approving(s, r), ~Approving(s, r)'
  PROVE  Saving(r)' = Saving(r)
<1>1. ASSUME NEW t \in Employees
      PROVE  CutBy(t, r)' = CutBy(t, r)
  BY DEF Approving, CutBy, At, Sessions
<1> QED BY <1>1 DEF Saving

\* The file after updateLoan.
LEMMA Written ==
  ASSUME TypeOK, NEW r \in DOMAIN loans, NEW loan \in Loan,
         loans' = [loans EXCEPT ![r] = loan]
  PROVE  /\ loans' \in Seq(Loan) /\ Len(loans') = Len(loans) /\ DOMAIN loans' = DOMAIN loans
         /\ loans'[r] = loan
         /\ \A q \in DOMAIN loans \ {r} : loans'[q] = loans[q]
<1>1. loans \in Seq(Loan) /\ r \in 1..Len(loans) /\ DOMAIN loans = 1..Len(loans)
  BY File DEF TypeOK
<1>2. loans' \in Seq(Loan) /\ Len(loans') = Len(loans)
  BY <1>1, ExceptSeq
<1> QED BY <1>1, <1>2

\* Session s writes its copy back and goes to the menu: a manager's loan open
\* and assigned, an employee's loan decided.
LEMMA WriteBack ==
  ASSUME Inv, NEW s \in Sessions, op[s].pc \in {"assign", "save"}, Finish(s),
         NEW loan \in Loan, loan.loanId = op[s].loan.loanId,
         UpdateLoan(s, loan),
         UNCHANGED <<audit, crashes, faults>>,
         loan.status = "APPROVED" <=> Approving(s, op[s].row)
  PROVE  Inv'
<1> DEFINE r == op[s].row
<1>1. /\ TypeOK /\ op \in [Sessions -> Op] /\ Sound(s)
      /\ op[s].pc \in Working /\ r \in DOMAIN loans /\ loans[r].loanId = loan.loanId
  BY DEF Inv, TypeOK, Op, Sound, Copied, Working, Deciding
<1>2. /\ loans' \in Seq(Loan) /\ Len(loans') = Len(loans) /\ DOMAIN loans' = DOMAIN loans
      /\ loans'[r] = loan
      /\ \A q \in DOMAIN loans \ {r} : loans'[q] = loans[q]
  BY <1>1, Written DEF UpdateLoan
<1>3. /\ op'[s] = Idle /\ op'[s].pc = "menu"
      /\ op' \in [Sessions -> Op]
      /\ \A t \in Sessions \ {s} : op'[t] = op[t]
  BY <1>1, IdleIsOp DEF Finish
<1>4. \A q \in DOMAIN loans : loans'[q].loanId = loans[q].loanId
  BY <1>1, <1>2
<1>5. TypeOK'
  BY <1>1, <1>2, <1>3 DEF TypeOK, Op, audit
<1>6. ASSUME NEW t \in Sessions
      PROVE  Sound(t)'
  <2>1. CASE t = s
    BY <1>3, <2>1 DEF Sound, Appending, Copied, Assigning, Processing, At, Working, Deciding
  <2>2. CASE t # s
    <3>1. Sound(t) /\ op'[t] = op[t]
      BY <1>3, <2>2 DEF Inv
    <3>2. op[t].pc \in Working => op[t].row \in DOMAIN loans
      BY <3>1 DEF Sound, Copied
    <3>3. op[t].pc \in Working /\ op[t].row \notin raced => loans'[op[t].row] = loans[op[t].row]
      BY <1>1, <1>2, <2>2, <3>2, Alone
    <3>4. Appending(t)' /\ Copied(t)'
      BY <1>2, <1>4, <3>1 DEF Sound, Appending, Copied, At, audit
    <3>5. Assigning(t)' /\ Processing(t)'
      BY <3>1, <3>3 DEF Sound, Assigning, Processing, At, Working, Deciding, audit,
         Assignable, Processable
    <3> QED BY <3>4, <3>5 DEF Sound
  <2> QED BY <2>1, <2>2
<1>7. RaceSeen' /\ Ids' /\ NotYet'
  BY <1>1, <1>2, <1>3, <1>4 DEF Inv, RaceSeen, Ids, NotYet, At, audit
<1>8. ASSUME NEW q \in DOMAIN loans \ raced
      PROVE  (credited[q] = (IF loans[q].status = "APPROVED" THEN 1 ELSE 0)
                             + (IF Saving(q) = {} THEN 0 ELSE 1) + cut[q])'
  <2>1. ~Approving(s, q)'
    BY <1>3 DEF Approving, At
  <2>2. CASE q # r
    <3>1. Saving(q)' = Saving(q)
      BY <1>3, <2>1, <2>2, SavingElsewhere DEF Approving
    <3> QED BY <1>2, <2>2, <3>1 DEF Inv, CreditsExplained, audit
  <2>3. CASE q = r
    <3>1. Saving(q) = IF Approving(s, q) THEN {s} ELSE {}
      BY <1>1, <2>3, SavingAlone
    <3>2. Saving(q)' = {}
      <4>1. \A t \in Employees : ~Approving(t, q)'
        BY <1>1, <1>3, <2>1, <2>3, Alone DEF Approving, At, Working, Deciding, Sessions
      <4> QED BY <4>1 DEF Saving, CutBy, Approving
    <3>3. loans[q].status # "APPROVED"
      BY <1>1, <2>3 DEF Sound, Assigning, Processing, Assignable, Processable, At, Deciding
    <3>4. (IF Saving(q) = {} THEN 0 ELSE 1) = (IF Approving(s, q) THEN 1 ELSE 0)
      BY <3>1
    <3>5. cut[q] \in Nat
      BY <1>1, File DEF TypeOK
    <3>6. credited[q] = (IF Approving(s, q) THEN 1 ELSE 0) + cut[q]
      BY <3>3, <3>4, <3>5 DEF Inv, CreditsExplained
    <3> QED BY <1>2, <2>3, <3>2, <3>5, <3>6 DEF audit
  <2> QED BY <2>2, <2>3
<1>9. CreditsExplained'
  BY <1>2, <1>8 DEF CreditsExplained, audit
<1> QED BY <1>5, <1>6, <1>7, <1>9 DEF Inv

LEMMA WriteAssignedInv == ASSUME Inv, NEW s \in Sessions, WriteAssigned(s) PROVE Inv'
<1>1. TypeOK /\ op \in [Sessions -> Op] /\ \A r : ~Approving(s, r)
  BY DEF Inv, TypeOK, Op, WriteAssigned, Approving, At
<1>2. CASE Fault /\ UNCHANGED loans
  BY <1>1, <1>2, ToMenu, FaultBound DEF WriteAssigned, audit, TypeOK
<1>3. ASSUME NEW e \in Employees, UNCHANGED faults,
             UpdateLoan(s, [op[s].loan EXCEPT !.assignedTo = e, !.status = "PROCESSING"])
      PROVE  Inv'
  <2> DEFINE loan == [op[s].loan EXCEPT !.assignedTo = e, !.status = "PROCESSING"]
  <2>1. loan \in Loan /\ loan.loanId = op[s].loan.loanId /\ loan.status = "PROCESSING"
    BY <1>1 DEF Op, Loan, Statuses
  <2>2. op[s].pc \in {"assign", "save"} /\ Finish(s) /\ UNCHANGED <<audit, crashes, faults>>
    BY <1>3 DEF WriteAssigned, At
  <2>3. UpdateLoan(s, loan)
    BY <1>3
  <2> HIDE DEF loan
  <2> QED BY <1>1, <2>1, <2>2, <2>3, WriteBack
<1> QED BY <1>2, <1>3 DEF WriteAssigned

\* A session that goes to the menu without writing the file disturbs nobody.
LEMMA Leaving ==
  ASSUME Inv, NEW s \in Sessions, Finish(s),
         UNCHANGED <<loans, credited, raced, overlapped, crashes>>,
         faults' \in 0..MaxFaults, cut' \in [Rows -> Nat]
  PROVE  /\ TypeOK' /\ (\A t \in Sessions : Sound(t)') /\ RaceSeen' /\ Ids'
         /\ \A r : ~Approving(s, r)'
         /\ \A t \in Sessions \ {s} : op'[t] = op[t]
<1>1. TypeOK /\ op \in [Sessions -> Op]
  BY DEF Inv, TypeOK, Op
<1>2. /\ op'[s].pc = "menu" /\ op' \in [Sessions -> Op]
      /\ \A t \in Sessions \ {s} : op'[t] = op[t]
  BY <1>1, IdleIsOp DEF Finish
<1>3. TypeOK'
  BY <1>1, <1>2 DEF TypeOK, Op
<1>4. Sound(s)'
  BY <1>2 DEF Sound, Appending, Copied, Assigning, Processing, At, Working, Deciding
<1>5. \A t \in Sessions : Sound(t)'
  BY <1>2, <1>4, Elsewhere DEF Inv
<1>6. RaceSeen' /\ Ids'
  BY <1>2 DEF Inv, RaceSeen, Ids, At
<1> QED BY <1>2, <1>3, <1>5, <1>6 DEF Approving, At

LEMMA SaveLoanInv == ASSUME Inv, NEW s \in Sessions, SaveLoan(s) PROVE Inv'
<1>1. /\ TypeOK /\ op \in [Sessions -> Op] /\ Sound(s) /\ At(s, "save")
      /\ op[s].loan \in Loan
  BY DEF Inv, TypeOK, Op, SaveLoan
<1>2. CASE UpdateLoan(s, op[s].loan) /\ UNCHANGED <<cut, faults>>
  <2>1. op[s].loan.status = "APPROVED" <=> Approving(s, op[s].row)
    BY <1>1 DEF Approving
  <2> QED BY <1>1, <1>2, <2>1, WriteBack DEF SaveLoan, audit, At
<1>3. CASE /\ Fault
           /\ cut' = [r \in Rows |-> cut[r] + CutBy(s, r)]
           /\ UNCHANGED loans
  <2>1. cut' \in [Rows -> Nat] /\ \A r \in Rows : cut'[r] = cut[r] + CutBy(s, r)
    BY <1>1, <1>3 DEF TypeOK, CutBy
  <2>2. /\ TypeOK' /\ (\A t \in Sessions : Sound(t)') /\ RaceSeen' /\ Ids'
        /\ \A r : ~Approving(s, r)'
        /\ \A t \in Sessions \ {s} : op'[t] = op[t]
    BY <1>1, <1>3, <2>1, FaultBound, Leaving DEF SaveLoan
  <2>3. \A r : CutBy(s, r) = IF Approving(s, r) THEN 1 ELSE 0
    BY DEF CutBy, Approving
  <2>4. op[s].pc \in Working /\ op[s].row \in DOMAIN loans
    BY <1>1 DEF Sound, Copied, Working, Deciding, At
  <2>5. NotYet'
    BY <1>1, <1>3, <2>1, <2>3, <2>4 DEF Inv, NotYet, Approving, SaveLoan, TypeOK
  <2>6. ASSUME NEW r \in DOMAIN loans \ raced
        PROVE  (credited[r] = (IF loans[r].status = "APPROVED" THEN 1 ELSE 0)
                               + (IF Saving(r) = {} THEN 0 ELSE 1) + cut[r])'
    <3>1. /\ r \in Rows /\ cut[r] \in Nat /\ credited[r] \in Nat
          /\ cut'[r] = cut[r] + CutBy(s, r)
          /\ credited[r] = (IF loans[r].status = "APPROVED" THEN 1 ELSE 0)
                               + (IF Saving(r) = {} THEN 0 ELSE 1) + cut[r]
      BY <1>1, <2>1, File DEF Inv, CreditsExplained, TypeOK
    <3>2. CASE Approving(s, r)
      <4>1. Saving(r) # {}
        BY <1>1, <2>4, <3>2, SavingAlone DEF Approving
      <4>2. \A t \in Employees : ~Approving(t, r)'
        BY <2>2, <2>4, <3>2, Alone DEF Approving, At, Working, Deciding, Sessions
      <4>3. Saving(r)' = {}
        BY <4>2 DEF Saving, CutBy, Approving
      <4> QED BY <1>3, <2>3, <3>1, <3>2, <4>1, <4>3 DEF SaveLoan
    <3>3. CASE ~Approving(s, r)
      <4>1. Saving(r)' = Saving(r)
        BY <2>2, <3>3, SavingElsewhere
      <4> QED BY <1>3, <2>3, <3>1, <3>3, <4>1 DEF SaveLoan
    <3> QED BY <3>2, <3>3
  <2>7. CreditsExplained'
    BY <1>3, <2>6 DEF CreditsExplained, SaveLoan
  <2> QED BY <2>2, <2>5, <2>7 DEF Inv
<1> QED BY <1>2, <1>3 DEF SaveLoan

LEMMA CreditInv == ASSUME Inv, NEW s \in Sessions, Credit(s) PROVE Inv'
<1>1. /\ TypeOK /\ op \in [Sessions -> Op] /\ Sound(s) /\ At(s, "credit")
      /\ op[s].pc \in Working /\ op[s].row \in DOMAIN loans
      /\ \A r : ~Approving(s, r)
  BY DEF Inv, TypeOK, Op, Credit, Sound, Copied, Working, Deciding, Approving, At
<1>2. CASE Fault /\ Finish(s) /\ UNCHANGED credited
  BY <1>1, <1>2, ToMenu, FaultBound DEF Credit, TypeOK
<1>3. CASE /\ op' = [op EXCEPT ![s].pc = "save"]
           /\ credited' = [credited EXCEPT ![op[s].row] = @ + 1]
           /\ UNCHANGED faults
  <2> DEFINE r == op[s].row
  <2>1. /\ op' \in [Sessions -> Op]
        /\ op'[s].pc = "save" /\ op'[s].row = r /\ op'[s].loan = op[s].loan
        /\ \A t \in Sessions \ {s} : op'[t] = op[t]
    BY <1>1, <1>3 DEF Op
  <2>2. /\ r \in Rows /\ credited' \in [Rows -> Nat]
        /\ credited'[r] = credited[r] + 1
        /\ \A q \in Rows \ {r} : credited'[q] = credited[q]
    BY <1>1, <1>3, File DEF TypeOK
  <2>3. TypeOK'
    BY <1>1, <1>3, <2>1, <2>2 DEF TypeOK, Op, Credit
  <2>4. Sound(s)'
    BY <1>1, <2>1 DEF Credit, Sound, Appending, Copied, Assigning, Processing, At,
       Working, Deciding, Processable
  <2>5. \A t \in Sessions : Sound(t)'
    BY <2>1, <2>4, Elsewhere DEF Inv, Credit
  <2>6. RaceSeen' /\ Ids' /\ NotYet'
    BY <1>1, <2>1, <2>2 DEF Inv, RaceSeen, Ids, NotYet, At, Credit
  <2>7. Approving(s, r)' /\ \A q : q # r => ~Approving(s, q)'
    BY <1>1, <2>1 DEF Sound, Processing, Approving, At, Deciding
  <2>8. ASSUME NEW q \in DOMAIN loans \ raced
        PROVE  (credited[q] = (IF loans[q].status = "APPROVED" THEN 1 ELSE 0)
                               + (IF Saving(q) = {} THEN 0 ELSE 1) + cut[q])'
    <3>1. /\ q \in Rows /\ cut[q] \in Nat /\ credited[q] \in Nat
          /\ credited[q] = (IF loans[q].status = "APPROVED" THEN 1 ELSE 0)
                               + (IF Saving(q) = {} THEN 0 ELSE 1) + cut[q]
      BY <1>1, File DEF Inv, CreditsExplained, TypeOK
    <3>2. CASE q = r
      <4>1. Saving(q) = {}
        BY <1>1, <3>2, SavingAlone
      <4>2. s \in Employees
        BY <1>1 DEF Sound, Processing, Deciding, At
      <4>3. s \in Saving(q)'
        BY <2>7, <3>2, <4>2 DEF Saving, CutBy, Approving
      <4> QED BY <2>2, <3>1, <3>2, <4>1, <4>3 DEF Credit
    <3>3. CASE q # r
      <4>1. Saving(q)' = Saving(q)
        BY <1>1, <2>1, <2>7, <3>3, SavingElsewhere
      <4> QED BY <2>2, <3>1, <3>3, <4>1 DEF Credit
    <3> QED BY <3>2, <3>3
  <2>9. CreditsExplained'
    BY <2>8 DEF CreditsExplained, Credit
  <2> QED BY <2>3, <2>5, <2>6, <2>9 DEF Inv
<1> QED BY <1>2, <1>3 DEF Credit

LEMMA AppendLoanInv == ASSUME Inv, NEW s \in Sessions, AppendLoan(s) PROVE Inv'
<1>1. /\ TypeOK /\ op \in [Sessions -> Op] /\ Sound(s) /\ At(s, "append")
      /\ op[s].loan \in Loan
      /\ \A r : ~Approving(s, r)
  BY DEF Inv, TypeOK, Op, AppendLoan, Approving, At
<1>2. CASE Fault /\ UNCHANGED <<loans, overlapped>>
  BY <1>1, <1>2, ToMenu, FaultBound DEF AppendLoan, TypeOK
<1>3. CASE /\ Len(loans) < MaxLoans
           /\ loans' = Append(loans, op[s].loan)
           /\ overlapped' = (overlapped \/ \E t \in Sessions \ {s} : At(t, "append"))
           /\ UNCHANGED faults
  <2> DEFINE n == Len(loans) + 1
  <2>1. /\ Len(loans) \in Nat /\ DOMAIN loans = 1..Len(loans)
        /\ \A r \in DOMAIN loans : loans[r] \in Loan
        /\ n \in Rows /\ n \notin DOMAIN loans
    BY <1>1, <1>3, File, LoansAssumption DEF Rows
  <2>2. /\ loans' \in Seq(Loan) /\ Len(loans') = n /\ DOMAIN loans' = DOMAIN loans \cup {n}
        /\ loans'[n] = op[s].loan
        /\ \A r \in DOMAIN loans : loans'[r] = loans[r]
    BY <1>1, <1>3, <2>1, AppendProperties DEF TypeOK
  <2>3. /\ op' \in [Sessions -> Op] /\ op'[s].pc = "menu"
        /\ \A t \in Sessions \ {s} : op'[t] = op[t]
    BY <1>1, IdleIsOp DEF AppendLoan, Finish
  <2>4. TypeOK'
    <3>1. Len(loans') <= MaxLoans /\ overlapped' \in BOOLEAN
      BY <1>3, <2>1, <2>2, LoansAssumption, <1>1 DEF TypeOK
    <3> QED BY <1>1, <1>3, <2>2, <2>3, <3>1 DEF TypeOK, Op, AppendLoan
  <2>5. ASSUME NEW t \in Sessions
        PROVE  Sound(t)'
    <3>1. CASE t = s
      BY <2>3, <3>1 DEF Sound, Appending, Copied, Assigning, Processing, At, Working, Deciding
    <3>2. CASE t # s
      <4>1. Sound(t) /\ op'[t] = op[t]
        BY <2>3, <3>2 DEF Inv
      <4>2. Appending(t)'
        <5>1. At(t, "append") => overlapped'
          BY <1>3, <3>2
        <5>2. At(t, "append") => op[t].loan.loanId \in Nat
          BY <1>1 DEF Op, Loan, Rows
        <5> QED BY <2>1, <2>2, <4>1, <5>1, <5>2 DEF Sound, Appending, At
      <4>3. Copied(t)'
        BY <2>2, <4>1 DEF Sound, Copied
      <4>4. op[t].pc \in Working => loans'[op[t].row] = loans[op[t].row]
        BY <2>2, <4>1 DEF Sound, Copied
      <4>5. Assigning(t)' /\ Processing(t)'
        BY <4>1, <4>4 DEF AppendLoan, Sound, Assigning, Processing, At, Working, Deciding,
           Assignable, Processable
      <4> QED BY <4>2, <4>3, <4>5 DEF Sound
    <3> QED BY <3>1, <3>2
  <2>6. RaceSeen' /\ NotYet'
    BY <2>1, <2>2, <2>3 DEF Inv, RaceSeen, NotYet, At, AppendLoan
  <2>7. Ids'
    BY <1>1, <1>3, <2>1, <2>2 DEF Inv, Ids, Sound, Appending
  <2>8. \A r : Saving(r)' = Saving(r)
    <3>1. \A r : ~Approving(s, r)'
      BY <2>3 DEF Approving, At
    <3> QED BY <1>1, <2>3, <3>1, SavingElsewhere
  <2>9. CreditsExplained'
    <3>1. Saving(n) = {}
      BY <2>1, SavingInFile
    <3>2. loans'[n].status = "PENDING"
      BY <1>1, <2>2 DEF Sound, Appending, Application
    <3>3. credited[n] = 0 /\ cut[n] = 0
      BY <2>1 DEF Inv, NotYet
    <3>4. ASSUME NEW r \in DOMAIN loans' \ raced
          PROVE  credited[r] = (IF loans'[r].status = "APPROVED" THEN 1 ELSE 0)
                                 + (IF Saving(r) = {} THEN 0 ELSE 1) + cut[r]
      <4>1. CASE r = n
        BY <3>1, <3>2, <3>3, <4>1
      <4>2. CASE r \in DOMAIN loans
        BY <2>2, <4>2 DEF Inv, CreditsExplained
      <4> QED BY <2>2, <4>1, <4>2
    <3> QED BY <2>8, <3>4 DEF CreditsExplained, AppendLoan
  <2> QED BY <2>4, <2>5, <2>6, <2>7, <2>9 DEF Inv
<1> QED BY <1>2, <1>3 DEF AppendLoan

LEMMA CrashInv == ASSUME Inv, Crash PROVE Inv'
<1>1. TypeOK /\ crashes' \in 0..MaxCrashes
  BY LoansAssumption DEF Inv, TypeOK, Crash
<1>2. op' \in [Sessions -> Op] /\ \A s \in Sessions : op'[s].pc = "menu"
  BY IdleIsOp DEF Crash
<1>3. /\ cut' \in [Rows -> Nat]
      /\ \A r \in Rows : cut'[r] = cut[r] + (IF Saving(r) = {} THEN 0 ELSE 1)
  BY <1>1 DEF Crash, TypeOK
<1>4. TypeOK'
  BY <1>1, <1>2, <1>3 DEF Crash, TypeOK, Op
<1>5. \A s \in Sessions : Sound(s)'
  BY <1>2 DEF Sound, Appending, Copied, Assigning, Processing, At, Working, Deciding
<1>6. RaceSeen' /\ Ids'
  BY <1>2 DEF Inv, RaceSeen, Ids, At, Crash
<1>7. NotYet'
  BY <1>3, SavingInFile DEF Inv, NotYet, Crash
<1>8. \A r : Saving(r)' = {}
  BY <1>2 DEF Saving, CutBy, At, Sessions
<1>9. ASSUME NEW r \in DOMAIN loans \ raced
      PROVE  credited[r] = (IF loans[r].status = "APPROVED" THEN 1 ELSE 0) + cut'[r]
  <2>1. /\ r \in Rows /\ cut[r] \in Nat /\ credited[r] \in Nat
        /\ credited[r] = (IF loans[r].status = "APPROVED" THEN 1 ELSE 0)
                             + (IF Saving(r) = {} THEN 0 ELSE 1) + cut[r]
    BY <1>1, File DEF Inv, CreditsExplained, TypeOK
  <2> QED BY <1>3, <2>1
<1>10. CreditsExplained'
  <2>1. \A r \in Rows : cut'[r] \in Nat
    BY <1>3
  <2>2. DOMAIN loans \subseteq Rows
    BY <1>1, File
  <2> QED BY <1>8, <1>9, <2>1, <2>2 DEF CreditsExplained, Crash
<1> QED BY <1>4, <1>5, <1>6, <1>7, <1>10 DEF Inv

-----------------------------------------------------------------------------
(* Theorems *)

LEMMA InitInv == ASSUME Init PROVE Inv
<1>1. /\ loans = <<>> /\ op = [s \in Sessions |-> Idle]
      /\ credited = [r \in Rows |-> 0] /\ cut = [r \in Rows |-> 0]
      /\ raced = {} /\ overlapped = FALSE /\ crashes = 0 /\ faults = 0
  BY DEF Init
<1>2. loans \in Seq(Loan) /\ Len(loans) = 0 /\ DOMAIN loans = {}
  BY <1>1, EmptySeq
<1>3. op \in [Sessions -> Op] /\ \A s \in Sessions : op[s].pc = "menu"
  BY <1>1, IdleIsOp
<1>4. TypeOK
  <2>1. MaxLoans \in Nat /\ 0 <= MaxLoans /\ 0 \in 0..MaxCrashes /\ 0 \in 0..MaxFaults
    BY LoansAssumption
  <2>2. credited \in [Rows -> Nat] /\ cut \in [Rows -> Nat]
    BY <1>1
  <2> QED BY <1>1, <1>2, <1>3, <2>1, <2>2 DEF TypeOK, Op
<1>5. \A s \in Sessions : Sound(s)
  BY <1>3 DEF Sound, Appending, Copied, Assigning, Processing, At, Working, Deciding
<1>6. RaceSeen /\ Ids /\ NotYet /\ CreditsExplained
  BY <1>1, <1>2, <1>3 DEF RaceSeen, Ids, NotYet, CreditsExplained, At
<1> QED BY <1>4, <1>5, <1>6 DEF Inv

LEMMA NextInv == ASSUME Inv, [Next]_vars PROVE Inv'
<1>1. CASE UNCHANGED vars
  <2>1. /\ loans' = loans /\ op' = op /\ credited' = credited /\ cut' = cut /\ raced' = raced
        /\ overlapped' = overlapped /\ crashes' = crashes /\ faults' = faults
    BY <1>1 DEF vars, audit
  <2>2. TypeOK'
    BY <2>1 DEF Inv, TypeOK
  <2>3. \A s \in Sessions : Sound(s)'
    BY <2>1, Elsewhere DEF Inv
  <2>4. RaceSeen' /\ Ids' /\ NotYet'
    BY <2>1 DEF Inv, RaceSeen, Ids, NotYet, At
  <2>5. \A r : Saving(r)' = Saving(r)
    BY <2>1 DEF Saving, CutBy, At
  <2>6. CreditsExplained'
    BY <2>1, <2>5 DEF Inv, CreditsExplained
  <2> QED BY <2>2, <2>3, <2>4, <2>6 DEF Inv
<1>2. ASSUME Next
      PROVE  Inv'
  BY <1>2, ReadLoanIdInv, AppendLoanInv, ListUnassignedInv, CancelInv, ReadToAssignInv,
     WriteAssignedInv, ReadToProcessInv, ApproveInv, RejectInv, NoActionInv, CreditInv,
     SaveLoanInv, CrashInv DEF Next
<1> QED BY <1>1, <1>2

LEMMA Invariance == Spec => []Inv
BY InitInv, NextInv, PTL DEF Spec

\* The file holds at most MaxLoans loans, and every handler's local variables
\* have the types of the C variables they model.
THEOREM TypeCorrect == Spec => []TypeOK
BY Invariance, PTL DEF Inv

\* employee.c keeps its copy of a loan over a prompt, a credit and a save, and
\* no step of another session changes the record behind it, as long as no two
\* managers work on that record at the same time.
THEOREM CopyStaysCurrent == Spec => []CopyCurrent
<1>1. Inv => CopyCurrent
  BY DEF Inv, Sound, Copied, Processing, Working, Deciding, CopyCurrent, Sessions, At
<1> QED BY <1>1, Invariance, PTL

\* Every credit of a loan is its approval, or one that a crash or a failed
\* updateLoan cut off from the status (employee.c credits the account first).
THEOREM CreditsAreExplained == Spec => []CreditsExplained
BY Invariance, PTL DEF Inv

\* A loan's id is its position in the file, so that find_loan_record finds it,
\* until an application is appended during another one (addLoan reads the last
\* id and appends with two calls).
THEOREM IdsArePositions == Spec => []IdsUntilOverlap
<1>1. Inv => IdsUntilOverlap
  BY DEF Inv, Ids, IdsUntilOverlap
<1> QED BY <1>1, Invariance, PTL

\* No step takes a loan back: a decision is final, an employee keeps his loan,
\* and no record is lost, as long as no two managers work on the loan at once.
THEOREM LoansAdvance == Spec => LoansOnlyAdvance
<1> DEFINE Advanced == \A r \in DOMAIN loans :
                         r \in DOMAIN loans' /\ (r \notin raced' => Advances(r))
<1>1. ASSUME Inv, [Next]_vars
      PROVE  Advanced
  <2>1. /\ TypeOK
        /\ DOMAIN loans = 1..Len(loans) /\ Len(loans) \in Nat
        /\ \A r \in DOMAIN loans : loans[r] \in Loan
    BY <1>1, File DEF Inv
  <2>2. CASE UNCHANGED loans
    BY <2>2 DEF Advances
  <2>3. ASSUME NEW s \in Sessions, AppendLoan(s), loans' = Append(loans, op[s].loan)
        PROVE  Advanced
    <3>1. op[s].loan \in Loan
      BY <2>1 DEF TypeOK
    <3>2. \A r \in DOMAIN loans : r \in DOMAIN loans' /\ loans'[r] = loans[r]
      BY <2>1, <2>3, <3>1, AppendProperties DEF TypeOK
    <3> QED BY <3>2 DEF Advances
  <2>4. ASSUME NEW s \in Sessions, op[s].pc \in {"assign", "save"}, raced' = raced,
               NEW loan \in Loan, UpdateLoan(s, loan), loan.loanId = op[s].loan.loanId,
               op[s].row \notin raced =>
                 /\ Rank(loan) > Rank(loans[op[s].row])
                 /\ loans[op[s].row].assignedTo # Nobody =>
                      loan.assignedTo = loans[op[s].row].assignedTo
        PROVE  Advanced
    <3>1. op[s].row \in DOMAIN loans /\ loans[op[s].row].loanId = loan.loanId
      BY <1>1, <2>4 DEF Inv, Sound, Copied, Working, Deciding
    <3>2. /\ DOMAIN loans' = DOMAIN loans
          /\ loans'[op[s].row] = loan
          /\ \A r \in DOMAIN loans \ {op[s].row} : loans'[r] = loans[r]
      BY <2>1, <2>4, <3>1, Written DEF UpdateLoan
    <3> QED BY <2>4, <3>1, <3>2 DEF Advances
  <2>5. ASSUME NEW s \in Sessions, WriteAssigned(s), NEW e \in Employees,
               UpdateLoan(s, [op[s].loan EXCEPT !.assignedTo = e, !.status = "PROCESSING"])
        PROVE  Advanced
    <3> DEFINE loan == [op[s].loan EXCEPT !.assignedTo = e, !.status = "PROCESSING"]
    <3>1. op[s].loan \in Loan
      BY <2>1 DEF TypeOK
    <3>2. loan \in Loan /\ loan.loanId = op[s].loan.loanId /\ loan.status = "PROCESSING"
      BY <3>1 DEF Loan, Statuses
    <3>3. op[s].pc \in {"assign", "save"} /\ raced' = raced /\ UpdateLoan(s, loan)
      BY <2>5 DEF WriteAssigned, audit, At
    <3>4. op[s].row \notin raced => Assignable(loans[op[s].row])
      BY <1>1, <2>5 DEF Inv, Sound, Assigning, WriteAssigned
    <3> HIDE DEF loan
    <3>5. op[s].row \notin raced =>
            /\ Rank(loan) > Rank(loans[op[s].row])
            /\ loans[op[s].row].assignedTo = Nobody
      BY <3>2, <3>4 DEF Rank, Assignable
    <3> QED BY <2>4, <3>2, <3>3, <3>5
  <2>6. ASSUME NEW s \in Sessions, SaveLoan(s), UpdateLoan(s, op[s].loan)
        PROVE  Advanced
    <3>1. op[s].loan \in Loan
      BY <2>1 DEF TypeOK
    <3>2. op[s].pc \in {"assign", "save"} /\ raced' = raced
      BY <2>6 DEF SaveLoan, At
    <3>3. /\ op[s].loan.assignedTo = s /\ op[s].loan.status \in {"APPROVED", "REJECTED"}
          /\ op[s].row \notin raced => Processable(s, loans[op[s].row])
      BY <1>1, <2>6 DEF Inv, Sound, Processing, SaveLoan, At, Deciding
    <3>4. op[s].row \notin raced =>
            /\ Rank(op[s].loan) > Rank(loans[op[s].row])
            /\ op[s].loan.assignedTo = loans[op[s].row].assignedTo
      BY <3>3 DEF Rank, Processable
    <3> QED BY <2>4, <2>6, <3>1, <3>2, <3>4
  <2> HIDE DEF Advanced
  <2> QED BY <1>1, <2>2, <2>3, <2>5, <2>6 DEF Next, vars, audit, ReadLoanId, AppendLoan,
      ListUnassigned, Cancel, ReadToAssign, WriteAssigned, ReadToProcess, Approve, Reject,
      NoAction, Credit, SaveLoan, Crash
<1> QED BY <1>1, Invariance, PTL DEF Spec, LoansOnlyAdvance
=============================================================================
