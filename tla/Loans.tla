------------------------------- MODULE Loans -------------------------------
(***************************************************************************)
(* Loans: a customer applies (customer.c), a manager assigns the loan to   *)
(* an employee (manager.c), and the employee approves it, which credits    *)
(* the customer's account, or rejects it (employee.c).  The sessions share *)
(* data/loans.dat and work on copies of its records.                       *)
(*                                                                         *)
(* A step is one call of the data-access layer.  Nothing keeps the steps   *)
(* of two sessions apart (module FileLocks); one user has one session      *)
(* (module Sessions).  The credit itself is module Ledger's CreditLoan.    *)
(***************************************************************************)
EXTENDS Naturals, Sequences

CONSTANTS
  Customers, Employees, Managers,  \* users, one session each
  Nobody,      \* assignedToEmployeeId 0
  MaxLoans,    \* bound: records in data/loans.dat
  MaxCrashes,  \* bound: crashes of the server process
  MaxFaults    \* bound: writes that fail

Sessions == Customers \cup Employees \cup Managers

ASSUME LoansAssumption ==
  /\ Nobody \notin Employees
  /\ Customers \cap Employees = {}
  /\ Customers \cap Managers = {}
  /\ Employees \cap Managers = {}
  /\ MaxLoans \in Nat \ {0}
  /\ {MaxCrashes, MaxFaults} \subseteq Nat

VARIABLES
  loans,       \* data/loans.dat, in file order
  op,          \* the handler each session is in, with its local variables
  credited,    \* history: how often each record's amount was credited
  cut,         \* history: credits whose updateLoan failed or was cut by a crash
  raced,       \* history: records that two managers worked on at the same time
  overlapped,  \* history: an application was appended during another one
  crashes, faults  \* how much of each bound is used

audit == <<credited, cut, raced, overlapped>>
vars  == <<loans, op, audit, crashes, faults>>

-----------------------------------------------------------------------------
(* Records *)

Statuses == {"PENDING", "PROCESSING", "APPROVED", "REJECTED"}
Rows     == 1..MaxLoans

Loan == [loanId : Rows, status : Statuses, assignedTo : Employees \cup {Nobody}]

Application(id) == [loanId |-> id, status |-> "PENDING", assignedTo |-> Nobody]

\* A session between two menu choices.
Idle == [pc |-> "menu", row |-> 1, loan |-> Application(1)]

Init ==
  /\ loans = <<>>
  /\ op = [s \in Sessions |-> Idle]
  /\ credited = [r \in Rows |-> 0]
  /\ cut = [r \in Rows |-> 0]
  /\ raced = {}
  /\ overlapped = FALSE
  /\ crashes = 0 /\ faults = 0

-----------------------------------------------------------------------------
(* The data-access layer *)

\* Variant: the id of the last record is not incremented.
LastLoanId == IF loans = <<>> THEN 1 ELSE loans[Len(loans)].loanId

\* Variant: records are counted from zero.
NextLoanIdFromZero == IF loans = <<>> THEN 0 ELSE loans[Len(loans)].loanId + 1

\* The id after that of the last record.
GetNextLoanId == IF loans = <<>> THEN 1 ELSE loans[Len(loans)].loanId + 1

\* find_loan_record stops at the first record with the id.
FindLoanRecord(id, r) ==
  /\ r \in DOMAIN loans
  /\ loans[r].loanId = id
  /\ \A q \in 1..(r - 1) : loans[q].loanId # id

At(s, pc) == op[s].pc = pc
Finish(s) == op' = [op EXCEPT ![s] = Idle]
Work(s, pc, r, loan) == op' = [op EXCEPT ![s] = [pc |-> pc, row |-> r, loan |-> loan]]

\* A write of this step fails.
Fault == faults < MaxFaults /\ faults' = faults + 1

\* getLoan succeeds: session s goes on to pc with a copy of record r.
GetLoan(s, pc, id, r) == FindLoanRecord(id, r) /\ Work(s, pc, r, loans[r])

\* updateLoan of the session's copy with new fields.
UpdateLoan(s, loan) == loans' = [loans EXCEPT ![op[s].row] = loan]

-----------------------------------------------------------------------------
(* customer.c: apply for a loan *)

\* addLoan takes the id after that of the last record ...
ReadLoanId(s) ==
  /\ s \in Customers /\ At(s, "menu")
  /\ Len(loans) < MaxLoans
  /\ Work(s, "append", 1, Application(GetNextLoanId))
  /\ UNCHANGED <<loans, audit, crashes, faults>>

\* ... and appends the record with a second call, or fails to.
AppendLoan(s) ==
  /\ At(s, "append")
  /\ Finish(s)
  /\ \/ /\ Len(loans) < MaxLoans
        /\ loans' = Append(loans, op[s].loan)
        /\ overlapped' = (overlapped \/ \E t \in Sessions \ {s} : At(t, "append"))
        /\ UNCHANGED faults
     \/ Fault /\ UNCHANGED <<loans, overlapped>>
  /\ UNCHANGED <<credited, cut, raced, crashes>>

-----------------------------------------------------------------------------
(* manager.c: assign a loan to an employee *)

\* Variant: loans that somebody works on can be assigned again.
AssignableIfOpen(loan) == loan.status \in {"PENDING", "PROCESSING"}

Assignable(loan) == loan.assignedTo = Nobody /\ loan.status = "PENDING"

\* The handler goes on to its two prompts if the list is not empty.
ListUnassigned(s) ==
  /\ s \in Managers /\ At(s, "menu")
  /\ \E r \in DOMAIN loans : Assignable(loans[r])
  /\ op' = [op EXCEPT ![s].pc = "choose"]
  /\ UNCHANGED <<loans, audit, crashes, faults>>

\* "back", an invalid answer, no such loan or employee, or a disconnect.
Cancel(s) ==
  /\ At(s, "choose")
  /\ Finish(s)
  /\ UNCHANGED <<loans, audit, crashes, faults>>

\* Any loan may be typed, listed or not: it is checked again.
ReadToAssign(s) ==
  /\ At(s, "choose")
  /\ \E id \in Rows, r \in Rows :
       /\ FindLoanRecord(id, r)
       /\ IF Assignable(loans[r]) THEN Work(s, "assign", r, loans[r]) ELSE Finish(s)
       /\ raced' = IF \E t \in Managers \ {s} : At(t, "assign") /\ op[t].row = r
                     THEN raced \cup {r} ELSE raced
  /\ UNCHANGED <<loans, credited, cut, overlapped, crashes, faults>>

\* The copy goes back with an employee and status PROCESSING.
WriteAssigned(s) ==
  /\ At(s, "assign")
  /\ Finish(s)
  /\ \/ /\ \E e \in Employees :
             UpdateLoan(s, [op[s].loan EXCEPT !.assignedTo = e, !.status = "PROCESSING"])
        /\ UNCHANGED faults
     \/ Fault /\ UNCHANGED loans
  /\ UNCHANGED <<audit, crashes>>

-----------------------------------------------------------------------------
(* employee.c: process a loan *)

\* Variant: only the employee is checked.
ProcessableAgain(s, loan) == loan.assignedTo = s

Processable(s, loan) ==
  loan.assignedTo = s /\ loan.status \in {"PENDING", "PROCESSING"}

\* The other loans the employee may type are refused.
ReadToProcess(s) ==
  /\ s \in Employees /\ At(s, "menu")
  /\ \E id \in Rows, r \in Rows :
       /\ GetLoan(s, "decide", id, r)
       /\ Processable(s, loans[r])
  /\ UNCHANGED <<loans, audit, crashes, faults>>

Approve(s) ==
  /\ At(s, "decide")
  /\ op' = [op EXCEPT ![s].pc = "credit", ![s].loan.status = "APPROVED"]
  /\ UNCHANGED <<loans, audit, crashes, faults>>

Reject(s) ==
  /\ At(s, "decide")
  /\ op' = [op EXCEPT ![s].pc = "save", ![s].loan.status = "REJECTED"]
  /\ UNCHANGED <<loans, audit, crashes, faults>>

\* Any other answer; a disconnect reads as the empty one.
NoAction(s) ==
  /\ At(s, "decide")
  /\ Finish(s)
  /\ UNCHANGED <<loans, audit, crashes, faults>>

\* updateAccount credits the amount; if it fails the loan stays as it is.
Credit(s) ==
  /\ At(s, "credit")
  /\ \/ /\ op' = [op EXCEPT ![s].pc = "save"]
        /\ credited' = [credited EXCEPT ![op[s].row] = @ + 1]
        /\ UNCHANGED faults
     \/ Fault /\ Finish(s) /\ UNCHANGED credited
  /\ UNCHANGED <<loans, cut, raced, overlapped, crashes>>

\* History: session s leaves its handler with the loan credited but not saved.
CutBy(s, r) ==
  IF At(s, "save") /\ op[s].row = r /\ op[s].loan.status = "APPROVED" THEN 1 ELSE 0

\* Variant: the decision is not written.
SaveLoanNot(s) ==
  /\ At(s, "save")
  /\ Finish(s)
  /\ UNCHANGED <<loans, audit, crashes, faults>>

SaveLoan(s) ==
  /\ At(s, "save")
  /\ Finish(s)
  /\ \/ UpdateLoan(s, op[s].loan) /\ UNCHANGED <<cut, faults>>
     \/ /\ Fault
        /\ cut' = [r \in Rows |-> cut[r] + CutBy(s, r)]
        /\ UNCHANGED loans
  /\ UNCHANGED <<credited, raced, overlapped, crashes>>

-----------------------------------------------------------------------------

\* Employees with a credited loan that is not saved yet.
Saving(r) == {s \in Employees : CutBy(s, r) = 1}

\* The process ends: the handlers are gone, the file stays.
Crash ==
  /\ crashes < MaxCrashes /\ crashes' = crashes + 1
  /\ op' = [s \in Sessions |-> Idle]
  /\ cut' = [r \in Rows |-> IF Saving(r) = {} THEN cut[r] ELSE cut[r] + 1]
  /\ UNCHANGED <<loans, credited, raced, overlapped, faults>>

Next ==
  \/ \E s \in Sessions :
       \/ ReadLoanId(s) \/ AppendLoan(s)
       \/ ListUnassigned(s) \/ Cancel(s) \/ ReadToAssign(s) \/ WriteAssigned(s)
       \/ ReadToProcess(s) \/ Approve(s) \/ Reject(s) \/ NoAction(s)
       \/ Credit(s) \/ SaveLoan(s)
  \/ Crash

Spec == Init /\ [][Next]_vars

-----------------------------------------------------------------------------
(* Properties *)

\* Types of the file and of the handlers' local variables.
TypeOK ==
  /\ loans \in Seq(Loan) /\ Len(loans) <= MaxLoans
  /\ op \in [Sessions -> [pc : {"menu", "append", "choose", "assign", "decide",
                                "credit", "save"},
                          row : Rows, loan : Loan]]
  /\ credited \in [Rows -> Nat] /\ cut \in [Rows -> Nat]
  /\ raced \subseteq Rows /\ overlapped \in BOOLEAN
  /\ crashes \in 0..MaxCrashes /\ faults \in 0..MaxFaults

\* An approved loan was credited once, an open one not at all, except for each
\* time that a crash or a failed updateLoan came between the credit and the
\* status (employee.c credits first) and the loan could be approved again.
\* A loan that two managers assigned at the same time is not covered: the
\* second updateLoan of manager.c may reopen it after it was approved.
CreditsExplained ==
  \A r \in DOMAIN loans \ raced :
    credited[r] = (IF loans[r].status = "APPROVED" THEN 1 ELSE 0)
                    + (IF Saving(r) = {} THEN 0 ELSE 1) + cut[r]

\* While an employee decides on a loan, credits it and saves it, nobody changes
\* the record behind the copy (employee.c keeps it over a prompt), unless two
\* managers raced for it.
CopyCurrent ==
  \A s \in Employees :
    op[s].pc \in {"decide", "credit", "save"} /\ op[s].row \notin raced =>
      /\ op[s].row \in DOMAIN loans
      /\ Processable(s, loans[op[s].row])
      /\ loans[op[s].row].loanId = op[s].loan.loanId
      /\ op[s].pc = "decide" => op[s].loan = loans[op[s].row]

\* Ids are the positions in the file, so that each loan can be found under its
\* id (find_loan_record returns the first), until two applications overlap.
\* From then on a loan may carry the id of an earlier one and never be found.
IdsUntilOverlap == ~overlapped => \A r \in DOMAIN loans : loans[r].loanId = r

\* A loan only advances: a decision is final, an employee keeps a loan, and no
\* record is lost, unless two managers raced for it.
Rank(loan) == CASE loan.status = "PENDING"    -> 0
                [] loan.status = "PROCESSING" -> 1
                [] OTHER                      -> 2
Advances(r) ==
  \/ loans'[r] = loans[r]
  \/ /\ Rank(loans'[r]) > Rank(loans[r])
     /\ loans[r].assignedTo # Nobody => loans'[r].assignedTo = loans[r].assignedTo
     /\ loans'[r].loanId = loans[r].loanId
LoansOnlyAdvance ==
  [][\A r \in DOMAIN loans : r \in DOMAIN loans' /\ (r \notin raced' => Advances(r))]_vars
=============================================================================
