---------------------------- MODULE LedgerProofs ----------------------------
(* Theorems about Ledger, for every value of its constants. *)
EXTENDS Ledger, TLAPS

-----------------------------------------------------------------------------
(* Types *)

LEMMA IdleType == Idle \in Handler
  BY DEF Idle, Blank, OpRecord, Account, Handler, TransferSteps

LEMMA NotOkType ==
  ASSUME NEW o \in Handler
  PROVE  [o EXCEPT !.ok = FALSE] \in Handler
  BY DEF OpRecord, Handler

\* A transfer that goes on to its next step keeps its accounts and its amount.
LEMMA TransferStepType ==
  ASSUME NEW o \in Handler, o.pc \in TransferSteps, NEW pc \in TransferSteps,
         NEW mine \in Account, NEW theirs \in Account
  PROVE  /\ [o EXCEPT !.pc = pc, !.mine = mine, !.theirs = theirs] \in Handler
         /\ [o EXCEPT !.pc = pc, !.theirs = theirs] \in Handler
<1>1. o \in OpRecord /\ o.from \in Accounts /\ o.to \in Accounts /\ o.amount \in Amounts
  BY DEF Handler, TransferSteps
<1>2. pc \in {"menu", "update", "record", "scan", "statusUpdate"} \cup TransferSteps
  OBVIOUS
<1>3. /\ [o EXCEPT !.pc = pc, !.mine = mine, !.theirs = theirs] \in OpRecord
      /\ [o EXCEPT !.pc = pc, !.theirs = theirs] \in OpRecord
  BY <1>1, <1>2 DEF OpRecord
<1> QED BY <1>1, <1>3 DEF Handler, OpRecord

LEMMA PlusType ==
  ASSUME NEW c \in Account, NEW n \in Int
  PROVE  /\ Plus(c, n) \in Account
         /\ Plus(c, n).balance = c.balance + n
         /\ Plus(c, n).isActive = c.isActive
  BY DEF Plus, Account

\* Appending keeps a sequence typed, and with it the cursor in range.
LEMMA JournalType ==
  ASSUME TypeOK, NEW e \in JournalEntry, JournalLogEntry(e)
  PROVE  /\ journal' \in Seq(JournalEntry)
         /\ faults' \in Nat
         /\ cursor <= Len(journal')
<1>1. CASE journal' = Append(journal, e) /\ UNCHANGED faults
  BY <1>1 DEF TypeOK
<1>2. CASE Fault /\ UNCHANGED journal
  BY <1>2 DEF TypeOK, Fault
<1> QED BY <1>1, <1>2 DEF JournalLogEntry

LEMMA UndoType ==
  ASSUME NEW a \in Accounts, NEW old \in Int
  PROVE  Undo(a, old) \in JournalEntry
  BY DEF Undo, JournalEntry

LEMMA CommitEntryType == CommitEntry \in JournalEntry
  BY DEF CommitEntry, JournalEntry

LEMMA InitType == Init => TypeOK
  BY IdleType, LedgerAssumption DEF Init, TypeOK, Account

LEMMA StepType == TypeOK /\ [Next]_vars => TypeOK'
<1> SUFFICES ASSUME TypeOK, [Next]_vars PROVE TypeOK'
    OBVIOUS
<1> USE DEF At, Fault
<1>a. /\ Accounts \subseteq Nat \ {0} /\ Amounts \subseteq Nat \ {0}
      /\ \A n \in Amounts : n \in Int /\ -n \in Int
      /\ \A a \in Accounts : Owner[a] \in Users
  BY LedgerAssumption
<1>b. \A s \in Sessions : op[s] \in Handler /\ op[s] \in OpRecord
  BY DEF TypeOK, Handler
<1>c. \A a \in Accounts : accounts[a] \in Account
  BY DEF TypeOK
<1>1. ASSUME NEW s \in Users, SelectAccount(s) PROVE TypeOK'
  BY <1>1 DEF SelectAccount, TypeOK, disk, boot, audit, bounds
<1>2. ASSUME NEW s \in Users, LeaveAccount(s) PROVE TypeOK'
  BY <1>2 DEF LeaveAccount, TypeOK, disk, boot, audit, bounds
<1>3. ASSUME NEW s \in Sessions, NEW a \in Accounts, NEW type \in {"DEPOSIT", "WITHDRAWAL"},
             NEW n \in Amounts, NEW delta \in Int, ReadAccount(s, a, type, n, delta)
      PROVE TypeOK'
  <2>1. Plus(accounts[a], delta) \in Account
    BY <1>c, PlusType
  <2>2. [Idle EXCEPT !.pc = "update", !.type = type, !.from = a, !.amount = n,
                     !.mine = Plus(accounts[a], delta)] \in Handler
    BY <2>1, IdleType DEF Handler, OpRecord, TransferSteps
  <2>3. op' \in [Sessions -> Handler]
    BY <1>3, <2>2 DEF ReadAccount, TypeOK
  <2>4. raced' \subseteq Accounts
    BY <1>3 DEF ReadAccount, Opens, TypeOK
  <2> QED BY <1>3, <2>3, <2>4 DEF ReadAccount, Begin, TypeOK, disk, boot
<1>4. ASSUME NEW s \in Users, Deposit(s) PROVE TypeOK'
  <2>1. PICK a \in Accounts, n \in Amounts : ReadAccount(s, a, "DEPOSIT", n, n)
    BY <1>4 DEF Deposit
  <2> QED BY <2>1, <1>a, <1>3 DEF Sessions
<1>5. ASSUME NEW s \in Users, Withdraw(s) PROVE TypeOK'
  <2>1. PICK a \in Accounts, n \in Amounts : ReadAccount(s, a, "WITHDRAWAL", n, -n)
    BY <1>5 DEF Withdraw
  <2>2. -n \in Int
    BY <1>a
  <2> QED BY <2>1, <2>2, <1>3 DEF Sessions
<1>6. ASSUME NEW s \in Employees, CreditLoan(s) PROVE TypeOK'
  <2>1. PICK a \in Accounts, n \in Amounts : ReadAccount(s, a, "DEPOSIT", n, n)
    BY <1>6 DEF CreditLoan
  <2> QED BY <2>1, <1>a, <1>3 DEF Sessions
<1>7. ASSUME NEW s \in Users \cup Employees, UpdateAccount(s) PROVE TypeOK'
  <2>0. s \in Sessions
    BY DEF Sessions
  <2>1. op[s].pc = "update"
    BY <1>7 DEF UpdateAccount
  <2>2. op[s].from \in Accounts /\ op[s].mine \in Account /\ op[s].amount \in Amounts
    BY <2>0, <2>1, <1>b DEF OpRecord, Handler
  <2>3. Delta(s) \in Int
    BY <2>2, <1>a DEF Delta
  <2>4. accounts' \in [Accounts -> Account]
    <3>1. CASE UNCHANGED accounts
      BY <3>1 DEF TypeOK
    <3>2. CASE Update(op[s].from, op[s].mine)
      BY <3>2, <2>2 DEF Update, TypeOK
    <3> QED BY <1>7, <3>1, <3>2 DEF UpdateAccount
  <2>5. booked' \in [Accounts -> Account]
    <3>1. CASE UNCHANGED booked
      BY <3>1 DEF TypeOK
    <3>2. CASE booked' = [booked EXCEPT ![op[s].from] = Plus(@, Delta(s))]
      BY <3>2, <2>2, <2>3, PlusType DEF TypeOK
    <3> QED BY <1>7, <3>1, <3>2 DEF UpdateAccount
  <2>6. op' \in [Sessions -> Handler]
    <3>1. CASE Goto(s, "record")
      <4>1. [op[s] EXCEPT !.pc = "record"] \in Handler
        BY <2>0, <2>2, <1>b DEF OpRecord, Handler, TransferSteps
      <4> QED BY <3>1, <4>1, <2>0 DEF Goto, TypeOK
    <3>2. CASE Finish(s)
      BY <3>2, IdleType DEF Finish, TypeOK
    <3> QED BY <1>7, <3>1, <3>2 DEF UpdateAccount
  <2>9. faults' \in Nat
    BY <1>7 DEF UpdateAccount, TypeOK
  <2>8. UNCHANGED <<journal, transactions, server, cursor, selected, raced, ops, crashes>>
    BY <1>7 DEF UpdateAccount, boot
  <2> QED BY <2>4, <2>5, <2>6, <2>8, <2>9 DEF TypeOK
<1>8. ASSUME NEW s \in Sessions, NEW a \in Accounts, NEW b \in Int,
             NEW k \in {"DEPOSIT", "WITHDRAWAL", "TRANSFER_OUT", "TRANSFER_IN"},
             op[s].amount \in Amounts, op' \in [Sessions -> Handler],
             AddTransaction(Txn(a, k, op[s].amount, b))
      PROVE TypeOK'
  <2>1. Txn(a, k, op[s].amount, b) \in Transaction
    BY <1>8 DEF Txn, Transaction
  <2>2. transactions' \in Seq(Transaction)
    <3>1. CASE transactions' = Append(transactions, Txn(a, k, op[s].amount, b))
      BY <3>1, <2>1 DEF TypeOK
    <3>2. CASE UNCHANGED transactions
      BY <3>2 DEF TypeOK
    <3> QED BY <1>8, <3>1, <3>2 DEF AddTransaction
  <2>3. faults' \in Nat
    BY <1>8 DEF AddTransaction, TypeOK
  <2> QED BY <1>8, <2>2, <2>3 DEF AddTransaction, TypeOK, boot, audit
<1>9. ASSUME NEW s \in Users \cup Employees, RecordTransaction(s) PROVE TypeOK'
  <2>0. s \in Sessions
    BY DEF Sessions
  <2>1. op[s].pc = "record"
    BY <1>9 DEF RecordTransaction
  <2>2. /\ op[s].from \in Accounts /\ op[s].amount \in Amounts
        /\ op[s].type \in {"DEPOSIT", "WITHDRAWAL"} /\ op[s].mine.balance \in Int
    BY <2>0, <2>1, <1>b DEF OpRecord, Handler, Account
  <2>3. op' \in [Sessions -> Handler]
    BY <1>9, IdleType DEF RecordTransaction, Finish, TypeOK
  <2> QED BY <2>0, <2>2, <2>3, <1>9, <1>8 DEF RecordTransaction
<1>10. ASSUME NEW s \in Users, ReadSender(s) PROVE TypeOK'
  <2>0. s \in Sessions
    BY DEF Sessions
  <2>1. PICK a \in Accounts, b \in Accounts, n \in Amounts :
          /\ Begin(s)
          /\ op' = [op EXCEPT ![s] = [Idle EXCEPT !.pc = "receiver", !.from = a, !.to = b,
                                                  !.amount = n, !.mine = accounts[a]]]
          /\ Opens(s, a)
          /\ UNCHANGED <<disk, boot, selected, booked, crashes, faults>>
    BY <1>10 DEF ReadSender
  <2>2. [Idle EXCEPT !.pc = "receiver", !.from = a, !.to = b,
                     !.amount = n, !.mine = accounts[a]] \in Handler
    BY <1>c, IdleType DEF Handler, OpRecord, TransferSteps
  <2>3. op' \in [Sessions -> Handler]
    BY <2>1, <2>2 DEF TypeOK
  <2>4. raced' \subseteq Accounts
    BY <2>1 DEF Opens, TypeOK
  <2>5. ops' \in Nat
    BY <2>1 DEF Begin, TypeOK
  <2> QED BY <2>1, <2>3, <2>4, <2>5 DEF TypeOK, disk, boot
<1>11. ASSUME NEW s \in Users, ReadReceiver(s) PROVE TypeOK'
  <2>0. s \in Sessions
    BY DEF Sessions
  <2>1. op[s].pc = "receiver"
    BY <1>11 DEF ReadReceiver
  <2>2. op[s].to \in Accounts
    BY <2>0, <2>1, <1>b DEF Handler, TransferSteps
  <2>3. op' \in [Sessions -> Handler]
    <3>1. CASE op' = [op EXCEPT ![s].pc = "undoSender", ![s].theirs = accounts[op[s].to]]
      <4> DEFINE new == [op[s] EXCEPT !.pc = "undoSender", !.theirs = accounts[op[s].to]]
      <4>1. new \in Handler
        <5>1. op[s] \in Handler /\ op[s].mine \in Account /\ accounts[op[s].to] \in Account
          BY <2>0, <2>2, <1>b, <1>c DEF OpRecord
        <5>2. op[s].pc \in TransferSteps /\ "undoSender" \in TransferSteps
          BY <2>1 DEF TransferSteps
        <5> QED BY <5>1, <5>2, TransferStepType
      <4>2. op' = [op EXCEPT ![s] = new]
        BY <3>1, <2>0 DEF TypeOK
      <4> HIDE DEF new
      <4> QED BY <4>1, <4>2, <2>0 DEF TypeOK
    <3>2. CASE Finish(s)
      BY <3>2, IdleType DEF Finish, TypeOK
    <3> QED BY <1>11, <3>1, <3>2 DEF ReadReceiver
  <2>4. raced' \subseteq Accounts
    BY <1>11, <2>2 DEF ReadReceiver, Opens, TypeOK
  <2> QED BY <1>11, <2>3, <2>4 DEF ReadReceiver, TypeOK, disk, boot, bounds
<1>12. ASSUME NEW s \in Users, LogSenderUndo(s) PROVE TypeOK'
  <2>0. s \in Sessions
    BY DEF Sessions
  <2>1. op[s].pc = "undoSender"
    BY <1>12 DEF LogSenderUndo
  <2>2. op[s].from \in Accounts /\ op[s].mine.balance \in Int
    BY <2>0, <2>1, <1>b DEF Handler, OpRecord, Account
  <2>3. journal' \in Seq(JournalEntry) /\ faults' \in Nat /\ cursor <= Len(journal')
    <3>1. Undo(op[s].from, op[s].mine.balance) \in JournalEntry
      BY <2>2, UndoType
    <3>2. JournalLogEntry(Undo(op[s].from, op[s].mine.balance))
      BY <1>12 DEF LogSenderUndo
    <3> QED BY <3>1, <3>2, JournalType
  <2>4. [op[s] EXCEPT !.pc = "undoReceiver"] \in Handler
    BY <2>0, <2>1, <1>b DEF OpRecord, Handler, TransferSteps
  <2>5. op' \in [Sessions -> Handler]
    BY <1>12, <2>0, <2>4 DEF LogSenderUndo, Goto, TypeOK
  <2> QED BY <1>12, <2>3, <2>5 DEF LogSenderUndo, TypeOK, boot, audit
<1>13. ASSUME NEW s \in Users, LogReceiverUndo(s) PROVE TypeOK'
  <2>0. s \in Sessions
    BY DEF Sessions
  <2>1. op[s].pc = "undoReceiver"
    BY <1>13 DEF LogReceiverUndo
  <2>2. /\ op[s].to \in Accounts /\ op[s].amount \in Amounts
        /\ op[s].theirs \in Account /\ op[s].theirs.balance \in Int /\ op[s].mine \in Account
    BY <2>0, <2>1, <1>b DEF Handler, OpRecord, Account, TransferSteps
  <2>3. journal' \in Seq(JournalEntry) /\ faults' \in Nat /\ cursor <= Len(journal')
    <3>1. Undo(op[s].to, op[s].theirs.balance) \in JournalEntry
      BY <2>2, UndoType
    <3>2. JournalLogEntry(Undo(op[s].to, op[s].theirs.balance))
      BY <1>13 DEF LogReceiverUndo
    <3> QED BY <3>1, <3>2, JournalType
  <2>4. Plus(op[s].mine, -op[s].amount) \in Account /\ Plus(op[s].theirs, op[s].amount) \in Account
    BY <2>2, <1>a, PlusType
  <2> DEFINE new == [op[s] EXCEPT !.pc = "debit", !.mine = Plus(op[s].mine, -op[s].amount),
                                  !.theirs = Plus(op[s].theirs, op[s].amount)]
  <2>5. new \in Handler
    <3>1. op[s].pc \in TransferSteps /\ "debit" \in TransferSteps
      BY <2>1 DEF TransferSteps
    <3> QED BY <2>0, <2>4, <3>1, <1>b, TransferStepType
  <2>6. op' = [op EXCEPT ![s] = new]
    BY <1>13, <2>0 DEF LogReceiverUndo, TypeOK
  <2> HIDE DEF new
  <2>7. op' \in [Sessions -> Handler]
    BY <2>0, <2>5, <2>6 DEF TypeOK
  <2> QED BY <1>13, <2>3, <2>7 DEF LogReceiverUndo, TypeOK, boot, audit
<1>14. ASSUME NEW s \in Users, Debit(s) PROVE TypeOK'
  <2>0. s \in Sessions
    BY DEF Sessions
  <2>1. op[s].pc = "debit"
    BY <1>14 DEF Debit
  <2>2. op[s].from \in Accounts /\ op[s].mine \in Account
    BY <2>0, <2>1, <1>b DEF Handler, OpRecord, TransferSteps
  <2>3. accounts' \in [Accounts -> Account]
    <3>1. CASE Update(op[s].from, op[s].mine)
      BY <3>1, <2>2 DEF Update, TypeOK
    <3>2. CASE UNCHANGED accounts
      BY <3>2 DEF TypeOK
    <3> QED BY <1>14, <3>1, <3>2 DEF Debit
  <2>4. [op[s] EXCEPT !.pc = "credit"] \in Handler
    BY <2>0, <2>1, <1>b DEF OpRecord, Handler, TransferSteps
  <2>5. [op[s] EXCEPT !.pc = "credit", !.ok = FALSE] \in Handler
    BY <2>4, NotOkType
  <2>6. op' \in [Sessions -> Handler]
    <3>1. CASE Goto(s, "credit")
      BY <3>1, <2>0, <2>4 DEF Goto, TypeOK
    <3>2. CASE op' = [op EXCEPT ![s].pc = "credit", ![s].ok = FALSE]
      BY <3>2, <2>0, <2>5 DEF TypeOK
    <3> QED BY <1>14, <3>1, <3>2 DEF Debit
  <2>7. faults' \in Nat
    BY <1>14 DEF Debit, TypeOK
  <2> QED BY <1>14, <2>3, <2>6, <2>7 DEF Debit, TypeOK, boot, audit
<1>15. ASSUME NEW s \in Users, Credit(s) PROVE TypeOK'
  <2>0. s \in Sessions
    BY DEF Sessions
  <2>1. op[s].pc = "credit"
    BY <1>15 DEF Credit
  <2>2. op[s].to \in Accounts /\ op[s].theirs \in Account
    BY <2>0, <2>1, <1>b DEF Handler, OpRecord, TransferSteps
  <2>3. accounts' \in [Accounts -> Account]
    <3>1. CASE Update(op[s].to, op[s].theirs)
      BY <3>1, <2>2 DEF Update, TypeOK
    <3>2. CASE UNCHANGED accounts
      BY <3>2 DEF TypeOK
    <3> QED BY <1>15, <3>1, <3>2 DEF Credit
  <2>4. [op[s] EXCEPT !.pc = "commit"] \in Handler
    BY <2>0, <2>1, <1>b DEF OpRecord, Handler, TransferSteps
  <2>5. [op[s] EXCEPT !.pc = "commit", !.ok = FALSE] \in Handler
    BY <2>4, NotOkType
  <2>6. op' \in [Sessions -> Handler]
    <3>1. CASE Goto(s, "commit")
      BY <3>1, <2>0, <2>4 DEF Goto, TypeOK
    <3>2. CASE op' = [op EXCEPT ![s].pc = "commit", ![s].ok = FALSE]
      BY <3>2, <2>0, <2>5 DEF TypeOK
    <3> QED BY <1>15, <3>1, <3>2 DEF Credit
  <2>7. faults' \in Nat
    BY <1>15 DEF Credit, TypeOK
  <2> QED BY <1>15, <2>3, <2>6, <2>7 DEF Credit, TypeOK, boot, audit
<1>16. ASSUME NEW s \in Users, Commit(s) PROVE TypeOK'
  <2>0. s \in Sessions
    BY DEF Sessions
  <2>1. op[s].pc = "commit"
    BY <1>16 DEF Commit
  <2>2. op[s].from \in Accounts /\ op[s].to \in Accounts /\ op[s].amount \in Amounts
    BY <2>0, <2>1, <1>b DEF Handler, TransferSteps
  <2>3. journal' \in Seq(JournalEntry) /\ faults' \in Nat /\ cursor <= Len(journal')
    <3>1. JournalLogEntry(CommitEntry)
      BY <1>16 DEF Commit
    <3> QED BY <3>1, CommitEntryType, JournalType
  <2>4. booked' \in [Accounts -> Account]
    <3>1. /\ \A c \in Account : Plus(c, -op[s].amount) \in Account
          /\ \A c \in Account : Plus(c, op[s].amount) \in Account
      BY <2>2, <1>a, PlusType
    <3>2. booked' = [booked EXCEPT ![op[s].from] = Plus(@, -op[s].amount),
                                   ![op[s].to] = Plus(@, op[s].amount)]
      BY <1>16 DEF Commit
    <3> QED BY <2>2, <3>1, <3>2 DEF TypeOK
  <2>5. [op[s] EXCEPT !.pc = "recordOut"] \in Handler
    BY <2>0, <2>1, <1>b DEF OpRecord, Handler, TransferSteps
  <2>6. op' \in [Sessions -> Handler]
    BY <1>16, <2>0, <2>5 DEF Commit, Goto, TypeOK
  <2> QED BY <1>16, <2>3, <2>4, <2>6 DEF Commit, TypeOK, boot
<1>17. ASSUME NEW s \in Users, GiveUp(s) PROVE TypeOK'
  <2>1. op' \in [Sessions -> Handler]
    BY <1>17, IdleType DEF GiveUp, Finish, TypeOK
  <2> QED BY <1>17, <2>1 DEF GiveUp, TypeOK, disk, boot, audit, bounds
<1>18. ASSUME NEW s \in Users, RecordOut(s) PROVE TypeOK'
  <2>0. s \in Sessions
    BY DEF Sessions
  <2>1. op[s].pc = "recordOut"
    BY <1>18 DEF RecordOut
  <2>2. op[s].from \in Accounts /\ op[s].amount \in Amounts /\ op[s].mine.balance \in Int
    BY <2>0, <2>1, <1>b DEF OpRecord, Handler, Account, TransferSteps
  <2>3. [op[s] EXCEPT !.pc = "recordIn"] \in Handler
    BY <2>0, <2>1, <1>b DEF OpRecord, Handler, TransferSteps
  <2>4. op' \in [Sessions -> Handler]
    BY <1>18, <2>0, <2>3 DEF RecordOut, Goto, TypeOK
  <2> QED BY <2>0, <2>2, <2>4, <1>18, <1>8 DEF RecordOut
<1>19. ASSUME NEW s \in Users, RecordIn(s) PROVE TypeOK'
  <2>0. s \in Sessions
    BY DEF Sessions
  <2>1. op[s].pc = "recordIn"
    BY <1>19 DEF RecordIn
  <2>2. op[s].to \in Accounts /\ op[s].amount \in Amounts /\ op[s].theirs.balance \in Int
    BY <2>0, <2>1, <1>b DEF OpRecord, Handler, Account, TransferSteps
  <2>3. op' \in [Sessions -> Handler]
    BY <1>19, IdleType DEF RecordIn, Finish, TypeOK
  <2> QED BY <2>0, <2>2, <2>3, <1>19, <1>8 DEF RecordIn
<1>20. ASSUME NEW s \in Managers, BeginStatus(s) PROVE TypeOK'
  <2>1. PICK u \in Users, status \in BOOLEAN :
          /\ Begin(s)
          /\ op' = [op EXCEPT ![s] = [Idle EXCEPT !.pc = "scan", !.status = status,
                                                  !.todo = {a \in Accounts : Owner[a] = u}]]
          /\ UNCHANGED <<disk, boot, selected, audit, crashes, faults>>
    BY <1>20 DEF BeginStatus
  <2>2. [Idle EXCEPT !.pc = "scan", !.status = status,
                     !.todo = {a \in Accounts : Owner[a] = u}] \in Handler
    BY IdleType DEF Handler, OpRecord, TransferSteps
  <2>3. op' \in [Sessions -> Handler]
    BY <2>1, <2>2 DEF TypeOK
  <2>4. ops' \in Nat
    BY <2>1 DEF Begin, TypeOK
  <2> QED BY <2>1, <2>3, <2>4 DEF TypeOK, disk, boot, audit
<1>21. ASSUME NEW s \in Managers, ScanAccount(s) PROVE TypeOK'
  <2>0. s \in Sessions
    BY DEF Sessions
  <2>1. op[s].pc = "scan"
    BY <1>21 DEF ScanAccount
  <2>2. PICK a \in op[s].todo :
          \/ /\ op' = [op EXCEPT ![s].pc = "statusUpdate", ![s].from = a,
                                 ![s].todo = @ \ {a},
                                 ![s].mine = [accounts[a] EXCEPT !.isActive = op[s].status]]
             /\ Opens(s, a)
          \/ /\ op' = [op EXCEPT ![s].todo = @ \ {a}]
             /\ UNCHANGED raced
    BY <1>21 DEF ScanAccount
  <2>3. a \in Accounts /\ op[s].todo \subseteq Accounts /\ op[s].status \in BOOLEAN
    BY <2>0, <1>b DEF OpRecord
  <2>4. [accounts[a] EXCEPT !.isActive = op[s].status] \in Account
    BY <2>3, <1>c DEF Account
  <2>5. [op[s] EXCEPT !.pc = "statusUpdate", !.from = a, !.todo = op[s].todo \ {a},
                      !.mine = [accounts[a] EXCEPT !.isActive = op[s].status]] \in Handler
    <3>1. [op[s] EXCEPT !.todo = op[s].todo \ {a}] \in OpRecord
      BY <2>0, <2>3, <1>b DEF OpRecord
    <3> DEFINE o == [op[s] EXCEPT !.todo = op[s].todo \ {a}]
    <3>2. /\ o.amount \in Amounts \cup {0} /\ o.type \in {"DEPOSIT", "WITHDRAWAL"}
          /\ o.to \in Accounts \cup {0} /\ o.theirs \in Account /\ o.todo \subseteq Accounts
          /\ o.status \in BOOLEAN /\ o.ok \in BOOLEAN
      BY <3>1 DEF OpRecord
    <3> QED BY <3>1, <3>2, <2>3, <2>4 DEF OpRecord, Handler, TransferSteps
  <2>6. [op[s] EXCEPT !.todo = op[s].todo \ {a}] \in Handler
    BY <2>0, <2>1, <2>3, <1>b DEF OpRecord, Handler, TransferSteps
  <2>7. op' \in [Sessions -> Handler]
    <3>1. CASE op' = [op EXCEPT ![s].pc = "statusUpdate", ![s].from = a,
                                ![s].todo = @ \ {a},
                                ![s].mine = [accounts[a] EXCEPT !.isActive = op[s].status]]
      BY <3>1, <2>0, <2>5 DEF TypeOK
    <3>2. CASE op' = [op EXCEPT ![s].todo = @ \ {a}]
      BY <3>2, <2>0, <2>6 DEF TypeOK
    <3> QED BY <2>2, <3>1, <3>2
  <2>8. raced' \subseteq Accounts
    BY <2>2, <2>3 DEF Opens, TypeOK
  <2> QED BY <1>21, <2>7, <2>8 DEF ScanAccount, TypeOK, disk, boot, bounds
<1>22. ASSUME NEW s \in Managers, UpdateStatus(s) PROVE TypeOK'
  <2>0. s \in Sessions
    BY DEF Sessions
  <2>1. op[s].pc = "statusUpdate"
    BY <1>22 DEF UpdateStatus
  <2>2. op[s].from \in Accounts /\ op[s].mine \in Account /\ op[s].status \in BOOLEAN
    BY <2>0, <2>1, <1>b DEF Handler, OpRecord, TransferSteps
  <2>3. accounts' \in [Accounts -> Account]
    <3>1. CASE Update(op[s].from, op[s].mine)
      BY <3>1, <2>2 DEF Update, TypeOK
    <3>2. CASE UNCHANGED accounts
      BY <3>2 DEF TypeOK
    <3> QED BY <1>22, <3>1, <3>2 DEF UpdateStatus
  <2>4. booked' \in [Accounts -> Account]
    <3>1. CASE booked' = [booked EXCEPT ![op[s].from].isActive = op[s].status]
      BY <3>1, <2>2 DEF TypeOK, Account
    <3>2. CASE UNCHANGED booked
      BY <3>2 DEF TypeOK
    <3> QED BY <1>22, <3>1, <3>2 DEF UpdateStatus
  <2>5. [op[s] EXCEPT !.pc = "scan"] \in Handler
    BY <2>0, <1>b DEF OpRecord, Handler, TransferSteps
  <2>6. op' \in [Sessions -> Handler]
    BY <1>22, <2>0, <2>5 DEF UpdateStatus, Goto, TypeOK
  <2>7. faults' \in Nat
    BY <1>22 DEF UpdateStatus, TypeOK
  <2> QED BY <1>22, <2>3, <2>4, <2>6, <2>7 DEF UpdateStatus, TypeOK, boot
<1>23. ASSUME NEW s \in Managers, EndStatus(s) PROVE TypeOK'
  <2>1. op' \in [Sessions -> Handler]
    BY <1>23, IdleType DEF EndStatus, Finish, TypeOK
  <2> QED BY <1>23, <2>1 DEF EndStatus, TypeOK, disk, boot, audit, bounds
<1>24. CASE Crash
  <2>1. op' \in [Sessions -> Handler]
    BY <1>24, IdleType DEF Crash
  <2> QED BY <1>24, <2>1 DEF Crash, TypeOK, disk, audit
<1>25. CASE ReadJournal
  <2>1. EntryCount \in Nat /\ EntryCount <= Len(journal)
    BY LedgerAssumption DEF EntryCount, TypeOK
  <2>2. /\ cursor' \in Nat /\ cursor' <= Len(journal)
        /\ server' \in {"down", "rollback", "clear", "up"}
    BY <1>25, <2>1 DEF ReadJournal, TypeOK
  <2>3. faults' \in Nat
    BY <1>25 DEF ReadJournal, TypeOK
  <2> QED BY <1>25, <2>2, <2>3 DEF ReadJournal, TypeOK, disk, menus, audit
<1>26. CASE RollBackEntry
  <2>1. cursor \in 1..Len(journal) /\ journal[cursor] \in JournalEntry
    BY <1>26 DEF RollBackEntry, TypeOK
  <2>2. accounts' \in [Accounts -> Account]
    <3>1. CASE UNCHANGED accounts
      BY <3>1 DEF TypeOK
    <3>2. CASE /\ journal[cursor].type = "TXN_START"
               /\ accounts' = [accounts EXCEPT ![journal[cursor].accountId].balance
                                                  = journal[cursor].oldBalance]
      <4>1. journal[cursor].accountId \in Accounts /\ journal[cursor].oldBalance \in Int
        BY <2>1, <3>2 DEF JournalEntry
      <4> QED BY <3>2, <4>1 DEF TypeOK, Account
    <3> QED BY <1>26, <3>1, <3>2 DEF RollBackEntry
  <2>3. /\ cursor' \in Nat /\ cursor' <= Len(journal)
        /\ server' \in {"down", "rollback", "clear", "up"}
    BY <1>26, <2>1 DEF RollBackEntry, TypeOK
  <2>4. faults' \in Nat
    BY <1>26 DEF RollBackEntry, TypeOK
  <2> QED BY <1>26, <2>2, <2>3, <2>4 DEF RollBackEntry, TypeOK, menus, audit
<1>27. CASE EndRollBack
  BY <1>27 DEF EndRollBack, TypeOK, disk, menus, audit, bounds
<1>28. CASE JournalLogClear
  <2>1. journal' \in Seq(JournalEntry) /\ 0 <= Len(journal')
    <3>1. CASE journal' = <<>>
      BY <3>1
    <3>2. CASE UNCHANGED journal
      BY <3>2 DEF TypeOK
    <3> QED BY <1>28, <3>1, <3>2 DEF JournalLogClear
  <2>2. faults' \in Nat
    BY <1>28 DEF JournalLogClear, TypeOK
  <2> QED BY <1>28, <2>1, <2>2 DEF JournalLogClear, TypeOK, menus, audit
<1>29. CASE UNCHANGED vars
  BY <1>29 DEF vars, TypeOK, disk, boot, menus, audit, bounds
<1> QED
  BY <1>1, <1>2, <1>4, <1>5, <1>6, <1>7, <1>9, <1>10, <1>11, <1>12, <1>13, <1>14, <1>15,
     <1>16, <1>17, <1>18, <1>19, <1>20, <1>21, <1>22, <1>23, <1>24, <1>25, <1>26, <1>27,
     <1>28, <1>29
     DEF Next, Menu, Transfer, SetStatus, Recovery

\* Every variable keeps its type, and every handler works on accounts that are
\* in the file, for every set of accounts, sessions and bounds.
THEOREM TypeCorrect == Spec => []TypeOK
  BY InitType, StepType, PTL DEF Spec

-----------------------------------------------------------------------------
(* No overdraft *)

\* What makes NoOverdraft inductive: no copy of a balance that may still be
\* written, neither in a handler nor in the journal, is negative, and what a
\* transfer is about to take from the sender's copy is there.
Covered ==
  /\ NoOverdraft
  /\ \A i \in 1..Len(journal) : journal[i].oldBalance >= 0
  /\ \A s \in Sessions :
       /\ op[s].mine.balance >= 0 /\ op[s].theirs.balance >= 0
       /\ op[s].pc \in {"undoSender", "undoReceiver"} => op[s].amount <= op[s].mine.balance

LEMMA InitCovered == Init => Covered
  BY LedgerAssumption DEF Init, Covered, NoOverdraft, Idle, Blank

\* A step that leaves the balances, the journal and the copies of the handlers
\* alone, or drops copies.
LEMMA KeepCovered ==
  ASSUME TypeOK, Covered, UNCHANGED <<accounts, journal>>,
         \A s \in Sessions : \/ op'[s] = Idle
                             \/ /\ op'[s].mine = op[s].mine /\ op'[s].theirs = op[s].theirs
                                /\ op'[s].pc \notin {"undoSender", "undoReceiver"}
                             \/ op'[s] = op[s]
  PROVE  Covered'
  BY DEF Covered, NoOverdraft, Idle, Blank

\* A journal entry that is written, or fails to be.
LEMMA AppendCovered ==
  ASSUME TypeOK, Covered, NEW e \in JournalEntry, e.oldBalance >= 0, JournalLogEntry(e)
  PROVE  \A i \in 1..Len(journal') : journal'[i].oldBalance >= 0
<1>1. CASE journal' = Append(journal, e)
  BY <1>1 DEF TypeOK, Covered
<1>2. CASE UNCHANGED journal
  BY <1>2 DEF Covered
<1> QED BY <1>1, <1>2 DEF JournalLogEntry

LEMMA StepCovered == TypeOK /\ Covered /\ [Next]_vars => Covered'
<1> SUFFICES ASSUME TypeOK, Covered, [Next]_vars PROVE Covered'
    OBVIOUS
<1> USE DEF At, Fault
<1>a. /\ Accounts \subseteq Nat \ {0} /\ Amounts \subseteq Nat \ {0}
      /\ \A n \in Amounts : n \in Int /\ -n \in Int /\ n >= 0
  BY LedgerAssumption
<1>b. \A s \in Sessions : op[s] \in Handler /\ op[s] \in OpRecord
  BY DEF TypeOK, Handler
<1>c. \A a \in Accounts : accounts[a] \in Account /\ accounts[a].balance \in Int
                          /\ accounts[a].balance >= 0
  BY DEF TypeOK, Account, Covered, NoOverdraft
<1>d. /\ DOMAIN op = Sessions
      /\ \A s \in Sessions : /\ op[s].mine \in Account /\ op[s].theirs \in Account
                             /\ op[s].mine.balance \in Int /\ op[s].theirs.balance \in Int
                             /\ op[s].mine.balance >= 0 /\ op[s].theirs.balance >= 0
  BY <1>b DEF TypeOK, OpRecord, Account, Covered
<1>1. ASSUME NEW s \in Users, Menu(s) PROVE Covered'
  BY <1>1, KeepCovered DEF Menu, SelectAccount, LeaveAccount, disk
<1>2. ASSUME NEW s \in Sessions, NEW a \in Accounts, NEW type, NEW n, NEW delta \in Int,
             accounts[a].balance + delta >= 0, ReadAccount(s, a, type, n, delta)
      PROVE Covered'
  <2>1. Plus(accounts[a], delta).balance >= 0
    BY <1>2, <1>c, PlusType
  <2>2. op' = [op EXCEPT ![s] = [Idle EXCEPT !.pc = "update", !.type = type, !.from = a,
                                   !.amount = n, !.mine = Plus(accounts[a], delta)]]
    BY <1>2 DEF ReadAccount
  <2>3. /\ op'[s].mine = Plus(accounts[a], delta) /\ op'[s].theirs = Blank
        /\ op'[s].pc = "update"
        /\ \A r \in Sessions \ {s} : op'[r] = op[r]
    BY <1>d, <2>2 DEF Idle
  <2>4. UNCHANGED <<accounts, journal>>
    BY <1>2 DEF ReadAccount, disk
  <2> QED BY <1>d, <2>1, <2>3, <2>4 DEF Covered, NoOverdraft, Blank
<1>3. ASSUME NEW s \in Users, Deposit(s) PROVE Covered'
  <2>1. PICK a \in Accounts, n \in Amounts : ReadAccount(s, a, "DEPOSIT", n, n)
    BY <1>3 DEF Deposit
  <2>2. n \in Int /\ accounts[a].balance + n >= 0
    BY <1>a, <1>c
  <2> QED BY <2>1, <2>2, <1>2 DEF Sessions
<1>4. ASSUME NEW s \in Users, Withdraw(s) PROVE Covered'
  <2>1. PICK a \in Accounts, n \in Amounts :
          n <= accounts[a].balance /\ ReadAccount(s, a, "WITHDRAWAL", n, -n)
    BY <1>4 DEF Withdraw
  <2>2. -n \in Int /\ accounts[a].balance + (-n) >= 0
    BY <1>a, <1>c, <2>1
  <2> QED BY <2>1, <2>2, <1>2 DEF Sessions
<1>5. ASSUME NEW s \in Employees, CreditLoan(s) PROVE Covered'
  <2>1. PICK a \in Accounts, n \in Amounts : ReadAccount(s, a, "DEPOSIT", n, n)
    BY <1>5 DEF CreditLoan
  <2>2. n \in Int /\ accounts[a].balance + n >= 0
    BY <1>a, <1>c
  <2> QED BY <2>1, <2>2, <1>2 DEF Sessions
\* A copy with a covered balance is written, or fails to be.
<1>6. ASSUME NEW s \in Sessions, NEW a \in Accounts, NEW c \in Account, c.balance >= 0,
             Update(a, c) \/ UNCHANGED accounts, UNCHANGED journal,
             \A r \in Sessions : \/ op'[r] = Idle
                                 \/ /\ op'[r].mine = op[r].mine /\ op'[r].theirs = op[r].theirs
                                    /\ op'[r].pc \notin {"undoSender", "undoReceiver"}
                                 \/ op'[r] = op[r]
      PROVE Covered'
  <2>1. \A b \in Accounts : accounts'[b].balance >= 0
    BY <1>6, <1>c DEF Update, TypeOK
  <2>2. \A r \in Sessions :
          /\ op'[r].mine.balance >= 0 /\ op'[r].theirs.balance >= 0
          /\ op'[r].pc \in {"undoSender", "undoReceiver"} => op'[r].amount <= op'[r].mine.balance
    BY <1>6 DEF Covered, Idle, Blank
  <2> QED BY <1>6, <2>1, <2>2 DEF Covered, NoOverdraft
<1>7. ASSUME NEW s \in Users \cup Employees, UpdateAccount(s) PROVE Covered'
  <2>0. s \in Sessions
    BY DEF Sessions
  <2>1. op[s].from \in Accounts
    BY <1>7, <2>0, <1>b DEF UpdateAccount, Handler
  <2>2. Update(op[s].from, op[s].mine) \/ UNCHANGED accounts
    BY <1>7 DEF UpdateAccount
  <2>3. \A r \in Sessions : \/ op'[r] = Idle
                            \/ /\ op'[r].mine = op[r].mine /\ op'[r].theirs = op[r].theirs
                               /\ op'[r].pc \notin {"undoSender", "undoReceiver"}
                            \/ op'[r] = op[r]
    BY <1>7, <1>d, <1>b DEF UpdateAccount, Goto, Finish, OpRecord
  <2>4. UNCHANGED journal
    BY <1>7 DEF UpdateAccount
  <2> QED BY <1>6, <2>0, <2>1, <2>2, <2>3, <2>4, <1>d
<1>8. ASSUME NEW s \in Users \cup Employees, RecordTransaction(s) PROVE Covered'
  <2>1. UNCHANGED <<accounts, journal>>
    BY <1>8 DEF RecordTransaction, AddTransaction
  <2>2. \A r \in Sessions : \/ op'[r] = Idle
                            \/ /\ op'[r].mine = op[r].mine /\ op'[r].theirs = op[r].theirs
                               /\ op'[r].pc \notin {"undoSender", "undoReceiver"}
                            \/ op'[r] = op[r]
    BY <1>8, <1>d, <1>b DEF RecordTransaction, Finish, OpRecord
  <2> QED BY <2>1, <2>2, KeepCovered
<1>9. ASSUME NEW s \in Users, ReadSender(s) PROVE Covered'
  <2>1. PICK a \in Accounts, b \in Accounts, n \in Amounts :
          /\ op' = [op EXCEPT ![s] = [Idle EXCEPT !.pc = "receiver", !.from = a, !.to = b,
                                                  !.amount = n, !.mine = accounts[a]]]
          /\ UNCHANGED disk
    BY <1>9 DEF ReadSender
  <2>2. \A r \in Sessions : \/ op'[r] = op[r]
                            \/ /\ op'[r].mine = accounts[a] /\ op'[r].theirs = Blank
                               /\ op'[r].pc = "receiver"
    BY <2>1, <1>d DEF Idle
  <2>3. UNCHANGED <<accounts, journal>>
    BY <2>1 DEF disk
  <2>4. \A r \in Sessions :
          /\ op'[r].mine.balance >= 0 /\ op'[r].theirs.balance >= 0
          /\ op'[r].pc \in {"undoSender", "undoReceiver"} => op'[r].amount <= op'[r].mine.balance
    BY <2>2, <1>c DEF Covered, Blank
  <2> QED BY <2>3, <2>4 DEF Covered, NoOverdraft
<1>10. ASSUME NEW s \in Users, ReadReceiver(s) PROVE Covered'
  <2>0. s \in Sessions
    BY DEF Sessions
  <2>1. op[s].to \in Accounts
    BY <1>10, <2>0, <1>b DEF ReadReceiver, Handler, TransferSteps
  <2>2. UNCHANGED <<accounts, journal>>
    BY <1>10 DEF ReadReceiver, disk
  <2>3. CASE Finish(s)
    <3>1. \A r \in Sessions : op'[r] = Idle \/ op'[r] = op[r]
      BY <2>3, <1>d DEF Finish
    <3> QED BY <2>2, <3>1, KeepCovered
  <2>4. CASE /\ Transferable(s, accounts[op[s].to])
             /\ op' = [op EXCEPT ![s].pc = "undoSender", ![s].theirs = accounts[op[s].to]]
    <3>1. op[s].amount <= op[s].mine.balance
      BY <2>4, <2>0, <1>d, <1>b, <1>a DEF Transferable, OpRecord
    <3>2. \A r \in Sessions : \/ op'[r] = op[r]
                              \/ /\ op'[r].mine = op[s].mine /\ op'[r].theirs = accounts[op[s].to]
                                 /\ op'[r].amount = op[s].amount
      BY <2>4, <2>0, <1>d, <1>b DEF OpRecord
    <3> QED BY <2>0, <2>1, <2>2, <3>1, <3>2, <1>c, <1>d DEF Covered, NoOverdraft
  <2> QED BY <1>10, <2>3, <2>4 DEF ReadReceiver
<1>11. ASSUME NEW s \in Users, LogSenderUndo(s) PROVE Covered'
  <2>0. s \in Sessions
    BY DEF Sessions
  <2>1. op[s].from \in Accounts /\ op[s].pc = "undoSender"
    BY <1>11, <2>0, <1>b DEF LogSenderUndo, Handler
  <2>2. \A i \in 1..Len(journal') : journal'[i].oldBalance >= 0
    <3> DEFINE e == Undo(op[s].from, op[s].mine.balance)
    <3>1. e \in JournalEntry
      BY <2>0, <2>1, <1>d, UndoType
    <3>2. e.oldBalance >= 0
      BY <2>0, <1>d DEF Undo
    <3>3. JournalLogEntry(e)
      BY <1>11 DEF LogSenderUndo
    <3> QED BY <3>1, <3>2, <3>3, AppendCovered
  <2>3. \A r \in Sessions : \/ op'[r] = op[r]
                            \/ /\ r = s /\ op'[r].mine = op[r].mine
                               /\ op'[r].theirs = op[r].theirs /\ op'[r].amount = op[r].amount
    BY <1>11, <1>d, <1>b DEF LogSenderUndo, Goto, OpRecord
  <2>4. UNCHANGED accounts
    BY <1>11 DEF LogSenderUndo
  <2> QED BY <2>0, <2>1, <2>2, <2>3, <2>4 DEF Covered, NoOverdraft
<1>12. ASSUME NEW s \in Users, LogReceiverUndo(s) PROVE Covered'
  <2>0. s \in Sessions
    BY DEF Sessions
  <2>1. op[s].pc = "undoReceiver"
    BY <1>12 DEF LogReceiverUndo
  <2>2. /\ op[s].to \in Accounts /\ op[s].amount \in Amounts
        /\ op[s].amount <= op[s].mine.balance
    BY <2>0, <2>1, <1>b DEF Handler, TransferSteps, Covered
  <2>3. \A i \in 1..Len(journal') : journal'[i].oldBalance >= 0
    <3> DEFINE e == Undo(op[s].to, op[s].theirs.balance)
    <3>1. e \in JournalEntry
      BY <2>0, <2>2, <1>d, UndoType
    <3>2. e.oldBalance >= 0
      BY <2>0, <1>d DEF Undo
    <3>3. JournalLogEntry(e)
      BY <1>12 DEF LogReceiverUndo
    <3> QED BY <3>1, <3>2, <3>3, AppendCovered
  <2>4. /\ Plus(op[s].mine, -op[s].amount).balance = op[s].mine.balance + (-op[s].amount)
        /\ Plus(op[s].theirs, op[s].amount).balance = op[s].theirs.balance + op[s].amount
    BY <2>0, <2>2, <1>a, <1>d, PlusType
  <2>5. \A r \in Sessions :
          \/ op'[r] = op[r]
          \/ /\ op'[r].pc = "debit"
             /\ op'[r].mine = Plus(op[s].mine, -op[s].amount)
             /\ op'[r].theirs = Plus(op[s].theirs, op[s].amount)
    <3>1. op' = [op EXCEPT ![s] = [op[s] EXCEPT !.pc = "debit",
                                     !.mine = Plus(op[s].mine, -op[s].amount),
                                     !.theirs = Plus(op[s].theirs, op[s].amount)]]
      BY <1>12, <2>0, <1>d DEF LogReceiverUndo
    <3> DEFINE o == [op[s] EXCEPT !.pc = "debit", !.mine = Plus(op[s].mine, -op[s].amount),
                                  !.theirs = Plus(op[s].theirs, op[s].amount)]
    <3>2. /\ o.pc = "debit" /\ o.mine = Plus(op[s].mine, -op[s].amount)
          /\ o.theirs = Plus(op[s].theirs, op[s].amount)
      BY <2>0, <1>b DEF OpRecord
    <3> QED BY <3>1, <3>2, <1>d
  <2>6. /\ op[s].mine.balance + (-op[s].amount) >= 0
        /\ op[s].theirs.balance + op[s].amount >= 0
    <3>1. /\ op[s].amount \in Int /\ op[s].amount >= 0
          /\ op[s].mine.balance \in Int
          /\ op[s].theirs.balance \in Int /\ op[s].theirs.balance >= 0
      BY <2>0, <2>2, <1>a, <1>d
    <3> HIDE DEF At, Fault
    <3> QED BY <3>1, <2>2
  <2>7. UNCHANGED accounts
    BY <1>12 DEF LogReceiverUndo
  <2>8. \A r \in Sessions :
          /\ op'[r].mine.balance >= 0 /\ op'[r].theirs.balance >= 0
          /\ op'[r].pc \in {"undoSender", "undoReceiver"} => op'[r].amount <= op'[r].mine.balance
    BY <2>4, <2>5, <2>6 DEF Covered
  <2> QED BY <2>3, <2>7, <2>8 DEF Covered, NoOverdraft
<1>13. ASSUME NEW s \in Users, Debit(s) PROVE Covered'
  <2>0. s \in Sessions
    BY DEF Sessions
  <2>1. op[s].from \in Accounts
    BY <1>13, <2>0, <1>b DEF Debit, Handler, TransferSteps
  <2>2. Update(op[s].from, op[s].mine) \/ UNCHANGED accounts
    BY <1>13 DEF Debit
  <2>3. \A r \in Sessions : \/ op'[r] = Idle
                            \/ /\ op'[r].mine = op[r].mine /\ op'[r].theirs = op[r].theirs
                               /\ op'[r].pc \notin {"undoSender", "undoReceiver"}
                            \/ op'[r] = op[r]
    BY <1>13, <1>d, <1>b DEF Debit, Goto, OpRecord
  <2>4. UNCHANGED journal
    BY <1>13 DEF Debit
  <2> QED BY <1>6, <2>0, <2>1, <2>2, <2>3, <2>4, <1>d
<1>14. ASSUME NEW s \in Users, Credit(s) PROVE Covered'
  <2>0. s \in Sessions
    BY DEF Sessions
  <2>1. op[s].to \in Accounts
    BY <1>14, <2>0, <1>b DEF Credit, Handler, TransferSteps
  <2>2. Update(op[s].to, op[s].theirs) \/ UNCHANGED accounts
    BY <1>14 DEF Credit
  <2>3. \A r \in Sessions : \/ op'[r] = Idle
                            \/ /\ op'[r].mine = op[r].mine /\ op'[r].theirs = op[r].theirs
                               /\ op'[r].pc \notin {"undoSender", "undoReceiver"}
                            \/ op'[r] = op[r]
    BY <1>14, <1>d, <1>b DEF Credit, Goto, OpRecord
  <2>4. UNCHANGED journal
    BY <1>14 DEF Credit
  <2> QED BY <1>6, <2>0, <2>1, <2>2, <2>3, <2>4, <1>d
<1>15. ASSUME NEW s \in Users, Commit(s) PROVE Covered'
  <2>1. \A i \in 1..Len(journal') : journal'[i].oldBalance >= 0
    <3>1. CommitEntry.oldBalance >= 0
      BY DEF CommitEntry
    <3>2. JournalLogEntry(CommitEntry)
      BY <1>15 DEF Commit
    <3> QED BY <3>1, <3>2, CommitEntryType, AppendCovered
  <2>2. \A r \in Sessions : \/ op'[r] = op[r]
                            \/ /\ op'[r].mine = op[r].mine /\ op'[r].theirs = op[r].theirs
                               /\ op'[r].pc = "recordOut"
    BY <1>15, <1>d, <1>b DEF Commit, Goto, OpRecord
  <2>3. UNCHANGED accounts
    BY <1>15 DEF Commit
  <2> QED BY <2>1, <2>2, <2>3 DEF Covered, NoOverdraft
<1>16. ASSUME NEW s \in Users, GiveUp(s) PROVE Covered'
  <2>1. UNCHANGED <<accounts, journal>>
    BY <1>16 DEF GiveUp, disk
  <2>2. \A r \in Sessions : \/ op'[r] = Idle
                            \/ /\ op'[r].mine = op[r].mine /\ op'[r].theirs = op[r].theirs
                               /\ op'[r].pc \notin {"undoSender", "undoReceiver"}
                            \/ op'[r] = op[r]
    BY <1>16, <1>d, <1>b DEF GiveUp, Finish, OpRecord
  <2> QED BY <2>1, <2>2, KeepCovered
<1>17. ASSUME NEW s \in Users, RecordOut(s) PROVE Covered'
  <2>1. UNCHANGED <<accounts, journal>>
    BY <1>17 DEF RecordOut, AddTransaction
  <2>2. \A r \in Sessions : \/ op'[r] = Idle
                            \/ /\ op'[r].mine = op[r].mine /\ op'[r].theirs = op[r].theirs
                               /\ op'[r].pc \notin {"undoSender", "undoReceiver"}
                            \/ op'[r] = op[r]
    BY <1>17, <1>d, <1>b DEF RecordOut, Goto, OpRecord
  <2> QED BY <2>1, <2>2, KeepCovered
<1>18. ASSUME NEW s \in Users, RecordIn(s) PROVE Covered'
  <2>1. UNCHANGED <<accounts, journal>>
    BY <1>18 DEF RecordIn, AddTransaction
  <2>2. \A r \in Sessions : \/ op'[r] = Idle
                            \/ /\ op'[r].mine = op[r].mine /\ op'[r].theirs = op[r].theirs
                               /\ op'[r].pc \notin {"undoSender", "undoReceiver"}
                            \/ op'[r] = op[r]
    BY <1>18, <1>d, <1>b DEF RecordIn, Finish, OpRecord
  <2> QED BY <2>1, <2>2, KeepCovered
<1>19. ASSUME NEW s \in Managers, BeginStatus(s) PROVE Covered'
  <2>1. UNCHANGED <<accounts, journal>>
    BY <1>19 DEF BeginStatus, disk
  <2>2. \A r \in Sessions : \/ op'[r] = op[r]
                            \/ /\ op'[r].mine = Blank /\ op'[r].theirs = Blank
                               /\ op'[r].pc = "scan"
    BY <1>19, <1>d DEF BeginStatus, Idle
  <2> QED BY <2>1, <2>2 DEF Covered, NoOverdraft, Blank
<1>20. ASSUME NEW s \in Managers, ScanAccount(s) PROVE Covered'
  <2>0. s \in Sessions
    BY DEF Sessions
  <2>1. op[s].pc = "scan" /\ UNCHANGED <<accounts, journal>>
    BY <1>20 DEF ScanAccount, disk
  <2>2. PICK a \in op[s].todo :
          \/ op' = [op EXCEPT ![s].pc = "statusUpdate", ![s].from = a,
                              ![s].todo = @ \ {a},
                              ![s].mine = [accounts[a] EXCEPT !.isActive = op[s].status]]
          \/ op' = [op EXCEPT ![s].todo = @ \ {a}]
    BY <1>20 DEF ScanAccount
  <2>3. a \in Accounts
    BY <2>0, <1>b DEF OpRecord
  <2>4. \A r \in Sessions : \/ op'[r] = op[r]
                            \/ /\ op'[r].mine.balance = accounts[a].balance
                               /\ op'[r].theirs = op[r].theirs /\ op'[r].pc = "statusUpdate"
                            \/ /\ op'[r].mine = op[r].mine /\ op'[r].theirs = op[r].theirs
                               /\ op'[r].pc = "scan"
    BY <2>0, <2>1, <2>2, <2>3, <1>b, <1>c, <1>d DEF OpRecord, Account
  <2> QED BY <2>1, <2>3, <2>4, <1>c DEF Covered, NoOverdraft
<1>21. ASSUME NEW s \in Managers, UpdateStatus(s) PROVE Covered'
  <2>0. s \in Sessions
    BY DEF Sessions
  <2>1. op[s].from \in Accounts
    BY <1>21, <2>0, <1>b DEF UpdateStatus, Handler, TransferSteps
  <2>2. Update(op[s].from, op[s].mine) \/ UNCHANGED accounts
    BY <1>21 DEF UpdateStatus
  <2>3. \A r \in Sessions : \/ op'[r] = Idle
                            \/ /\ op'[r].mine = op[r].mine /\ op'[r].theirs = op[r].theirs
                               /\ op'[r].pc \notin {"undoSender", "undoReceiver"}
                            \/ op'[r] = op[r]
    BY <1>21, <1>d, <1>b DEF UpdateStatus, Goto, OpRecord
  <2>4. UNCHANGED journal
    BY <1>21 DEF UpdateStatus
  <2> QED BY <1>6, <2>0, <2>1, <2>2, <2>3, <2>4, <1>d
<1>22. ASSUME NEW s \in Managers, EndStatus(s) PROVE Covered'
  <2>1. UNCHANGED <<accounts, journal>>
    BY <1>22 DEF EndStatus, disk
  <2>2. \A r \in Sessions : \/ op'[r] = Idle
                            \/ /\ op'[r].mine = op[r].mine /\ op'[r].theirs = op[r].theirs
                               /\ op'[r].pc \notin {"undoSender", "undoReceiver"}
                            \/ op'[r] = op[r]
    BY <1>22, <1>d, <1>b DEF EndStatus, Finish, OpRecord
  <2> QED BY <2>1, <2>2, KeepCovered
<1>23. CASE Crash
  BY <1>23, KeepCovered DEF Crash, disk
<1>24. CASE RollBackEntry
  <2>1. cursor \in 1..Len(journal) /\ journal[cursor] \in JournalEntry
    BY <1>24 DEF RollBackEntry, TypeOK
  <2>2. journal[cursor].oldBalance \in Int /\ journal[cursor].oldBalance >= 0
    BY <2>1 DEF Covered, JournalEntry
  <2>3. \A a \in Accounts : accounts'[a].balance >= 0
    <3>1. CASE UNCHANGED accounts
      BY <3>1, <1>c
    <3>2. CASE accounts' = [accounts EXCEPT ![journal[cursor].accountId].balance
                                               = journal[cursor].oldBalance]
      BY <3>2, <2>2, <1>c DEF TypeOK, Account
    <3> QED BY <1>24, <3>1, <3>2 DEF RollBackEntry
  <2>4. UNCHANGED <<journal, op>>
    BY <1>24 DEF RollBackEntry, menus
  <2> QED BY <2>3, <2>4 DEF Covered, NoOverdraft
<1>25. CASE ReadJournal \/ EndRollBack
  BY <1>25, KeepCovered DEF ReadJournal, EndRollBack, disk, menus
<1>26. CASE JournalLogClear
  <2>1. \A i \in 1..Len(journal') : journal'[i].oldBalance >= 0
    BY <1>26 DEF JournalLogClear, Covered
  <2>2. UNCHANGED <<accounts, op>>
    BY <1>26 DEF JournalLogClear, menus
  <2> QED BY <2>1, <2>2 DEF Covered, NoOverdraft
<1>27. CASE UNCHANGED vars
  BY <1>27, KeepCovered DEF vars, disk, menus
<1> QED
  BY <1>1, <1>3, <1>4, <1>5, <1>7, <1>8, <1>9, <1>10, <1>11, <1>12, <1>13, <1>14, <1>15,
     <1>16, <1>17, <1>18, <1>19, <1>20, <1>21, <1>22, <1>23, <1>24, <1>25, <1>26, <1>27
     DEF Next, Transfer, SetStatus, Recovery

\* No interleaving of any number of sessions, no crash, no failed write and no
\* rollback overdraws an account.
THEOREM NeverOverdrawn == Spec => []NoOverdraft
<1>1. Init => TypeOK /\ Covered
  BY InitType, InitCovered
<1>2. TypeOK /\ Covered /\ [Next]_vars => (TypeOK /\ Covered)'
  BY StepType, StepCovered
<1>3. Covered => NoOverdraft
  BY DEF Covered
<1> QED BY <1>1, <1>2, <1>3, PTL DEF Spec
-----------------------------------------------------------------------------
(* Write-ahead logging *)

\* What makes WriteAhead inductive: the undo entry of the sender is there as
\* soon as the handler has moved past it, and no handler is running while
\* recovery may clear the journal.
Owed(s) ==
  /\ op[s].pc = "undoReceiver" => Logged(op[s].from, op[s].mine.balance)
  /\ op[s].pc \in {"debit", "credit", "commit"} =>
       /\ Logged(op[s].from, op[s].mine.balance + op[s].amount)
       /\ Logged(op[s].to, op[s].theirs.balance - op[s].amount)

Ahead ==
  /\ server # "up" => \A s \in Sessions : op[s].pc = "menu"
  /\ \A s \in Sessions : Owed(s)

Owing == {"undoReceiver", "debit", "credit", "commit"}

\* The journal is as it was, or one entry longer.
Grows == journal' = journal \/ \E e \in JournalEntry : journal' = Append(journal, e)

LEMMA LoggedKept ==
  ASSUME TypeOK, Grows, NEW a, NEW b, Logged(a, b)
  PROVE  Logged(a, b)'
<1>1. PICK i \in DOMAIN journal : journal[i] = Undo(a, b)
  BY DEF Logged
<1>2. CASE journal' = journal
  BY <1>1, <1>2 DEF Logged, Undo
<1>3. CASE \E e \in JournalEntry : journal' = Append(journal, e)
  <2>1. i \in DOMAIN journal' /\ journal'[i] = journal[i]
    BY <1>1, <1>3 DEF TypeOK
  <2> QED BY <1>1, <2>1 DEF Logged, Undo
<1> QED BY <1>2, <1>3 DEF Grows

LEMMA LoggedNow ==
  ASSUME TypeOK, NEW a, NEW b, journal' = Append(journal, Undo(a, b))
  PROVE  Logged(a, b)'
<1> DEFINE i == Len(journal) + 1
<1>1. i \in DOMAIN journal' /\ journal'[i] = Undo(a, b)
  BY DEF TypeOK, Undo
<1> QED BY <1>1 DEF Logged, Undo

\* A step of a handler: the other sessions keep what they have logged.
LEMMA HandlerAhead ==
  ASSUME TypeOK, Ahead, NEW s \in Sessions, Grows,
         server = "up", server' = "up",
         \A r \in Sessions \ {s} : op'[r] = op[r],
         op'[s] = op[s] \/ op'[s].pc \notin Owing \/ Owed(s)'
  PROVE  Ahead'
<1>1. ASSUME NEW r \in Sessions, op'[r] = op[r] PROVE Owed(r)'
  BY <1>1, LoggedKept DEF Ahead, Owed
<1>2. CASE op'[s].pc \notin Owing
  BY <1>1, <1>2 DEF Ahead, Owed, Owing
<1> QED BY <1>1, <1>2 DEF Ahead

\* Steps of the handlers after which nothing more is owed.
LEMMA FreeAhead ==
  ASSUME TypeOK, Ahead, NEW s \in Sessions, Grows, server = "up", UNCHANGED boot,
         NEW o, o.pc \notin Owing, op' = [op EXCEPT ![s] = o]
  PROVE  Ahead'
<1>1. op'[s] = o /\ \A r \in Sessions \ {s} : op'[r] = op[r]
  BY DEF TypeOK
<1> QED BY <1>1, HandlerAhead DEF boot

LEMMA JournalGrows ==
  ASSUME TypeOK, NEW e \in JournalEntry, JournalLogEntry(e) PROVE Grows
  BY DEF JournalLogEntry, Grows

LEMMA StepAhead ==
  ASSUME TypeOK, Ahead, MaxFaults = 0, [Next]_vars
  PROVE  Ahead'
<1> USE DEF At
<1>a. ~Fault
  BY DEF TypeOK, Fault
<1>b. \A s \in Sessions : op[s] \in Handler /\ op[s] \in OpRecord
  BY DEF TypeOK, Handler
<1>c. Users \subseteq Sessions /\ Employees \subseteq Sessions /\ Managers \subseteq Sessions
  BY DEF Sessions
<1>d. Idle.pc \notin Owing
  BY DEF Idle, Owing
<1>e. \A n \in Amounts : n \in Int
  BY LedgerAssumption
<1>1. ASSUME NEW s \in Users, Menu(s) PROVE Ahead'
  BY <1>1 DEF Menu, SelectAccount, LeaveAccount, Ahead, Owed, Logged, Undo, disk, boot
<1>2. ASSUME NEW s \in Sessions, NEW a \in Accounts, NEW t, NEW n, NEW d,
             ReadAccount(s, a, t, n, d)
      PROVE  Ahead'
  <2> DEFINE o == [Idle EXCEPT !.pc = "update", !.type = t, !.from = a, !.amount = n,
                               !.mine = Plus(accounts[a], d)]
  <2>1. o.pc \notin Owing /\ op' = [op EXCEPT ![s] = o]
    BY <1>2 DEF ReadAccount, Idle, Owing
  <2>2. server = "up" /\ Grows /\ UNCHANGED boot
    BY <1>2 DEF ReadAccount, Begin, Grows, disk
  <2> QED BY <2>1, <2>2, FreeAhead
<1>3. ASSUME NEW s \in Users, Deposit(s) \/ Withdraw(s) PROVE Ahead'
  BY <1>2, <1>3, <1>c DEF Deposit, Withdraw
<1>4. ASSUME NEW s \in Employees, CreditLoan(s) PROVE Ahead'
  BY <1>2, <1>4, <1>c DEF CreditLoan
<1>5. ASSUME NEW s \in Sessions, UpdateAccount(s) PROVE Ahead'
  <2>1. server = "up" /\ Grows /\ UNCHANGED boot
    BY <1>5 DEF UpdateAccount, Grows
  <2>2. op' = [op EXCEPT ![s].pc = "record"]
    BY <1>5, <1>a DEF UpdateAccount, Goto
  <2>3. [op[s] EXCEPT !.pc = "record"].pc \notin Owing
    BY <1>b DEF OpRecord, Owing
  <2> QED BY <2>1, <2>2, <2>3, FreeAhead
<1>6. ASSUME NEW s \in Sessions, RecordTransaction(s) \/ RecordIn(s) PROVE Ahead'
  <2>1. server = "up" /\ Grows /\ UNCHANGED boot
    BY <1>6 DEF RecordTransaction, RecordIn, AddTransaction, Grows
  <2>2. op' = [op EXCEPT ![s] = Idle]
    BY <1>6 DEF RecordTransaction, RecordIn, Finish
  <2> QED BY <2>1, <2>2, <1>d, FreeAhead
<1>7. ASSUME NEW s \in Users, ReadSender(s) PROVE Ahead'
  <2>1. PICK a \in Accounts, b \in Accounts, n \in Amounts :
          /\ Begin(s)
          /\ op' = [op EXCEPT ![s] = [Idle EXCEPT !.pc = "receiver", !.from = a, !.to = b,
                                                  !.amount = n, !.mine = accounts[a]]]
          /\ UNCHANGED <<disk, boot>>
    BY <1>7 DEF ReadSender
  <2>2. [Idle EXCEPT !.pc = "receiver", !.from = a, !.to = b,
                     !.amount = n, !.mine = accounts[a]].pc \notin Owing
    BY DEF Idle, Owing
  <2>3. server = "up" /\ Grows
    BY <2>1 DEF Begin, Grows, disk
  <2> QED BY <2>1, <2>2, <2>3, <1>c, FreeAhead
<1>8. ASSUME NEW s \in Users, ReadReceiver(s) PROVE Ahead'
  <2>1. server = "up" /\ Grows /\ UNCHANGED boot
    BY <1>8 DEF ReadReceiver, Grows, disk
  <2>2. CASE Finish(s)
    BY <2>1, <2>2, <1>c, <1>d, FreeAhead DEF Finish
  <2>3. CASE op' = [op EXCEPT ![s].pc = "undoSender", ![s].theirs = accounts[op[s].to]]
    <3>1. [op[s] EXCEPT !.pc = "undoSender", !.theirs = accounts[op[s].to]].pc \notin Owing
      BY <1>b, <1>c DEF OpRecord, Owing
    <3>2. op' = [op EXCEPT ![s] = [op[s] EXCEPT !.pc = "undoSender",
                                               !.theirs = accounts[op[s].to]]]
      BY <2>3, <1>c DEF TypeOK
    <3> QED BY <2>1, <3>1, <3>2, <1>c, FreeAhead
  <2> QED BY <1>8, <2>2, <2>3 DEF ReadReceiver
<1>9. ASSUME NEW s \in Users, LogSenderUndo(s) PROVE Ahead'
  <2>1. /\ server = "up" /\ server' = "up"
        /\ journal' = Append(journal, Undo(op[s].from, op[s].mine.balance))
        /\ op' = [op EXCEPT ![s].pc = "undoReceiver"]
    BY <1>9, <1>a DEF LogSenderUndo, JournalLogEntry, Goto, boot
  <2>2. /\ op[s].from \in Accounts /\ op[s].mine.balance \in Int
        /\ op'[s].pc = "undoReceiver" /\ op'[s].from = op[s].from /\ op'[s].mine = op[s].mine
        /\ \A r \in Sessions \ {s} : op'[r] = op[r]
    BY <1>9, <2>1, <1>b, <1>c DEF LogSenderUndo, TypeOK, Handler, OpRecord, Account, TransferSteps
  <2>3. \E i \in DOMAIN journal' : journal'[i] = Undo(op[s].from, op[s].mine.balance)
    BY <2>1, LoggedNow DEF Logged, Undo
  <2>4. Owed(s)'
    BY <2>2, <2>3 DEF Owed, Logged, Undo
  <2>5. Grows
    BY <2>1, <2>2, UndoType DEF Grows
  <2> QED BY <2>1, <2>2, <2>4, <2>5, <1>c, HandlerAhead
<1>10. ASSUME NEW s \in Users, LogReceiverUndo(s) PROVE Ahead'
  <2>0. s \in Sessions /\ op[s].pc = "undoReceiver"
    BY <1>10, <1>c DEF LogReceiverUndo
  <2>1. /\ server = "up" /\ server' = "up"
        /\ journal' = Append(journal, Undo(op[s].to, op[s].theirs.balance))
        /\ op' = [op EXCEPT ![s].pc = "debit", ![s].mine = Plus(@, -op[s].amount),
                            ![s].theirs = Plus(@, op[s].amount)]
    BY <1>10, <1>a DEF LogReceiverUndo, JournalLogEntry, boot
  <2>2. /\ op[s].to \in Accounts /\ op[s].amount \in Int
        /\ op[s].mine \in Account /\ op[s].theirs \in Account
        /\ op[s].mine.balance \in Int /\ op[s].theirs.balance \in Int
    <3>1. op[s].to \in Accounts /\ op[s].amount \in Amounts
      BY <2>0, <1>b DEF Handler, TransferSteps
    <3>2. op[s].mine \in Account /\ op[s].theirs \in Account
      BY <2>0, <1>b DEF OpRecord
    <3>3. op[s].mine.balance \in Int /\ op[s].theirs.balance \in Int
      BY <3>2 DEF Account
    <3> QED BY <3>1, <3>2, <3>3, <1>e
  <2>3. /\ op'[s].pc = "debit" /\ op'[s].from = op[s].from /\ op'[s].to = op[s].to
        /\ op'[s].amount = op[s].amount
        /\ op'[s].mine.balance = op[s].mine.balance - op[s].amount
        /\ op'[s].theirs.balance = op[s].theirs.balance + op[s].amount
        /\ \A r \in Sessions \ {s} : op'[r] = op[r]
    <3>1. /\ op'[s].pc = "debit" /\ op'[s].from = op[s].from /\ op'[s].to = op[s].to
          /\ op'[s].amount = op[s].amount
          /\ op'[s].mine = Plus(op[s].mine, -op[s].amount)
          /\ op'[s].theirs = Plus(op[s].theirs, op[s].amount)
          /\ \A r \in Sessions \ {s} : op'[r] = op[r]
      BY <2>0, <2>1, <1>b DEF TypeOK, OpRecord
    <3>2. ASSUME NEW account \in Account, NEW n \in Int
          PROVE  Plus(account, n).balance = account.balance + n
      BY DEF Plus, Account
    <3>3. /\ Plus(op[s].mine, -op[s].amount).balance = op[s].mine.balance + (-op[s].amount)
          /\ Plus(op[s].theirs, op[s].amount).balance = op[s].theirs.balance + op[s].amount
      BY <3>2, <2>2
    <3> QED BY <3>1, <3>3, <2>2
  <2>4. Grows
    BY <2>1, <2>2, UndoType DEF Grows
  <2>5. \E i \in DOMAIN journal' : journal'[i] = Undo(op[s].to, op[s].theirs.balance)
    BY <2>1, LoggedNow DEF Logged, Undo
  <2>6. Logged(op[s].from, op[s].mine.balance)
    BY <2>0 DEF Ahead, Owed
  <2>7. \E i \in DOMAIN journal' : journal'[i] = Undo(op[s].from, op[s].mine.balance)
    BY <2>4, <2>6, LoggedKept DEF Logged, Undo
  <2>8. /\ op'[s].mine.balance + op'[s].amount = op[s].mine.balance
        /\ op'[s].theirs.balance - op'[s].amount = op[s].theirs.balance
    BY <2>2, <2>3
  <2>9. Owed(s)'
    BY <2>3, <2>5, <2>7, <2>8 DEF Owed, Logged, Undo
  <2> QED BY <2>0, <2>1, <2>3, <2>4, <2>9, HandlerAhead
<1>11. ASSUME NEW s \in Users, Debit(s) \/ Credit(s) PROVE Ahead'
  <2>0. s \in Sessions /\ op[s].pc \in {"debit", "credit"}
    BY <1>11, <1>c DEF Debit, Credit
  <2>1. /\ server = "up" /\ server' = "up" /\ Grows
        /\ op' = [op EXCEPT ![s].pc = "credit"] \/ op' = [op EXCEPT ![s].pc = "commit"]
    BY <1>11, <1>a DEF Debit, Credit, Goto, boot, Grows
  <2>2. /\ op'[s].pc \in {"credit", "commit"} /\ op'[s].from = op[s].from
        /\ op'[s].to = op[s].to /\ op'[s].amount = op[s].amount
        /\ op'[s].mine = op[s].mine /\ op'[s].theirs = op[s].theirs
        /\ \A r \in Sessions \ {s} : op'[r] = op[r]
    BY <2>0, <2>1, <1>b DEF TypeOK, OpRecord
  <2>3. /\ Logged(op[s].from, op[s].mine.balance + op[s].amount)
        /\ Logged(op[s].to, op[s].theirs.balance - op[s].amount)
    BY <2>0 DEF Ahead, Owed
  <2>4. journal' = journal
    BY <1>11 DEF Debit, Credit
  <2>5. Owed(s)'
    BY <2>2, <2>3, <2>4 DEF Owed, Logged, Undo
  <2> QED BY <2>0, <2>1, <2>2, <2>5, HandlerAhead
<1>12. ASSUME NEW s \in Users, Commit(s) PROVE Ahead'
  <2>1. server = "up" /\ UNCHANGED boot /\ op' = [op EXCEPT ![s].pc = "recordOut"]
    BY <1>12 DEF Commit, Goto
  <2>2. Grows
    BY <1>12, CommitEntryType, JournalGrows DEF Commit
  <2>3. [op[s] EXCEPT !.pc = "recordOut"].pc \notin Owing
    BY <1>b, <1>c DEF OpRecord, Owing
  <2> QED BY <2>1, <2>2, <2>3, <1>c, FreeAhead
<1>13. ASSUME NEW s \in Users, GiveUp(s) PROVE Ahead'
  <2>1. server = "up" /\ UNCHANGED boot /\ Grows /\ op' = [op EXCEPT ![s] = Idle]
    BY <1>13 DEF GiveUp, Finish, Grows, disk
  <2> QED BY <2>1, <1>c, <1>d, FreeAhead
<1>14. ASSUME NEW s \in Users, RecordOut(s) PROVE Ahead'
  <2>1. server = "up" /\ UNCHANGED boot /\ Grows /\ op' = [op EXCEPT ![s].pc = "recordIn"]
    BY <1>14 DEF RecordOut, AddTransaction, Goto, Grows
  <2>2. [op[s] EXCEPT !.pc = "recordIn"].pc \notin Owing
    BY <1>b, <1>c DEF OpRecord, Owing
  <2> QED BY <2>1, <2>2, <1>c, FreeAhead
<1>15. ASSUME NEW s \in Managers, SetStatus(s) PROVE Ahead'
  <2>1. server = "up" /\ UNCHANGED boot /\ Grows
    BY <1>15
       DEF SetStatus, BeginStatus, ScanAccount, UpdateStatus, EndStatus, Begin, Grows, disk
  <2>2. /\ \A r \in Sessions \ {s} : op'[r] = op[r]
        /\ op'[s].pc \in {"menu", "scan", "statusUpdate"}
    <3>1. CASE BeginStatus(s)
      BY <3>1, <1>c DEF BeginStatus, Idle, TypeOK
    <3>2. CASE ScanAccount(s)
      BY <3>2, <1>b, <1>c DEF ScanAccount, TypeOK, OpRecord
    <3>3. CASE UpdateStatus(s)
      BY <3>3, <1>b, <1>c DEF UpdateStatus, Goto, TypeOK, OpRecord
    <3>4. CASE EndStatus(s)
      BY <3>4, <1>c DEF EndStatus, Finish, Idle, TypeOK
    <3> QED BY <1>15, <3>1, <3>2, <3>3, <3>4 DEF SetStatus
  <2> QED BY <2>1, <2>2, <1>c, HandlerAhead DEF Owing, boot
<1>16. CASE Recovery
  <2>1. server # "up" /\ UNCHANGED op
    BY <1>16
       DEF Recovery, ReadJournal, RollBackEntry, EndRollBack, JournalLogClear, menus
  <2> QED BY <2>1 DEF Ahead, Owed
<1>17. CASE Crash
  BY <1>17 DEF Crash, Idle, Ahead, Owed
<1>18. CASE UNCHANGED vars
  BY <1>18 DEF vars, disk, boot, menus, Ahead, Owed, Logged, Undo
<1> QED
  BY <1>1, <1>3, <1>4, <1>5, <1>6, <1>7, <1>8, <1>9, <1>10, <1>11, <1>12, <1>13, <1>14,
     <1>15, <1>16, <1>17, <1>18, <1>c
     DEF Next, Transfer

\* While no write fails, the journal holds both old balances of a transfer
\* before its first record changes, whatever other sessions log meanwhile and
\* wherever the server has crashed before.
THEOREM LoggedFirst == ASSUME MaxFaults = 0 PROVE Spec => []WriteAhead
<1>1. Init => Ahead
  BY DEF Init, Idle, Ahead, Owed
<1>2. TypeOK /\ Ahead /\ [Next]_vars => Ahead'
  BY StepAhead
<1>3. Ahead => WriteAhead
  BY DEF Ahead, Owed, WriteAhead
<1> QED BY <1>1, <1>2, <1>3, TypeCorrect, PTL DEF Spec
=============================================================================
