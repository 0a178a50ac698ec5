------------------------------- MODULE Ledger -------------------------------
(***************************************************************************)
(* Money in the server process: the account file, the write-ahead journal  *)
(* and the transaction file, and the handlers of concurrent sessions that  *)
(* read, compute and write them (customer.c, employee.c, manager.c), with  *)
(* crashes of the process, failing writes, and the recovery that runs at   *)
(* the next start (server.c).                                              *)
(*                                                                         *)
(* A step is one call of the data-access layer: one getAccount, one        *)
(* updateAccount, one journal_log_entry, one addTransaction.  fcntl locks  *)
(* do not appear: all sessions are threads of one process and never make   *)
(* each other wait (module FileLocks).                                     *)
(***************************************************************************)
EXTENDS Integers, Sequences

CONSTANTS
  Accounts,        \* accountIds in data/accounts.dat
  Users,           \* customers; a customer has at most one session (Sessions)
  Owner,           \* ownerUserId of each account
  Employees,       \* sessions of employees, who credit approved loans
  Managers,        \* sessions of managers, who (de)activate customers
  Amounts,         \* amounts a client may type
  InitialBalance,  \* balance of each account at the first start
  Serial,          \* TRUE: only executions in which handlers do not overlap
  MaxBuffer,       \* MAX_BUFFER: journal entries that recovery reads
  JournalLimit,    \* bound: a transfer starts only below this journal length
  MaxOps,          \* bound: operations started
  MaxCrashes,      \* bound: crashes of the server process
  MaxFaults        \* bound: writes that fail

Sessions == Users \cup Employees \cup Managers

ASSUME LedgerAssumption ==
  /\ Accounts \subseteq Nat \ {0}
  /\ Owner \in [Accounts -> Users]
  /\ Amounts \subseteq Nat \ {0}
  /\ InitialBalance \in [Accounts -> Nat]
  /\ Serial \in BOOLEAN
  /\ {MaxBuffer, JournalLimit, MaxOps, MaxCrashes, MaxFaults} \subseteq Nat

VARIABLES
  accounts,      \* data/accounts.dat, by accountId
  journal,       \* data/journal.log
  transactions,  \* data/transactions.dat
  server,        \* where the process is: down, in recovery, or serving
  cursor,        \* i, the entry run_server_recovery is about to look at
  selected,      \* account whose menu a customer is in, 0 for none
  op,            \* the handler each session is in, with its local variables
  booked,        \* history: each account after the operations that took effect
  raced,         \* history: accounts two sessions worked on at the same time
  ops, crashes, faults  \* how much of each bound is used

disk   == <<accounts, journal, transactions>>
boot   == <<server, cursor>>
menus  == <<selected, op>>
audit  == <<booked, raced>>
bounds == <<ops, crashes, faults>>
vars   == <<disk, boot, menus, audit, bounds>>

-----------------------------------------------------------------------------
(* Records *)

Account      == [balance : Int, isActive : BOOLEAN]
JournalEntry == [type : {"TXN_START"}, accountId : Accounts, oldBalance : Int]
                  \cup [type : {"TXN_COMMIT"}, accountId : {0}, oldBalance : {0}]
Transaction  == [accountId : Accounts,
                 type : {"DEPOSIT", "WITHDRAWAL", "TRANSFER_OUT", "TRANSFER_IN"},
                 amount : Amounts, newBalance : Int]

\* Variant: an undo entry that does not say whose balance it is.
UndoOfNobody(a, old) == [type |-> "TXN_START", accountId |-> 0, oldBalance |-> old]

Undo(a, old)    == [type |-> "TXN_START", accountId |-> a, oldBalance |-> old]
CommitEntry     == [type |-> "TXN_COMMIT", accountId |-> 0, oldBalance |-> 0]
Txn(a, k, n, b) == [accountId |-> a, type |-> k, amount |-> n, newBalance |-> b]

Plus(account, n) == [account EXCEPT !.balance = @ + n]

\* A session between two menu choices.
Blank == [balance |-> 0, isActive |-> FALSE]
Idle  == [pc |-> "menu", type |-> "DEPOSIT", from |-> 0, to |-> 0, amount |-> 0,
          mine |-> Blank, theirs |-> Blank, todo |-> {}, status |-> FALSE,
          ok |-> TRUE]

Init ==
  /\ accounts = [a \in Accounts |-> [balance |-> InitialBalance[a], isActive |-> TRUE]]
  /\ journal = <<>>
  /\ transactions = <<>>
  /\ server = "down"
  /\ cursor = 0
  /\ selected = [u \in Users |-> 0]
  /\ op = [s \in Sessions |-> Idle]
  /\ booked = accounts
  /\ raced = {}
  /\ ops = 0 /\ crashes = 0 /\ faults = 0

-----------------------------------------------------------------------------
(* Steps that the handlers share *)

\* Accounts a session has read and has still to write or to commit.
Window(s) ==
  CASE op[s].pc \in {"update", "receiver", "statusUpdate"} -> {op[s].from}
    [] op[s].pc \in {"undoSender", "undoReceiver", "debit", "credit", "commit"}
         -> {op[s].from, op[s].to}
    [] OTHER -> {}

\* History: session s reads account a while another session works on it.
Opens(s, a) ==
  raced' = IF \E r \in Sessions \ {s} : a \in Window(r) THEN raced \cup {a} ELSE raced

At(s, pc) == server = "up" /\ op[s].pc = pc
Begin(s)  ==
  /\ At(s, "menu")
  /\ Serial => \A r \in Sessions : op[r].pc = "menu"
  /\ ops < MaxOps /\ ops' = ops + 1
Goto(s, pc) == op' = [op EXCEPT ![s].pc = pc]
Finish(s)   == op' = [op EXCEPT ![s] = Idle]

\* A system call of this step fails.
Fault == faults < MaxFaults /\ faults' = faults + 1

\* update_record of an account, successful or not.
Update(a, account) == accounts' = [accounts EXCEPT ![a] = account]

\* append_record to the transaction file; on failure the handler goes on.
AddTransaction(t) ==
  /\ \/ transactions' = Append(transactions, t) /\ UNCHANGED faults
     \/ Fault /\ UNCHANGED transactions
  /\ UNCHANGED <<accounts, journal, boot, selected, audit, ops, crashes>>

\* journal_log_entry returns nothing: the handler goes on after a failure too.
JournalLogEntry(e) ==
  \/ journal' = Append(journal, e) /\ UNCHANGED faults
  \/ Fault /\ UNCHANGED journal

-----------------------------------------------------------------------------
(* The account a customer works on *)

\* account_selection_menu lists the active accounts; the choice then stays,
\* whatever happens to the account.
SelectAccount(s) ==
  /\ At(s, "menu")
  /\ selected[s] = 0
  /\ \E a \in Accounts :
       Owner[a] = s /\ accounts[a].isActive /\ selected' = [selected EXCEPT ![s] = a]
  /\ UNCHANGED <<disk, boot, op, audit, bounds>>

\* Switch account, or log out, or disconnect.
LeaveAccount(s) ==
  /\ At(s, "menu")
  /\ selected[s] # 0
  /\ selected' = [selected EXCEPT ![s] = 0]
  /\ UNCHANGED <<disk, boot, op, audit, bounds>>

-----------------------------------------------------------------------------
(* Deposit, withdrawal and the credit of an approved loan *)

\* Read an account and compute its new balance.
ReadAccount(s, a, type, n, delta) ==
  /\ Begin(s)
  /\ op' = [op EXCEPT ![s] = [Idle EXCEPT !.pc = "update", !.type = type,
                                          !.from = a, !.amount = n,
                                          !.mine = Plus(accounts[a], delta)]]
  /\ Opens(s, a)
  /\ UNCHANGED <<disk, boot, selected, booked, crashes, faults>>

Deposit(s) ==
  \E a \in Accounts, n \in Amounts :
    selected[s] = a /\ ReadAccount(s, a, "DEPOSIT", n, n)

Withdraw(s) ==
  \E a \in Accounts, n \in Amounts :
    /\ selected[s] = a
    /\ n <= accounts[a].balance
    /\ ReadAccount(s, a, "WITHDRAWAL", n, -n)

CreditLoan(s) ==
  \E a \in Accounts, n \in Amounts : ReadAccount(s, a, "DEPOSIT", n, n)

\* History: the change of balance the session is making to its account.
Delta(s) == IF op[s].type = "DEPOSIT" THEN op[s].amount ELSE -op[s].amount

UpdateAccount(s) ==
  /\ At(s, "update")
  /\ \/ /\ Update(op[s].from, op[s].mine)
        /\ booked' = [booked EXCEPT ![op[s].from] = Plus(@, Delta(s))]
        /\ Goto(s, "record")
        /\ UNCHANGED faults
     \/ Fault /\ Finish(s) /\ UNCHANGED <<accounts, booked>>
  /\ UNCHANGED <<journal, transactions, boot, selected, raced, ops, crashes>>

RecordTransaction(s) ==
  /\ At(s, "record")
  /\ AddTransaction(Txn(op[s].from, op[s].type, op[s].amount, op[s].mine.balance))
  /\ Finish(s)

-----------------------------------------------------------------------------
(* handle_transfer_funds *)

ReadSender(s) ==
  \E a \in Accounts, b \in Accounts, n \in Amounts :
    /\ Begin(s)
    /\ selected[s] = a
    /\ Len(journal) + 3 <= JournalLimit
    /\ op' = [op EXCEPT ![s] = [Idle EXCEPT !.pc = "receiver", !.from = a, !.to = b,
                                            !.amount = n, !.mine = accounts[a]]]
    /\ Opens(s, a)
    /\ UNCHANGED <<disk, boot, selected, booked, crashes, faults>>

\* Variants: a check forgotten.
TransferableUnchecked(s, receiver) ==
  op[s].mine.isActive /\ receiver.isActive /\ op[s].from # op[s].to

TransferableToSelf(s, receiver) ==
  op[s].mine.isActive /\ receiver.isActive /\ op[s].mine.balance >= op[s].amount

TransferableInactive(s, receiver) ==
  op[s].from # op[s].to /\ op[s].mine.balance >= op[s].amount

\* The validation checks of the handler on the two records it has read.
Transferable(s, receiver) ==
  /\ op[s].mine.isActive /\ receiver.isActive
  /\ op[s].from # op[s].to
  /\ op[s].mine.balance >= op[s].amount

ReadReceiver(s) ==
  /\ At(s, "receiver")
  /\ LET receiver == accounts[op[s].to]
     IN \/ /\ Transferable(s, receiver)
           /\ op' = [op EXCEPT ![s].pc = "undoSender", ![s].theirs = receiver]
           /\ Opens(s, op[s].to)
        \/ ~Transferable(s, receiver) /\ Finish(s) /\ UNCHANGED raced
  /\ UNCHANGED <<disk, boot, selected, booked, bounds>>

\* Variant: the balance after the debit is logged as the old one.
LogSenderUndoLate(s) ==
  /\ At(s, "undoSender")
  /\ JournalLogEntry(Undo(op[s].from, op[s].mine.balance - op[s].amount))
  /\ Goto(s, "undoReceiver")
  /\ UNCHANGED <<accounts, transactions, boot, selected, audit, ops, crashes>>

LogSenderUndo(s) ==
  /\ At(s, "undoSender")
  /\ JournalLogEntry(Undo(op[s].from, op[s].mine.balance))
  /\ Goto(s, "undoReceiver")
  /\ UNCHANGED <<accounts, transactions, boot, selected, audit, ops, crashes>>

LogReceiverUndo(s) ==
  /\ At(s, "undoReceiver")
  /\ JournalLogEntry(Undo(op[s].to, op[s].theirs.balance))
  /\ op' = [op EXCEPT ![s].pc = "debit",
                      ![s].mine = Plus(@, -op[s].amount),
                      ![s].theirs = Plus(@, op[s].amount)]
  /\ UNCHANGED <<accounts, transactions, boot, selected, audit, ops, crashes>>

\* Both updates are made, whether or not the first one succeeds.
Debit(s) ==
  /\ At(s, "debit")
  /\ \/ Update(op[s].from, op[s].mine) /\ Goto(s, "credit") /\ UNCHANGED faults
     \/ /\ Fault
        /\ op' = [op EXCEPT ![s].pc = "credit", ![s].ok = FALSE]
        /\ UNCHANGED accounts
  /\ UNCHANGED <<journal, transactions, boot, selected, audit, ops, crashes>>

Credit(s) ==
  /\ At(s, "credit")
  /\ \/ Update(op[s].to, op[s].theirs) /\ Goto(s, "commit") /\ UNCHANGED faults
     \/ /\ Fault
        /\ op' = [op EXCEPT ![s].pc = "commit", ![s].ok = FALSE]
        /\ UNCHANGED accounts
  /\ UNCHANGED <<journal, transactions, boot, selected, audit, ops, crashes>>

Commit(s) ==
  /\ At(s, "commit")
  /\ op[s].ok
  /\ JournalLogEntry(CommitEntry)
  /\ booked' = [booked EXCEPT ![op[s].from] = Plus(@, -op[s].amount),
                              ![op[s].to] = Plus(@, op[s].amount)]
  /\ Goto(s, "recordOut")
  /\ UNCHANGED <<accounts, transactions, boot, selected, raced, ops, crashes>>

\* An update failed: no commit entry, and the undo entries stay in the journal.
GiveUp(s) ==
  /\ At(s, "commit")
  /\ ~op[s].ok
  /\ Finish(s)
  /\ UNCHANGED <<disk, boot, selected, audit, bounds>>

RecordOut(s) ==
  /\ At(s, "recordOut")
  /\ AddTransaction(Txn(op[s].from, "TRANSFER_OUT", op[s].amount, op[s].mine.balance))
  /\ Goto(s, "recordIn")

\* Variant: the receiver's entry is written for the sender.
RecordInForSender(s) ==
  /\ At(s, "recordIn")
  /\ AddTransaction(Txn(op[s].from, "TRANSFER_IN", op[s].amount, op[s].theirs.balance))
  /\ Finish(s)

RecordIn(s) ==
  /\ At(s, "recordIn")
  /\ AddTransaction(Txn(op[s].to, "TRANSFER_IN", op[s].amount, op[s].theirs.balance))
  /\ Finish(s)

-----------------------------------------------------------------------------
(* The account loop of handle_set_account_status: the accounts of one user, *)
(* in the order of the file                                                *)

BeginStatus(s) ==
  \E u \in Users, status \in BOOLEAN :
    /\ Begin(s)
    /\ op' = [op EXCEPT ![s] = [Idle EXCEPT !.pc = "scan", !.status = status,
                                            !.todo = {a \in Accounts : Owner[a] = u}]]
    /\ UNCHANGED <<disk, boot, selected, audit, crashes, faults>>

ScanAccount(s) ==
  /\ At(s, "scan")
  /\ \E a \in op[s].todo :
       /\ \A b \in op[s].todo : a <= b
       /\ \/ /\ accounts[a].isActive # op[s].status
             /\ op' = [op EXCEPT ![s].pc = "statusUpdate", ![s].from = a,
                                 ![s].todo = @ \ {a},
                                 ![s].mine = [accounts[a] EXCEPT !.isActive = op[s].status]]
             /\ Opens(s, a)
          \/ /\ accounts[a].isActive = op[s].status
             /\ op' = [op EXCEPT ![s].todo = @ \ {a}]
             /\ UNCHANGED raced
  /\ UNCHANGED <<disk, boot, selected, booked, bounds>>

\* The loop goes on after a write that failed.
UpdateStatus(s) ==
  /\ At(s, "statusUpdate")
  /\ \/ /\ Update(op[s].from, op[s].mine)
        /\ booked' = [booked EXCEPT ![op[s].from].isActive = op[s].status]
        /\ UNCHANGED faults
     \/ Fault /\ UNCHANGED <<accounts, booked>>
  /\ Goto(s, "scan")
  /\ UNCHANGED <<journal, transactions, boot, selected, raced, ops, crashes>>

\* Variant: the loop returns only if it found an account to change.
EndStatusIfChanged(s) ==
  /\ At(s, "scan")
  /\ op[s].todo = {} /\ op[s].from # 0
  /\ Finish(s)
  /\ UNCHANGED <<disk, boot, selected, audit, bounds>>

EndStatus(s) ==
  /\ At(s, "scan")
  /\ op[s].todo = {}
  /\ Finish(s)
  /\ UNCHANGED <<disk, boot, selected, audit, bounds>>

-----------------------------------------------------------------------------
(* A crash of the process, and run_server_recovery at the next start *)

Crash ==
  /\ server # "down"
  /\ crashes < MaxCrashes
  /\ crashes' = crashes + 1
  /\ server' = "down"
  /\ cursor' = 0
  /\ selected' = [u \in Users |-> 0]
  /\ op' = [s \in Sessions |-> Idle]
  /\ UNCHANGED <<disk, audit, ops, faults>>

\* Entries that recovery reads into its array.
EntryCount == IF Len(journal) <= MaxBuffer THEN Len(journal) ELSE MaxBuffer

\* A journal that cannot be opened counts as no journal.
ReadJournal ==
  /\ server = "down"
  /\ \/ EntryCount = 0 /\ server' = "up" /\ UNCHANGED <<cursor, faults>>
     \/ Fault /\ server' = "up" /\ UNCHANGED cursor
     \/ /\ EntryCount > 0
        /\ journal[EntryCount].type = "TXN_COMMIT"
        /\ server' = "clear" /\ UNCHANGED <<cursor, faults>>
     \/ /\ EntryCount > 0
        /\ journal[EntryCount].type = "TXN_START"
        /\ server' = "rollback" /\ cursor' = EntryCount /\ UNCHANGED faults
  /\ UNCHANGED <<disk, menus, audit, ops, crashes>>

\* Variant: the loop restores an account and does not move on.
RollBackEntryAgain ==
  /\ server = "rollback"
  /\ cursor > 0
  /\ accounts' = [accounts EXCEPT ![journal[cursor].accountId].balance = journal[cursor].oldBalance]
  /\ UNCHANGED <<journal, transactions, boot, menus, audit, bounds>>

\* One iteration of the backward loop.  The result of updateAccount is ignored.
RollBackEntry ==
  /\ server = "rollback"
  /\ cursor > 0
  /\ LET entry == journal[cursor]
     IN \/ /\ entry.type = "TXN_COMMIT"
           /\ server' = "clear"
           /\ UNCHANGED <<accounts, cursor, faults>>
        \/ /\ entry.type = "TXN_START"
           /\ \/ /\ accounts' = [accounts EXCEPT ![entry.accountId].balance = entry.oldBalance]
                 /\ UNCHANGED faults
              \/ Fault /\ UNCHANGED accounts
           /\ cursor' = cursor - 1
           /\ UNCHANGED server
  /\ UNCHANGED <<journal, transactions, menus, audit, ops, crashes>>

EndRollBack ==
  /\ server = "rollback"
  /\ cursor = 0
  /\ server' = "clear"
  /\ UNCHANGED <<disk, cursor, menus, audit, bounds>>

\* Variant: the journal survives its recovery.
JournalLogClearNot ==
  /\ server = "clear"
  /\ server' = "up" /\ cursor' = 0
  /\ UNCHANGED <<disk, menus, audit, bounds>>

\* main goes on to accept clients whether or not the journal was cleared.
JournalLogClear ==
  /\ server = "clear"
  /\ \/ journal' = <<>> /\ UNCHANGED faults
     \/ Fault /\ UNCHANGED journal
  /\ server' = "up"
  /\ cursor' = 0
  /\ UNCHANGED <<accounts, transactions, menus, audit, ops, crashes>>

-----------------------------------------------------------------------------

Menu(s)      == SelectAccount(s) \/ LeaveAccount(s)
Transfer(s)  == \/ ReadSender(s) \/ ReadReceiver(s)
                \/ LogSenderUndo(s) \/ LogReceiverUndo(s)
                \/ Debit(s) \/ Credit(s) \/ Commit(s) \/ GiveUp(s)
                \/ RecordOut(s) \/ RecordIn(s)
SetStatus(s) == BeginStatus(s) \/ ScanAccount(s) \/ UpdateStatus(s) \/ EndStatus(s)
Recovery     == ReadJournal \/ RollBackEntry \/ EndRollBack \/ JournalLogClear

Next ==
  \/ \E s \in Users : Menu(s) \/ Deposit(s) \/ Withdraw(s) \/ Transfer(s)
  \/ \E s \in Employees : CreditLoan(s)
  \/ \E s \in Users \cup Employees : UpdateAccount(s) \/ RecordTransaction(s)
  \/ \E s \in Managers : SetStatus(s)
  \/ Recovery
  \/ Crash

Spec == Init /\ [][Next]_vars

\* Every thread that is inside a handler is scheduled again and again, and so
\* is the main thread during recovery: no step of either waits for anything.
\* Nothing is assumed of the clients.
HandlerStep(s) ==
  op[s].pc # "menu" /\
    \/ s \in Users /\ Transfer(s)
    \/ s \in Users \cup Employees /\ (UpdateAccount(s) \/ RecordTransaction(s))
    \/ s \in Managers /\ SetStatus(s)

FairSpec == Spec /\ WF_vars(Recovery) /\ \A s \in Sessions : WF_vars(HandlerStep(s))

-----------------------------------------------------------------------------
(* Properties *)

\* The variables hold what the C types and the file formats can hold, and a
\* handler only works on accounts of the file.
TransferSteps == {"receiver", "undoSender", "undoReceiver", "debit", "credit",
                  "commit", "recordOut", "recordIn"}

OpRecord ==
  [pc : {"menu", "update", "record", "scan", "statusUpdate"} \cup TransferSteps,
   type : {"DEPOSIT", "WITHDRAWAL"}, from : Accounts \cup {0}, to : Accounts \cup {0},
   amount : Amounts \cup {0}, mine : Account, theirs : Account,
   todo : SUBSET Accounts, status : BOOLEAN, ok : BOOLEAN]

Handler ==
  {o \in OpRecord :
     /\ o.pc \notin {"menu", "scan"} => o.from \in Accounts
     /\ o.pc \in TransferSteps => o.to \in Accounts
     /\ o.pc \in TransferSteps \cup {"update", "record"} => o.amount \in Amounts}

TypeOK ==
  /\ accounts \in [Accounts -> Account]
  /\ journal \in Seq(JournalEntry)
  /\ transactions \in Seq(Transaction)
  /\ server \in {"down", "rollback", "clear", "up"}
  /\ cursor \in Nat /\ cursor <= Len(journal)
  /\ selected \in [Users -> Accounts \cup {0}]
  /\ op \in [Sessions -> Handler]
  /\ booked \in [Accounts -> Account]
  /\ raced \subseteq Accounts
  /\ ops \in Nat /\ crashes \in Nat /\ faults \in Nat

\* No account is ever overdrawn, whatever races, crashes, failed writes and
\* rollbacks happen: handle_withdraw and handle_transfer_funds check the
\* balance of the same copy of the record that they compute from and write.
NoOverdraft == \A a \in Accounts : accounts[a].balance >= 0

\* Accounts whose file record a transfer has changed and not yet committed.
InTransfer(a) ==
  \E s \in Sessions :
    \/ op[s].pc \in {"credit", "commit"} /\ op[s].from = a
    \/ op[s].pc = "commit" /\ op[s].to = a

\* An account that two sessions never worked on at the same time holds exactly
\* what its completed operations add up to, however the sessions interleave on
\* other accounts and on the journal: the read, the computation and the write
\* of a handler are one operation as long as nobody else has the record.
UncontendedExact ==
  \A a \in Accounts \ raced : InTransfer(a) \/ accounts[a] = booked[a]

\* Write-ahead logging in handle_transfer_funds: when the first record of a
\* transfer changes, the journal holds the balances that the handler read from
\* both accounts, whatever other transfers have written around them.
Logged(a, old) == \E i \in DOMAIN journal : journal[i] = Undo(a, old)

WriteAhead ==
  \A s \in Sessions :
    op[s].pc \in {"debit", "credit", "commit"} =>
      /\ Logged(op[s].from, op[s].mine.balance + op[s].amount)
      /\ Logged(op[s].to, op[s].theirs.balance - op[s].amount)

\* What run_server_recovery would make of the disk, were it to run to its end
\* now: the oldest undo entry after the last commit among those it reads wins.
OpenUndo ==
  {i \in 1..EntryCount : \A k \in i..EntryCount : journal[k].type = "TXN_START"}

OpenUndoOf(a) == {i \in OpenUndo : journal[i].accountId = a}

Oldest(I) == CHOOSE i \in I : \A k \in I : i <= k

Recovered(a) ==
  IF OpenUndoOf(a) = {} THEN accounts[a].balance
  ELSE journal[Oldest(OpenUndoOf(a))].oldBalance

\* At every instant, also inside recovery, the disk is such that a crash there
\* leaves, after the next start, every transfer applied whole or not at all and
\* every acknowledged deposit and withdrawal applied: README.md "Atomicity" and
\* "Durability".  Holds when handlers that overlap work on different
\* accounts and transfers come one at a time.
DiskRecovers == \A a \in Accounts : Recovered(a) = booked[a].balance

\* The handlers and recovery implement the one-step operations of Bank under
\* the same condition; a deposit takes effect with its write, a transfer
\* with its commit entry, and a crash and a recovery change nothing.
AsBank == INSTANCE Bank WITH
  balance <- [a \in Accounts |-> Recovered(a)],
  active  <- [a \in Accounts |-> accounts[a].isActive]

ImplementsBank == AsBank!Spec

\* A start of the server ends with clients being accepted: the backward loop
\* of run_server_recovery ends and nothing in it waits.
RecoveryCompletes == (server = "down") ~> (server = "up")

\* A handler that has read its input comes back to the menu, unless the server
\* crashes: no step of a transfer or of the account loop waits for another.
HandlersReturn == \A s \in Sessions : (op[s].pc # "menu") ~> (op[s].pc = "menu")

Quiet == server = "up" /\ \A s \in Sessions : op[s].pc = "menu"

\* With no crash and no failed write, the entries of an account in
\* transactions.dat add up to its balance when no handler is running, if two
\* sessions never worked on it at the same time: every handler that wrote a
\* balance also wrote its entries, once, for the right account and amount.
Signed(t) ==
  IF t.type \in {"DEPOSIT", "TRANSFER_IN"} THEN t.amount ELSE -t.amount

Share(t, a) == IF t.accountId = a THEN Signed(t) ELSE 0

TotalOf(history, a) ==
  LET total[i \in 0..Len(history)] ==
        IF i = 0 THEN 0 ELSE total[i - 1] + Share(history[i], a)
  IN total[Len(history)]

HistoryTotal(a) == TotalOf(transactions, a)

HistoryExplains ==
  Quiet => \A a \in Accounts \ raced :
             accounts[a].balance = InitialBalance[a] + HistoryTotal(a)

Restart == server # "up" /\ server' = "up"

\* README.md "Recovery": a start of the server leaves every account with the
\* balance of its completed operations; accounts that two sessions worked on
\* at the same time are excepted, their balance may have been lost before.
RestartExact ==
  [][Restart => \A a \in Accounts \ raced : accounts'[a].balance = booked[a].balance]_vars
=============================================================================
