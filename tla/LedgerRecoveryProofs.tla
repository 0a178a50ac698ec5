------------------------ MODULE LedgerRecoveryProofs ------------------------
(* Theorems about the journal and run_server_recovery, for crashes at any     *)
(* point of any number of handlers and starts.  No write fails, the journal   *)
(* fits the buffer that recovery reads it into, and transfers come one at a   *)
(* time, beside handlers of all other kinds.                                  *)
EXTENDS LedgerIsolationProofs

-----------------------------------------------------------------------------
(* The behaviours that are considered *)

\* No write fails, and the journal stays within what recovery reads.
Whole == MaxFaults = 0 /\ JournalLimit <= MaxBuffer

\* A transfer between its first read and its commit entry.
Moving == {"receiver", "undoSender", "undoReceiver"} \cup Writing

\* Such parts of two transfers do not overlap.
TransfersApart == \A r, s \in Sessions : op[r].pc \in Moving /\ op[s].pc \in Moving => r = s

\* Nor do two handlers work on one account at the same time.
Orderly == TransfersApart /\ raced = {}

\* Handlers that do not overlap at all are a special case (SerialIsOrderly).
Sequential == Serial = TRUE /\ Whole

-----------------------------------------------------------------------------
(* What holds between any two steps *)

\* The journal has room for what a transfer is still to log.
Room(s) ==
  CASE op[s].pc \in {"receiver", "undoSender"} -> 3
    [] op[s].pc = "undoReceiver" -> 2
    [] op[s].pc \in Writing -> 1
    [] OTHER -> 0

Fits ==
  /\ Len(journal) <= JournalLimit
  /\ \A s \in Sessions : Len(journal) + Room(s) <= JournalLimit

\* Accounts with an undo entry after the last commit.
OpenAccounts == {journal[i].accountId : i \in OpenUndo}

\* The open undo entries are of different accounts and hold their booked
\* balances; as everywhere, accounts that were raced for are excepted.
Undoable ==
  /\ \A i \in OpenUndo :
       \/ journal[i].accountId \in raced
       \/ journal[i].oldBalance = booked[journal[i].accountId].balance
  /\ \A i, k \in OpenUndo : journal[i].accountId = journal[k].accountId => i = k

\* The file holds the booked balances of all other accounts.
Settled ==
  \A a \in Accounts \ raced :
    /\ accounts[a].isActive = booked[a].isActive
    /\ a \in OpenAccounts \/ accounts[a].balance = booked[a].balance

\* Accounts for which a running transfer has logged an undo entry.
LoggedBy(s) ==
  CASE op[s].pc = "undoReceiver" -> {op[s].from}
    [] op[s].pc \in Writing -> {op[s].from, op[s].to}
    [] OTHER -> {}

\* While clients are served, the handlers are isolated, and only a running
\* transfer has open undo entries.
Served == Isolated /\ OpenAccounts = UNION {LoggedBy(s) : s \in Sessions}

\* Otherwise no handler runs, and recovery has restored what it has passed.
Unserved ==
  /\ \A s \in Sessions : op[s].pc = "menu" /\ op[s].ok
  /\ Settled
  /\ server = "rollback" =>
       \A i \in (cursor + 1)..Len(journal) :
         /\ i \in OpenUndo
         /\ accounts[journal[i].accountId].balance = journal[i].oldBalance
  /\ server = "clear" => \A a \in Accounts \ raced : accounts[a].balance = booked[a].balance

Durable == Fits /\ Undoable /\ IF server = "up" THEN Served ELSE Unserved

LEMMA Numbers ==
  /\ \A n \in Amounts : n \in Nat /\ n \in Int /\ -n \in Int
  /\ JournalLimit \in Nat /\ MaxBuffer \in Nat
BY LedgerAssumption

LEMMA TransferFields ==
  ASSUME TypeOK, NEW s \in Sessions, op[s].pc \in TransferSteps
  PROVE  /\ op[s] \in OpRecord
         /\ op[s].from \in Accounts /\ op[s].to \in Accounts /\ op[s].amount \in Amounts
         /\ op[s].mine \in Account /\ op[s].theirs \in Account
         /\ op[s].mine.balance \in Int /\ op[s].theirs.balance \in Int
         /\ op[s].amount \in Int /\ -op[s].amount \in Int
<1>1. op[s] \in Handler
  BY DEF TypeOK
<1>2. op[s] \in OpRecord /\ op[s].from \in Accounts /\ op[s].to \in Accounts /\ op[s].amount \in Amounts
  BY <1>1 DEF Handler, TransferSteps
<1>3. op[s].mine \in Account /\ op[s].theirs \in Account
  BY <1>2 DEF OpRecord
<1>4. op[s].mine.balance \in Int /\ op[s].theirs.balance \in Int
  BY <1>3 DEF Account
<1> QED BY <1>2, <1>3, <1>4, Numbers

-----------------------------------------------------------------------------
(* The open undo entries of a journal *)

LEMMA ReadWhole ==
  ASSUME TypeOK, Whole, Len(journal) <= JournalLimit
  PROVE  EntryCount = Len(journal)
<1>1. Len(journal) \in Nat /\ MaxBuffer \in Nat /\ JournalLimit \in Nat
  BY LedgerAssumption DEF TypeOK
<1> QED BY <1>1 DEF EntryCount, Whole

LEMMA OpenType ==
  ASSUME TypeOK, Whole, Len(journal) <= JournalLimit
  PROVE  /\ OpenUndo \subseteq 1..Len(journal)
         /\ \A i \in OpenUndo :
              /\ journal[i] \in JournalEntry /\ journal[i].type = "TXN_START"
              /\ journal[i].accountId \in Accounts /\ journal[i].oldBalance \in Int
<1>1. EntryCount = Len(journal)
  BY ReadWhole
<1>2. OpenUndo \subseteq 1..Len(journal)
  BY <1>1 DEF OpenUndo
<1>3. ASSUME NEW i \in OpenUndo
      PROVE  journal[i] \in JournalEntry /\ journal[i].type = "TXN_START"
  <2>1. i \in 1..EntryCount /\ \A k \in i..EntryCount : journal[k].type = "TXN_START"
    BY DEF OpenUndo
  <2>2. i \in i..EntryCount /\ i \in 1..Len(journal)
    BY <1>1, <2>1 DEF TypeOK
  <2> QED BY <2>1, <2>2 DEF TypeOK
<1> QED BY <1>2, <1>3 DEF JournalEntry

LEMMA OpenKept ==
  ASSUME UNCHANGED journal
  PROVE  OpenUndo' = OpenUndo /\ OpenAccounts' = OpenAccounts
BY DEF OpenUndo, OpenAccounts, EntryCount

LEMMA OpenNone ==
  ASSUME journal' = <<>>
  PROVE  OpenUndo' = {} /\ OpenAccounts' = {}
<1>1. Len(journal') = 0 /\ EntryCount' = 0
  BY LedgerAssumption DEF EntryCount
<1>2. OpenUndo' = {}
  BY <1>1 DEF OpenUndo
<1> QED BY <1>2 DEF OpenAccounts

\* Logging an undo entry opens it, and the entries before it stay open.
LEMMA OpenMore ==
  ASSUME TypeOK, Whole, NEW a \in Accounts, NEW old \in Int,
         Len(journal) + 1 <= JournalLimit, journal' = Append(journal, Undo(a, old))
  PROVE  /\ OpenUndo' = OpenUndo \cup {Len(journal) + 1}
         /\ \A i \in OpenUndo : journal'[i] = journal[i]
         /\ journal'[Len(journal) + 1] = Undo(a, old)
         /\ OpenAccounts' = OpenAccounts \cup {a}
<1> DEFINE n == Len(journal)
<1>1. /\ n \in Nat /\ Len(journal') = n + 1
      /\ \A i \in 1..n : journal'[i] = journal[i]
      /\ journal'[n + 1] = Undo(a, old)
  BY UndoType DEF TypeOK
<1>2. EntryCount = n /\ EntryCount' = n + 1
  <2>1. MaxBuffer \in Nat /\ JournalLimit \in Nat
    BY LedgerAssumption
  <2> QED BY <1>1, <2>1 DEF EntryCount, Whole
<1>3. Undo(a, old).type = "TXN_START" /\ Undo(a, old).accountId = a
  BY DEF Undo
<1> HIDE DEF n
<1>4. \A i : i \in OpenUndo' <=> i \in OpenUndo \/ i = n + 1
  <2>1. \A i : i \in OpenUndo' <=>
               i \in 1..(n + 1) /\ \A k \in i..(n + 1) : journal'[k].type = "TXN_START"
    BY <1>2 DEF OpenUndo
  <2>2. \A i : i \in OpenUndo <=>
               i \in 1..n /\ \A k \in i..n : journal[k].type = "TXN_START"
    BY <1>2 DEF OpenUndo
  <2>3. n + 1 \in OpenUndo'
    BY <1>1, <1>3, <2>1
  <2>4. ASSUME NEW i \in OpenUndo PROVE i \in OpenUndo'
    BY <1>1, <1>3, <2>1, <2>2
  <2>5. ASSUME NEW i \in OpenUndo', i # n + 1 PROVE i \in OpenUndo
    BY <1>1, <2>1, <2>2, <2>5
  <2> QED BY <2>3, <2>4, <2>5
<1>5. OpenUndo' = OpenUndo \cup {n + 1}
  BY <1>4
<1>6. \A i \in OpenUndo : journal'[i] = journal[i]
  BY <1>1, <1>2 DEF OpenUndo
<1>7. OpenAccounts' = {journal'[i].accountId : i \in OpenUndo'}
  BY DEF OpenAccounts
<1>8. OpenAccounts' = OpenAccounts \cup {a}
  BY <1>1, <1>3, <1>5, <1>6, <1>7 DEF OpenAccounts
<1> QED BY <1>1, <1>5, <1>6, <1>8 DEF n

\* A commit entry closes all.
LEMMA OpenClosed ==
  ASSUME TypeOK, Whole, Len(journal) + 1 <= JournalLimit,
         journal' = Append(journal, CommitEntry)
  PROVE  OpenUndo' = {} /\ OpenAccounts' = {}
<1> DEFINE n == Len(journal)
<1>1. n \in Nat /\ Len(journal') = n + 1 /\ journal'[n + 1] = CommitEntry
  BY CommitEntryType DEF TypeOK
<1>2. EntryCount' = n + 1
  <2>1. MaxBuffer \in Nat /\ JournalLimit \in Nat
    BY LedgerAssumption
  <2> QED BY <1>1, <2>1 DEF EntryCount, Whole
<1>3. journal'[n + 1].type # "TXN_START"
  BY <1>1 DEF CommitEntry
<1>4. ASSUME NEW i \in OpenUndo' PROVE FALSE
  <2>1. i \in 1..(n + 1) /\ \A k \in i..(n + 1) : journal'[k].type = "TXN_START"
    BY <1>2, <1>4 DEF OpenUndo
  <2>2. n + 1 \in i..(n + 1)
    BY <1>1, <2>1
  <2> QED BY <1>3, <2>1, <2>2
<1>5. OpenUndo' = {}
  BY <1>4
<1> QED BY <1>5 DEF OpenAccounts

-----------------------------------------------------------------------------
(* What the invariant says of the disk *)

\* What a transfer has written so far may be taken back by its undo entries.
LEMMA AlwaysSettled ==
  ASSUME TypeOK, Durable
  PROVE  Settled
<1> SUFFICES ASSUME server = "up", NEW a \in Accounts \ raced
             PROVE  /\ accounts[a].isActive = booked[a].isActive
                    /\ a \in OpenAccounts \/ accounts[a].balance = booked[a].balance
  BY DEF Durable, Unserved, Settled
<1>1. Isolated /\ OpenAccounts = UNION {LoggedBy(s) : s \in Sessions}
  BY DEF Durable, Served
<1>2. CASE ~InTransfer(a)
  BY <1>1, <1>2 DEF Isolated, UncontendedExact
<1>3. CASE InTransfer(a)
  <2>1. PICK s \in Sessions : Written(s, a)
    BY <1>3 DEF InTransfer, Written
  <2>2. op[s].pc \in Writing /\ Sound(s)
    BY <1>1, <2>1 DEF Written, Writing, Isolated
  <2>3. a \in LoggedBy(s)
    BY <2>1, <2>2 DEF Written, LoggedBy, Writing
  <2>4. op[s].amount \in Int /\ -op[s].amount \in Int
    BY <2>2, TransferFields DEF Writing, TransferSteps
  <2>5. accounts[a] = Plus(booked[a], -op[s].amount) \/ accounts[a] = Plus(booked[a], op[s].amount)
    BY <2>1, <2>2 DEF Written, Sound, Copies, Wrote, Writing
  <2>6. booked[a] \in Account
    BY DEF TypeOK
  <2>7. accounts[a].isActive = booked[a].isActive
    BY <2>4, <2>5, <2>6, PlusType
  <2> QED BY <1>1, <2>3, <2>7
<1> QED BY <1>2, <1>3

\* What recovery would make of an account is its booked balance.
LEMMA RecoveredBooked ==
  ASSUME TypeOK, Whole, Durable, NEW a \in Accounts \ raced
  PROVE  Recovered(a) = booked[a].balance
<1>1. CASE OpenUndoOf(a) = {}
  <2>1. a \notin OpenAccounts
    BY <1>1 DEF OpenAccounts, OpenUndoOf
  <2> QED BY <1>1, <2>1, AlwaysSettled DEF Recovered, Settled
<1>2. CASE OpenUndoOf(a) # {}
  <2>1. PICK i \in OpenUndo : journal[i].accountId = a
    BY <1>2 DEF OpenUndoOf
  <2>2. OpenUndoOf(a) = {i}
    BY <2>1 DEF OpenUndoOf, Durable, Undoable
  <2>3. i \in 1..Len(journal)
    BY OpenType DEF Durable, Fits
  <2>4. Oldest(OpenUndoOf(a)) = i
    BY <2>2, <2>3 DEF Oldest, TypeOK
  <2> QED BY <1>2, <2>1, <2>4 DEF Recovered, Durable, Undoable
<1> QED BY <1>1, <1>2

-----------------------------------------------------------------------------
(* One step of one session *)

\* While a transfer is under way, the open undo entries are its own.
LEMMA LoggedAlone ==
  ASSUME Durable, TransfersApart, server = "up", NEW s \in Sessions, op[s].pc \in Moving
  PROVE  /\ OpenAccounts = LoggedBy(s)
         /\ \A r \in Sessions \ {s} : LoggedBy(r) = {} /\ Room(r) = 0
<1>1. \A r \in Sessions \ {s} : op[r].pc \notin Moving
  BY DEF TransfersApart
<1>2. \A r \in Sessions \ {s} : LoggedBy(r) = {} /\ Room(r) = 0
  BY <1>1 DEF LoggedBy, Room, Moving, Writing
<1>3. UNION {LoggedBy(r) : r \in Sessions} = LoggedBy(s)
  BY <1>2
<1> QED BY <1>2, <1>3 DEF Durable, Served

\* A step that logs nothing and changes no balance behind an open undo entry.
LEMMA SilentSteps ==
  ASSUME TypeOK, Durable, Isolated', server = "up", server' = "up", NEW s \in Sessions,
         UNCHANGED journal, raced \subseteq raced', \A r \in Sessions \ {s} : op'[r] = op[r],
         \A a \in OpenAccounts : a \in raced' \/ booked'[a].balance = booked[a].balance,
         LoggedBy(s)' = LoggedBy(s), Len(journal) + Room(s)' <= JournalLimit
  PROVE  Durable'
<1>1. OpenUndo' = OpenUndo /\ OpenAccounts' = OpenAccounts
  BY OpenKept
<1>2. \A i \in OpenUndo : journal[i].accountId \in OpenAccounts
  BY DEF OpenAccounts
<1>3. Undoable'
  BY <1>1, <1>2 DEF Durable, Undoable
<1>4. \A r \in Sessions \ {s} : Room(r)' = Room(r) /\ LoggedBy(r)' = LoggedBy(r)
  BY DEF Room, LoggedBy
<1>5. Fits'
  BY <1>4 DEF Durable, Fits
<1>6. \A r \in Sessions : LoggedBy(r)' = LoggedBy(r)
  BY <1>4
<1>7. UNION {LoggedBy(r)' : r \in Sessions} = UNION {LoggedBy(r) : r \in Sessions}
  BY <1>6
<1>8. Served'
  BY <1>1, <1>7 DEF Durable, Served
<1> QED BY <1>3, <1>5, <1>8 DEF Durable

\* Such a step of a handler that has logged nothing.
LEMMA FreeSteps ==
  ASSUME TypeOK, Durable, Isolated', server = "up", server' = "up", NEW s \in Sessions,
         UNCHANGED journal, raced \subseteq raced', \A r \in Sessions \ {s} : op'[r] = op[r],
         \A a \in OpenAccounts : a \in raced' \/ booked'[a].balance = booked[a].balance,
         op[s].pc \notin {"undoReceiver"} \cup Writing,
         op'[s].pc \notin {"undoReceiver"} \cup Writing,
         op'[s].pc \in Moving => Len(journal) + 3 <= JournalLimit
  PROVE  Durable'
<1>1. LoggedBy(s)' = {} /\ LoggedBy(s) = {}
  BY DEF LoggedBy
<1>2. Len(journal) <= JournalLimit /\ Len(journal) + 0 <= JournalLimit
  BY Numbers DEF Durable, Fits, TypeOK
<1>3. Len(journal) + Room(s)' <= JournalLimit
  BY <1>2 DEF Room, Moving, Writing
<1> QED BY <1>1, <1>3, SilentSteps

LEMMA BeginsDurable ==
  ASSUME TypeOK, Durable, Isolated', server = "up", server' = "up", NEW s \in Sessions,
         \/ \E a \in Accounts, n \in Amounts, k \in {"DEPOSIT", "WITHDRAWAL"}, d \in Int :
              ReadAccount(s, a, k, n, d)
         \/ ReadSender(s) \/ BeginStatus(s)
  PROVE  Durable'
<1>1. /\ UNCHANGED <<journal, booked>> /\ raced \subseteq raced'
      /\ \A r \in Sessions \ {s} : op'[r] = op[r]
      /\ op[s].pc = "menu" /\ op'[s].pc \in {"update", "receiver", "scan"}
      /\ op'[s].pc = "receiver" => Len(journal) + 3 <= JournalLimit
  BY Begins, MarksMore
<1> QED BY <1>1, FreeSteps DEF Moving, Writing

LEMMA StatusDurable ==
  ASSUME TypeOK, Whole, Durable, Isolated', server = "up", server' = "up", NEW s \in Sessions,
         ScanAccount(s) \/ UpdateStatus(s) \/ EndStatus(s)
  PROVE  Durable'
<1>1. /\ UNCHANGED journal /\ raced \subseteq raced'
      /\ \A a \in Accounts : booked'[a].balance = booked[a].balance
      /\ \A r \in Sessions \ {s} : op'[r] = op[r]
      /\ op[s].pc \in {"scan", "statusUpdate"} /\ op'[s].pc \in {"menu", "scan", "statusUpdate"}
  BY StatusGoes, MarksMore
<1>2. OpenAccounts \subseteq Accounts
  BY OpenType DEF OpenAccounts, Durable, Fits
<1> QED BY <1>1, <1>2, FreeSteps DEF Moving, Writing

LEMMA RecordGoes ==
  ASSUME TypeOK, NEW s \in Sessions, RecordTransaction(s) \/ RecordOut(s) \/ RecordIn(s)
  PROVE  /\ UNCHANGED <<accounts, journal, booked, raced>>
         /\ op[s].pc \in Recording /\ op'[s].pc \in {"menu", "recordIn"}
         /\ \A r \in Sessions \ {s} : op'[r] = op[r]
<1>1. UNCHANGED <<accounts, journal, booked, raced>> /\ op[s].pc \in Recording
  BY DEF RecordTransaction, RecordOut, RecordIn, AddTransaction, At, audit, Recording
<1>2. op[s] \in OpRecord
  BY DEF TypeOK, Handler
<1>3. CASE Finish(s)
  BY <1>1, <1>3, IdleSound DEF Finish, TypeOK
<1>4. CASE Goto(s, "recordIn")
  BY <1>1, <1>2, <1>4 DEF Goto, TypeOK, OpRecord
<1> QED BY <1>3, <1>4 DEF RecordTransaction, RecordOut, RecordIn

LEMMA RecordDurable ==
  ASSUME TypeOK, Durable, Isolated', server = "up", server' = "up", NEW s \in Sessions,
         RecordTransaction(s) \/ RecordOut(s) \/ RecordIn(s)
  PROVE  Durable'
BY RecordGoes, FreeSteps DEF Recording, Moving, Writing

\* An account that is written has an open undo entry only if it was raced for:
\* otherwise the transfer that logged it would be the writer.
LEMMA UpdateAccountDurable ==
  ASSUME TypeOK, Whole, Durable, Isolated', server = "up", server' = "up",
         NEW s \in Sessions, UpdateAccount(s)
  PROVE  Durable'
<1> DEFINE from == op[s].from
<1>1. /\ UNCHANGED <<journal, raced>> /\ op[s].pc = "update"
      /\ booked' = [booked EXCEPT ![from] = Plus(booked[from], Delta(s))]
      /\ op' = [op EXCEPT ![s].pc = "record"]
  BY NoFault DEF UpdateAccount, At, Goto, Whole
<1>2. op[s] \in OpRecord
  BY DEF TypeOK, Handler
<1>3. op'[s].pc = "record" /\ \A r \in Sessions \ {s} : op'[r] = op[r]
  BY <1>1, <1>2 DEF TypeOK, OpRecord
<1>4. OpenAccounts = UNION {LoggedBy(r) : r \in Sessions} /\ OneWorker
  BY DEF Durable, Served, Isolated
<1>5. OpenAccounts \subseteq Accounts
  BY OpenType DEF OpenAccounts, Durable, Fits
<1>6. ASSUME NEW a \in OpenAccounts PROVE a \in raced' \/ booked'[a].balance = booked[a].balance
  <2>1. CASE a # from
    BY <1>1, <1>5, <2>1 DEF TypeOK
  <2>2. CASE a = from
    <3>1. PICK r \in Sessions : a \in LoggedBy(r)
      BY <1>4
    <3>2. a \in Window(r) /\ r # s
      BY <1>1, <3>1 DEF LoggedBy, Window, Writing
    <3>3. a \in Window(s)
      BY <1>1, <2>2 DEF Window
    <3> QED BY <1>1, <1>4, <1>5, <3>2, <3>3 DEF OneWorker
  <2> QED BY <2>1, <2>2
<1> QED BY <1>1, <1>3, <1>6, FreeSteps DEF Moving, Writing

LEMMA ReadReceiverDurable ==
  ASSUME TypeOK, Durable, Isolated', server = "up", server' = "up",
         NEW s \in Sessions, ReadReceiver(s)
  PROVE  Durable'
<1>1. /\ UNCHANGED <<journal, booked>> /\ op[s].pc = "receiver" /\ Marks(s)
  BY DEF ReadReceiver, At, disk, Marks
<1>2. op[s] \in OpRecord
  BY DEF TypeOK, Handler
<1>3. /\ op'[s].pc \in {"menu", "undoSender"} /\ \A r \in Sessions \ {s} : op'[r] = op[r]
  <2>1. CASE Finish(s)
    BY <2>1, IdleSound DEF Finish, TypeOK
  <2>2. CASE op' = [op EXCEPT ![s].pc = "undoSender", ![s].theirs = accounts[op[s].to]]
    BY <1>2, <2>2 DEF TypeOK, OpRecord
  <2> QED BY <2>1, <2>2 DEF ReadReceiver
<1>4. Len(journal) + 3 <= JournalLimit
  <2>1. Room(s) = 3
    BY <1>1 DEF Room, Writing
  <2> QED BY <2>1 DEF Durable, Fits
<1> QED BY <1>1, <1>3, <1>4, MarksMore, FreeSteps DEF Writing

LEMMA WriteDurable ==
  ASSUME TypeOK, Whole, Durable, Isolated', server = "up", server' = "up",
         NEW s \in Sessions, Debit(s) \/ Credit(s)
  PROVE  Durable'
<1>1. /\ UNCHANGED <<journal, booked, raced>> /\ op[s].pc \in {"debit", "credit"}
      /\ \E pc \in {"credit", "commit"} : op' = [op EXCEPT ![s].pc = pc]
  BY NoFault DEF Debit, Credit, At, Goto, audit, Whole
<1>2. op[s] \in OpRecord
  BY DEF TypeOK, Handler
<1>3. /\ op'[s].pc \in {"credit", "commit"} /\ op'[s].from = op[s].from /\ op'[s].to = op[s].to
      /\ \A r \in Sessions \ {s} : op'[r] = op[r]
  BY <1>1, <1>2 DEF TypeOK, OpRecord
<1>4. LoggedBy(s)' = LoggedBy(s) /\ Room(s) = 1 /\ Room(s)' = 1
  BY <1>1, <1>3 DEF LoggedBy, Room, Writing
<1>5. Len(journal) + Room(s)' <= JournalLimit
  BY <1>4 DEF Durable, Fits
<1> QED BY <1>1, <1>3, <1>4, <1>5, SilentSteps

-----------------------------------------------------------------------------
(* The journal entries of a transfer *)

LEMMA LogSteps ==
  ASSUME TypeOK, Whole, Durable, TransfersApart, Isolated', server = "up", server' = "up",
         NEW s \in Sessions, op[s].pc \in Moving, \A r \in Sessions \ {s} : op'[r] = op[r],
         UNCHANGED <<booked, raced>>,
         NEW a \in Accounts, NEW old \in Int, journal' = Append(journal, Undo(a, old)),
         a \notin LoggedBy(s), a \in raced \/ old = booked[a].balance,
         LoggedBy(s)' = LoggedBy(s) \cup {a},
         NEW room \in Nat, Room(s) = room + 1, Room(s)' = room
  PROVE  Durable'
<1>1. /\ OpenAccounts = LoggedBy(s)
      /\ \A r \in Sessions \ {s} : LoggedBy(r) = {} /\ Room(r) = 0
  BY LoggedAlone
<1>2. /\ Len(journal) \in Nat /\ Len(journal') = Len(journal) + 1
      /\ Len(journal) + (room + 1) <= JournalLimit
  BY UndoType DEF TypeOK, Durable, Fits
<1>3. Len(journal) + 1 <= JournalLimit /\ Len(journal') + room <= JournalLimit
      /\ Len(journal') + 0 <= JournalLimit
  BY <1>2, Numbers
<1>4. /\ OpenUndo' = OpenUndo \cup {Len(journal) + 1}
      /\ \A i \in OpenUndo : journal'[i] = journal[i]
      /\ journal'[Len(journal) + 1] = Undo(a, old)
      /\ OpenAccounts' = OpenAccounts \cup {a}
  BY <1>3, OpenMore
<1>5. \A r \in Sessions \ {s} : LoggedBy(r)' = {} /\ Room(r)' = 0
  <2>1. \A r \in Sessions \ {s} : LoggedBy(r)' = LoggedBy(r) /\ Room(r)' = Room(r)
    BY DEF LoggedBy, Room
  <2> QED BY <1>1, <2>1
<1>6. Fits'
  BY <1>2, <1>3, <1>5 DEF Fits
<1>7. Undoable'
  <2> DEFINE last == Len(journal) + 1
  <2>1. /\ journal'[last].accountId = a /\ journal'[last].oldBalance = old
    BY <1>4 DEF Undo
  <2>2. \A i \in OpenUndo : journal[i].accountId # a /\ journal'[i] = journal[i]
    BY <1>1, <1>4 DEF OpenAccounts
  <2>3. \A i \in OpenUndo' : i \in OpenUndo \/ i = last
    BY <1>4
  <2> HIDE DEF last
  <2>4. ASSUME NEW i \in OpenUndo'
        PROVE  \/ journal'[i].accountId \in raced'
               \/ journal'[i].oldBalance = booked'[journal'[i].accountId].balance
    <3>1. CASE i = last
      BY <2>1, <3>1
    <3>2. CASE i \in OpenUndo
      BY <2>2, <3>2 DEF Durable, Undoable
    <3> QED BY <2>3, <3>1, <3>2
  <2>5. ASSUME NEW i \in OpenUndo', NEW k \in OpenUndo',
               journal'[i].accountId = journal'[k].accountId
        PROVE  i = k
    <3>1. CASE i \in OpenUndo /\ k \in OpenUndo
      BY <2>2, <2>5, <3>1 DEF Durable, Undoable
    <3>2. CASE i \in OpenUndo /\ k = last
      BY <2>1, <2>2, <2>5, <3>2
    <3>3. CASE i = last /\ k \in OpenUndo
      BY <2>1, <2>2, <2>5, <3>3
    <3> QED BY <2>3, <3>1, <3>2, <3>3
  <2> QED BY <2>4, <2>5 DEF Undoable
<1>8. UNION {LoggedBy(r)' : r \in Sessions} = LoggedBy(s)'
  BY <1>5
<1>9. Served'
  BY <1>1, <1>4, <1>8 DEF Served
<1> QED BY <1>6, <1>7, <1>9 DEF Durable

LEMMA LogUndoDurable ==
  ASSUME TypeOK, Whole, Durable, TransfersApart, Isolated', server = "up", server' = "up",
         NEW s \in Sessions, LogSenderUndo(s) \/ LogReceiverUndo(s)
  PROVE  Durable'
<1> DEFINE a == op[s].from
           b == op[s].to
<1>1. UNCHANGED <<booked, raced>> /\ op[s].pc \in {"undoSender", "undoReceiver"}
  BY DEF LogSenderUndo, LogReceiverUndo, At, audit
<1>2. /\ op[s] \in OpRecord /\ a \in Accounts /\ b \in Accounts
      /\ op[s].mine.balance \in Int /\ op[s].theirs.balance \in Int
  BY <1>1, TransferFields DEF TransferSteps
<1>3. /\ a # b
      /\ a \in raced \/ op[s].mine.balance = booked[a].balance
      /\ b \in raced \/ op[s].theirs.balance = booked[b].balance
  <2>1. Copies(s)
    BY DEF Durable, Served, Isolated, Sound
  <2> QED BY <1>1, <2>1 DEF Copies
<1>m. op[s].pc \in Moving
  BY <1>1 DEF Moving
<1>4. CASE LogSenderUndo(s)
  <2>1. /\ op[s].pc = "undoSender" /\ journal' = Append(journal, Undo(a, op[s].mine.balance))
        /\ op' = [op EXCEPT ![s].pc = "undoReceiver"]
    BY <1>4, NoFault DEF LogSenderUndo, At, JournalLogEntry, Goto, Whole
  <2>2. /\ op'[s].pc = "undoReceiver" /\ op'[s].from = a
        /\ \A r \in Sessions \ {s} : op'[r] = op[r]
    BY <1>2, <2>1 DEF TypeOK, OpRecord
  <2>3. /\ LoggedBy(s) = {} /\ LoggedBy(s)' = {a} /\ Room(s) = 2 + 1 /\ Room(s)' = 2
    BY <2>1, <2>2 DEF LoggedBy, Room, Writing
  <2> QED BY <1>1, <1>m, <1>2, <1>3, <2>1, <2>2, <2>3, LogSteps
<1>5. CASE LogReceiverUndo(s)
  <2>1. /\ op[s].pc = "undoReceiver" /\ journal' = Append(journal, Undo(b, op[s].theirs.balance))
        /\ op' = [op EXCEPT ![s].pc = "debit", ![s].mine = Plus(@, -op[s].amount),
                            ![s].theirs = Plus(@, op[s].amount)]
    BY <1>5, NoFault DEF LogReceiverUndo, At, JournalLogEntry, Whole
  <2>2. /\ op'[s].pc = "debit" /\ op'[s].from = a /\ op'[s].to = b
        /\ \A r \in Sessions \ {s} : op'[r] = op[r]
    BY <1>2, <2>1 DEF TypeOK, OpRecord
  <2>3. /\ LoggedBy(s) = {a} /\ LoggedBy(s)' = {a, b} /\ Room(s) = 1 + 1 /\ Room(s)' = 1
    BY <2>1, <2>2 DEF LoggedBy, Room, Writing
  <2>4. b \notin LoggedBy(s) /\ LoggedBy(s)' = LoggedBy(s) \cup {b}
    BY <1>3, <2>3
  <2>5. b \in raced \/ op[s].theirs.balance = booked[b].balance
    BY <1>3, <2>1
  <2> QED BY <1>1, <1>m, <1>2, <2>1, <2>2, <2>3, <2>4, <2>5, LogSteps
<1> QED BY <1>4, <1>5

\* The commit entry closes the undo entries of the transfer.
LEMMA CommitDurable ==
  ASSUME TypeOK, Whole, Durable, TransfersApart, Isolated', server = "up", server' = "up",
         NEW s \in Sessions, Commit(s)
  PROVE  Durable'
<1>1. /\ op[s].pc = "commit" /\ journal' = Append(journal, CommitEntry)
      /\ op' = [op EXCEPT ![s].pc = "recordOut"]
  BY NoFault DEF Commit, At, JournalLogEntry, Goto, Whole
<1>2. op[s] \in OpRecord
  BY DEF TypeOK, Handler
<1>3. op'[s].pc = "recordOut" /\ \A r \in Sessions \ {s} : op'[r] = op[r]
  BY <1>1, <1>2 DEF TypeOK, OpRecord
<1>4. \A r \in Sessions \ {s} : LoggedBy(r) = {} /\ Room(r) = 0
  BY <1>1, LoggedAlone DEF Moving, Writing
<1>5. \A r \in Sessions : LoggedBy(r)' = {} /\ Room(r)' = 0
  <2>1. \A r \in Sessions \ {s} : LoggedBy(r)' = LoggedBy(r) /\ Room(r)' = Room(r)
    BY <1>3 DEF LoggedBy, Room
  <2>2. LoggedBy(s)' = {} /\ Room(s)' = 0
    BY <1>3 DEF LoggedBy, Room, Writing
  <2> QED BY <1>4, <2>1, <2>2
<1>6. Len(journal') = Len(journal) + 1 /\ Len(journal) \in Nat /\ Len(journal) + 1 <= JournalLimit
  <2>1. Room(s) = 1
    BY <1>1 DEF Room, Writing
  <2> QED BY <1>1, <2>1, CommitEntryType DEF TypeOK, Durable, Fits
<1>7. OpenUndo' = {} /\ OpenAccounts' = {}
  BY <1>1, <1>6, OpenClosed
<1>8. Fits'
  BY <1>5, <1>6 DEF Fits
<1>9. Undoable'
  BY <1>7 DEF Undoable
<1>10. UNION {LoggedBy(r)' : r \in Sessions} = {}
  BY <1>5
<1>11. Served'
  BY <1>7, <1>10 DEF Served
<1> QED BY <1>8, <1>9, <1>11 DEF Durable

-----------------------------------------------------------------------------
(* While clients are served *)

\* A menu choice, or nothing.
LEMMA UnchangedDurable ==
  ASSUME Durable, UNCHANGED <<disk, boot, op, audit>>
  PROVE  Durable'
<1>1. UNCHANGED <<accounts, journal, booked, raced, server, cursor, op>>
  BY DEF disk, boot, audit
<1>2. OpenUndo' = OpenUndo /\ OpenAccounts' = OpenAccounts
  BY <1>1, OpenKept
<1>3. Fits' /\ Undoable'
  BY <1>1, <1>2 DEF Durable, Fits, Room, Undoable
<1>4. \A s \in Sessions : LoggedBy(s)' = LoggedBy(s)
  BY <1>1 DEF LoggedBy
<1>5. UNION {LoggedBy(s)' : s \in Sessions} = UNION {LoggedBy(s) : s \in Sessions}
  BY <1>4
<1>6. CASE server = "up"
  BY <1>1, <1>2, <1>3, <1>5, <1>6, UnchangedIsolated DEF Durable, Served
<1>7. CASE server # "up"
  BY <1>1, <1>2, <1>3, <1>7 DEF Durable, Unserved, Settled
<1> QED BY <1>6, <1>7

LEMMA ServingDurable ==
  ASSUME TypeOK, Whole, Durable, TransfersApart, Serving
  PROVE  Durable'
<1>c. Users \subseteq Sessions /\ Employees \subseteq Sessions /\ Managers \subseteq Sessions
  BY DEF Sessions
<1>u. server = "up" /\ server' = "up"
  BY ServingBoot DEF boot
<1>i. Isolated /\ Isolated'
  BY <1>u, ServingIsolated DEF Durable, Served, Whole
<1>n. \A n \in Amounts : n \in Int /\ -n \in Int
  BY Numbers
<1>1. ASSUME NEW s \in Users, Menu(s) PROVE Durable'
  BY <1>1, UnchangedDurable DEF Menu, SelectAccount, LeaveAccount
<1>2. ASSUME NEW s \in Sessions, Deposit(s) \/ Withdraw(s) \/ CreditLoan(s) PROVE Durable'
  <2>1. \E a \in Accounts, n \in Amounts, k \in {"DEPOSIT", "WITHDRAWAL"}, d \in Int :
          ReadAccount(s, a, k, n, d)
    BY <1>2, <1>n DEF Deposit, Withdraw, CreditLoan
  <2> QED BY <1>u, <1>i, <2>1, BeginsDurable
<1>3. ASSUME NEW s \in Sessions, UpdateAccount(s) \/ RecordTransaction(s) PROVE Durable'
  BY <1>u, <1>i, <1>3, UpdateAccountDurable, RecordDurable
<1>4. ASSUME NEW s \in Sessions, Transfer(s) PROVE Durable'
  <2>1. CASE ReadSender(s) \/ ReadReceiver(s)
    BY <1>u, <1>i, <2>1, BeginsDurable, ReadReceiverDurable
  <2>2. CASE LogSenderUndo(s) \/ LogReceiverUndo(s)
    BY <1>u, <1>i, <2>2, LogUndoDurable
  <2>3. CASE Debit(s) \/ Credit(s) \/ Commit(s)
    BY <1>u, <1>i, <2>3, WriteDurable, CommitDurable
  <2>4. ~GiveUp(s)
    BY <1>i DEF GiveUp, Isolated, Sound, Wrote
  <2>5. CASE RecordOut(s) \/ RecordIn(s)
    BY <1>u, <1>i, <2>5, RecordDurable
  <2> QED BY <1>4, <2>1, <2>2, <2>3, <2>4, <2>5 DEF Transfer
<1>5. ASSUME NEW s \in Sessions, SetStatus(s) PROVE Durable'
  BY <1>u, <1>i, <1>5, BeginsDurable, StatusDurable DEF SetStatus
<1> QED BY <1>1, <1>2, <1>3, <1>4, <1>5, <1>c DEF Serving

-----------------------------------------------------------------------------
(* Crashes and recovery *)

\* A crash loses the handlers and keeps the disk.
LEMMA CrashDurable ==
  ASSUME TypeOK, Durable, Crash
  PROVE  Durable'
<1>1. server' = "down" /\ UNCHANGED <<accounts, journal, booked, raced>>
  BY DEF Crash, disk, audit
<1>2. \A s \in Sessions : op'[s] = Idle
  BY DEF Crash
<1>3. OpenUndo' = OpenUndo /\ OpenAccounts' = OpenAccounts
  BY <1>1, OpenKept
<1>4. Fits'
  <2>1. \A s \in Sessions : Room(s)' = 0
    BY <1>2, IdleSound DEF Room, Writing
  <2>2. Len(journal) <= JournalLimit /\ Len(journal) + 0 <= JournalLimit
    BY Numbers DEF Durable, Fits, TypeOK
  <2> QED BY <1>1, <2>1, <2>2 DEF Fits
<1>5. Undoable' /\ Settled'
  BY <1>1, <1>3, AlwaysSettled DEF Durable, Undoable, Settled
<1>6. Unserved'
  BY <1>1, <1>2, <1>5, IdleSound DEF Unserved
<1> QED BY <1>1, <1>4, <1>5, <1>6 DEF Durable

\* While no handler runs, nothing but the disk and the place of recovery matters.
LEMMA BootSteps ==
  ASSUME TypeOK, Durable, server # "up", UNCHANGED op,
         Len(journal') <= JournalLimit, Undoable', server' = "up" => Served',
         server' # "up" => Settled',
         server' = "rollback" =>
           \A i \in (cursor' + 1)..Len(journal') :
             /\ i \in OpenUndo'
             /\ accounts'[journal'[i].accountId].balance = journal'[i].oldBalance,
         server' = "clear" =>
           \A a \in Accounts \ raced' : accounts'[a].balance = booked'[a].balance
  PROVE  Durable'
<1>1. \A s \in Sessions : op'[s].pc = "menu" /\ op'[s].ok
  BY DEF Durable, Unserved
<1>2. Len(journal') + 0 <= JournalLimit
  <2>1. Len(journal') + 0 = Len(journal') \/ Len(journal') \notin Int
    OBVIOUS
  <2> QED BY <2>1, Numbers
<1>3. Fits'
  BY <1>1, <1>2 DEF Fits, Room, Writing
<1>4. server' # "up" => Unserved'
  BY <1>1 DEF Unserved
<1> QED BY <1>3, <1>4 DEF Durable

\* A start on exact accounts and a journal without open entries.
LEMMA Starts ==
  ASSUME TypeOK, TypeOK', Durable, server # "up", server' = "up",
         UNCHANGED <<accounts, booked, raced, op>>,
         Len(journal') <= JournalLimit, OpenUndo' = {}, OpenAccounts' = {},
         \A a \in Accounts \ raced : accounts[a].balance = booked[a].balance
  PROVE  Durable'
<1>1. \A s \in Sessions : op'[s].pc = "menu" /\ op'[s].ok
  BY DEF Durable, Unserved
<1>2. OneWorker'
  BY <1>1 DEF OneWorker, Window
<1>3. UncontendedExact'
  <2> SUFFICES ASSUME NEW a \in Accounts \ raced PROVE accounts[a] = booked[a]
    BY DEF UncontendedExact
  <2>1. accounts[a].isActive = booked[a].isActive
    BY AlwaysSettled DEF Settled
  <2>2. accounts[a] \in Account /\ booked[a] \in Account
    BY DEF TypeOK
  <2> QED BY <2>1, <2>2 DEF Account
<1>4. \A s \in Sessions : Sound(s)'
  BY <1>1 DEF Sound, Copies, Wrote, Writing
<1>5. \A s \in Sessions : LoggedBy(s)' = {}
  BY <1>1 DEF LoggedBy, Writing
<1>6. UNION {LoggedBy(s)' : s \in Sessions} = {}
  BY <1>5
<1>7. Served'
  BY <1>2, <1>3, <1>4, <1>6 DEF Served, Isolated
<1>8. Undoable'
  BY DEF Undoable
<1> QED BY <1>7, <1>8, BootSteps

LEMMA ReadJournalDurable ==
  ASSUME TypeOK, TypeOK', Durable, Whole, ReadJournal
  PROVE  Durable'
<1> DEFINE n == Len(journal)
<1>1. server = "down" /\ UNCHANGED <<accounts, journal, booked, raced, op>>
  BY DEF ReadJournal, disk, audit, menus
<1>2. EntryCount = n /\ n \in Nat /\ n <= JournalLimit
  BY ReadWhole DEF Durable, Fits, TypeOK
<1>3. OpenUndo' = OpenUndo /\ OpenAccounts' = OpenAccounts
  BY <1>1, OpenKept
<1>4. Undoable' /\ Settled'
  BY <1>1, <1>3, AlwaysSettled DEF Durable, Undoable, Settled
<1>5. CASE n = 0 /\ server' = "up"
  <2>1. OpenUndo = {}
    BY <1>2, <1>5, OpenType
  <2>2. OpenAccounts = {}
    BY <2>1 DEF OpenAccounts
  <2>3. \A a \in Accounts \ raced : accounts[a].balance = booked[a].balance
    BY <2>2, AlwaysSettled DEF Settled
  <2> QED BY <1>1, <1>2, <1>3, <1>5, <2>1, <2>2, <2>3, Starts
<1>6. CASE n > 0 /\ journal[n].type = "TXN_COMMIT" /\ server' = "clear"
  <2>1. OpenUndo = {}
    BY <1>2, <1>6 DEF OpenUndo
  <2>2. OpenAccounts = {}
    BY <2>1 DEF OpenAccounts
  <2>3. \A a \in Accounts \ raced : accounts[a].balance = booked[a].balance
    BY <2>2, AlwaysSettled DEF Settled
  <2> QED BY <1>1, <1>2, <1>4, <1>6, <2>3, BootSteps
<1>7. CASE n > 0 /\ server' = "rollback" /\ cursor' = n
  <2>1. (n + 1)..n = {}
    BY <1>2
  <2> QED BY <1>1, <1>2, <1>4, <1>7, <2>1, BootSteps
<1> QED BY <1>2, <1>5, <1>6, <1>7, NoFault DEF ReadJournal, Whole

\* Once the loop has passed every open entry, all accounts are exact.
LEMMA AllRestored ==
  ASSUME TypeOK, Durable, Whole, server = "rollback",
         OpenUndo \subseteq (cursor + 1)..Len(journal)
  PROVE  \A a \in Accounts \ raced : accounts[a].balance = booked[a].balance
<1> SUFFICES ASSUME NEW a \in Accounts \ raced, a \in OpenAccounts
             PROVE  accounts[a].balance = booked[a].balance
  BY AlwaysSettled DEF Settled
<1>1. PICK i \in OpenUndo : journal[i].accountId = a
  BY DEF OpenAccounts
<1> QED BY <1>1 DEF Durable, Undoable, Unserved

\* An iteration changes no activation status.
LEMMA RollBackEntryDurable ==
  ASSUME TypeOK, Durable, Whole, RollBackEntry
  PROVE  Durable' /\ \A c \in Accounts : accounts'[c].isActive = accounts[c].isActive
<1> DEFINE n == Len(journal)
           e == journal[cursor]
           a == e.accountId
<1>1. server = "rollback" /\ cursor > 0 /\ UNCHANGED <<journal, booked, raced, op>>
  BY DEF RollBackEntry, audit, menus
<1>2. EntryCount = n /\ n \in Nat /\ n <= JournalLimit
  BY ReadWhole DEF Durable, Fits, TypeOK
<1>3. cursor \in 1..n /\ e \in JournalEntry
  BY <1>1, <1>2 DEF TypeOK
<1>4. OpenUndo' = OpenUndo /\ OpenAccounts' = OpenAccounts /\ Undoable'
  BY <1>1, OpenKept DEF Durable, Undoable
<1>5. CASE e.type = "TXN_COMMIT" /\ server' = "clear" /\ UNCHANGED accounts
  <2>1. \A i \in OpenUndo : i \in 1..n /\ cursor \notin i..n
    BY <1>2, <1>3, <1>5 DEF OpenUndo
  <2>2. OpenUndo \subseteq (cursor + 1)..n
    BY <1>2, <1>3, <2>1
  <2>3. \A c \in Accounts \ raced : accounts[c].balance = booked[c].balance
    BY <1>1, <2>2, AllRestored
  <2>4. Settled'
    BY <1>1, <1>4, <1>5, AlwaysSettled DEF Settled
  <2> QED BY <1>1, <1>2, <1>4, <1>5, <2>3, <2>4, BootSteps
<1>6. CASE /\ e.type = "TXN_START"
           /\ accounts' = [accounts EXCEPT ![a].balance = e.oldBalance]
           /\ cursor' = cursor - 1 /\ UNCHANGED server
  <2>1. \A i \in (cursor + 1)..n : i \in OpenUndo /\ journal[i].type = "TXN_START"
    <3>1. \A i \in (cursor + 1)..n : i \in OpenUndo
      BY <1>1 DEF Durable, Unserved
    <3> QED BY <3>1, OpenType DEF Durable, Fits
  <2>2. \A k \in cursor..n : journal[k].type = "TXN_START"
    BY <1>3, <1>6, <2>1
  <2>3. cursor \in OpenUndo
    BY <1>2, <1>3, <2>2 DEF OpenUndo
  <2>4. a \in Accounts /\ a \in OpenAccounts
    BY <2>3, OpenType DEF OpenAccounts, Durable, Fits
  <2>5. /\ accounts'[a].balance = e.oldBalance /\ accounts'[a].isActive = accounts[a].isActive
        /\ \A c \in Accounts \ {a} : accounts'[c] = accounts[c]
    BY <1>6, <2>4 DEF TypeOK, Account
  <2>6. Settled'
    <3>1. Settled
      BY AlwaysSettled
    <3> QED BY <1>1, <1>4, <2>4, <2>5, <3>1 DEF Settled
  <2>7. ASSUME NEW i \in cursor..n
        PROVE  i \in OpenUndo /\ accounts'[journal[i].accountId].balance = journal[i].oldBalance
    <3>1. CASE i = cursor
      BY <2>3, <2>5, <3>1
    <3>2. CASE i # cursor
      <4>1. i \in (cursor + 1)..n
        BY <1>3, <3>2
      <4>2. /\ i \in OpenUndo /\ journal[i].accountId \in Accounts
            /\ accounts[journal[i].accountId].balance = journal[i].oldBalance
        BY <1>1, <4>1, OpenType DEF Durable, Unserved, Fits
      <4>3. journal[i].accountId # a
        BY <2>3, <3>2, <4>2 DEF Durable, Undoable
      <4> QED BY <2>5, <4>2, <4>3
    <3> QED BY <3>1, <3>2
  <2>8. cursor' + 1 = cursor
    BY <1>3, <1>6
  <2>9. Durable'
    BY <1>1, <1>2, <1>4, <1>6, <2>6, <2>7, <2>8, BootSteps
  <2> QED BY <2>5, <2>9
<1> QED BY <1>5, <1>6, NoFault DEF RollBackEntry, Whole

LEMMA EndRollBackDurable ==
  ASSUME TypeOK, Durable, Whole, EndRollBack
  PROVE  Durable'
<1>1. /\ server = "rollback" /\ cursor = 0 /\ server' = "clear"
      /\ UNCHANGED <<accounts, journal, booked, raced, op>>
  BY DEF EndRollBack, disk, audit, menus
<1>2. OpenUndo \subseteq (cursor + 1)..Len(journal)
  BY <1>1, OpenType DEF Durable, Fits
<1>3. \A a \in Accounts \ raced : accounts[a].balance = booked[a].balance
  BY <1>1, <1>2, AllRestored
<1>4. Undoable' /\ Settled'
  BY <1>1, OpenKept, AlwaysSettled DEF Durable, Undoable, Settled
<1> QED BY <1>1, <1>3, <1>4, BootSteps DEF Durable, Fits

LEMMA JournalLogClearDurable ==
  ASSUME TypeOK, TypeOK', Durable, Whole, JournalLogClear
  PROVE  Durable'
<1>1. /\ server = "clear" /\ server' = "up" /\ journal' = <<>>
      /\ UNCHANGED <<accounts, booked, raced, op>>
  BY NoFault DEF JournalLogClear, audit, menus, Whole
<1>2. \A a \in Accounts \ raced : accounts[a].balance = booked[a].balance
  BY <1>1 DEF Durable, Unserved
<1>3. OpenUndo' = {} /\ OpenAccounts' = {}
  BY <1>1, OpenNone
<1>4. Len(journal') <= JournalLimit
  BY <1>1, Numbers
<1> QED BY <1>1, <1>2, <1>3, <1>4, Starts

-----------------------------------------------------------------------------
(* Durability *)

LEMMA InitDurable == ASSUME Init PROVE Durable
<1>1. \A s \in Sessions : op[s].pc = "menu" /\ op[s].ok
  BY IdleSound DEF Init
<1>2. Len(journal) = 0 /\ EntryCount = 0 /\ server = "down"
  BY Numbers DEF Init, EntryCount
<1>3. OpenUndo = {} /\ OpenAccounts = {}
  BY <1>2 DEF OpenUndo, OpenAccounts
<1>4. Fits
  BY <1>1, <1>2, Numbers DEF Fits, Room, Writing
<1>5. Undoable
  BY <1>3 DEF Undoable
<1>6. Settled
  BY DEF Init, Settled
<1>7. Unserved
  BY <1>1, <1>2, <1>6 DEF Unserved
<1> QED BY <1>2, <1>4, <1>5, <1>7 DEF Durable

LEMMA StepDurable ==
  ASSUME TypeOK, TypeOK', Whole, Durable, TransfersApart, [Next]_vars
  PROVE  Durable'
<1>1. CASE Serving
  BY <1>1, ServingDurable
<1>2. CASE Recovery
  BY <1>2, ReadJournalDurable, RollBackEntryDurable, EndRollBackDurable, JournalLogClearDurable
     DEF Recovery
<1>3. CASE Crash
  BY <1>3, CrashDurable
<1>4. CASE UNCHANGED vars
  BY <1>4, UnchangedDurable DEF vars, menus
<1> QED BY <1>1, <1>2, <1>3, <1>4, NextIs

\* The open undo entries hold the booked balances, and what they do not cover
\* the file does, before, during and after every crash.
THEOREM AlwaysDurable == ASSUME Whole PROVE Spec /\ []TransfersApart => []Durable
<1>1. Init => Durable
  BY InitDurable
<1>2. TypeOK /\ TypeOK' /\ Durable /\ TransfersApart /\ [Next]_vars => Durable'
  BY StepDurable
<1> QED BY <1>1, <1>2, TypeCorrect, PTL DEF Spec

\* Wherever the server crashes, in a handler or in the middle of a recovery
\* and however often, the disk is such that run_server_recovery makes each
\* balance what the completed operations made it: a transfer is there whole or
\* not at all, and no acknowledged deposit or withdrawal is lost.
THEOREM CrashesLoseNothing == ASSUME Whole PROVE Spec /\ []Orderly => []DiskRecovers
<1>1. TypeOK /\ Durable /\ Orderly => DiskRecovers
  BY RecoveredBooked DEF DiskRecovers, Orderly
<1>2. Orderly => TransfersApart
  BY DEF Orderly
<1> QED BY <1>1, <1>2, TypeCorrect, AlwaysDurable, PTL

\* README.md "Recovery": when a start of the server lets clients in, every
\* account has the balance of its completed operations, but for those that two
\* sessions worked on at the same time.  It takes no more than that the
\* transfers come one at a time: deposits, withdrawals, loans and changes of
\* status may overlap with them and with each other.  Two transfers may not,
\* even between disjoint accounts: the commit entry of one closes the undo
\* entries of the other.
THEOREM RestartsExact == ASSUME Whole PROVE Spec /\ []TransfersApart => RestartExact
<1>1. ASSUME TypeOK, Durable, Durable', [Next]_vars
      PROVE  [Restart => \A a \in Accounts \ raced :
                           accounts'[a].balance = booked[a].balance]_vars
  <2> SUFFICES ASSUME Next, Restart, NEW a \in Accounts \ raced
               PROVE  accounts'[a].balance = booked[a].balance
    BY <1>1
  <2>1. server # "up" /\ server' = "up"
    BY DEF Restart
  <2>2. Recovery
    BY <2>1, NextIs, ServingBoot DEF Crash
  <2>3. UNCHANGED <<op, booked, raced>>
    BY <2>2 DEF Recovery, ReadJournal, RollBackEntry, EndRollBack, JournalLogClear, menus, audit
  <2>4. \A s \in Sessions : op'[s].pc = "menu"
    BY <1>1, <2>1, <2>3 DEF Durable, Unserved
  <2>5. ~InTransfer(a)'
    BY <2>4 DEF InTransfer
  <2>6. UncontendedExact'
    BY <1>1, <2>1 DEF Durable, Served, Isolated
  <2> QED BY <2>3, <2>5, <2>6 DEF UncontendedExact
<1> QED BY <1>1, TypeCorrect, AlwaysDurable, PTL DEF Spec, RestartExact

-----------------------------------------------------------------------------
(* Handlers that do not overlap *)

\* One handler at a time, which nobody can then race with.
Alone ==
  /\ raced = {}
  /\ \A r, s \in Sessions : op[r].pc # "menu" /\ op[s].pc # "menu" => r = s

\* A step between the first and the last of a handler.
LEMMA WorkGoes ==
  ASSUME TypeOK, NEW s \in Sessions,
         \/ UpdateAccount(s) \/ ReadReceiver(s) \/ LogSenderUndo(s) \/ LogReceiverUndo(s)
         \/ Debit(s) \/ Credit(s) \/ Commit(s) \/ GiveUp(s)
  PROVE  op[s].pc # "menu" /\ Marks(s) /\ \A r \in Sessions \ {s} : op'[r] = op[r]
<1>1. CASE UpdateAccount(s)
  BY <1>1 DEF UpdateAccount, At, Goto, Finish, Marks, TypeOK
<1>2. CASE ReadReceiver(s)
  BY <1>2 DEF ReadReceiver, At, Finish, Marks, TypeOK
<1>3. CASE LogSenderUndo(s) \/ LogReceiverUndo(s)
  BY <1>3 DEF LogSenderUndo, LogReceiverUndo, At, Goto, Marks, audit, TypeOK
<1>4. CASE Debit(s) \/ Credit(s)
  BY <1>4 DEF Debit, Credit, At, Goto, Marks, audit, TypeOK
<1>5. CASE Commit(s) \/ GiveUp(s)
  BY <1>5 DEF Commit, GiveUp, At, Goto, Finish, Marks, audit, TypeOK
<1> QED BY <1>1, <1>2, <1>3, <1>4, <1>5

LEMMA AloneSteps ==
  ASSUME Alone, NEW s \in Sessions, Marks(s),
         \A r \in Sessions \ {s} : op[r].pc = "menu" /\ op'[r] = op[r]
  PROVE  Alone'
<1>1. \A r \in Sessions \ {s} : Window(r) = {}
  BY DEF Window
<1>2. raced' = {}
  BY <1>1 DEF Alone, Marks, Opens
<1> QED BY <1>2 DEF Alone

LEMMA StepAlone ==
  ASSUME TypeOK, Alone, Serial = TRUE, [Next]_vars
  PROVE  Alone'
<1>c. Users \subseteq Sessions /\ Employees \subseteq Sessions /\ Managers \subseteq Sessions
  BY DEF Sessions
<1>n. \A n \in Amounts : n \in Int /\ -n \in Int
  BY Numbers
<1>m. ASSUME UNCHANGED <<op, raced>> PROVE Alone'
  BY <1>m DEF Alone
<1>b. ASSUME NEW s \in Sessions,
             \/ \E a \in Accounts, n \in Amounts, k \in {"DEPOSIT", "WITHDRAWAL"}, d \in Int :
                  ReadAccount(s, a, k, n, d)
             \/ ReadSender(s) \/ BeginStatus(s)
      PROVE  Alone'
  BY <1>b, Begins, AloneSteps
<1>w. ASSUME NEW s \in Sessions, op[s].pc # "menu", Marks(s),
             \A r \in Sessions \ {s} : op'[r] = op[r]
      PROVE  Alone'
  <2>1. \A r \in Sessions \ {s} : op[r].pc = "menu"
    BY <1>w DEF Alone
  <2> QED BY <1>w, <2>1, AloneSteps
<1>1. ASSUME NEW s \in Users, Menu(s) PROVE Alone'
  BY <1>1, <1>m DEF Menu, SelectAccount, LeaveAccount, audit
<1>2. ASSUME NEW s \in Sessions, Deposit(s) \/ Withdraw(s) \/ CreditLoan(s) PROVE Alone'
  <2>1. \E a \in Accounts, n \in Amounts, k \in {"DEPOSIT", "WITHDRAWAL"}, d \in Int :
          ReadAccount(s, a, k, n, d)
    BY <1>2, <1>n DEF Deposit, Withdraw, CreditLoan
  <2> QED BY <1>b, <2>1
<1>3. ASSUME NEW s \in Sessions, RecordTransaction(s) \/ RecordOut(s) \/ RecordIn(s) PROVE Alone'
  BY <1>3, <1>w, RecordGoes DEF Recording, Marks
<1>4. ASSUME NEW s \in Sessions, UpdateAccount(s) PROVE Alone'
  BY <1>4, <1>w, WorkGoes
<1>5. ASSUME NEW s \in Sessions, Transfer(s) PROVE Alone'
  BY <1>5, <1>b, <1>w, <1>3, WorkGoes DEF Transfer
<1>6. ASSUME NEW s \in Sessions, SetStatus(s) PROVE Alone'
  BY <1>6, <1>b, <1>w, StatusGoes DEF SetStatus
<1>7. CASE Recovery
  BY <1>7, <1>m
     DEF Recovery, ReadJournal, RollBackEntry, EndRollBack, JournalLogClear, menus, audit
<1>8. CASE Crash
  BY <1>8, IdleSound DEF Crash, Alone, audit
<1>9. CASE UNCHANGED vars
  BY <1>9, <1>m DEF vars, menus, audit
<1> QED BY <1>1, <1>2, <1>3, <1>4, <1>5, <1>6, <1>7, <1>8, <1>9, <1>c DEF Next

\* Handlers that do not overlap satisfy what the theorems of this module ask of
\* the behaviours.
THEOREM SerialIsOrderly == ASSUME Serial = TRUE PROVE Spec => []Orderly
<1>1. Init => Alone
  BY IdleSound DEF Init, Alone
<1>2. TypeOK /\ Alone /\ [Next]_vars => Alone'
  BY StepAlone
<1>3. Alone => Orderly
  BY DEF Alone, Orderly, TransfersApart, Moving, Writing
<1> QED BY <1>1, <1>2, <1>3, TypeCorrect, PTL DEF Spec

-----------------------------------------------------------------------------
(* The server implements Bank *)

\* A transfer that has passed its checks has found both accounts active.
Vetted ==
  \A s \in Sessions :
    op[s].pc \in {"undoSender", "undoReceiver"} \cup Writing =>
      op[s].mine.isActive /\ op[s].theirs.isActive

LEMMA VettedSteps ==
  ASSUME Vetted, NEW s \in Sessions, \A r \in Sessions \ {s} : op'[r] = op[r],
         \/ op'[s].pc \notin {"undoSender", "undoReceiver"} \cup Writing
         \/ op'[s].mine.isActive /\ op'[s].theirs.isActive
  PROVE  Vetted'
BY DEF Vetted

LEMMA WorkVetted ==
  ASSUME TypeOK, Vetted, NEW s \in Sessions,
         \/ UpdateAccount(s) \/ ReadReceiver(s) \/ LogSenderUndo(s) \/ LogReceiverUndo(s)
         \/ Debit(s) \/ Credit(s) \/ Commit(s) \/ GiveUp(s)
  PROVE  Vetted'
<1>1. op[s] \in OpRecord /\ \A r \in Sessions \ {s} : op'[r] = op[r]
  BY WorkGoes DEF TypeOK, Handler
<1>2. CASE Finish(s)
  BY <1>1, <1>2, IdleSound, VettedSteps DEF Finish, TypeOK, Writing
<1>3. CASE Goto(s, "record") \/ Goto(s, "recordOut")
  BY <1>1, <1>3, VettedSteps DEF Goto, TypeOK, OpRecord, Writing
<1>4. CASE ReadReceiver(s) /\ ~Finish(s)
  <2>1. /\ Transferable(s, accounts[op[s].to])
        /\ op' = [op EXCEPT ![s].pc = "undoSender", ![s].theirs = accounts[op[s].to]]
    BY <1>4 DEF ReadReceiver
  <2>2. op'[s].mine = op[s].mine /\ op'[s].theirs = accounts[op[s].to]
    BY <1>1, <2>1 DEF TypeOK, OpRecord
  <2> QED BY <1>1, <2>1, <2>2, VettedSteps DEF Transferable
<1>5. CASE LogReceiverUndo(s)
  <2>1. /\ op[s].pc = "undoReceiver"
        /\ op' = [op EXCEPT ![s].pc = "debit", ![s].mine = Plus(@, -op[s].amount),
                            ![s].theirs = Plus(@, op[s].amount)]
    BY <1>5 DEF LogReceiverUndo, At
  <2>2. /\ op[s].mine \in Account /\ op[s].theirs \in Account
        /\ op[s].amount \in Int /\ -op[s].amount \in Int
    BY <2>1, TransferFields DEF TransferSteps
  <2>3. /\ op'[s].mine = Plus(op[s].mine, -op[s].amount)
        /\ op'[s].theirs = Plus(op[s].theirs, op[s].amount)
    BY <1>1, <2>1 DEF TypeOK, OpRecord
  <2>4. op'[s].mine.isActive = op[s].mine.isActive
    BY <2>2, <2>3, PlusType
  <2>5. op'[s].theirs.isActive = op[s].theirs.isActive
    BY <2>2, <2>3, PlusType
  <2> QED BY <1>1, <2>1, <2>4, <2>5, VettedSteps DEF Vetted
<1>6. CASE LogSenderUndo(s) \/ Debit(s) \/ Credit(s)
  <2>1. /\ op[s].pc \in {"undoSender", "debit", "credit"}
        /\ op'[s].mine = op[s].mine /\ op'[s].theirs = op[s].theirs
    BY <1>1, <1>6 DEF LogSenderUndo, Debit, Credit, At, Goto, TypeOK, OpRecord
  <2> QED BY <1>1, <2>1, VettedSteps DEF Vetted, Writing
<1> QED BY <1>2, <1>3, <1>4, <1>5, <1>6 DEF UpdateAccount, Commit, GiveUp

LEMMA StepVetted ==
  ASSUME TypeOK, Vetted, [Next]_vars
  PROVE  Vetted'
<1>c. Users \subseteq Sessions /\ Employees \subseteq Sessions /\ Managers \subseteq Sessions
  BY DEF Sessions
<1>n. \A n \in Amounts : n \in Int /\ -n \in Int
  BY Numbers
<1>m. ASSUME UNCHANGED op PROVE Vetted'
  BY <1>m DEF Vetted
<1>b. ASSUME NEW s \in Sessions,
             \/ \E a \in Accounts, n \in Amounts, k \in {"DEPOSIT", "WITHDRAWAL"}, d \in Int :
                  ReadAccount(s, a, k, n, d)
             \/ ReadSender(s) \/ BeginStatus(s)
      PROVE  Vetted'
  BY <1>b, Begins, VettedSteps DEF Writing
<1>1. ASSUME NEW s \in Users, Menu(s) PROVE Vetted'
  BY <1>1, <1>m DEF Menu, SelectAccount, LeaveAccount
<1>2. ASSUME NEW s \in Sessions, Deposit(s) \/ Withdraw(s) \/ CreditLoan(s) PROVE Vetted'
  <2>1. \E a \in Accounts, n \in Amounts, k \in {"DEPOSIT", "WITHDRAWAL"}, d \in Int :
          ReadAccount(s, a, k, n, d)
    BY <1>2, <1>n DEF Deposit, Withdraw, CreditLoan
  <2> QED BY <1>b, <2>1
<1>3. ASSUME NEW s \in Sessions, RecordTransaction(s) \/ RecordOut(s) \/ RecordIn(s) PROVE Vetted'
  BY <1>3, RecordGoes, VettedSteps DEF Writing
<1>4. ASSUME NEW s \in Sessions, Transfer(s) \/ UpdateAccount(s) PROVE Vetted'
  BY <1>4, <1>b, <1>3, WorkVetted DEF Transfer
<1>5. ASSUME NEW s \in Sessions, SetStatus(s) PROVE Vetted'
  BY <1>5, <1>b, StatusGoes, VettedSteps DEF SetStatus, Writing
<1>6. CASE Recovery
  BY <1>6, <1>m DEF Recovery, ReadJournal, RollBackEntry, EndRollBack, JournalLogClear, menus
<1>7. CASE Crash
  BY <1>7, IdleSound DEF Crash, Vetted, Writing
<1>8. CASE UNCHANGED vars
  BY <1>8, <1>m DEF vars, menus
<1> QED BY <1>1, <1>2, <1>3, <1>4, <1>5, <1>6, <1>7, <1>8, <1>c DEF Next

LEMMA QuietBank ==
  ASSUME DiskRecovers, DiskRecovers', UNCHANGED booked,
         \A c \in Accounts : accounts'[c].isActive = accounts[c].isActive
  PROVE  UNCHANGED AsBank!vars
<1>1. \A c \in Accounts : Recovered(c)' = Recovered(c)
  BY DEF DiskRecovers
<1>2. [a \in Accounts |-> Recovered(a)]' = [a \in Accounts |-> Recovered(a)]
  BY <1>1
<1>3. [a \in Accounts |-> accounts[a].isActive]' = [a \in Accounts |-> accounts[a].isActive]
  OBVIOUS
<1> QED BY <1>2, <1>3 DEF AsBank!vars

\* What the invariant says of a handler when nobody has raced for any account.
LEMMA Certain ==
  ASSUME TypeOK, Durable, Orderly, server = "up", NEW s \in Sessions
  PROVE  /\ Copies(s) /\ Wrote(s) /\ raced = {}
         /\ \A a \in Accounts : /\ accounts[a].isActive = booked[a].isActive
                                /\ accounts[a] \in Account /\ booked[a] \in Account
                                /\ booked[a].balance \in Int
<1>1. Settled /\ raced = {}
  BY AlwaysSettled DEF Orderly
<1>2. Copies(s) /\ Wrote(s)
  BY DEF Durable, Served, Isolated, Sound
<1>3. \A a \in Accounts : accounts[a] \in Account /\ booked[a] \in Account
  BY DEF TypeOK
<1>4. \A a \in Accounts : booked[a].balance \in Int
  BY <1>3 DEF Account
<1> QED BY <1>1, <1>2, <1>3, <1>4 DEF Settled

LEMMA UpdateAccountBank ==
  ASSUME TypeOK, Durable, Orderly, Covered, Whole, DiskRecovers, DiskRecovers',
         NEW s \in Sessions, UpdateAccount(s)
  PROVE  AsBank!Next
<1> DEFINE a == op[s].from
           n == op[s].amount
<1>1. /\ server = "up" /\ op[s].pc = "update"
      /\ accounts' = [accounts EXCEPT ![a] = op[s].mine]
      /\ booked' = [booked EXCEPT ![a] = Plus(booked[a], Delta(s))]
  BY NoFault DEF UpdateAccount, At, Update, Whole
<1>2. a \in Accounts /\ n \in Amounts
  BY <1>1 DEF TypeOK, Handler
<1>3. n \in Int /\ Delta(s) \in Int
  BY <1>2, Numbers DEF Delta
<1>4. /\ op[s].mine = Plus(booked[a], Delta(s))
      /\ booked[a] \in Account /\ booked[a].balance \in Int
      /\ accounts[a].isActive = booked[a].isActive
  BY <1>1, <1>2, Certain DEF Copies
<1>5. /\ accounts'[a] = op[s].mine /\ booked'[a] = op[s].mine
      /\ \A c \in Accounts \ {a} : accounts'[c] = accounts[c] /\ booked'[c] = booked[c]
  BY <1>1, <1>2, <1>4 DEF TypeOK
<1>6. /\ op[s].mine.balance = booked[a].balance + Delta(s)
      /\ op[s].mine.isActive = accounts[a].isActive
  BY <1>3, <1>4, PlusType
<1>7. [c \in Accounts |-> accounts[c].isActive]' = [c \in Accounts |-> accounts[c].isActive]
  BY <1>5, <1>6
<1>8. CASE op[s].type = "DEPOSIT"
  <2>1. Delta(s) = n
    BY <1>8 DEF Delta
  <2>2. [c \in Accounts |-> Recovered(c)]'
          = [[c \in Accounts |-> Recovered(c)] EXCEPT ![a] = @ + n]
    BY <1>2, <1>5, <1>6, <2>1 DEF DiskRecovers
  <2>3. AsBank!Deposit(a, n)
    BY <1>7, <2>2 DEF AsBank!Deposit
  <2> QED BY <1>2, <2>3 DEF AsBank!Next
<1>9. CASE op[s].type # "DEPOSIT"
  <2>1. Delta(s) = -n
    BY <1>9 DEF Delta
  <2>2. booked'[a].balance = booked[a].balance - n /\ op[s].mine.balance = booked[a].balance - n
    BY <1>3, <1>4, <1>5, <1>6, <2>1
  <2>3. n <= booked[a].balance
    BY <1>3, <1>4, <2>2 DEF Covered
  <2>4. [c \in Accounts |-> Recovered(c)]'
          = [[c \in Accounts |-> Recovered(c)] EXCEPT ![a] = @ - n]
    BY <1>2, <1>5, <2>2 DEF DiskRecovers
  <2>5. n <= [c \in Accounts |-> Recovered(c)][a]
    BY <1>2, <2>3 DEF DiskRecovers
  <2>6. AsBank!Withdraw(a, n)
    BY <1>7, <2>4, <2>5 DEF AsBank!Withdraw
  <2> QED BY <1>2, <2>6 DEF AsBank!Next
<1> QED BY <1>8, <1>9

\* The two writes of a transfer change no activation status.
LEMMA WriteStatus ==
  ASSUME TypeOK, Durable, Orderly, Whole, NEW s \in Sessions, Debit(s) \/ Credit(s)
  PROVE  \A c \in Accounts : accounts'[c].isActive = accounts[c].isActive
<1> DEFINE a == op[s].from
           b == op[s].to
           n == op[s].amount
<1>1. server = "up" /\ op[s].pc \in {"debit", "credit"}
  BY DEF Debit, Credit, At
<1>2. a \in Accounts /\ b \in Accounts /\ n \in Int /\ -n \in Int
  BY <1>1, TransferFields DEF TransferSteps
<1>3. /\ op[s].mine = Plus(booked[a], -n) /\ op[s].theirs = Plus(booked[b], n)
      /\ booked[a] \in Account /\ booked[b] \in Account
      /\ accounts[a].isActive = booked[a].isActive /\ accounts[b].isActive = booked[b].isActive
  BY <1>1, <1>2, Certain DEF Copies, Writing
<1>4. op[s].mine.isActive = accounts[a].isActive
  BY <1>2, <1>3, PlusType
<1>5. op[s].theirs.isActive = accounts[b].isActive
  BY <1>2, <1>3, PlusType
<1>6. \/ accounts' = [accounts EXCEPT ![a] = op[s].mine]
      \/ accounts' = [accounts EXCEPT ![b] = op[s].theirs]
  BY NoFault DEF Debit, Credit, Update, Whole
<1> QED BY <1>2, <1>4, <1>5, <1>6 DEF TypeOK

LEMMA CommitBank ==
  ASSUME TypeOK, Durable, Orderly, Covered, Vetted, Whole, DiskRecovers, DiskRecovers',
         NEW s \in Sessions, Commit(s)
  PROVE  AsBank!Next
<1> DEFINE a == op[s].from
           b == op[s].to
           n == op[s].amount
<1>1. /\ server = "up" /\ op[s].pc = "commit" /\ UNCHANGED accounts
      /\ booked' = [booked EXCEPT ![a] = Plus(@, -n), ![b] = Plus(@, n)]
  BY DEF Commit, At
<1>2. a \in Accounts /\ b \in Accounts /\ n \in Amounts /\ n \in Int /\ -n \in Int
  BY <1>1, TransferFields DEF TransferSteps
<1>3. /\ a # b /\ op[s].mine = Plus(booked[a], -n)
      /\ op[s].mine = accounts[a] /\ op[s].theirs = accounts[b]
      /\ booked[a] \in Account /\ booked[b] \in Account
      /\ booked[a].balance \in Int /\ booked[b].balance \in Int
  BY <1>1, <1>2, Certain DEF Copies, Wrote, Writing
<1>4. accounts[a].isActive /\ accounts[b].isActive
  BY <1>1, <1>3 DEF Vetted, Writing
<1>5. /\ booked'[a] = op[s].mine /\ booked'[b] = Plus(booked[b], n)
      /\ \A c \in Accounts \ {a, b} : booked'[c] = booked[c]
  BY <1>1, <1>2, <1>3 DEF TypeOK
<1>6. op[s].mine.balance = booked[a].balance + (-n)
  BY <1>2, <1>3, PlusType
<1>7. booked'[b].balance = booked[b].balance + n
  BY <1>2, <1>3, <1>5, PlusType
<1>8. booked'[a].balance = booked[a].balance - n /\ n <= booked[a].balance
  BY <1>2, <1>3, <1>5, <1>6 DEF Covered
<1>9. [c \in Accounts |-> Recovered(c)]'
        = [[c \in Accounts |-> Recovered(c)] EXCEPT ![a] = @ - n, ![b] = @ + n]
  BY <1>2, <1>3, <1>5, <1>7, <1>8 DEF DiskRecovers
<1>10. [c \in Accounts |-> accounts[c].isActive]' = [c \in Accounts |-> accounts[c].isActive]
  BY <1>1
<1>11. n <= [c \in Accounts |-> Recovered(c)][a]
  BY <1>2, <1>8 DEF DiskRecovers
<1>12. AsBank!Transfer(a, b, n)
  BY <1>2, <1>3, <1>4, <1>9, <1>10, <1>11 DEF AsBank!Transfer
<1> QED BY <1>2, <1>12 DEF AsBank!Next

LEMMA UpdateStatusBank ==
  ASSUME TypeOK, Durable, Orderly, Whole, DiskRecovers, DiskRecovers',
         NEW s \in Sessions, UpdateStatus(s)
  PROVE  AsBank!Next
<1> DEFINE a == op[s].from
           status == op[s].status
<1>1. /\ server = "up" /\ op[s].pc = "statusUpdate"
      /\ accounts' = [accounts EXCEPT ![a] = op[s].mine]
  BY NoFault DEF UpdateStatus, At, Update, Whole
<1>2. a \in Accounts /\ status \in BOOLEAN
  BY <1>1 DEF TypeOK, Handler, OpRecord
<1>3. op[s].mine = [booked[a] EXCEPT !.isActive = status] /\ booked[a] \in Account
  BY <1>1, <1>2, Certain DEF Copies
<1>4. op[s].mine.isActive = status
  BY <1>3 DEF Account
<1>5. accounts'[a].isActive = status /\ \A c \in Accounts \ {a} : accounts'[c] = accounts[c]
  BY <1>1, <1>2, <1>4 DEF TypeOK
<1>6. \A c \in Accounts : booked'[c].balance = booked[c].balance
  BY StatusGoes
<1>7. [c \in Accounts |-> Recovered(c)]' = [c \in Accounts |-> Recovered(c)]
  BY <1>6 DEF DiskRecovers
<1>8. [c \in Accounts |-> accounts[c].isActive]'
        = [[c \in Accounts |-> accounts[c].isActive] EXCEPT ![a] = status]
  BY <1>2, <1>5
<1> HIDE DEF a, status
<1>9. CASE status = TRUE
  BY <1>2, <1>7, <1>8, <1>9 DEF AsBank!Next, AsBank!SetStatus
<1>10. CASE status = FALSE
  BY <1>2, <1>7, <1>8, <1>10 DEF AsBank!Next, AsBank!SetStatus
<1> QED BY <1>2, <1>9, <1>10

LEMMA StepBank ==
  ASSUME TypeOK, Durable, Orderly, Covered, Vetted, Whole, DiskRecovers, DiskRecovers',
         [Next]_vars
  PROVE  [AsBank!Next]_(AsBank!vars)
<1>c. Users \subseteq Sessions /\ Employees \subseteq Sessions /\ Managers \subseteq Sessions
  BY DEF Sessions
<1>d. UNCHANGED <<accounts, booked>> => UNCHANGED AsBank!vars
  BY QuietBank
<1>1. ASSUME NEW s \in Users, Menu(s) \/ Deposit(s) \/ Withdraw(s) PROVE UNCHANGED AsBank!vars
  BY <1>1, <1>d
     DEF Menu, SelectAccount, LeaveAccount, Deposit, Withdraw, ReadAccount, disk, audit
<1>2. ASSUME NEW s \in Employees, CreditLoan(s) PROVE UNCHANGED AsBank!vars
  BY <1>2, <1>d DEF CreditLoan, ReadAccount, disk
<1>3. ASSUME NEW s \in Sessions, RecordTransaction(s) \/ RecordOut(s) \/ RecordIn(s)
      PROVE  UNCHANGED AsBank!vars
  BY <1>3, <1>d, RecordGoes
<1>4. ASSUME NEW s \in Sessions, UpdateAccount(s) PROVE AsBank!Next
  BY <1>4, UpdateAccountBank
<1>5. ASSUME NEW s \in Users, Transfer(s) PROVE AsBank!Next \/ UNCHANGED AsBank!vars
  <2>1. CASE ReadSender(s) \/ ReadReceiver(s) \/ LogSenderUndo(s) \/ LogReceiverUndo(s) \/ GiveUp(s)
    BY <2>1, <1>d
       DEF ReadSender, ReadReceiver, LogSenderUndo, LogReceiverUndo, GiveUp, disk, audit
  <2>2. CASE Debit(s) \/ Credit(s)
    <3>1. UNCHANGED booked
      BY <2>2 DEF Debit, Credit, audit
    <3> QED BY <2>2, <3>1, <1>c, WriteStatus, QuietBank
  <2>3. CASE Commit(s)
    BY <2>3, <1>c, CommitBank
  <2>4. CASE RecordOut(s) \/ RecordIn(s)
    BY <2>4, <1>3, <1>c
  <2> QED BY <1>5, <2>1, <2>2, <2>3, <2>4 DEF Transfer
<1>6. ASSUME NEW s \in Managers, SetStatus(s) PROVE AsBank!Next \/ UNCHANGED AsBank!vars
  <2>1. CASE BeginStatus(s) \/ ScanAccount(s) \/ EndStatus(s)
    BY <2>1, <1>d DEF BeginStatus, ScanAccount, EndStatus, disk, audit
  <2>2. CASE UpdateStatus(s)
    BY <2>2, <1>c, UpdateStatusBank
  <2> QED BY <1>6, <2>1, <2>2 DEF SetStatus
<1>7. CASE Recovery
  <2>1. CASE ReadJournal \/ EndRollBack \/ JournalLogClear
    BY <2>1, <1>d DEF ReadJournal, EndRollBack, JournalLogClear, disk, audit
  <2>2. CASE RollBackEntry
    <3>1. UNCHANGED booked
      BY <2>2 DEF RollBackEntry, audit
    <3> QED BY <2>2, <3>1, RollBackEntryDurable, QuietBank
  <2> QED BY <1>7, <2>1, <2>2 DEF Recovery
<1>8. CASE Crash \/ UNCHANGED vars
  BY <1>8, <1>d DEF Crash, vars, disk, audit
<1> QED
  BY <1>1, <1>2, <1>3, <1>4, <1>5, <1>6, <1>7, <1>8, <1>c DEF Next

LEMMA InitBank == Init => AsBank!Init
<1> SUFFICES ASSUME Init PROVE AsBank!Init
  OBVIOUS
<1>1. EntryCount = 0
  BY Numbers DEF Init, EntryCount
<1>2. \A a \in Accounts : OpenUndoOf(a) = {}
  BY <1>1 DEF OpenUndoOf, OpenUndo
<1>3. \A a \in Accounts : Recovered(a) = InitialBalance[a]
  BY <1>2 DEF Init, Recovered
<1>4. [a \in Accounts |-> Recovered(a)] = InitialBalance
  BY <1>3, LedgerAssumption
<1>5. [a \in Accounts |-> accounts[a].isActive] = [a \in Accounts |-> TRUE]
  BY DEF Init
<1> QED BY <1>4, <1>5 DEF AsBank!Init

\* Every behaviour of the handlers, with their reads, journal entries, writes,
\* crashes and rollbacks, is one of Bank, whose operations are one step each:
\* a deposit takes effect with its write, a transfer with its commit entry, and
\* a crash and a recovery change no balance and no status.  Handlers may overlap
\* as long as they work on different accounts and no two of them transfer.
THEOREM LedgerImplementsBank == ASSUME Whole PROVE Spec /\ []Orderly => ImplementsBank
<1>1. TypeOK /\ Durable /\ Orderly /\ Covered /\ Vetted /\ DiskRecovers /\ DiskRecovers'
        /\ [Next]_vars => [AsBank!Next]_(AsBank!vars)
  BY StepBank
<1>2. Init => Covered /\ Vetted
  BY InitCovered, IdleSound DEF Init, Vetted, Writing
<1>3. TypeOK /\ Covered /\ Vetted /\ [Next]_vars => Covered' /\ Vetted'
  BY StepCovered, StepVetted
<1>4. Orderly => TransfersApart
  BY DEF Orderly
<1> QED
  BY <1>1, <1>2, <1>3, <1>4, InitBank, TypeCorrect, AlwaysDurable, CrashesLoseNothing, PTL
     DEF Spec, ImplementsBank, AsBank!Spec

\* All of it holds of handlers that do not overlap, without a condition on the
\* behaviours: the case that the runs of this module's properties check.
THEOREM SerialServer ==
  ASSUME Sequential PROVE Spec => []DiskRecovers /\ RestartExact /\ ImplementsBank
<1>1. Orderly => TransfersApart
  BY DEF Orderly
<1> QED
  BY <1>1, SerialIsOrderly, CrashesLoseNothing, RestartsExact, LedgerImplementsBank, PTL
     DEF Sequential
=============================================================================
