# A verification project for the banking management system

The repository is a client/server bank in C: one server process with a thread
per connection, binary files as its database, `fcntl` locks, an undo journal
for transfers, and a small terminal client. This directory holds TLA+ models of
the server's core logic, TLC configurations that check them on small instances,
and TLAPS proofs of properties that hold for every instance.

File names below are relative to `src/src/` of the repository unless they say
otherwise.

## 1. Inventory

| Component | State | Operations | Where | Model |
|---|---|---|---|---|
| Money handlers | `data/accounts.dat`, `data/transactions.dat`, the local copies of each thread | deposit, withdrawal, transfer, credit of an approved loan, account loop of a status change | `customer.c`, `employee.c`, `manager.c` | `Ledger`, `Bank` |
| Journal and recovery | `data/journal.log` | `journal_log_entry`, `run_server_recovery`, `journal_log_clear` | `data_access.c`, `server.c` | `Ledger` |
| Sessions and login | `activeUserIds`, `activeUserCount`, `sessionMutex`, the sockets | accept, login, session entry and clean-up (swap-and-pop), close | `server.c` | `Sessions` |
| Menus and disconnects | the menu a thread is in | `write_string`, `read_client_input`, the menu loops of the four roles | `common_utils.c`, `customer.c`, `employee.c`, `manager.c`, `admin.c` | `Sessions` |
| File locking | the kernel's lock table | `set_file_lock` around every file access | `data_access.c` | `FileLocks` |
| Record access and ids | all data files | find, read, update, append, `get_next_id_from_file` | `data_access.c` | call by call and lock by lock in `Feedback`; as steps in `Loans`, `Users`, `Ledger` |
| User and account creation | `users.dat`, `accounts.dat`, `create_user_mutex` | `handle_add_user`, `handle_add_new_account` | `employee.c`, called from `admin.c` too | `Users` |
| User details, password, status | `users.dat`, `isActive` in `accounts.dat` | `handle_modify_user_details`, `handle_change_password`, `handle_set_account_status` | `employee.c`, `customer.c`, `manager.c` | `Users` |
| Loans | `loans.dat` | apply, assign, process | `customer.c`, `manager.c`, `employee.c` | `Loans`; the credit as an account operation in `Ledger` |
| Feedback | `feedback.dat` | add, review | `customer.c`, `manager.c` | `Feedback`, over `FileLocks` |
| Client program | the terminal dialogue | the loop that waits for words in the server's text | `client.c` | `Client` |
| Input validation | none (pure functions) | `is_valid_number`, `is_valid_email`, `is_valid_phone` | `common_utils.c` | not modelled |
| Data initialisation | the first records | one-shot program | `admin_util.c` | what it leaves is the initial state of `Users`, `Loans`, `Feedback` |
| Views | none | balance, history, loan and feedback listings | `customer.c`, `employee.c` | not modelled: they read and format |

**How the parts interact.** `main` runs recovery, then accepts connections; each
gets a thread (`handle_client`) that logs a user in, enters the user in the
session table, runs the menu of the user's role, and cleans up. Handlers called
from the menus call the data-access layer, whose every call opens a file, takes
an `fcntl` lock, reads or writes, unlocks and closes. So the threads share three
things: the session table (under `sessionMutex`), the files (under locks that
do not exclude threads of one process), and the fate of the process.

**What is hard here.**

* *Interleavings.* Handlers read a whole record, compute, and write the whole
  record back in a later call. Nothing is held in between: `fcntl` locks belong
  to the process, so they never make one session wait for another.
* *Ids* are those of the last record plus one, read in one call and used in a
  later one.
* *Long reads of a record*: an employee keeps a user or a loan in a local copy
  over one or many prompts before the whole copy goes back. A deposit writes back
  `isActive` with the balance.
* *A dialogue without a protocol*: the client guesses from words in the text that
  has arrived whether a line is wanted or the session is over.
* *Crashes.* A transfer is two record updates with undo entries before and a
  commit entry after; the process may end between any two, and again while
  recovery is running.
* *A journal that only grows while the server runs*, whose entries do not name
  their transfer, and of which recovery reads at most `MAX_BUFFER` entries.
* *Failing writes*, which some calls report and others swallow; *failing opens*, which
  pass for an empty file.
* *Disconnects* between any two steps of a thread, which the roles' menus treat
  differently, and which may raise `SIGPIPE`.

**What makes each component correct.**

* *Money handlers*: no overdraft; an account holds what its completed operations
  add up to, at least as long as no two sessions work on it at once; the
  history explains the balance.
* *Journal and recovery*: both old balances are logged before the first change;
  whenever the process ends, the next start yields every transfer whole or not
  at all; recovery ends.
* *Sessions*: one session per user; the table lists exactly the users in
  session; swap-and-pop loses nobody; every login is decided; a gone client's
  session is removed; one client's disconnect leaves the others alone.
* *File locking*: no exit of a call leaves a lock behind. (That locks isolate
  concurrent accesses, as README.md line 67 has it, does not hold between the threads
  of one process.)
* *Creation*: user ids, phones and e-mails are unique; account ids and numbers
  are as long as creations do not overlap; a customer has an account unless a crash
  or a failed write came between; the mutex is always given back.
* *User records*: an update of one field does not revert another session's update
  unless they overlapped; nobody gets a role but from his creation or an administrator,
  whatever old copies are written back; accounts follow the status of their owner.
* *Loans*: every credit is accounted for; a loan only advances; nobody changes a
  loan behind the employee who decides on it.
* *Feedback*: records are only added and marked.
* *Client*: answers go to the prompt they were typed for; client and server do
  not both wait for input.

## 2. Modules

| Module | What it is |
|---|---|
| `Bank` | abstract specification: deposit, withdrawal, transfer, status change, each in one step |
| `Ledger` | the handlers call by call, the journal, crashes, failing writes, recovery; refines `Bank` |
| `LedgerProofs` | theorems about `Ledger` under all its failures, checked by TLAPS |
| `LedgerIsolationProofs` | theorems about handlers that overlap: what one step of one session keeps, and, while nothing fails, exact balances and a history that adds up |
| `LedgerRecoveryProofs` | theorems about crashes and recovery under overlapping handlers, and that `Ledger` implements `Bank` |
| `Sessions` | connections, login, session table, menus, disconnects, SIGPIPE |
| `SessionsProofs` | theorems about `Sessions`, checked by TLAPS |
| `FileLocks` | the lock table of the kernel for one file, and the calls that use it |
| `Feedback` | the feedback handlers as the locked calls they consist of; extends `FileLocks` |
| `FeedbackProofs` | theorems about `FileLocks` and `Feedback`, checked by TLAPS |
| `Loans` | loans from the application to the decision |
| `LoansProofs` | theorems about `Loans`, checked by TLAPS |
| `Users` | creation, details, passwords and status of users, and their accounts but for the balance |
| `UsersProofs` | theorems about `Users`, checked by TLAPS |
| `Client` | one client program and its server thread, and the stream between them |
| `ClientProofs` | theorems about `Client`, checked by TLAPS |
| `MCLedger`, `MCSessions`, `MCFeedback`, `MCLoans`, `MCUsers`, `MCClient` | values of constants for TLC |

How they fit together: in `FileLocks` the kernel's locks belong to the one server
process, so calls of the data-access layer interleave in any order, which is what the
handlers of `Ledger`, `Loans` and `Users` do; `Feedback` carries this out for one file,
with every handler step between its lock and its unlock. `Sessions` shows that a user has
one session, which is why `Ledger`, `Loans`, `Users` and `Feedback` name a session by
its user. `Loans` has the record of a loan and counts its credits, `Ledger` has the account a
credit goes to; `Users` and `Ledger` share the account file: in `Ledger` the handlers that move
money write a balance, in `Users` the same handlers write the status they read.
`Client` is the other end of the connection that `Sessions` opens and closes.

An operator marked "Variant" in a module is a version of the operator below it
with a mistake in it. No specification uses it: it stands there to show that the
property it is meant for would notice.

### Ledger

State and code:

| Variable | Code |
|---|---|
| `accounts` | records of `data/accounts.dat`: balance and isActive by accountId |
| `journal`, `transactions` | `data/journal.log`, `data/transactions.dat`, as sequences |
| `server`, `cursor` | the main thread: `"down"`, `"rollback"` with loop variable `i` of `run_server_recovery`, `"clear"`, `"up"` |
| `selected` | the account a customer chose in `account_selection_menu` |
| `op` | for each session, where its thread is in a handler (`pc`) and the handler's local variables |
| `booked`, `raced` | history, in no code: what the operations that took effect add up to, and the accounts two sessions had open at once |
| `ops`, `crashes`, `faults` | counters for the bounds |

A step is one call of the data-access layer. `Deposit` and `Withdraw` are
`getAccount` plus the check and the computation, `UpdateAccount` the write,
`RecordTransaction` the `addTransaction` after it. A transfer is `ReadSender`,
`ReadReceiver` (with the four validation checks as `Transferable`),
`LogSenderUndo`, `LogReceiverUndo`, `Debit`, `Credit`, `Commit` or `GiveUp`,
`RecordOut`, `RecordIn`. The loop of `handle_set_account_status` over the
accounts of a user, which administrators run as managers do, is `BeginStatus`, `ScanAccount`, `UpdateStatus`, `EndStatus`.
Recovery is `ReadJournal`, `RollBackEntry`, `EndRollBack`, `JournalLogClear`.
`Crash` ends the process at any point and forgets `selected` and `op`.

Failures: while `faults < MaxFaults` an `updateAccount`, `journal_log_entry`,
`addTransaction` or `journal_log_clear` may fail, and opening the journal at the
start may fail; each is followed by what the code does next. A failed *read* of
an account makes a handler return without any effect, which the model already
has as the choice of not starting one; reads that fail on the way are in `Feedback`
and `Users`, where something comes of them.

Abstractions, and why they keep what the properties tell apart:

* Balances are C `double`s; the model has integers. Rounding is not modelled.
* A record read or write is atomic. `read_record` and `update_record` make one
  system call for at most a few hundred bytes; torn records are not modelled.
* A write is durable once its call has returned, as the `fsync` in
  `update_record`, `append_record` and `journal_log_entry` has it.
* The account number of a receiver is its accountId: `getAccountByNum` finds the
  first record with that number, and numbers are unique as long as creations do
  not overlap (`AccountIdsUntilOverlap` of `Users`).
* Names, account numbers and time stamps in records are left out.
* Employees' loan credits may name any account; which loans may be credited, and
  how often, is `Loans`.

### Bank and the refinement

`Ledger` implements `Bank` under the mapping `balance <- Recovered`,
`active <- isActive`. `Recovered(a)` is the balance recovery would give account
`a` if the process ended now. Under it a deposit takes effect with its write, a
transfer with its commit entry (the two record updates before it, and the
`RollBackEntry` steps after a crash, are stutters), and the clearing of the
journal is a stutter too. `Serial` restricts the behaviours to those in which a
handler starts only when none is running. Without a restriction the
implementation does not hold, as `ledger_interleaved` shows for recovery and
section 4 for balances; section 5 proves it for a weaker one than `Serial`.

### Sessions

`pc` is where the thread of a connection is: `start` (accepted, but the accept loop has
still to start the thread, or to close the socket because it cannot), `ask` and `login` (the three login
prompts, taken as one), `lock`, `search`, `count` (the critical section that
enters the session), `show` and `read` (a menu written, its answer read),
`leave`, `find`, `pop` (the critical section that removes it), `refuse`,
`close`. `activeUserIds`, `activeUserCount`, `sessionMutex` are the globals of
`server.c`; `index` is the loop variable of the thread that holds the mutex. The
critical sections take one step per iteration and per assignment, so the mutex
is what makes them atomic, not the model.

`level` is how many menus deep a thread is: a failed read returns one level
(`ReadFails`); at the outermost menu, `account_selection_menu` and
`manager_menu` leave (`MenuReadFails`), `employee_menu` and `admin_menu` do not
look at the result (`MenuReadIgnored`). A customer's menus also return by themselves, when
no account is active (`NoAccounts`) or the selected one cannot be read (`AccountGone`). `check_login` is a choice among its
outcomes: which users exist and are active is in `Users`. What handlers do
inside is the other modules'.

`WriteKills`: a write to a connection the client has closed may raise `SIGPIPE`,
whose default action ends the process; the server does not change it. It *may*:
the first write after the close succeeds, so the action is never forced.

### FileLocks

`lock[r]` is what the server process holds on record `r` of a file. `SetLock` is the
kernel's rule (POSIX `fcntl`): a request of the same process replaces what it held, so
it never waits; no other program locks the files. It is external to the repository and
modelled from the calls in `set_file_lock`. Each call of the data-access layer
is `Open`, `Lock` (or `GoOnUnlocked`, for `set_file_lock` reports a failure to nobody),
`Unlock`, `Close`, and closing a descriptor drops every lock the process holds on the
file, those of other threads included.

### Feedback

`file` is `data/feedback.dat`, `job[t]` what the thread of session `t` does next, with
the local variables of its handler. A call of the data-access layer takes three steps of
`FileLocks` and one of these: `ReadId` and `AppendRecord` (`addFeedback`),
`ListUnreviewed` (the listing of `handle_review_feedback`), `Find` and `ReadRecord`
(`getFeedback`), `FindAgain` and `WriteRecord` (`updateFeedback`), and `NotFound` where a
search comes to the end of the file. The access and the unlock after it are one step:
nobody can tell them apart, since nobody waits. The other exits are steps of their own:
the file cannot be opened (`OpenFails`), `read_record` and `update_record` return if they
get no lock (`LockFails`), the read or write fails (`AccessFails`). What the handler makes
of it is `GoesOn`: it ends, except that an addition takes 1 for the next id. The other
handlers use the files through the same functions of `data_access.c`.

### Loans

`loans` is `data/loans.dat`; `op` has each session's place in its handler and its copy
of a loan. `ReadLoanId`, `AppendLoan` are `handle_apply_loan`; `ListUnassigned`, `Cancel`,
`ReadToAssign`, `WriteAssigned` are `handle_assign_loan`; `ReadToProcess`, `Approve`,
`Reject`, `NoAction`, `Credit`, `SaveLoan` are `handle_process_loan`. `Credit` is the
`updateAccount` of an approved loan: here it only counts. `credited`, `cut`, `raced`,
`overlapped` are history variables: what was credited, which credits a crash or a failed
`updateLoan` separated from the status, on which loans two managers worked at once,
whether two applications overlapped. Amounts and accounts are left out, and so is a
failing `addTransaction`, which has no consequence for the loan. Users keep
their roles here: an employee who loses his role keeps his loans either way.

### Users

`users` and `accounts` are the two files; an account has its id, number, owner and
status. `mutex` is `create_user_mutex`. `CheckUnique`, `AbortCreation` (phone or e-mail in
use), `ReadUserId`, `AppendUser` (or `AppendUserFails`), `GenerateNumber`,
`ReadAccountId`, `AppendAccount` are `handle_add_user` for a customer; employees and
managers get no account; `BeginAccount` and the last three are `handle_add_new_account`;
`ReadToModify`, `WriteDetails` are `handle_modify_user_details`; `ReadToChange`,
`WritePassword` are `handle_change_password`; `ReadToSetStatus`, `WriteStatus`,
`SweepAccount` per record, `EndSweep` (or `OpenAccountsFails`) are
`handle_set_account_status`. The checks under the mutex are one step: only holders of the
mutex append users, and the one other writer of contacts, `handle_modify_user_details`,
is excepted by `CreatedUnique`. Phone and e-mail are one value, names and address are
left out. A role is typed by an administrator only, and the role a session acts with is
that of its login, as in the menus.

The handlers that move money are here for the one thing they do to these files: they
write whole account records. `SelectAccount` and `LeaveAccount` are the customer's menus,
`ReadAccount`, `ReadReceiver`, `GiveUp`, `WriteAccount` a deposit, a withdrawal, a
transfer, or the credit of a loan; `held` are the copies still to be written, with the
status they had when they were read. Amounts and the journal are in `Ledger`, where the
same handlers are taken apart further.

A file that cannot be opened passes for one in which nothing is found: the next id is 1,
the phone is free, the next account number is the first. These are alternatives of
`CheckUnique`, `ReadUserId`, `AppendUser`, `GenerateNumber` and `ReadAccountId` that
count as a trouble and set `mistaken`.

History variables: `booked`, what each user would be had every written change been
applied to the record itself instead of to a copy; `granted`, the roles each user was
created with or given by an administrator; `raced`, `modified`, `overlapped`,
`late`, `cut`, `crossed`, `mistaken`, which say of what a property does not speak.
`crossed` has the accounts whose status a manager changed while a copy of them was held:
when the copy is written, the change is undone.

### Client

`stream` is what the server has written and the client has not read, in pieces: the words
the client looks for, and `"text"` for all else; "Enter" is two pieces, since a read of
`Limit` pieces can end inside it. `at` and `todo` are the prompt the server thread
comes to and the texts it writes before; `Outcomes` lists, for each kind of prompt, what
the thread may write after an answer: the login prompts, a menu, a
prompt of a handler, the loan id and the action of `handle_process_loan`. A step of the
client is one read of the socket with the decision that follows, or one line typed; after
a line the client may be gone, for it looks for the words of the end in the buffer that
now holds the line. A read returns any beginning of the stream up to the limit, for TCP
keeps no boundaries. The header of a menu is a text of its own (`ToMenu`), since it
shows a stored name. Abstractions: the user types at a terminal, one line per read; stored texts in listings do not contain "Enter" (`ClientAssumption`).

## 3. Runs

Every run names its bounds in its `.cfg`. Deadlock is checked in `filelocks` only.
Elsewhere the system rightly stops: the bounds on operations or records are used up,
all connections of the instance have leaked, the client has gone or has come to a
dead end that the properties of `Client` name.

| Run | Expected | Question |
|---|---|---|
| `ledger_recovery` | pass | Do handlers that do not overlap implement `Bank` through two crashes, inside recovery too (`ImplementsBank`, `DiskRecovers`)? Does recovery end, does every handler return (`RecoveryCompletes`, `HandlersReturn`)? |
| `ledger_isolation` | pass | What survives when sessions do overlap: exact balances of accounts without a race, write-ahead order, a history that adds up (`UncontendedExact`, `WriteAhead`, `HistoryExplains`) |
| `ledger_chaos` | pass | `NoOverdraft` and `TypeOK` with overlap, a crash and a failing write |
| `ledger_interleaved` | violation | Two transfers overlap without sharing an account, then a crash: the journal's last entry decides about both, and one is left half done |
| `sessions_table` | pass | `OneSessionPerUser`, `TableExact`, `EntryFound`, `NobodyStranded`, `TypeOK` |
| `sessions_orphans` | pass | A session whose customer or manager has gone is removed (`OrphansRemoved`); every login is decided (`LoginDecided`) |
| `sessions_disconnect` | violation | One client's disconnect may end the other sessions |
| `filelocks` | pass | Sessions that add and review feedback, down to each lock and each failing call: does no exit leave a lock (`NoLockLeft`), are records only added and marked (`OnlyMarks`), are ids positions until two additions overlap or one cannot read the last id (`IdsUntilOverlap`), does nobody get stuck (deadlock)? |
| `loans` | pass | Is every credit explained by the decision, or by a crash or a failed write after it (`CreditsExplained`)? Does nobody change a loan behind the employee's copy (`CopyCurrent`), does a loan only advance (`LoansOnlyAdvance`), and when are ids unique (`IdsUntilOverlap`)? |
| `users` | pass | What `create_user_mutex` achieves (`UserIdsExact`, `CreatedUnique`, `OneCreationCut`, `MutexOwned`), what happens where it is not taken (`AccountIdsUntilOverlap`), and what whole-record updates of old copies, of users and of accounts, leave intact (`UnracedExact`, `RolesGranted`, `AccountsFollowUser`) |
| `client` | pass | Is a line only asked for when the server waits for it (`AnswersInStep`)? Where do client and server both wait (`NoMutualWait`)? Does an answer lead to the next prompt (`AnswerLeadsOn`)? |
| `client_reprompt` | violation | Invalid input, or even a successful login, ends the client if the text arrives before the prompt that follows |

Bounds, and why they are enough for the questions:

* `ledger_recovery`: two accounts, one customer each, an employee and a manager,
  one amount, three operations, two crashes. Three operations put a committed
  transfer before an incomplete one in the journal and something after it; two
  crashes put one inside recovery. A journal of nine entries holds three
  transfers, and `MaxBuffer` is as long: the limit is a question of its own.
* `ledger_isolation`: three accounts, two customers (one owning two accounts), a
  manager, three operations, so that two sessions race on one account while
  a third session works on an account that stays out of the race. No crash and no failing write: `WriteAhead` and
  `HistoryExplains` are about the running server. About 1.7 million states.
* `ledger_chaos`: two operations, one crash, one failing write, of every kind of
  session.
* `ledger_interleaved`: four accounts, so that the two transfers share none
  and the failure cannot be blamed on a race on a record.
* `sessions_table`: three connections and three users of different roles for a
  table of two, one death of the process; connections are symmetric. Two sessions
  are enough for swap-and-pop to move a foreign entry; the third meets the full table.
* `sessions_orphans`: two connections, a table of one, so that the full table, the
  refused second login and the contention for the mutex all happen; no symmetry,
  since liveness is checked.
* `filelocks`: two customers and two managers, who are symmetric, two records, one
  failing open, lock, read or write. Two additions and two reviews overlap in all ways; a second record
  carries the duplicate id and shows which record a review reaches; a whole-file lock, and
  a lock of each record occur together. About 2 million states.
* `loans`: two sessions of each role, two loans, one crash, one failing write. Two
  managers are needed for the race of section 4, two employees for a loan assigned to
  somebody else, two customers for a duplicate id; a crash and a fault together credit a
  loan three times. About 175 000 states.
* `users`: the users and accounts of `admin_util.c` and a second employee: two
  sessions that open accounts, an administrator who shares users with both and with the
  manager, and the customer, with his own password and his accounts. Three handlers, or two
  and one trouble (`MaxOps` bounds their sum): a race takes two, and the
  third shows its consequences (a repeated id without an overlap, an account for an
  inactive user, a change of status under a held copy). A trouble is a crash, a failing write
  or a failing open; three handlers with a trouble among them are left to the proofs.
  Room for one more user: a second creation then fails for lack of room, but its
  interleaving up to the mutex is there with the modified users; two more accounts. One new
  contact and one in use, one new password, two roles. About 1 million states.
* `client`: reads of up to four pieces hold a whole prompt and the text before it, as
  1023 bytes hold any single text; a listing text without and one with "Invalid".
  241 states: the two sides mostly take turns.

**Fairness.** `Ledger!FairSpec` assumes weak fairness of recovery and of each
session inside a handler: both are threads that the scheduler runs and that wait
for nothing (locks of their own process do not make them wait). Nothing is
assumed of clients, so operations need not start. `Client!FairSpec` assumes weak
fairness of the server thread and of the client program, which are processes that
only wait for input, and none of the user, who need not type. `Sessions!FairSpec` assumes
weak fairness of each thread's own steps, and strong fairness of the two
acquisitions of `sessionMutex`: the mutex becomes free and is taken again by
others, so weak fairness would let a thread starve; a POSIX mutex under the
Linux scheduler does not starve a waiter for ever when the holders' critical
sections are finite and each of them does input and output between two of them.
Reads that wait for a client who is there but silent are not fair: a silent
client keeps its session, as in the code, which has no timeout.

## 4. What the models say about the code

Shown by a run that expects a violation:

* **Recovery looks at the last entry only** (`server.c:120`), and entries do not
  name a transfer. It is right for one transfer at a time and wrong for two
  (`ledger_interleaved`), although README.md line 59 has the database "always in a
  consistent state".
* **SIGPIPE** (`common_utils.c:12`) ends the server (`sessions_disconnect`), although
  README.md line 88 has disconnects handled robustly.
* **Words in the stream** (`client.c:54`): re-prompting after invalid input (README.md line
  83) depends on whether the prompt arrives in the same read (`client_reprompt`). The same
  decides whether the client survives its own "Login Successful!".

What the properties of the passing runs except by name is as real as these, and each can
be seen by dropping the exception:

* **Lost updates** (`customer.c:168` and every handler that writes an account):
  `UncontendedExact` excepts accounts two sessions had open at once. README.md line 37
  says that locking is there "to prevent race conditions and ensure data integrity"; the
  locks cover single calls and never exclude another thread of the process
  (`data_access.c:9`, against line 67).
* **A deactivation can be undone by a deposit** (`customer.c:174`, and in the same way
  `customer.c:235, 352`, `employee.c:480`): the copy written back has the `isActive` that was
  read before. The owner stays inactive, the account becomes active again, or the other
  way round; `AccountsFollowUser` excepts the account (`crossed`) until the next change of
  the status.
* **A file that cannot be opened passes for an empty one** (`data_access.c:46, 207, 506`):
  ids start again at 1 and uniqueness is not checked. What `Users` and
  `Feedback` say of ids and contacts holds until then (`mistaken`, `misnumbered`).
* **Long journals** (`server.c:102`): recovery reads 1024 entries of a journal that is
  cleared only at a start; after 341 transfers it takes the wrong entry for the last one.
  `ledger_recovery` has room for its whole journal; with `MaxBuffer = 4 = 3 * 1 + 1`, as
  1024 = 3 * 341 + 1, `RestartExact` fails without any overlap.
* **Employees' and administrators' menus ignore a failed read** (`employee.c:31`,
  `admin.c:26`): `OrphansRemoved` excepts these roles. Their sessions stay until the server
  restarts.
* **A loan can be credited more than once** (`employee.c:480, 515`): after a crash
  or a failed `updateLoan` between credit and status (`cut`), and after two managers
  assigned it at the same time and the second put PROCESSING back (`raced`).
* **Account ids and numbers repeat** (`employee.c:270`): `handle_add_new_account` does not
  take the mutex that README.md line 86 calls the protection of "User/Account
  creation". After one duplicate, ids stay behind the positions for good.
* **Loan and feedback ids repeat** in the same way (`data_access.c:444, 450`); the later
  record with an id is never found.
* **`handle_modify_user_details` checks nothing** (`employee.c:306-365`), and after a
  disconnect writes empty answers: phones and e-mails can be given twice or emptied, and
  with an administrator gone the user becomes a customer. An administrator's role change
  can be reverted by an employee's old copy: `RolesGranted` says that nothing worse comes of
  it than a role the user once had.
* **Accounts opened for inactive users are active** (`employee.c:252`, `late`), and a
  status change that is cut leaves the accounts behind their owner (`cut`).
* **The prompt of `handle_process_loan` lacks "Enter"** (`employee.c:463`): client and
  server wait for each other, so with this client no loan is ever approved or rejected.
* **A failed update** leaves its transfer half applied once a later transfer
  commits (`customer.c:394` expects the next restart to undo it).
* **`handle_client` does not close the socket** of a client that leaves during login
  (`server.c:209, 244, 248`); `NobodyStranded` says that only clients that have gone
  leave one.
* **"0" cancels** at the prompt that offers 0 for "deactivated" (`manager.c:75`): only another
  spelling of zero, or an empty line, deactivates.

## 5. What is proved

A theorem below holds for every value of the constants that satisfies the
assumption its module declares (`LedgerAssumption`, `SessionsAssumption`, ...), for
any interleaving, and with crashes and failed writes wherever the model has
them, unless it says otherwise. Each rests on an inductive invariant, given here
because the property alone is not inductive; TLC checked each of these
invariants on the instances of section 3 before it was proved.

### LedgerProofs

* `TypeCorrect` (`TypeOK`). Its hard parts are the journal cursor, which
  must stay inside the journal while the entries under it are read, and the
  accounts in a handler's local variables, which must be in the file when the
  handler writes them. `TypeOK` is inductive because `Handler` says at which
  `pc` the fields of `op` have to be real accounts.
* `NeverOverdrawn` (`NoOverdraft`). A handler may be about to write a copy of a
  record, and recovery may be about to restore an old balance. The strengthening
  `Covered` says that every balance
  which may still reach the account file is not negative: those in the file, in
  undo entries of the journal, and in the local copies of each handler, where
  the sender's copy of a transfer that has passed its checks covers the amount
  until it is debited. Each step that writes an account writes one of these; each
  step that makes a new copy makes it from one of them, after its check. That is
  why a race cannot overdraw an account, although it loses updates: the check
  and the write concern the same copy.
* `LoggedFirst` (`WriteAhead`), if no write fails (`MaxFaults = 0`), with
  crashes and recoveries anywhere. The strengthening `Ahead` adds what a handler
  owes one step earlier (the sender's undo entry) and that no handler runs while
  recovery may clear the journal. The assumption is needed: `journal_log_entry`
  cannot report a failure, and the handler would go on without the entry.

### LedgerIsolationProofs

* `UncontendedAccountsExact` (`UncontendedExact`), if nothing crashes and no write
  fails, handlers overlapping in any way. The invariant is `Isolated` with `Calm`: the
  server starts on an empty journal and is not inside recovery. `Isolated` adds two parts.
  `OneWorker`: two sessions between the read and the write of one account
  were noticed in `raced`. `Sound`: the copies of a handler are the booked
  records, with its own change once that is computed (`Copies`), and what a
  transfer has written is in the file (`Wrote`). `Undisturbed` is the heart of it:
  a step of one session changes only accounts in its own `Window`, and
  those are, or are noticed not to be, in nobody else's. The assumptions are
  needed: `GiveUp` leaves a debit behind, and rollback after overlapping
  transfers restores balances of both (section 4).
* `HistoryExplainsBalances` (`HistoryExplains`), under the same assumptions: between
  operations the balance of an account nobody raced for is its initial balance plus the sum of
  its records in `transactions.dat`. Two sums are hidden in this. The invariant
  `Accounted` names both: for every account, raced for or not, the booked balance is the
  initial one, plus the total of its records, plus what running handlers have booked
  and still have to record (`Due`). Each step moves an amount from one of the three to
  another: the write of a deposit books it and makes it due, the commit of a
  transfer books two changes and makes two records due, and each append records what was
  due, for the right account and with the right sign. So the order in which concurrent
  handlers append does not matter. `Isolated` then carries it from the books to the file.
  The assumptions are needed: `append_record`'s result is ignored, and a crash between the
  update and the append loses the record for good.

  The total over a history of any length is an induction. `Least` and `Induction` get it
  from the library's theorem that a well-founded relation has minimal elements, `Sums*`
  show that the recursive function in `TotalOf` is defined, unique and grows by
  one term with each append. The sum over the sessions is the number of elements of a
  set (`Units`), so that changing the term of one session needs only the theorems on
  cardinality, and no order of the sessions.

### LedgerRecoveryProofs

All under `Whole`: no write fails, and the journal stays within the `MAX_BUFFER` entries
that recovery reads. The server may crash at any point, in a recovery as in a handler,
any number of times, and handlers may overlap. What they may not do is a condition on the
behaviour, stated in the theorem: `TransfersApart` (no two transfers are between
their first read and their commit entry at once), and for two of the theorems `Orderly`
(besides, no two handlers work on one account at once, which is `raced = {}`). Both
are needed. `ledger_interleaved` breaks the first: two transfers must not overlap even
between disjoint accounts, because the commit entry of one closes the undo entries of
the other. A lost update breaks the second: the balances are then not what the
operations add up to, with or without a crash.

* `RestartsExact` (`RestartExact`) needs `TransfersApart` only: when a start lets
  clients in, every account that was not raced for holds what its completed operations add
  up to. Deposits, withdrawals, loan credits and status changes may overlap with a
  transfer and with each other.
* `CrashesLoseNothing` (`DiskRecovers`) under `Orderly`: what recovery would make of the
  disk is, at every instant, what the completed operations made of the accounts.
* `LedgerImplementsBank` (`ImplementsBank`) under `Orderly`: the refinement of `Bank`.
  `StepBank` has one case per action: the write of a deposit, withdrawal or loan
  credit, the commit entry of a transfer and the write of a status are the steps of
  `Bank`; all others leave `Recovered` and the statuses as they are. That the amount is
  covered when a withdrawal or a transfer takes effect comes from `Covered`, that both
  accounts of a transfer are active from `Vetted`.
* `SerialIsOrderly` shows that the conditions are not empty: every behaviour of
  `Spec` with `Serial` satisfies them (invariant `Alone`: one handler at a time, and
  nobody to race with). `SerialServer` concludes all three properties from `Spec` alone
  for this case, which is the one that `ledger_recovery` checks.

The invariant is `Durable` (`AlwaysDurable`). `Fits`: the journal has room for what each
running transfer will still log. `Undoable`: the undo entries after the last commit
(`OpenUndo`) are of different accounts and hold their booked balances. While clients are
served, `Served`: the handlers are `Isolated`, and the open entries are exactly those that
a running transfer has logged. Otherwise, `Unserved`: no handler runs; an account without
an open entry holds its booked balance; in the backward loop the entries past the
cursor are open and restored; and before the journal is cleared all accounts are exact.
Accounts in `raced` are excepted everywhere. A step of a handler keeps `Isolated` by
the lemmas of `LedgerIsolationProofs`, so what is new is its effect on the journal; a crash
is the step from `Served` to `Unserved`: what a transfer has already written is
covered by its open entries, and nothing else has been written that is not booked.
The lemmas `OpenMore`, `OpenClosed`, `OpenNone` and `OpenKept` say what logging,
committing and clearing do to `OpenUndo`; no other fact about sequences is needed.
`Recovered` takes the oldest open entry of an account; since `Undoable` makes it the
only one, no induction over the journal is needed either. TLC checked `Durable` and the
three properties before the proof with the two conditions as state constraints on
overlapping handlers (three accounts, up to three operations, one or two crashes).

### SessionsProofs

The process may end any number of times.

* `SessionsUnique` (`OneSessionPerUser`), `TableCorrect` (`TableExact`),
  `CleanUpFindsEntry` (`EntryFound`) and `TypeCorrect`, which includes that
  `activeUserCount` never leaves the array. All rest on one invariant, `Inv`:
  the mutex is held by exactly the thread in a critical section; the rows of
  the table, counted as they will be when that section is over (`Live`: one more
  after `Insert`, one less after `Swap`), list the users of the threads in
  session, each once; no two such threads have one user; and the entries that a
  search has passed are not those of its user. The last part is what makes an
  insertion sound, the second what makes swap-and-pop sound when the entry that
  moves is another user's.
* `NobodyIsStranded` (`NobodyStranded`) needs only the types: the three returns
  without `close` all come after a failed read, when the client has gone.

### FeedbackProofs

* `LocksAreReleased` (`NoLockLeft`). The invariant `Held` names, for every locked record,
  a thread between lock and unlock of a call with the record in its range. It is not
  obvious that this is kept, because the lock table does not know threads: an unlock or a
  close in one thread takes locks of the others away. It never adds one, so threads may
  hold less than they think, never more. Each exit of a call is a step of
  `LockStep`, or leaves the table alone.
* `TypeCorrect` (`FeedbackTypeOK`), `IdsArePositions` (`IdsUntilOverlap`) and
  `ReviewsOnlyMark` (`OnlyMarks`, an action property). The invariant `DataInv` has for
  each thread `Adding` (the id read is not too large, and the next one until
  `misnumbered`) and `Reviewing` (the row found is the first with the id, and
  the copy differs from the record at most in the mark). The second is why
  writing back an old copy loses nothing here, although it does for accounts.

### LoansProofs

* `TypeCorrect`, `CopyStaysCurrent` (`CopyCurrent`), `CreditsAreExplained`
  (`CreditsExplained`), `IdsArePositions` (`IdsUntilOverlap`), and `LoansAdvance`
  (`LoansOnlyAdvance`, an action property). One invariant, `Inv`: what each place of a
  handler knows (`Appending`, `Copied`, `Assigning`, `Processing`), that two managers
  with one record were noticed (`RaceSeen`), and that ids never run ahead of
  positions (`Ids`). `CopyStaysCurrent` rests on `Processing`: a processable loan is
  assigned to one employee, and managers only take unassigned ones.

### UsersProofs

The invariant comes in two parts, because a failed open may give a handler a wrong id
at any time. `Loose` holds always: types, `Firm` (who is at the check or the append has
the mutex; a user in an employee's or a manager's hands was a customer when he was read),
and a held mutex is in a creation. `Exact` holds until `mistaken`: ids are positions, `Sound`
(the ids a handler has read are real ones), and `Copies` (the id of a held account copy
finds the record it was made from). Lemmas about a step have the form `Kept`: it keeps `Loose`,
and `Exact` unless it makes the mistake.

* From `Loose`: `TypeCorrect`, `MutexIsOwned` (`MutexOwned`). From `Exact`:
  `UserIdsAreExact` (`UserIdsExact`).
* From `Races` (two handlers on one user were noticed; other copies are current):
  `UnracedAreExact` (`UnracedExact`).
* From `Given` (records, and all copies still to be written, have roles their users were
  given): `RolesAreGranted` (`RolesGranted`), for every user, raced for or not. The role
  cannot be got from `Races`: an old copy really does put an old role back.
* From `Numbers` (what a creation has read is still the next): `AccountIdsArePositions`
  (`AccountIdsUntilOverlap`).
* From `Created` (contact and role change only with the details; nobody has the contact
  that is about to be appended): `ContactsAreUnique` (`CreatedUnique`), and, counting the
  customers without account apart from the one in creation, `OneCreationIsCut`
  (`OneCreationCut`).
* From `Swept` (the accounts behind a status handler's position have its status) with
  `Fresh` (the held copies of an account that is not `crossed` have its status, so
  writing one back changes nothing): `AccountsFollow` (`AccountsFollowUser`).

### ClientProofs

* `TypeCorrect`, `AskedInStep` (`AnswersInStep`), `OnlyTwoDeadEnds` (`NoMutualWait`), for
  reads of any length. The invariant `Inv` says that what is still to be written leads to
  the prompt (`Scripted`), that the word of the prompt is the last thing in the stream
  and nothing follows it (`WordIsLast`), that nothing is under way while the user
  types (`InStep`), and that a client that waits has the word before it
  (`WordAhead`).

### Assumptions on constants

They are checked by TLC in every run of a module that extends the one that declares
them. Beyond types they say: sessions of
customers, employees and managers are different sessions; the roles a login of `Users`
can have exclude each other; the initial files
are well formed and within the bounds; there is a customer (`FeedbackAssumption`); a text stored in a record does not contain "Enter"
(`ClientAssumption`, see section 7 and the hazard at `manager.c:311`).

### Only model-checked

* Liveness: `RecoveryCompletes`, `HandlersReturn`, `OrphansRemoved`, `LoginDecided`,
  `AnswerLeadsOn`. Fairness and ENABLED are outside what the prover handles.
* `DisconnectContained` and `Reprompts` have counterexamples, which TLC finds;
  so has `RestartExact` without the conditions of `RestartsExact`.

## 6. Plan

Done: all modules of section 2 and the proofs of section 5. Every invariant
and every action property that a passing run checks is a theorem, some of them under
the assumptions that section 5 states; only liveness is left to TLC.
What could still be added: `DiskRecovers` with failing writes in recovery, which
`updateAccount`'s ignored result makes false in general. Under which failures it still
holds is open.

## 7. Not modelled

* *Input validation*: three loops over the characters of a string, without state
  and without interaction. The handlers' models take what passes the checks as their
  input, and anything where the code does not check (`handle_modify_user_details`).
* *Views* change nothing; the way they read is `ListUnreviewed`'s.
* *The initialisation program* is not run as steps, least of all beside a running server.
* *Record contents* that no decision reads: names, addresses, time stamps, transaction
  ids, the wording of messages. Inputs longer than the fields they are copied to, which
  some handlers do not check, are outside the models: what a C program does after
  that is not defined by its source.
* *Torn records, failing `fsync`, a disk that reorders writes.*
* *The order of records in `transactions.dat`* relative to the updates they describe: it is
  not kept, and nothing says it is.
* *The end of a session when its user is deactivated*: the status is only read at login.
