------------------------------- MODULE Users -------------------------------
(***************************************************************************)
(* The user file and the account file as the staff's handlers create and   *)
(* change their records: new users with their first account, further       *)
(* accounts, modified details (employee.c), the status of a user and of    *)
(* all his accounts (manager.c), passwords (customer.c), over the calls of *)
(* data_access.c.  The handlers that move money write whole account        *)
(* records, read before, and are here for that; balances are module        *)
(* Ledger's.                                                               *)
(*                                                                         *)
(* A step is one call of the data-access layer.  create_user_mutex keeps   *)
(* only handle_add_user apart from itself; the process may end between any *)
(* two steps, a write may fail, and a file that cannot be opened for       *)
(* reading passes for one in which nothing is found.                       *)
(***************************************************************************)
EXTENDS Naturals, Sequences, FiniteSets

CONSTANTS
  Customers, Employees, Managers, Admins,
                    \* userIds that have a session, by their role at login
  InitialUsers,     \* data/users.dat at the first start
  InitialAccounts,  \* data/accounts.dat at the first start
  Contacts,         \* phones and emails in the file, as one value
  Passwords,
  TypedContacts, TypedPasswords, TypedRoles,  \* those that clients type
  Skip,             \* the answer 'skip'
  Free,             \* nobody holds create_user_mutex
  MaxUsers, MaxAccounts,          \* bounds: records in the two files
  MaxTroubles,      \* bound: crashes and failed calls
  MaxOps            \* bound: handlers begun, and troubles

Sessions == Customers \cup Employees \cup Managers \cup Admins
Roles    == {"CUSTOMER", "EMPLOYEE", "MANAGER", "ADMINISTRATOR"}

User == [userId : Nat, role : Roles, isActive : BOOLEAN,
         password : Passwords, contact : Contacts]

\* accountNumber n stands for the text "SB" followed by 10000 + n.
Account == [accountId : Nat, ownerUserId : Nat, accountNumber : Nat, isActive : BOOLEAN]

ASSUME UsersAssumption ==
  /\ Sessions \subseteq DOMAIN InitialUsers
  /\ Free \notin Sessions
  /\ (Employees \cup Managers) \cap Admins = {}
  /\ TypedContacts \subseteq Contacts /\ TypedPasswords \subseteq Passwords
  /\ TypedRoles \subseteq Roles
  /\ \A S \in {Passwords, Contacts, Roles} : Skip \notin S
  /\ Skip \notin BOOLEAN
  /\ InitialUsers \in Seq(User) /\ InitialUsers # <<>>
  /\ \A i \in DOMAIN InitialUsers :
       /\ InitialUsers[i].userId = i
       /\ InitialUsers[i].isActive
       /\ \A j \in DOMAIN InitialUsers :
            i # j => InitialUsers[i].contact # InitialUsers[j].contact
       /\ InitialUsers[i].role = "CUSTOMER" =>
            \E a \in DOMAIN InitialAccounts : InitialAccounts[a].ownerUserId = i
  /\ InitialAccounts \in Seq(Account) /\ InitialAccounts # <<>>
  /\ \A a \in DOMAIN InitialAccounts :
       /\ InitialAccounts[a].accountId = a
       /\ InitialAccounts[a].accountNumber = a
       /\ InitialAccounts[a].ownerUserId \in DOMAIN InitialUsers
       /\ InitialAccounts[a].isActive
  /\ Len(InitialUsers) <= MaxUsers /\ Len(InitialAccounts) <= MaxAccounts
  /\ {MaxUsers, MaxAccounts, MaxOps, MaxTroubles} \subseteq Nat

VARIABLES
  users,     \* data/users.dat, in file order
  accounts,  \* data/accounts.dat, in file order
  mutex,     \* create_user_mutex
  op,        \* the handler each session is in, with its local variables
  account,   \* the accountId a customer has selected, 0 before
  held,      \* the account records a session has read and will write back
  booked,    \* history: users after the changes that were written
  raced,     \* history: users two handlers worked on at the same time
  modified,  \* history: users whose details were modified
  overlapped,  \* history: an account was appended during another creation
  late,      \* history: accounts opened for a user who was inactive
  cut,       \* history: users whose status change was cut or failed in part
  granted,   \* history: the roles each user was created with or was given
  crossed,   \* history: accounts whose status changed under a held copy
  mistaken,  \* history: a failed open was taken for an empty file, or an
             \* account number led to a record that its id does not
  ops, troubles  \* how much of each bound is used

files  == <<users, accounts>>
money  == <<account, held>>
audit  == <<booked, raced, modified, overlapped, late, cut>>
marks  == <<granted, crossed, mistaken>>
bounds == <<ops, troubles>>
vars   == <<files, money, mutex, op, audit, marks, bounds>>

-----------------------------------------------------------------------------

\* A session between two menu choices.
Idle == [pc |-> "menu", user |-> InitialUsers[1], row |-> 0, owner |-> 0, number |-> 0,
         id |-> 0]

Init ==
  /\ users = InitialUsers
  /\ accounts = InitialAccounts
  /\ mutex = Free
  /\ op = [s \in Sessions |-> Idle]
  /\ account = [s \in Sessions |-> 0]
  /\ held = [s \in Sessions |-> <<>>]
  /\ booked = InitialUsers
  /\ raced = {} /\ modified = {} /\ late = {} /\ cut = {}
  /\ overlapped = FALSE
  /\ granted = {<<r, InitialUsers[r].role>> : r \in DOMAIN InitialUsers}
  /\ crossed = {}
  /\ mistaken = FALSE
  /\ ops = 0 /\ troubles = 0

-----------------------------------------------------------------------------
(* The data-access layer *)

\* The id after that of the last record (files are never empty here).
GetNextUserId    == users[Len(users)].userId + 1
GetNextAccountId == accounts[Len(accounts)].accountId + 1

\* Variant: the number of the last record.
LastAccountNumber == accounts[Len(accounts)].accountNumber

\* The number after that of the last record.
NewAccountNumber == accounts[Len(accounts)].accountNumber + 1

\* What get_next_id_from_file and generate_new_account_number return for a
\* file that they cannot open.
First == 1

\* find_user_record stops at the first record with the id.
FindUserRecord(id, r) ==
  /\ r \in DOMAIN users
  /\ users[r].userId = id
  /\ \A q \in 1..(r - 1) : users[q].userId # id

FindAccountRecord(id, a) ==
  /\ a \in DOMAIN accounts
  /\ accounts[a].accountId = id
  /\ \A q \in 1..(a - 1) : accounts[q].accountId # id

\* Variant: only the last record is looked at.
InUseByLast(contact) == users[Len(users)].contact = contact

\* find_user_by_phone, find_user_by_email.
InUse(contact) == \E r \in DOMAIN users : users[r].contact = contact

\* The bounds leave room for a handler or a trouble.
Room == ops + troubles < MaxOps

At(s, pc)  == op[s].pc = pc
Begin(s)   == At(s, "menu") /\ held[s] = <<>> /\ Room /\ ops' = ops + 1
Goto(s, pc) == op' = [op EXCEPT ![s].pc = pc]
Finish(s)  == op' = [op EXCEPT ![s] = Idle]

\* A call of this step fails.
Fault == Room /\ troubles < MaxTroubles /\ troubles' = troubles + 1

\* The caller does not learn of it.
Mistake == Fault /\ mistaken' = TRUE

\* The handlers that have read a user and have still to write him back.
Editing == {"modify", "password", "status"}

\* getUser succeeds: session s goes on to pc with a copy of record r.
GetUser(s, pc, id, r) ==
  /\ FindUserRecord(id, r)
  /\ op' = [op EXCEPT ![s] = [Idle EXCEPT !.pc = pc, !.user = users[r], !.row = r]]
  /\ raced' = IF \E t \in Sessions \ {s} : op[t].pc \in Editing /\ op[t].row = r
                THEN raced \cup {r} ELSE raced

\* What a handler changes in a user; Skip leaves a field alone.
Changes  == [role : TypedRoles \cup {Skip}, isActive : BOOLEAN \cup {Skip},
             password : TypedPasswords \cup {Skip}, contact : TypedContacts \cup {Skip}]
NoChange == [role |-> Skip, isActive |-> Skip, password |-> Skip, contact |-> Skip]

\* Variant: 'skip' is taken for the new value.
ApplyUnread(c, user) ==
  [f \in DOMAIN user |-> IF f = "userId" THEN user[f] ELSE c[f]]

Apply(c, user) ==
  [f \in DOMAIN user |-> IF f = "userId" \/ c[f] = Skip THEN user[f] ELSE c[f]]

\* Variant: record numbers are counted from one.
UpdateNextUser(s, c) ==
  /\ users' = [users EXCEPT ![op[s].row + 1] = Apply(c, op[s].user)]
  /\ booked' = [booked EXCEPT ![op[s].row] = Apply(c, @)]

\* updateUser writes the whole copy, changed.  History: only the change is
\* booked.
UpdateUser(s, c) ==
  /\ users' = [users EXCEPT ![op[s].row] = Apply(c, op[s].user)]
  /\ booked' = [booked EXCEPT ![op[s].row] = Apply(c, @)]

-----------------------------------------------------------------------------
(* employee.c: add a user, and for a customer his first account *)

\* What is checked, and where the check leads.
NewUser(s, contact) ==
  {[userId |-> 0, role |-> role, isActive |-> TRUE, password |-> password,
    contact |-> contact] :
     role \in IF s \in Employees THEN {"CUSTOMER"} ELSE {"EMPLOYEE", "MANAGER"},
     password \in TypedPasswords}

\* Variant: without the mutex.
CheckUniqueNoLock(s) ==
  /\ s \in Employees \cup Admins
  /\ Begin(s)
  /\ Len(users) < MaxUsers
  /\ \E contact \in TypedContacts : \E user \in NewUser(s, contact) :
       /\ ~InUse(contact)
       /\ op' = [op EXCEPT ![s] = [Idle EXCEPT !.pc = "userId", !.user = user]]
  /\ UNCHANGED <<files, money, mutex, audit, marks, troubles>>

\* Takes create_user_mutex and looks for phone and email.
CheckUnique(s) ==
  /\ s \in Employees \cup Admins
  /\ Begin(s)
  /\ Len(users) < MaxUsers
  /\ mutex = Free /\ mutex' = s
  /\ \E contact \in TypedContacts : \E user \in NewUser(s, contact) :
       \/ /\ op' = [op EXCEPT ![s] =
               [Idle EXCEPT !.pc = IF InUse(contact) THEN "inUse" ELSE "userId",
                            !.user = user]]
          /\ UNCHANGED <<mistaken, troubles>>
       \/ /\ Mistake
          /\ op' = [op EXCEPT ![s] = [Idle EXCEPT !.pc = "userId", !.user = user]]
  /\ UNCHANGED <<files, money, audit, granted, crossed>>

\* Every path out of handle_add_user gives the mutex back.
Unlock(s) == mutex' = IF mutex = s THEN Free ELSE mutex

AbortCreation(s) ==
  /\ At(s, "inUse")
  /\ Finish(s) /\ Unlock(s)
  /\ UNCHANGED <<files, money, audit, marks, bounds>>

\* The id that the account will have as its owner.
ReadUserId(s) ==
  /\ At(s, "userId")
  /\ \E id \in {GetNextUserId, First} :
       /\ op' = [op EXCEPT ![s].pc = "addUser", ![s].owner = id]
       /\ \/ id = GetNextUserId /\ UNCHANGED <<mistaken, troubles>>
          \/ id = First /\ Mistake
  /\ UNCHANGED <<files, money, mutex, audit, granted, crossed, ops>>

\* addUser reads the next id again, for the record that it appends; only the
\* holder of the mutex calls it.
AppendUser(s) ==
  /\ At(s, "addUser")
  /\ \E id \in {GetNextUserId, First} :
       /\ LET user == [op[s].user EXCEPT !.userId = id]
          IN users' = Append(users, user) /\ booked' = Append(booked, user)
       /\ \/ id = GetNextUserId /\ UNCHANGED <<mistaken, troubles>>
          \/ id = First /\ Mistake
  /\ granted' = granted \cup {<<Len(users) + 1, op[s].user.role>>}
  /\ IF op[s].user.role = "CUSTOMER"
       THEN Goto(s, "number") /\ UNCHANGED mutex
       ELSE Finish(s) /\ Unlock(s)
  /\ UNCHANGED <<accounts, money, raced, modified, overlapped, late, cut, crossed, ops>>

\* Variant: the mutex is kept.
AppendUserFailsLocked(s) ==
  /\ At(s, "addUser")
  /\ Fault
  /\ Finish(s)
  /\ UNCHANGED <<files, money, mutex, audit, marks, ops>>

AppendUserFails(s) ==
  /\ At(s, "addUser")
  /\ Fault
  /\ Finish(s) /\ Unlock(s)
  /\ UNCHANGED <<files, money, audit, marks, ops>>

(* employee.c: a further account for a customer; without the mutex, and *)
(* whether or not the customer is active *)
BeginAccount(s) ==
  /\ s \in Employees
  /\ Begin(s)
  /\ \E id \in 1..MaxUsers, r \in 1..MaxUsers :
       /\ FindUserRecord(id, r)
       /\ users[r].role = "CUSTOMER"
       /\ op' = [op EXCEPT ![s] = [Idle EXCEPT !.pc = "number", !.owner = id]]
  /\ UNCHANGED <<files, money, mutex, audit, marks, troubles>>

GenerateNumber(s) ==
  /\ At(s, "number")
  /\ \E number \in {NewAccountNumber, First} :
       /\ op' = [op EXCEPT ![s].pc = "accountId", ![s].number = number]
       /\ \/ number = NewAccountNumber /\ UNCHANGED <<mistaken, troubles>>
          \/ number = First /\ Mistake
  /\ UNCHANGED <<files, money, mutex, audit, granted, crossed, ops>>

ReadAccountId(s) ==
  /\ At(s, "accountId")
  /\ \E id \in {GetNextAccountId, First} :
       /\ op' = [op EXCEPT ![s].pc = "addAccount", ![s].id = id]
       /\ \/ id = GetNextAccountId /\ UNCHANGED <<mistaken, troubles>>
          \/ id = First /\ Mistake
  /\ UNCHANGED <<files, money, mutex, audit, granted, crossed, ops>>

\* History: a status handler is at work on the accounts of user u.
Sweeping(u) == \E t \in Sessions : At(t, "scan") /\ op[t].user.userId = u

\* Variant: the owner is the user who has the session.
AppendAccountForSelf(s) ==
  /\ At(s, "addAccount")
  /\ Len(accounts) < MaxAccounts
  /\ accounts' = Append(accounts, [accountId |-> op[s].id, ownerUserId |-> s,
                                   accountNumber |-> op[s].number, isActive |-> TRUE])
  /\ Finish(s) /\ Unlock(s)
  /\ UNCHANGED <<users, money, audit, marks, bounds>>

AppendAccount(s) ==
  /\ At(s, "addAccount")
  /\ \/ /\ Len(accounts) < MaxAccounts
        /\ accounts' = Append(accounts,
             [accountId |-> op[s].id, ownerUserId |-> op[s].owner,
              accountNumber |-> op[s].number, isActive |-> TRUE])
        /\ overlapped' = (overlapped \/ \E t \in Sessions \ {s} :
                                          op[t].pc \in {"accountId", "addAccount"})
        /\ late' = IF users[op[s].owner].isActive \/ Sweeping(op[s].owner)
                     THEN late ELSE late \cup {Len(accounts) + 1}
        /\ UNCHANGED troubles
     \/ Fault /\ UNCHANGED <<accounts, overlapped, late>>
  /\ Finish(s) /\ Unlock(s)
  /\ UNCHANGED <<users, money, booked, raced, modified, cut, marks, ops>>

-----------------------------------------------------------------------------
(* employee.c: modify the details of a user *)

\* Variant: employees may modify anybody.
MayModifyAll(s, user) == TRUE

\* Employees and managers only work on customers, administrators on anybody.
MayModify(s, user) == s \in Admins \/ user.role = "CUSTOMER"

ReadToModify(s) ==
  /\ s \in Employees \cup Admins
  /\ Begin(s)
  /\ \E id \in 1..MaxUsers, r \in 1..MaxUsers :
       GetUser(s, "modify", id, r) /\ MayModify(s, users[r])
  /\ UNCHANGED <<files, money, mutex, booked, modified, overlapped, late, cut, marks,
                 troubles>>

\* Variant: employees are asked for the role, too.
MayGiveRoleAll(s) == TRUE

\* handle_modify_user_details asks in admin_mode.
MayGiveRole(s) == s \in Admins

\* History: only administrators give roles.
Give(s, r, role) ==
  granted' = IF role # Skip /\ s \in Admins THEN granted \cup {<<r, role>>} ELSE granted

\* One answer per prompt: 'skip' keeps the field, everything else replaces it
\* unchecked, the empty line included.  After a disconnect the remaining
\* answers are empty; an empty role is CUSTOMER, which atoi makes 0.
WriteDetails(s) ==
  /\ At(s, "modify")
  /\ \/ /\ \E c \in Changes :
             /\ c.isActive = Skip
             /\ c.role # Skip => MayGiveRole(s)
             /\ UpdateUser(s, c)
             /\ Give(s, op[s].row, c.role)
        /\ modified' = modified \cup {op[s].row}
        /\ UNCHANGED troubles
     \/ Fault /\ UNCHANGED <<users, booked, modified, granted>>
  /\ Finish(s)
  /\ UNCHANGED <<accounts, money, mutex, raced, overlapped, late, cut, crossed, mistaken,
                 ops>>

-----------------------------------------------------------------------------
(* customer.c: change one's own password; every role's menu has it, the  *)
(* customers' after the selection of an account *)

ReadToChange(s) ==
  /\ Begin(s)
  /\ s \in Customers => account[s] # 0
  /\ \E r \in 1..MaxUsers : GetUser(s, "password", s, r)
  /\ UNCHANGED <<files, money, mutex, booked, modified, overlapped, late, cut, marks,
                 troubles>>

WritePassword(s) ==
  /\ At(s, "password")
  /\ \/ /\ \E p \in TypedPasswords : UpdateUser(s, [NoChange EXCEPT !.password = p])
        /\ UNCHANGED troubles
     \/ Fault /\ UNCHANGED <<users, booked>>
  /\ Finish(s)
  /\ UNCHANGED <<accounts, money, mutex, raced, modified, overlapped, late, cut, marks, ops>>

-----------------------------------------------------------------------------
(* manager.c: the status of a user and of all his accounts *)

\* The answer "0" to the prompt for the status always cancels; a status of 0
\* has to be typed in another way.
ReadToSetStatus(s) ==
  /\ s \in Managers \cup Admins
  /\ Begin(s)
  /\ \E id \in 1..MaxUsers, r \in 1..MaxUsers :
       GetUser(s, "status", id, r) /\ MayModify(s, users[r])
  /\ UNCHANGED <<files, money, mutex, booked, modified, overlapped, late, cut, marks,
                 troubles>>

\* History: the accounts of user u may be left with another status than his.
Disturb(u) == cut' = cut \cup {u}

\* updateUser; whether it succeeds or not, the handler goes on to the
\* accounts.
WriteStatus(s) ==
  /\ At(s, "status")
  /\ \E new \in BOOLEAN :
       /\ op' = [op EXCEPT ![s].pc = "scan", ![s].row = 1, ![s].user.isActive = new]
       /\ \/ /\ UpdateUser(s, [NoChange EXCEPT !.isActive = new])
             /\ IF Sweeping(op[s].user.userId) THEN Disturb(op[s].user.userId)
                                               ELSE UNCHANGED cut
             /\ UNCHANGED troubles
          \/ Fault /\ Disturb(op[s].user.userId) /\ UNCHANGED <<users, booked>>
  /\ UNCHANGED <<accounts, money, mutex, raced, modified, overlapped, late, marks, ops>>

\* data/accounts.dat cannot be opened or locked: no account is changed.
OpenAccountsFails(s) ==
  /\ At(s, "scan") /\ op[s].row = 1
  /\ Fault /\ Disturb(op[s].user.userId)
  /\ Finish(s)
  /\ UNCHANGED <<files, money, mutex, booked, raced, modified, overlapped, late, marks, ops>>

\* Variant: the loop stops at the first account of the user.
SweepAccountOnce(s) ==
  /\ At(s, "scan")
  /\ op[s].row \in DOMAIN accounts
  /\ IF accounts[op[s].row].ownerUserId = op[s].user.userId
       THEN /\ accounts' = [accounts EXCEPT ![op[s].row].isActive = op[s].user.isActive]
            /\ Finish(s)
       ELSE op' = [op EXCEPT ![s].row = @ + 1] /\ UNCHANGED accounts
  /\ UNCHANGED <<users, money, mutex, audit, marks, bounds>>

\* A session has a copy of account record a.
Copied(a) == \E t \in Sessions : \E k \in DOMAIN held[t] :
               FindAccountRecord(held[t][k].accountId, a)

\* History: the loop passes record a, an account of its user; a copy that
\* somebody holds is then older than the record.
Passed(a, changes) ==
  crossed' = (crossed \ {a}) \cup {x \in {a} : Copied(a) /\ (changes \/ a \in crossed)}

\* One record of the loop: an account of the user with the other status is
\* written back, and a write that fails is only counted.
SweepAccount(s) ==
  /\ At(s, "scan")
  /\ op[s].row \in DOMAIN accounts
  /\ op' = [op EXCEPT ![s].row = @ + 1]
  /\ LET a   == op[s].row
         new == op[s].user.isActive
     IN \/ /\ accounts[a].ownerUserId = op[s].user.userId
           /\ accounts' = [accounts EXCEPT ![a].isActive = new]
           /\ Passed(a, accounts[a].isActive # new)
           /\ UNCHANGED <<cut, troubles>>
        \/ /\ accounts[a].ownerUserId = op[s].user.userId
           /\ accounts[a].isActive # new
           /\ Fault /\ Disturb(op[s].user.userId)
           /\ UNCHANGED <<accounts, crossed>>
        \/ /\ accounts[a].ownerUserId # op[s].user.userId
           /\ UNCHANGED <<accounts, cut, crossed, troubles>>
  /\ UNCHANGED <<users, money, mutex, booked, raced, modified, overlapped, late, granted,
                 mistaken, ops>>

\* The end of the file, which may have grown since the loop began.
EndSweep(s) ==
  /\ At(s, "scan")
  /\ op[s].row \notin DOMAIN accounts
  /\ Finish(s)
  /\ UNCHANGED <<files, money, mutex, audit, marks, bounds>>

-----------------------------------------------------------------------------
(* customer.c: deposit, withdraw, transfer; employee.c: the credit of a      *)
(* loan.  Each reads one account, a transfer two, and writes them back       *)
(* whole: of what is here, the status.                                       *)

\* The selection lists the customer's active accounts; it is not made again
\* before the customer leaves the account's menu.
SelectAccount(s) ==
  /\ s \in Customers
  /\ Begin(s)
  /\ account[s] = 0
  /\ \E a \in DOMAIN accounts :
       /\ accounts[a].ownerUserId = s /\ accounts[a].isActive
       /\ account' = [account EXCEPT ![s] = accounts[a].accountId]
  /\ UNCHANGED <<files, held, mutex, op, audit, marks, troubles>>

LeaveAccount(s) ==
  /\ account[s] # 0 /\ At(s, "menu") /\ held[s] = <<>>
  /\ account' = [account EXCEPT ![s] = 0]
  /\ UNCHANGED <<files, held, mutex, op, audit, marks, bounds>>

\* getAccount: of the selected account, active or not, or of the one a loan
\* goes to.
ReadAccount(s) ==
  /\ s \in Customers \cup Employees
  /\ Begin(s)
  /\ \E a \in 1..MaxAccounts :
       /\ FindAccountRecord(accounts[a].accountId, a)
       /\ s \in Customers => accounts[a].accountId = account[s]
       /\ held' = [held EXCEPT ![s] = <<accounts[a]>>]
  /\ UNCHANGED <<files, account, mutex, op, audit, marks, troubles>>

\* A transfer goes on with getAccountByNum.
ReadReceiver(s) ==
  /\ s \in Customers
  /\ Len(held[s]) = 1
  /\ held[s][1].accountId = account[s] /\ held[s][1].isActive
  /\ \E a \in DOMAIN accounts :
       /\ \A q \in 1..(a - 1) : accounts[q].accountNumber # accounts[a].accountNumber
       /\ accounts[a].accountId # account[s] /\ accounts[a].isActive
       /\ held' = [held EXCEPT ![s] = Append(@, accounts[a])]
       /\ mistaken' = (mistaken \/ ~FindAccountRecord(accounts[a].accountId, a))
  /\ UNCHANGED <<files, account, mutex, op, audit, granted, crossed, bounds>>

\* A withdrawal or a transfer that the balance does not allow, or a transfer
\* to an account that is not there.
GiveUp(s) ==
  /\ s \in Customers
  /\ held[s] # <<>> /\ Head(held[s]).accountId = account[s]
  /\ held' = [held EXCEPT ![s] = <<>>]
  /\ UNCHANGED <<files, account, mutex, op, audit, marks, bounds>>

\* updateAccount; a transfer calls it for the receiver even if the sender's
\* fails.
WriteAccount(s) ==
  /\ held[s] # <<>>
  /\ \/ /\ \E a \in 1..MaxAccounts :
             /\ FindAccountRecord(Head(held[s]).accountId, a)
             /\ accounts' = [accounts EXCEPT ![a] = Head(held[s])]
        /\ UNCHANGED troubles
     \/ Fault /\ UNCHANGED accounts
  /\ held' = [held EXCEPT ![s] = Tail(@)]
  /\ UNCHANGED <<users, account, mutex, op, audit, marks, ops>>

-----------------------------------------------------------------------------

\* The process ends: the handlers and the mutex are gone, the files stay.
\* Recovery reads each account it rolls back and writes it at once: its status
\* stays.
Crash ==
  /\ Room /\ troubles < MaxTroubles /\ troubles' = troubles + 1
  /\ op' = [s \in Sessions |-> Idle]
  /\ account' = [s \in Sessions |-> 0]
  /\ held' = [s \in Sessions |-> <<>>]
  /\ mutex' = Free
  /\ cut' = cut \cup {u \in 1..MaxUsers : Sweeping(u)}
  /\ UNCHANGED <<files, booked, raced, modified, overlapped, late, marks, ops>>

Next ==
  \/ \E s \in Sessions :
       \/ CheckUnique(s) \/ AbortCreation(s) \/ ReadUserId(s)
       \/ AppendUser(s) \/ AppendUserFails(s)
       \/ BeginAccount(s) \/ GenerateNumber(s) \/ ReadAccountId(s) \/ AppendAccount(s)
       \/ ReadToModify(s) \/ WriteDetails(s) \/ ReadToChange(s) \/ WritePassword(s)
       \/ ReadToSetStatus(s) \/ WriteStatus(s) \/ OpenAccountsFails(s)
       \/ SweepAccount(s) \/ EndSweep(s)
       \/ SelectAccount(s) \/ LeaveAccount(s) \/ ReadAccount(s) \/ ReadReceiver(s)
       \/ GiveUp(s) \/ WriteAccount(s)
  \/ Crash

Spec == Init /\ [][Next]_vars

-----------------------------------------------------------------------------
(* Properties *)

\* Types of the files and of the handlers' local variables.
TypeOK ==
  /\ users \in Seq(User) /\ Len(users) <= MaxUsers
  /\ accounts \in Seq(Account) /\ Len(accounts) <= MaxAccounts
  /\ booked \in Seq(User) /\ Len(booked) = Len(users)
  /\ mutex \in Sessions \cup {Free}
  /\ op \in [Sessions ->
       [pc : {"menu", "inUse", "userId", "addUser", "number", "accountId", "addAccount",
              "modify", "password", "status", "scan"},
        user : User, row : Nat, owner : Nat, number : Nat, id : Nat]]
  /\ account \in [Sessions -> Nat]
  /\ held \in [Sessions -> Seq(Account)]
  /\ raced \subseteq 1..MaxUsers /\ modified \subseteq 1..MaxUsers
  /\ cut \subseteq Nat /\ late \subseteq 1..MaxAccounts
  /\ granted \subseteq (1..MaxUsers) \X Roles
  /\ crossed \subseteq 1..MaxAccounts
  /\ overlapped \in BOOLEAN /\ mistaken \in BOOLEAN

\* Under create_user_mutex every user gets the id of his position in the file,
\* so that getUser and updateUser find him, and the account created with him
\* gets that owner, although the id is read twice (employee.c, data_access.c);
\* unless a file could not be opened and was taken for empty.
UserIdsExact ==
  ~mistaken =>
    /\ \A r \in DOMAIN users : users[r].userId = r
    /\ \A a \in DOMAIN accounts : accounts[a].ownerUserId \in DOMAIN users
    /\ \A s \in Sessions : op[s].pc = "addUser" => op[s].owner = GetNextUserId

\* Two users have one phone or email only if handle_modify_user_details, which
\* does not check, gave it to one of them: check and append are not apart.
CreatedUnique ==
  ~mistaken =>
    \A i, j \in DOMAIN users \ modified : i # j => users[i].contact # users[j].contact

\* Customers without an account, those that a session is about to create it
\* for, and the crashes and failed writes that may have cut a creation: the
\* mutex lets a crash leave at most one (employee.c adds the user first).
WithoutAccount ==
  {r \in DOMAIN users \ modified :
     /\ users[r].role = "CUSTOMER"
     /\ \A a \in DOMAIN accounts : accounts[a].ownerUserId # r}
InCreation == IF mutex # Free /\ op[mutex].owner \in DOMAIN users THEN 1 ELSE 0
OneCreationCut == ~mistaken => Cardinality(WithoutAccount) <= InCreation + troubles

\* The mutex is held by a session in handle_add_user and by nobody else: no
\* path out of the handler keeps it, nor that of a phone or email in use.
MutexOwned ==
  /\ mutex # Free =>
       op[mutex].pc \in {"inUse", "userId", "addUser", "number", "accountId", "addAccount"}
  /\ \A s \in Sessions : op[s].pc \in {"inUse", "userId", "addUser"} => mutex = s

\* Account ids and numbers are the positions in the file until two creations
\* overlap: handle_add_new_account does not take the mutex.  From then on even
\* creations that do not overlap may repeat an id.
AccountIdsUntilOverlap ==
  ~overlapped /\ ~mistaken =>
    \A a \in DOMAIN accounts :
      accounts[a].accountId = a /\ accounts[a].accountNumber = a

\* A user on whom no two handlers worked at the same time is what the written
\* changes made him, although each handler writes back the whole record it
\* read before its prompts (employee.c, customer.c, manager.c).
UnracedExact == \A r \in DOMAIN users \ raced : users[r] = booked[r]

\* Whatever old copies of users are written back, nobody has a role that he was
\* not created with and no administrator gave him, and employees and managers
\* only have users in hand who are, or were, customers.
RolesGranted ==
  /\ \A r \in DOMAIN users : <<r, users[r].role>> \in granted
  /\ \A s \in Employees \cup Managers :
       op[s].pc \in {"modify", "status"} => <<op[s].row, "CUSTOMER">> \in granted

\* The accounts of a user have his status, except accounts opened for an
\* inactive user (handle_add_new_account does not look), while a handler is at
\* work on them, and after one that was cut, failed in part, or overlapped with
\* another change of the user (manager.c updates the user first); and except an
\* account whose status was changed while a handler that moves money had a copy
\* of it (customer.c, employee.c), until the next change of the status.
AccountsFollowUser ==
  ~mistaken =>
    \A a \in DOMAIN accounts \ crossed :
      LET u == accounts[a].ownerUserId
      IN u \notin cut \cup raced /\ ~Sweeping(u) =>
           \/ accounts[a].isActive = users[u].isActive
           \/ accounts[a].isActive /\ a \in late
=============================================================================
