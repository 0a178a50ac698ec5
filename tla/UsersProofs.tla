----------------------------- MODULE UsersProofs -----------------------------
(* Theorems about Users, for any sets of users, first files and bounds. *)
EXTENDS Users, TLAPS, SequenceTheorems, FiniteSetTheorems

Op == [pc : {"menu", "inUse", "userId", "addUser", "number", "accountId", "addAccount",
             "modify", "password", "status", "scan"},
       user : User, row : Nat, owner : Nat, number : Nat, id : Nat]

Creating == {"inUse", "userId", "addUser", "number", "accountId", "addAccount"}

\* What a handler knows whatever it has read.
Firm(s) ==
  /\ op[s].pc \in {"inUse", "userId", "addUser"} => mutex = s
  /\ op[s].pc \in {"userId", "addUser"} => Len(users) < MaxUsers
  /\ op[s].pc \in Editing => op[s].row \in DOMAIN users
  /\ op[s].pc \in {"modify", "status"} => MayModify(s, op[s].user)

Loose ==
  /\ TypeOK /\ troubles \in Nat
  /\ Len(users) > 0 /\ Len(accounts) > 0
  /\ \A s \in Sessions : Firm(s)
  /\ mutex # Free => op[mutex].pc \in Creating

\* What it knows of the ids it holds while no file was taken for empty.
Sound(s) ==
  /\ op[s].pc \in {"inUse", "userId"} => op[s].owner = 0
  /\ At(s, "addUser") => op[s].owner = Len(users) + 1
  /\ op[s].pc \in {"number", "accountId", "addAccount"} => op[s].owner \in DOMAIN users
  /\ op[s].pc \in Editing => op[s].user.userId = op[s].row
  /\ At(s, "scan") =>
       op[s].user.userId \in DOMAIN users /\ op[s].row \in 1..(Len(accounts) + 1)

Ids ==
  /\ \A r \in DOMAIN users : users[r].userId = r
  /\ \A a \in DOMAIN accounts : accounts[a].ownerUserId \in DOMAIN users

\* Two records of one account.
Same(b, c) ==
  b.accountId = c.accountId /\ b.ownerUserId = c.ownerUserId /\ b.accountNumber = c.accountNumber

\* A copy belongs to the record that its id finds.
Copies ==
  \A s \in Sessions : \A k \in DOMAIN held[s] : \E a \in DOMAIN accounts :
    FindAccountRecord(held[s][k].accountId, a) /\ Same(held[s][k], accounts[a])

Exact == Ids /\ Copies /\ \A s \in Sessions : Sound(s)

Base == Loose /\ Exact

\* The contact and the role of a record only change with its details.
SameCreated(s) ==
  op[s].pc \in Editing /\ op[s].row \notin modified =>
    /\ op[s].user.contact = users[op[s].row].contact
    /\ op[s].user.role = users[op[s].row].role

\* The user that the holder of the mutex has still to create or to give an
\* account.
Pending == IF mutex = Free THEN {} ELSE {op[mutex].owner}

Created ==
  /\ \A s \in Sessions : SameCreated(s)
  /\ \A s \in Sessions : op[s].pc \in {"userId", "addUser"} =>
       \A r \in DOMAIN users \ modified : users[r].contact # op[s].user.contact
  /\ CreatedUnique
  /\ Cardinality(WithoutAccount \ Pending) <= troubles

\* Two handlers that work on one user were seen, and only they have old copies.
Races ==
  /\ \A s, t \in Sessions :
       op[s].pc \in Editing /\ op[t].pc \in Editing /\ op[s].row = op[t].row =>
         s = t \/ op[s].row \in raced
  /\ \A s \in Sessions :
       op[s].pc \in Editing /\ op[s].row \notin raced => op[s].user = users[op[s].row]
  /\ UnracedExact

\* Records and copies, old ones too, have roles that their users were given.
Given ==
  /\ \A r \in DOMAIN users : <<r, users[r].role>> \in granted
  /\ \A s \in Sessions : op[s].pc \in Editing => <<op[s].row, op[s].user.role>> \in granted

\* The number and the id that a creation has read are still the next ones.
Numbers ==
  ~overlapped =>
    /\ \A s \in Sessions : op[s].pc \in {"accountId", "addAccount"} =>
         op[s].number = Len(accounts) + 1
    /\ \A s \in Sessions : At(s, "addAccount") => op[s].id = Len(accounts) + 1
    /\ AccountIdsUntilOverlap

\* A copy of an account has its status.
Fresh ==
  \A s \in Sessions : \A k \in DOMAIN held[s] : \A a \in DOMAIN accounts \ crossed :
    FindAccountRecord(held[s][k].accountId, a) => held[s][k].isActive = accounts[a].isActive

\* Behind a status handler the accounts of its user have the user's new status.
Swept ==
  /\ \A s, t \in Sessions :
       At(s, "scan") /\ At(t, "scan") /\ op[s].user.userId = op[t].user.userId =>
         s = t \/ op[s].user.userId \in cut
  /\ \A s \in Sessions :
       At(s, "scan") /\ op[s].user.userId \notin cut \cup raced =>
         /\ users[op[s].user.userId].isActive = op[s].user.isActive
         /\ \A a \in DOMAIN accounts \ crossed :
              a < op[s].row /\ accounts[a].ownerUserId = op[s].user.userId =>
                accounts[a].isActive = op[s].user.isActive
  /\ Fresh
  /\ AccountsFollowUser

-----------------------------------------------------------------------------
(* The files *)

LEMMA Replaced ==
  ASSUME NEW S, NEW seq \in Seq(S), NEW r \in DOMAIN seq, NEW x \in S
  PROVE  /\ [seq EXCEPT ![r] = x] \in Seq(S)
         /\ Len([seq EXCEPT ![r] = x]) = Len(seq)
         /\ DOMAIN [seq EXCEPT ![r] = x] = DOMAIN seq
         /\ [seq EXCEPT ![r] = x][r] = x
         /\ \A q \in DOMAIN seq \ {r} : [seq EXCEPT ![r] = x][q] = seq[q]
<1>1. r \in 1..Len(seq)
  BY LenProperties
<1> QED BY <1>1, ExceptSeq

LEMMA Extended ==
  ASSUME NEW S, NEW seq \in Seq(S), NEW x \in S
  PROVE  /\ Append(seq, x) \in Seq(S)
         /\ Len(Append(seq, x)) = Len(seq) + 1
         /\ DOMAIN Append(seq, x) = DOMAIN seq \cup {Len(seq) + 1}
         /\ Append(seq, x)[Len(seq) + 1] = x
         /\ \A q \in DOMAIN seq : Append(seq, x)[q] = seq[q]
<1>1. Len(seq) \in Nat /\ DOMAIN seq = 1..Len(seq)
  BY LenProperties
<1> QED BY <1>1, AppendProperties

LEMMA Files ==
  ASSUME TypeOK
  PROVE  /\ Len(users) \in Nat /\ DOMAIN users = 1..Len(users)
         /\ DOMAIN users \subseteq 1..MaxUsers
         /\ \A r \in DOMAIN users : users[r] \in User
         /\ Len(accounts) \in Nat /\ DOMAIN accounts = 1..Len(accounts)
         /\ DOMAIN accounts \subseteq 1..MaxAccounts
         /\ \A a \in DOMAIN accounts : accounts[a] \in Account
         /\ DOMAIN booked = DOMAIN users
         /\ \A r \in DOMAIN users : booked[r] \in User
<1>1. /\ users \in Seq(User) /\ accounts \in Seq(Account) /\ booked \in Seq(User)
      /\ Len(users) <= MaxUsers /\ Len(accounts) <= MaxAccounts /\ Len(booked) = Len(users)
      /\ MaxUsers \in Nat /\ MaxAccounts \in Nat
  BY UsersAssumption DEF TypeOK
<1>2. \A S : \A seq \in Seq(S) :
        Len(seq) \in Nat /\ DOMAIN seq = 1..Len(seq) /\ seq \in [1..Len(seq) -> S]
  BY LenProperties
<1>3. /\ Len(users) \in Nat /\ DOMAIN users = 1..Len(users) /\ users \in [1..Len(users) -> User]
      /\ Len(accounts) \in Nat /\ DOMAIN accounts = 1..Len(accounts)
      /\ accounts \in [1..Len(accounts) -> Account]
      /\ DOMAIN booked = 1..Len(booked) /\ booked \in [1..Len(booked) -> User]
  BY <1>1, <1>2
<1> QED BY <1>1, <1>3

LEMMA NextUserId ==
  ASSUME Base
  PROVE  GetNextUserId = Len(users) + 1 /\ Len(users) \in Nat
<1>1. Len(users) \in Nat /\ Len(users) > 0 /\ DOMAIN users = 1..Len(users)
  BY Files DEF Base, Loose
<1>2. users[Len(users)].userId = Len(users)
  BY <1>1 DEF Base, Exact, Ids
<1> QED BY <1>1, <1>2 DEF GetNextUserId

LEMMA IdleIsOp == /\ InitialUsers[1] \in User /\ Idle \in Op
                  /\ Idle.pc = "menu" /\ Idle.owner = 0
<1>1. 1 \in DOMAIN InitialUsers /\ InitialUsers[1] \in User
  <2>1. InitialUsers \in Seq(User) /\ InitialUsers # <<>>
    BY UsersAssumption
  <2>2. Len(InitialUsers) \in Nat /\ Len(InitialUsers) # 0
        /\ DOMAIN InitialUsers = 1..Len(InitialUsers)
        /\ InitialUsers \in [1..Len(InitialUsers) -> User]
    BY <2>1, LenProperties, EmptySeq
  <2> QED BY <2>2
<1> QED BY <1>1 DEF Idle, Op

\* The local variables of a handler that begins.
LEMMA Begun ==
  ASSUME NEW o \in Op, NEW n \in Nat, NEW user \in User
  PROVE  /\ [o EXCEPT !.pc = "number", !.owner = n] \in Op
         /\ \A pc \in {"inUse", "userId"} : [o EXCEPT !.pc = pc, !.user = user] \in Op
         /\ \A pc \in Editing : [o EXCEPT !.pc = pc, !.user = user, !.row = n] \in Op
BY DEF Op, Editing

LEMMA ApplyUser ==
  ASSUME NEW c \in Changes, NEW user \in User
  PROVE  /\ Apply(c, user) \in User
         /\ Apply(c, user).userId = user.userId
         /\ Apply(c, user).isActive = IF c.isActive = Skip THEN user.isActive ELSE c.isActive
         /\ Apply(c, user).role = IF c.role = Skip THEN user.role ELSE c.role
         /\ Apply(c, user).contact = IF c.contact = Skip THEN user.contact ELSE c.contact
<1>1. /\ user.userId \in Nat /\ user.role \in Roles /\ user.isActive \in BOOLEAN
      /\ user.password \in Passwords /\ user.contact \in Contacts
      /\ DOMAIN user = {"userId", "role", "isActive", "password", "contact"}
  BY DEF User
<1>2. /\ c.role \in TypedRoles \cup {Skip} /\ c.isActive \in BOOLEAN \cup {Skip}
      /\ c.password \in TypedPasswords \cup {Skip}
      /\ c.contact \in TypedContacts \cup {Skip}
  BY DEF Changes
<1>3. /\ TypedContacts \subseteq Contacts /\ TypedPasswords \subseteq Passwords
      /\ TypedRoles \subseteq Roles
  BY UsersAssumption
<1>4. Apply(c, user) =
        [userId |-> user.userId,
         role |-> IF c.role = Skip THEN user.role ELSE c.role,
         isActive |-> IF c.isActive = Skip THEN user.isActive ELSE c.isActive,
         password |-> IF c.password = Skip THEN user.password ELSE c.password,
         contact |-> IF c.contact = Skip THEN user.contact ELSE c.contact]
  BY <1>1 DEF Apply
<1> QED BY <1>1, <1>2, <1>3, <1>4 DEF User

-----------------------------------------------------------------------------
(* Loose and exact *)

\* The two parts of Base in the next state: the exact one goes with a mistake.
Kept == Loose' /\ (Exact /\ ~mistaken' => Exact')

\* The records of accounts stay, but for their status.
Grown ==
  /\ Len(accounts) <= Len(accounts')
  /\ \A a \in DOMAIN accounts : Same(accounts'[a], accounts[a])

LEMMA AllSame == ASSUME accounts' = accounts, Len(accounts) \in Nat PROVE Grown
BY DEF Grown, Same

\* Two records found with one id are one.
LEMMA OneFound ==
  ASSUME Len(accounts) \in Nat, DOMAIN accounts = 1..Len(accounts),
         NEW id, NEW a, NEW b, FindAccountRecord(id, a), FindAccountRecord(id, b)
  PROVE  a = b
<1>1. a \in 1..Len(accounts) /\ b \in 1..Len(accounts) /\ a \in Nat /\ b \in Nat
  BY DEF FindAccountRecord
<1>2. ~(a < b)
  BY <1>1 DEF FindAccountRecord
<1>3. ~(b < a)
  BY <1>1 DEF FindAccountRecord
<1> QED BY <1>1, <1>2, <1>3

\* What an id finds, and what copies belong to, stays.
LEMMA FoundStays ==
  ASSUME TypeOK, accounts' \in Seq(Account), Grown
  PROVE  /\ DOMAIN accounts \subseteq DOMAIN accounts'
         /\ \A id : \A a \in DOMAIN accounts :
              FindAccountRecord(id, a) <=>
                /\ accounts'[a].accountId = id
                /\ \A q \in 1..(a - 1) : accounts'[q].accountId # id
<1>1. /\ Len(accounts) \in Nat /\ DOMAIN accounts = 1..Len(accounts)
      /\ Len(accounts') \in Nat /\ DOMAIN accounts' = 1..Len(accounts')
  BY Files, LenProperties
<1>2. DOMAIN accounts \subseteq DOMAIN accounts'
  BY <1>1 DEF Grown
<1>3. \A a \in DOMAIN accounts : \A q \in 1..(a - 1) : q \in DOMAIN accounts
  BY <1>1
<1>4. \A a \in DOMAIN accounts : accounts'[a].accountId = accounts[a].accountId
  BY DEF Grown, Same
<1> QED BY <1>2, <1>3, <1>4 DEF FindAccountRecord

LEMMA CopiesStay ==
  ASSUME TypeOK, Copies, accounts' \in Seq(Account), Grown,
         \A t \in Sessions : \A k \in DOMAIN held'[t] :
           \E j \in DOMAIN held[t] : held'[t][k] = held[t][j]
  PROVE  Copies'
<1>1. /\ DOMAIN accounts \subseteq DOMAIN accounts'
      /\ \A id : \A a \in DOMAIN accounts :
           FindAccountRecord(id, a) <=>
             /\ accounts'[a].accountId = id
             /\ \A q \in 1..(a - 1) : accounts'[q].accountId # id
  BY FoundStays
<1> SUFFICES ASSUME NEW t \in Sessions, NEW k \in DOMAIN held'[t]
             PROVE  \E a \in DOMAIN accounts' :
                      /\ a \in DOMAIN accounts'
                      /\ accounts'[a].accountId = held'[t][k].accountId
                      /\ \A q \in 1..(a - 1) : accounts'[q].accountId # held'[t][k].accountId
                      /\ Same(held'[t][k], accounts'[a])
  BY DEF Copies, FindAccountRecord
<1>2. PICK j \in DOMAIN held[t] : held'[t][k] = held[t][j]
  OBVIOUS
<1>3. PICK a \in DOMAIN accounts :
        FindAccountRecord(held[t][j].accountId, a) /\ Same(held[t][j], accounts[a])
  BY DEF Copies
<1>4. Same(held'[t][k], accounts'[a])
  BY <1>2, <1>3 DEF Grown, Same
<1> QED BY <1>1, <1>2, <1>3, <1>4

\* What session s may do to the mutex: nothing, take it, give it back.
Hand(s) ==
  /\ mutex' \in {mutex, s, Free}
  /\ mutex' # mutex => (mutex = Free /\ mutex' = s) \/ (mutex = s /\ mutex' = Free)
  /\ mutex' = s => op'[s].pc \in Creating

\* A step of session s keeps both if its own variables stay sound, the files
\* only grow, and only the holder of the mutex adds a user.
LEMMA BaseStep ==
  ASSUME Loose, NEW s \in Sessions, UNCHANGED money,
         op' = [op EXCEPT ![s] = op'[s]], op'[s] \in Op, Firm(s)', Hand(s),
         users' \in Seq(User), Len(users') <= MaxUsers, Len(users) <= Len(users'),
         Len(users') = Len(users) \/ mutex = s,
         accounts' \in Seq(Account), Len(accounts') <= MaxAccounts, Grown,
         booked' \in Seq(User), Len(booked') = Len(users'),
         raced' \subseteq 1..MaxUsers, modified' \subseteq 1..MaxUsers,
         cut' \subseteq Nat, late' \subseteq 1..MaxAccounts,
         granted' \subseteq (1..MaxUsers) \X Roles, crossed' \subseteq 1..MaxAccounts,
         overlapped' \in BOOLEAN, mistaken' \in BOOLEAN, troubles' \in Nat,
         Exact /\ ~mistaken' => Sound(s)' /\ Ids'
  PROVE  Kept
<1>1. /\ TypeOK /\ op \in [Sessions -> Op] /\ Free \notin Sessions
      /\ \A t \in Sessions : Firm(t)
  BY UsersAssumption DEF Loose, TypeOK, Op
<1>2. op' \in [Sessions -> Op] /\ \A t \in Sessions \ {s} : op'[t] = op[t]
  BY <1>1
<1>3. /\ Len(users) \in Nat /\ DOMAIN users = 1..Len(users)
      /\ Len(accounts) \in Nat /\ DOMAIN accounts = 1..Len(accounts)
      /\ Len(users') \in Nat /\ DOMAIN users' = 1..Len(users')
      /\ Len(accounts') \in Nat /\ DOMAIN accounts' = 1..Len(accounts')
  <2>1. \A S : \A seq \in Seq(S) : Len(seq) \in Nat /\ DOMAIN seq = 1..Len(seq)
    BY LenProperties
  <2> QED BY <1>1, <2>1, Files
<1>4. TypeOK'
  <2>1. mutex' \in Sessions \cup {Free}
    BY <1>1 DEF TypeOK, Hand
  <2>2. account' \in [Sessions -> Nat] /\ held' \in [Sessions -> Seq(Account)]
    BY <1>1 DEF TypeOK, money
  <2> QED BY <1>2, <2>1, <2>2 DEF TypeOK, Op
<1>5. ASSUME NEW t \in Sessions \ {s}
      PROVE  Firm(t)'
  <2>1. Firm(t) /\ op'[t] = op[t] /\ t # Free
    BY <1>1, <1>2
  <2>2. op[t].pc \in {"inUse", "userId", "addUser"} =>
          mutex' = mutex /\ Len(users') = Len(users)
    BY <2>1 DEF Firm, Hand
  <2>3. DOMAIN users \subseteq DOMAIN users'
    BY <1>3
  <2> QED BY <2>1, <2>2, <2>3 DEF Firm, MayModify
<1>6. mutex' # Free => op'[mutex'].pc \in Creating
  BY <1>1, <1>2 DEF Loose, Hand, TypeOK
<1>7. Len(users') > 0 /\ Len(accounts') > 0 /\ Len(accounts) <= Len(accounts')
  BY <1>3 DEF Loose, Grown
<1>8. Loose'
  BY <1>4, <1>5, <1>6, <1>7 DEF Loose
<1>9. ASSUME Exact, ~mistaken'
      PROVE  Exact'
  <2>1. ASSUME NEW t \in Sessions \ {s}
        PROVE  Sound(t)'
    <3>1. Sound(t) /\ Firm(t) /\ op'[t] = op[t] /\ t # Free
      BY <1>1, <1>2, <1>9 DEF Exact
    <3>2. At(t, "addUser") => Len(users') = Len(users)
      BY <3>1 DEF Firm, Hand, At
    <3>3. /\ DOMAIN users \subseteq DOMAIN users'
          /\ 1..(Len(accounts) + 1) \subseteq 1..(Len(accounts') + 1)
      BY <1>3, <1>7
    <3> QED BY <3>1, <3>2, <3>3 DEF Sound, At
  <2>2. Copies'
    BY <1>1, <1>9, CopiesStay DEF Exact, money
  <2> QED BY <1>9, <2>1, <2>2 DEF Exact
<1> QED BY <1>8, <1>9 DEF Kept

\* The same when the files stay.
LEMMA LocalBase ==
  ASSUME Loose, NEW s \in Sessions,
         op' = [op EXCEPT ![s] = op'[s]], op'[s] \in Op, Firm(s)', Hand(s),
         UNCHANGED <<files, money, booked, modified, overlapped, late, granted, crossed>>,
         raced' \subseteq 1..MaxUsers, cut' \subseteq Nat, mistaken' \in BOOLEAN,
         troubles' \in Nat,
         Exact /\ ~mistaken' => Sound(s)'
  PROVE  Kept
<1>1. /\ TypeOK /\ Len(users) \in Nat /\ Len(accounts) \in Nat
      /\ users' = users /\ accounts' = accounts /\ booked' = booked
      /\ modified' = modified /\ overlapped' = overlapped /\ late' = late
      /\ granted' = granted /\ crossed' = crossed
  BY Files DEF Loose, files
<1>2. Exact => Ids'
  BY <1>1 DEF Exact, Ids
<1>3. Len(users) <= Len(users') /\ Grown
  BY <1>1, AllSame
<1> QED BY <1>1, <1>2, <1>3, BaseStep DEF TypeOK

\* Session s goes back to the menu.
LEMMA ToMenu ==
  ASSUME Loose, NEW s \in Sessions, Finish(s)
  PROVE  /\ op' = [op EXCEPT ![s] = op'[s]] /\ op'[s] \in Op /\ op'[s].pc = "menu"
         /\ Firm(s)' /\ Sound(s)'
<1>1. op'[s] = Idle /\ op' = [op EXCEPT ![s] = op'[s]]
  BY DEF Loose, TypeOK, Finish
<1> QED BY <1>1, IdleIsOp DEF Firm, Sound, At, Creating, Editing

\* Unlock leaves the mutex to somebody else, or frees it.
LEMMA Unlocked ==
  ASSUME Loose, NEW s \in Sessions, Unlock(s)
  PROVE  Hand(s)
BY UsersAssumption DEF Loose, Hand, Unlock

\* A session outside of the creation does not hold the mutex, and leaves it.
LEMMA NotHolding ==
  ASSUME Loose, NEW s \in Sessions, UNCHANGED mutex,
         op[s].pc \in Creating => op'[s].pc \in Creating
  PROVE  Hand(s)
BY UsersAssumption DEF Loose, Hand

\* troubles and mistaken keep their types, whatever fails.
LEMMA TroubleTyped ==
  ASSUME Loose
  PROVE  /\ Fault => troubles' \in Nat
         /\ Mistake => troubles' \in Nat /\ mistaken' \in BOOLEAN
         /\ UNCHANGED troubles => troubles' \in Nat
         /\ UNCHANGED mistaken => mistaken' \in BOOLEAN
<1>1. troubles \in Nat /\ mistaken \in BOOLEAN
  BY DEF Loose, TypeOK
<1>2. Fault => troubles' \in Nat
  BY <1>1 DEF Fault
<1>3. Mistake => Fault /\ mistaken' \in BOOLEAN
  BY DEF Mistake
<1> QED BY <1>1, <1>2, <1>3

LEMMA NewUserTyped ==
  ASSUME NEW s, NEW contact \in TypedContacts, NEW user \in NewUser(s, contact)
  PROVE  user \in User /\ user.contact = contact
<1>1. PICK role \in {"CUSTOMER", "EMPLOYEE", "MANAGER"}, password \in TypedPasswords :
        user = [userId |-> 0, role |-> role, isActive |-> TRUE, password |-> password,
                contact |-> contact]
  BY DEF NewUser
<1> QED BY <1>1, UsersAssumption DEF User, Roles

\* What CheckUnique does.
LEMMA Checked ==
  ASSUME Loose, NEW s \in Sessions, CheckUnique(s)
  PROVE  /\ op[s].pc = "menu" /\ mutex = Free /\ mutex' = s /\ Len(users) < MaxUsers
         /\ op' = [op EXCEPT ![s] = op'[s]] /\ op'[s] \in Op
         /\ op'[s].pc \in {"inUse", "userId"} /\ op'[s].owner = 0
         /\ op'[s].pc = "userId" /\ ~mistaken' => ~InUse(op'[s].user.contact)
         /\ \/ UNCHANGED <<mistaken, troubles>>
            \/ Mistake
         /\ UNCHANGED <<files, money, audit, granted, crossed>>
<1>1. op \in [Sessions -> Op]
  BY DEF Loose, TypeOK, Op
<1>2. PICK contact \in TypedContacts : \E user \in NewUser(s, contact) :
        \/ /\ op' = [op EXCEPT ![s] =
               [Idle EXCEPT !.pc = IF InUse(contact) THEN "inUse" ELSE "userId",
                            !.user = user]]
           /\ UNCHANGED <<mistaken, troubles>>
        \/ /\ Mistake
           /\ op' = [op EXCEPT ![s] = [Idle EXCEPT !.pc = "userId", !.user = user]]
  BY DEF CheckUnique
<1>3. PICK user \in NewUser(s, contact) : \E pc \in {"inUse", "userId"} :
        /\ op' = [op EXCEPT ![s] = [Idle EXCEPT !.pc = pc, !.user = user]]
        /\ pc = "userId" /\ ~mistaken' => ~InUse(contact)
        /\ \/ UNCHANGED <<mistaken, troubles>>
           \/ Mistake
  BY <1>2 DEF Mistake
<1>4. PICK pc \in {"inUse", "userId"} :
        /\ op' = [op EXCEPT ![s] = [Idle EXCEPT !.pc = pc, !.user = user]]
        /\ pc = "userId" /\ ~mistaken' => ~InUse(contact)
        /\ \/ UNCHANGED <<mistaken, troubles>>
           \/ Mistake
  BY <1>3
<1> DEFINE new == [Idle EXCEPT !.pc = pc, !.user = user]
<1>5. user \in User /\ user.contact = contact
  BY NewUserTyped
<1>6. new \in Op
  BY <1>5, IdleIsOp, Begun
<1>7. new.pc = pc /\ new.owner = 0 /\ new.user = user
  BY IdleIsOp DEF Op
<1>8. op' = [op EXCEPT ![s] = new]
  BY <1>4
<1> HIDE DEF new
<1>9. op'[s] = new
  BY <1>1, <1>8
<1> QED BY <1>4, <1>5, <1>6, <1>7, <1>8, <1>9 DEF CheckUnique, Begin, At

LEMMA CheckUniqueBase == ASSUME Loose, NEW s \in Sessions, CheckUnique(s) PROVE Kept
<1>1. /\ mutex = Free /\ mutex' = s /\ Len(users) < MaxUsers /\ users' = users
      /\ op' = [op EXCEPT ![s] = op'[s]] /\ op'[s] \in Op
      /\ op'[s].pc \in {"inUse", "userId"} /\ op'[s].owner = 0
      /\ troubles' \in Nat /\ mistaken' \in BOOLEAN
      /\ UNCHANGED <<files, money, audit, granted, crossed>>
  BY Checked, TroubleTyped DEF files
<1>2. Firm(s)' /\ Sound(s)' /\ Hand(s)
  BY <1>1 DEF Firm, Sound, At, Editing, Hand, Creating
<1> QED BY <1>1, <1>2, LocalBase DEF audit, Loose, TypeOK

LEMMA AbortCreationBase == ASSUME Loose, NEW s \in Sessions, AbortCreation(s) PROVE Kept
<1>1. Finish(s) /\ Unlock(s) /\ UNCHANGED <<files, money, audit, marks, bounds>>
  BY DEF AbortCreation
<1> QED BY <1>1, ToMenu, Unlocked, LocalBase DEF audit, marks, bounds, Loose, TypeOK

\* The reads of the next id and number.
LEMMA NextRead ==
  ASSUME Loose, NEW s \in Sessions
  PROVE  /\ ReadUserId(s) =>
              /\ op[s].pc = "userId" /\ op' = [op EXCEPT ![s] = op'[s]] /\ op'[s] \in Op
              /\ op'[s].pc = "addUser" /\ op'[s].user = op[s].user
              /\ ~mistaken' => op'[s].owner = GetNextUserId
         /\ GenerateNumber(s) =>
              /\ op[s].pc = "number" /\ op' = [op EXCEPT ![s] = op'[s]] /\ op'[s] \in Op
              /\ op'[s].pc = "accountId" /\ op'[s].owner = op[s].owner
              /\ ~mistaken' => op'[s].number = NewAccountNumber
         /\ ReadAccountId(s) =>
              /\ op[s].pc = "accountId" /\ op' = [op EXCEPT ![s] = op'[s]] /\ op'[s] \in Op
              /\ op'[s].pc = "addAccount" /\ op'[s].owner = op[s].owner
              /\ op'[s].number = op[s].number
              /\ ~mistaken' => op'[s].id = GetNextAccountId
         /\ ReadUserId(s) \/ GenerateNumber(s) \/ ReadAccountId(s) =>
              /\ UNCHANGED <<mistaken, troubles>> \/ Mistake
              /\ UNCHANGED <<files, money, mutex, audit, granted, crossed>>
<1>1. /\ op \in [Sessions -> Op]
      /\ GetNextUserId \in Nat /\ NewAccountNumber \in Nat /\ GetNextAccountId \in Nat
      /\ First \in Nat
  <2>1. /\ op \in [Sessions -> Op]
        /\ Len(users) \in DOMAIN users /\ Len(accounts) \in DOMAIN accounts
    BY Files DEF Loose, TypeOK, Op
  <2>2. users[Len(users)] \in User /\ accounts[Len(accounts)] \in Account
    BY <2>1, Files DEF Loose
  <2> QED BY <2>1, <2>2
          DEF GetNextUserId, NewAccountNumber, GetNextAccountId, User, Account, First
<1>2. ASSUME ReadUserId(s)
      PROVE  /\ op[s].pc = "userId" /\ op' = [op EXCEPT ![s] = op'[s]] /\ op'[s] \in Op
             /\ op'[s].pc = "addUser" /\ op'[s].user = op[s].user
             /\ ~mistaken' => op'[s].owner = GetNextUserId
  <2>1. PICK id \in {GetNextUserId, First} :
          /\ op' = [op EXCEPT ![s].pc = "addUser", ![s].owner = id]
          /\ ~mistaken' => id = GetNextUserId
    BY <1>2 DEF ReadUserId, Mistake
  <2> HIDE DEF First
  <2> QED BY <1>1, <1>2, <2>1 DEF ReadUserId, At, Op
<1>3. ASSUME GenerateNumber(s)
      PROVE  /\ op[s].pc = "number" /\ op' = [op EXCEPT ![s] = op'[s]] /\ op'[s] \in Op
             /\ op'[s].pc = "accountId" /\ op'[s].owner = op[s].owner
             /\ ~mistaken' => op'[s].number = NewAccountNumber
  <2>1. PICK number \in {NewAccountNumber, First} :
          /\ op' = [op EXCEPT ![s].pc = "accountId", ![s].number = number]
          /\ ~mistaken' => number = NewAccountNumber
    BY <1>3 DEF GenerateNumber, Mistake
  <2> QED BY <1>1, <1>3, <2>1 DEF GenerateNumber, At, Op
<1>4. ASSUME ReadAccountId(s)
      PROVE  /\ op[s].pc = "accountId" /\ op' = [op EXCEPT ![s] = op'[s]] /\ op'[s] \in Op
             /\ op'[s].pc = "addAccount" /\ op'[s].owner = op[s].owner
             /\ op'[s].number = op[s].number
             /\ ~mistaken' => op'[s].id = GetNextAccountId
  <2>1. PICK id \in {GetNextAccountId, First} :
          /\ op' = [op EXCEPT ![s].pc = "addAccount", ![s].id = id]
          /\ ~mistaken' => id = GetNextAccountId
    BY <1>4 DEF ReadAccountId, Mistake
  <2> QED BY <1>1, <1>4, <2>1 DEF ReadAccountId, At, Op
<1>5. ASSUME ReadUserId(s) \/ GenerateNumber(s) \/ ReadAccountId(s)
      PROVE  /\ UNCHANGED <<mistaken, troubles>> \/ Mistake
             /\ UNCHANGED <<files, money, mutex, audit, granted, crossed>>
  BY <1>5 DEF ReadUserId, GenerateNumber, ReadAccountId
<1> QED BY <1>2, <1>3, <1>4, <1>5

LEMMA ReadUserIdBase == ASSUME Loose, NEW s \in Sessions, ReadUserId(s) PROVE Kept
<1>1. /\ op[s].pc = "userId" /\ op' = [op EXCEPT ![s] = op'[s]] /\ op'[s] \in Op
      /\ op'[s].pc = "addUser"
      /\ ~mistaken' => op'[s].owner = GetNextUserId
      /\ UNCHANGED <<files, money, mutex, audit, granted, crossed>>
      /\ troubles' \in Nat /\ mistaken' \in BOOLEAN
  BY NextRead, TroubleTyped
<1>2. Firm(s)' /\ Hand(s)
  BY <1>1, NotHolding DEF Loose, Firm, files, Editing, Creating
<1>3. Exact /\ ~mistaken' => Sound(s)'
  BY <1>1, NextUserId DEF Base, Sound, files, At, Editing
<1> QED BY <1>1, <1>2, <1>3, LocalBase DEF audit, Loose, TypeOK

LEMMA AppendUserBase == ASSUME Loose, NEW s \in Sessions, AppendUser(s) PROVE Kept
<1>1. /\ TypeOK /\ op \in [Sessions -> Op] /\ op[s].pc = "addUser"
      /\ Len(users) \in Nat /\ DOMAIN users = 1..Len(users)
      /\ mutex = s /\ Len(users) < MaxUsers /\ MaxUsers \in Nat
  BY Files, UsersAssumption DEF Loose, TypeOK, Op, AppendUser, Firm, At
<1>2. PICK id \in {GetNextUserId, First} :
        /\ users' = Append(users, [op[s].user EXCEPT !.userId = id])
        /\ booked' = Append(booked, [op[s].user EXCEPT !.userId = id])
        /\ \/ id = GetNextUserId /\ UNCHANGED <<mistaken, troubles>>
           \/ id = First /\ Mistake
  BY DEF AppendUser
<1> DEFINE user == [op[s].user EXCEPT !.userId = id]
<1>3. user \in User /\ user.userId = id
  <2>1. op[s].user \in User
    BY <1>1 DEF Op
  <2>2. id \in Nat
    BY <1>1, Files DEF Loose, GetNextUserId, First, User
  <2> QED BY <2>1, <2>2 DEF User
<1>4. /\ users' \in Seq(User) /\ Len(users') = Len(users) + 1
      /\ DOMAIN users' = DOMAIN users \cup {Len(users) + 1}
      /\ users'[Len(users) + 1] = user
      /\ \A r \in DOMAIN users : users'[r] = users[r]
      /\ booked' \in Seq(User) /\ Len(booked') = Len(users')
  <2>1. users' = Append(users, user) /\ booked' = Append(booked, user)
    BY <1>2
  <2> HIDE DEF user
  <2> QED BY <1>1, <1>3, <2>1, Extended DEF TypeOK
<1>5. troubles' \in Nat /\ mistaken' \in BOOLEAN /\ (~mistaken' => id = GetNextUserId)
  BY <1>2, TroubleTyped DEF Mistake
<1>6. UNCHANGED <<accounts, money, raced, modified, overlapped, late, cut, crossed>>
  BY DEF AppendUser
<1>7. granted' \subseteq (1..MaxUsers) \X Roles
  <2>1. op[s].user.role \in Roles /\ Len(users) + 1 \in 1..MaxUsers
    BY <1>1 DEF Op, User
  <2> QED BY <1>1, <2>1 DEF AppendUser, TypeOK
<1> HIDE DEF user
<1>8. ASSUME Exact, ~mistaken'
      PROVE  Ids' /\ op[s].owner \in DOMAIN users'
  <2>1. user.userId = Len(users) + 1
    BY <1>3, <1>5, <1>8, NextUserId DEF Base
  <2>2. \A r \in DOMAIN users' : users'[r].userId = r
    BY <1>4, <1>8, <2>1 DEF Exact, Ids
  <2>3. \A a \in DOMAIN accounts' : accounts'[a].ownerUserId \in DOMAIN users'
    BY <1>4, <1>6, <1>8 DEF Exact, Ids
  <2>4. op[s].owner = Len(users) + 1
    BY <1>1, <1>8 DEF Exact, Sound, At
  <2> QED BY <1>4, <2>2, <2>3, <2>4 DEF Ids
<1>9. /\ op' = [op EXCEPT ![s] = op'[s]] /\ op'[s] \in Op /\ Firm(s)' /\ Hand(s)
      /\ Exact /\ ~mistaken' => Sound(s)'
  <2>1. CASE op[s].user.role = "CUSTOMER"
    <3>1. op' = [op EXCEPT ![s].pc = "number"] /\ mutex' = mutex
      BY <2>1 DEF AppendUser, Goto
    <3>2. /\ op' = [op EXCEPT ![s] = op'[s]] /\ op'[s] \in Op
          /\ op'[s].pc = "number" /\ op'[s].owner = op[s].owner
      BY <1>1, <3>1 DEF Op
    <3>3. Firm(s)'
      BY <3>2 DEF Firm, Editing
    <3>4. Exact /\ ~mistaken' => Sound(s)'
      BY <1>8, <3>2 DEF Sound, At, Editing
    <3> QED BY <3>1, <3>2, <3>3, <3>4, NotHolding DEF Creating
  <2>2. CASE op[s].user.role # "CUSTOMER"
    BY <2>2, ToMenu, Unlocked DEF AppendUser
  <2> QED BY <2>1, <2>2
<1>10. Len(users') <= MaxUsers /\ Len(users) <= Len(users') /\ Grown /\ Len(accounts) \in Nat
  BY <1>1, <1>4, <1>6, Files, AllSame
<1>11. UNCHANGED money /\ accounts' = accounts
  BY <1>6
<1> QED BY <1>1, <1>4, <1>5, <1>6, <1>7, <1>8, <1>9, <1>10, <1>11, BaseStep DEF TypeOK

LEMMA AppendUserFailsBase ==
  ASSUME Loose, NEW s \in Sessions, AppendUserFails(s) PROVE Kept
<1>1. Finish(s) /\ Unlock(s) /\ Fault /\ UNCHANGED <<files, money, audit, marks>>
  BY DEF AppendUserFails
<1> QED BY <1>1, ToMenu, Unlocked, TroubleTyped, LocalBase DEF audit, marks, Loose, TypeOK

LEMMA BeginAccountBase == ASSUME Loose, NEW s \in Sessions, BeginAccount(s) PROVE Kept
<1>1. TypeOK /\ op \in [Sessions -> Op] /\ op[s].pc = "menu"
  BY DEF Loose, TypeOK, Op, BeginAccount, Begin, At
<1>2. PICK id \in 1..MaxUsers, r \in 1..MaxUsers :
        /\ FindUserRecord(id, r)
        /\ op' = [op EXCEPT ![s] = [Idle EXCEPT !.pc = "number", !.owner = id]]
  BY DEF BeginAccount
<1>3. Exact => id \in DOMAIN users
  BY <1>1, <1>2 DEF FindUserRecord, Exact, Ids
<1>4. [Idle EXCEPT !.pc = "number", !.owner = id] \in Op
  <2>1. id \in Nat
    BY UsersAssumption
  <2> QED BY <2>1, IdleIsOp, Begun
<1>5. /\ op' = [op EXCEPT ![s] = op'[s]] /\ op'[s] \in Op
      /\ op'[s].pc = "number" /\ op'[s].owner = id
  BY <1>1, <1>2, <1>4, IdleIsOp DEF Op
<1>6. /\ Exact => Sound(s)'
      /\ UNCHANGED <<files, money, mutex, audit, marks, troubles>>
  BY <1>3, <1>5 DEF BeginAccount, files, Sound, At, Editing
<1>7. Firm(s)'
  BY <1>5 DEF Firm, Editing
<1>8. Hand(s)
  BY <1>1, <1>5, <1>6, NotHolding DEF Creating
<1> QED BY <1>1, <1>5, <1>6, <1>7, <1>8, LocalBase DEF audit, marks, Loose, TypeOK

LEMMA GenerateNumberBase == ASSUME Loose, NEW s \in Sessions, GenerateNumber(s) PROVE Kept
<1>1. /\ op[s].pc = "number" /\ op' = [op EXCEPT ![s] = op'[s]] /\ op'[s] \in Op
      /\ op'[s].pc = "accountId" /\ op'[s].owner = op[s].owner
      /\ UNCHANGED <<files, money, mutex, audit, granted, crossed>>
      /\ troubles' \in Nat /\ mistaken' \in BOOLEAN
  BY NextRead, TroubleTyped
<1>2. Firm(s)' /\ Hand(s)
  BY <1>1, NotHolding DEF Firm, Editing, Creating
<1>3. Exact => Sound(s)'
  BY <1>1 DEF Exact, Sound, files, At, Editing
<1> QED BY <1>1, <1>2, <1>3, LocalBase DEF audit, Loose, TypeOK

LEMMA ReadAccountIdBase == ASSUME Loose, NEW s \in Sessions, ReadAccountId(s) PROVE Kept
<1>1. /\ op[s].pc = "accountId" /\ op' = [op EXCEPT ![s] = op'[s]] /\ op'[s] \in Op
      /\ op'[s].pc = "addAccount" /\ op'[s].owner = op[s].owner
      /\ UNCHANGED <<files, money, mutex, audit, granted, crossed>>
      /\ troubles' \in Nat /\ mistaken' \in BOOLEAN
  BY NextRead, TroubleTyped
<1>2. Firm(s)' /\ Hand(s)
  BY <1>1, NotHolding DEF Firm, Editing, Creating
<1>3. Exact => Sound(s)'
  BY <1>1 DEF Exact, Sound, files, At, Editing
<1> QED BY <1>1, <1>2, <1>3, LocalBase DEF audit, Loose, TypeOK

\* What the new record is, and what it leaves alone.
NewAccount(s) == [accountId |-> op[s].id, ownerUserId |-> op[s].owner,
                  accountNumber |-> op[s].number, isActive |-> TRUE]

LEMMA AccountAppended ==
  ASSUME Loose, NEW s \in Sessions, accounts' = Append(accounts, NewAccount(s))
  PROVE  /\ accounts' \in Seq(Account) /\ Len(accounts') = Len(accounts) + 1
         /\ DOMAIN accounts' = DOMAIN accounts \cup {Len(accounts) + 1}
         /\ accounts'[Len(accounts) + 1] = NewAccount(s)
         /\ \A a \in DOMAIN accounts : accounts'[a] = accounts[a]
<1>1. NewAccount(s) \in Account
  BY DEF Loose, TypeOK, NewAccount, Account
<1> QED BY <1>1, Extended DEF Loose, TypeOK

LEMMA AppendAccountBase == ASSUME Loose, NEW s \in Sessions, AppendAccount(s) PROVE Kept
<1>1. TypeOK /\ op[s].pc = "addAccount" /\ (Exact => op[s].owner \in DOMAIN users)
  BY DEF Loose, AppendAccount, Exact, Sound, At
<1>2. /\ op' = [op EXCEPT ![s] = op'[s]] /\ op'[s] \in Op
      /\ Firm(s)' /\ Sound(s)' /\ Hand(s)
      /\ UNCHANGED <<users, money, booked, raced, modified, cut, marks>>
  BY ToMenu, Unlocked DEF AppendAccount
<1>3. CASE Fault /\ UNCHANGED <<accounts, overlapped, late>>
  BY <1>1, <1>2, <1>3, TroubleTyped, LocalBase DEF files, marks, TypeOK
<1>4. CASE /\ Len(accounts) < MaxAccounts
           /\ accounts' = Append(accounts, NewAccount(s))
           /\ overlapped' = (overlapped \/ \E t \in Sessions \ {s} :
                                             op[t].pc \in {"accountId", "addAccount"})
           /\ late' = IF users[op[s].owner].isActive \/ Sweeping(op[s].owner)
                        THEN late ELSE late \cup {Len(accounts) + 1}
           /\ UNCHANGED troubles
  <2>1. /\ accounts' \in Seq(Account) /\ Len(accounts') = Len(accounts) + 1
        /\ DOMAIN accounts' = DOMAIN accounts \cup {Len(accounts) + 1}
        /\ accounts'[Len(accounts) + 1] = NewAccount(s)
        /\ \A a \in DOMAIN accounts : accounts'[a] = accounts[a]
    BY <1>4, AccountAppended
  <2>2. /\ Len(accounts) \in Nat /\ Len(users) \in Nat
        /\ Len(users) <= Len(users') /\ Len(users') <= MaxUsers
        /\ Len(accounts) <= Len(accounts') /\ Len(accounts') <= MaxAccounts
        /\ Len(accounts) + 1 \in 1..MaxAccounts
    <3>1. Len(accounts) \in Nat /\ Len(users) \in Nat /\ Len(users) <= MaxUsers
          /\ users' = users
      BY <1>1, <1>2, Files DEF TypeOK
    <3> QED BY <1>4, <2>1, <3>1, UsersAssumption
  <2>3. Exact => Ids'
    BY <1>1, <1>2, <2>1 DEF Exact, Ids, NewAccount
  <2>4. late' \subseteq 1..MaxAccounts /\ overlapped' \in BOOLEAN
    BY <1>1, <1>4, <2>2 DEF TypeOK
  <2>5. Grown
    BY <2>1, <2>2 DEF Grown, Same
  <2> QED BY <1>1, <1>2, <1>4, <2>1, <2>2, <2>3, <2>4, <2>5, BaseStep
          DEF marks, Loose, TypeOK
<1> QED BY <1>3, <1>4 DEF AppendAccount, NewAccount

\* Session s gets a copy of record r.
LEMMA UserRead ==
  ASSUME Loose, NEW s \in Sessions, NEW pc \in Editing, NEW id, NEW r, GetUser(s, pc, id, r)
  PROVE  /\ r \in DOMAIN users /\ users[r] \in User
         /\ op' = [op EXCEPT ![s] = op'[s]] /\ op'[s] \in Op
         /\ op'[s].pc = pc /\ op'[s].user = users[r] /\ op'[s].row = r
<1>1. TypeOK /\ op \in [Sessions -> Op]
  BY DEF Loose, TypeOK, Op
<1>2. r \in DOMAIN users /\ users[r] \in User /\ r \in Nat
  BY <1>1, Files DEF GetUser, FindUserRecord
<1> DEFINE new == [Idle EXCEPT !.pc = pc, !.user = users[r], !.row = r]
<1>3. new \in Op
  BY <1>2, IdleIsOp, Begun, Zenon
<1>4. new.pc = pc /\ new.user = users[r] /\ new.row = r
  BY <1>2, IdleIsOp DEF Op
<1>5. op' = [op EXCEPT ![s] = new]
  BY DEF GetUser
<1> HIDE DEF new
<1> QED BY <1>1, <1>2, <1>3, <1>4, <1>5

LEMMA UserReadBase ==
  ASSUME Loose, NEW s \in Sessions, At(s, "menu"),
         NEW pc \in Editing, NEW id, NEW r, GetUser(s, pc, id, r),
         pc \in {"modify", "status"} => MayModify(s, users[r]),
         UNCHANGED <<files, money, mutex, booked, modified, overlapped, late, cut, marks,
                     troubles>>
  PROVE  Kept
<1>1. /\ r \in DOMAIN users
      /\ op' = [op EXCEPT ![s] = op'[s]] /\ op'[s] \in Op
      /\ op'[s].pc = pc /\ op'[s].user = users[r] /\ op'[s].row = r
  BY UserRead
<1>2. Firm(s)' /\ (Exact => Sound(s)')
  BY <1>1 DEF files, Firm, Exact, Ids, Sound, At, Editing, MayModify
<1>3. Hand(s)
  BY NotHolding DEF Creating, At
<1>4. raced' \subseteq 1..MaxUsers
  BY <1>1, Files DEF GetUser, Loose, TypeOK
<1> QED BY <1>1, <1>2, <1>3, <1>4, LocalBase DEF Loose, TypeOK, marks

LEMMA ReadToModifyBase == ASSUME Loose, NEW s \in Sessions, ReadToModify(s) PROVE Kept
BY UserReadBase DEF ReadToModify, Begin, Editing

LEMMA ReadToChangeBase == ASSUME Loose, NEW s \in Sessions, ReadToChange(s) PROVE Kept
BY UserReadBase DEF ReadToChange, Begin, Editing

LEMMA ReadToSetStatusBase ==
  ASSUME Loose, NEW s \in Sessions, ReadToSetStatus(s) PROVE Kept
BY UserReadBase DEF ReadToSetStatus, Begin, Editing

\* updateUser writes the changed copy to the record, and books the change.
LEMMA UserUpdated ==
  ASSUME Loose, NEW s \in Sessions, op[s].pc \in Editing, NEW c \in Changes, UpdateUser(s, c)
  PROVE  /\ op[s].row \in DOMAIN users
         /\ users' \in Seq(User) /\ Len(users') = Len(users) /\ DOMAIN users' = DOMAIN users
         /\ users'[op[s].row] = Apply(c, op[s].user)
         /\ \A r \in DOMAIN users \ {op[s].row} : users'[r] = users[r]
         /\ booked' \in Seq(User) /\ Len(booked') = Len(booked)
         /\ booked'[op[s].row] = Apply(c, booked[op[s].row])
         /\ \A r \in DOMAIN users \ {op[s].row} : booked'[r] = booked[r]
         /\ Exact => op[s].user.userId = op[s].row /\ \A r \in DOMAIN users : users'[r].userId = r
<1>1. TypeOK /\ op[s].row \in DOMAIN users /\ op[s].user \in User
  BY DEF Loose, TypeOK, Firm
<1>2. /\ Apply(c, op[s].user) \in User
      /\ Apply(c, op[s].user).userId = op[s].user.userId
  BY <1>1, ApplyUser
<1>3. op[s].row \in DOMAIN booked /\ booked[op[s].row] \in User /\ DOMAIN booked = DOMAIN users
  BY <1>1, Files
<1>4. Apply(c, booked[op[s].row]) \in User
  BY <1>3, ApplyUser
<1>5. /\ users' = [users EXCEPT ![op[s].row] = Apply(c, op[s].user)]
      /\ booked' = [booked EXCEPT ![op[s].row] = Apply(c, booked[op[s].row])]
  BY DEF UpdateUser
<1>6. /\ users' \in Seq(User) /\ Len(users') = Len(users) /\ DOMAIN users' = DOMAIN users
      /\ users'[op[s].row] = Apply(c, op[s].user)
      /\ \A r \in DOMAIN users \ {op[s].row} : users'[r] = users[r]
  BY <1>1, <1>2, <1>5, Replaced DEF TypeOK
<1>7. /\ booked' \in Seq(User) /\ Len(booked') = Len(booked)
      /\ booked'[op[s].row] = Apply(c, booked[op[s].row])
      /\ \A r \in DOMAIN users \ {op[s].row} : booked'[r] = booked[r]
  BY <1>1, <1>3, <1>4, <1>5, Replaced DEF TypeOK
<1>8. ASSUME Exact
      PROVE  op[s].user.userId = op[s].row /\ \A r \in DOMAIN users : users'[r].userId = r
  <2>1. op[s].user.userId = op[s].row /\ \A r \in DOMAIN users : users[r].userId = r
    BY <1>8 DEF Exact, Sound, Ids
  <2> QED BY <1>2, <1>6, <2>1
<1> QED BY <1>1, <1>6, <1>7, <1>8

LEMMA UserUpdatedBase ==
  ASSUME Loose, NEW s \in Sessions, op[s].pc \in Editing, NEW c \in Changes, UpdateUser(s, c),
         op' = [op EXCEPT ![s] = op'[s]], op'[s] \in Op, op'[s].pc \in {"menu", "scan"},
         op'[s].pc = "scan" => op'[s].user.userId = op[s].user.userId /\ op'[s].row = 1,
         UNCHANGED <<accounts, money, mutex, overlapped, late, crossed, mistaken, troubles>>,
         granted' \subseteq (1..MaxUsers) \X Roles,
         raced' = raced, modified' \subseteq 1..MaxUsers, cut' \subseteq Nat
  PROVE  Kept
<1>1. /\ op[s].row \in DOMAIN users
      /\ users' \in Seq(User) /\ Len(users') = Len(users) /\ DOMAIN users' = DOMAIN users
      /\ booked' \in Seq(User) /\ Len(booked') = Len(booked)
      /\ Exact => op[s].user.userId = op[s].row /\ \A r \in DOMAIN users : users'[r].userId = r
  BY UserUpdated
<1>2. TypeOK /\ Len(users) \in Nat /\ Len(accounts) \in Nat
  BY Files DEF Loose
<1>3. Exact => Ids'
  BY <1>1 DEF Exact, Ids
<1>4. Firm(s)' /\ (Exact => Sound(s)')
  BY <1>1, <1>2 DEF Firm, Sound, At, Editing
<1>5. Hand(s)
  BY NotHolding DEF Editing, Creating
<1>6. Len(users) <= Len(users') /\ Grown
  BY <1>1, <1>2, AllSame
<1> QED BY <1>1, <1>2, <1>3, <1>4, <1>5, <1>6, BaseStep DEF Loose, TypeOK

LEMMA OneChange ==
  /\ \A p \in TypedPasswords : [NoChange EXCEPT !.password = p] \in Changes
  /\ \A b \in BOOLEAN : [NoChange EXCEPT !.isActive = b] \in Changes
BY DEF NoChange, Changes

\* The rows and the ids of users are in the histories' range.
LEMMA InRange ==
  ASSUME Loose, NEW s \in Sessions
  PROVE  /\ op[s].pc \in Editing => op[s].row \in 1..MaxUsers
         /\ op[s].user.userId \in Nat
         /\ Exact /\ op[s].pc \in {"status", "scan"} => op[s].user.userId \in 1..MaxUsers
<1>1. op[s].pc \in Editing => op[s].row \in 1..MaxUsers
  BY Files DEF Loose, Firm, Editing
<1>2. op[s].user.userId \in Nat
  BY DEF Loose, TypeOK, User
<1>3. Exact /\ op[s].pc \in {"status", "scan"} => op[s].user.userId \in 1..MaxUsers
  BY <1>1, Files DEF Loose, Exact, Sound, Editing, At
<1> QED BY <1>1, <1>2, <1>3

LEMMA WriteDetailsBase == ASSUME Loose, NEW s \in Sessions, WriteDetails(s) PROVE Kept
<1>1. /\ TypeOK /\ op[s].pc \in Editing /\ op[s].row \in 1..MaxUsers
      /\ op' = [op EXCEPT ![s] = op'[s]] /\ op'[s] \in Op /\ op'[s].pc = "menu"
      /\ Firm(s)' /\ Sound(s)' /\ Hand(s)
      /\ UNCHANGED <<accounts, money, mutex, raced, overlapped, late, cut, crossed, mistaken>>
  BY ToMenu, InRange, NotHolding DEF Loose, WriteDetails, At, Editing, Creating
<1>2. CASE Fault /\ UNCHANGED <<users, booked, modified, granted>>
  BY <1>1, <1>2, TroubleTyped, LocalBase DEF files, TypeOK
<1>3. ASSUME NEW c \in Changes, UpdateUser(s, c), Give(s, op[s].row, c.role),
             modified' = modified \cup {op[s].row}, UNCHANGED troubles
      PROVE  Kept
  <2>1. c.role # Skip => c.role \in Roles
    BY UsersAssumption DEF Changes
  <2>2. granted' \subseteq (1..MaxUsers) \X Roles
    BY <1>1, <1>3, <2>1 DEF Give, TypeOK
  <2> QED BY <1>1, <1>3, <2>2, UserUpdatedBase DEF TypeOK
<1> QED BY <1>2, <1>3 DEF WriteDetails

LEMMA WritePasswordBase == ASSUME Loose, NEW s \in Sessions, WritePassword(s) PROVE Kept
<1>1. /\ TypeOK /\ op[s].pc \in Editing
      /\ op' = [op EXCEPT ![s] = op'[s]] /\ op'[s] \in Op /\ op'[s].pc = "menu"
      /\ Firm(s)' /\ Sound(s)' /\ Hand(s)
      /\ UNCHANGED <<accounts, money, mutex, raced, modified, overlapped, late, cut, marks>>
  BY ToMenu, NotHolding DEF Loose, WritePassword, At, Editing, Creating
<1>2. CASE Fault /\ UNCHANGED <<users, booked>>
  BY <1>1, <1>2, TroubleTyped, LocalBase DEF files, marks, TypeOK
<1>3. ASSUME NEW c \in Changes, UpdateUser(s, c), UNCHANGED troubles
      PROVE  Kept
  BY <1>1, <1>3, UserUpdatedBase DEF TypeOK, marks
<1> QED BY <1>2, <1>3, OneChange DEF WritePassword

\* What WriteStatus does to its session's variables.
LEMMA StatusSet ==
  ASSUME Loose, NEW s \in Sessions, NEW new \in BOOLEAN,
         op' = [op EXCEPT ![s].pc = "scan", ![s].row = 1, ![s].user.isActive = new]
  PROVE  /\ op' = [op EXCEPT ![s] = op'[s]] /\ op'[s] \in Op
         /\ op'[s].pc = "scan" /\ op'[s].row = 1
         /\ op'[s].user = [op[s].user EXCEPT !.isActive = new]
         /\ op'[s].user.userId = op[s].user.userId /\ op'[s].user.isActive = new
<1> DEFINE user == [op[s].user EXCEPT !.isActive = new]
           to   == [op[s] EXCEPT !.pc = "scan", !.row = 1, !.user = user]
<1>1. op \in [Sessions -> Op]
  BY DEF Loose, TypeOK, Op
<1>2. user \in User /\ user.userId = op[s].user.userId /\ user.isActive = new
  <2>1. op[s].user \in User
    BY <1>1 DEF Op
  <2> QED BY <2>1 DEF User
<1>3. op' = [op EXCEPT ![s] = to]
  OBVIOUS
<1> HIDE DEF user
<1>4. to \in Op /\ to.pc = "scan" /\ to.row = 1 /\ to.user = user
  BY <1>1, <1>2 DEF Op
<1> HIDE DEF to
<1>5. op'[s] = to
  BY <1>1, <1>3
<1> QED BY <1>2, <1>3, <1>4, <1>5 DEF user

LEMMA WriteStatusBase == ASSUME Loose, NEW s \in Sessions, WriteStatus(s) PROVE Kept
<1>1. /\ TypeOK /\ op[s].pc = "status" /\ op[s].user.userId \in Nat
      /\ UNCHANGED <<accounts, money, mutex, raced, modified, overlapped, late, marks>>
  BY InRange DEF Loose, WriteStatus, At
<1>2. PICK new \in BOOLEAN :
        /\ op' = [op EXCEPT ![s].pc = "scan", ![s].row = 1, ![s].user.isActive = new]
        /\ \/ /\ UpdateUser(s, [NoChange EXCEPT !.isActive = new])
              /\ IF Sweeping(op[s].user.userId) THEN Disturb(op[s].user.userId)
                                                ELSE UNCHANGED cut
              /\ UNCHANGED troubles
           \/ Fault /\ Disturb(op[s].user.userId) /\ UNCHANGED <<users, booked>>
  BY DEF WriteStatus
<1>3. /\ op' = [op EXCEPT ![s] = op'[s]] /\ op'[s] \in Op
      /\ op'[s].pc = "scan" /\ op'[s].row = 1
      /\ op'[s].user.userId = op[s].user.userId
  BY <1>2, StatusSet
<1>4. cut' \subseteq Nat
  BY <1>1, <1>2 DEF Disturb, TypeOK
<1>5. CASE UpdateUser(s, [NoChange EXCEPT !.isActive = new]) /\ UNCHANGED troubles
  <2>1. [NoChange EXCEPT !.isActive = new] \in Changes
    BY OneChange
  <2> QED BY <1>1, <1>3, <1>4, <1>5, <2>1, UserUpdatedBase DEF Editing, TypeOK, marks
<1>6. CASE Fault /\ UNCHANGED <<users, booked>>
  <2>1. Firm(s)' /\ Hand(s)
    BY <1>1, <1>3, <1>6, NotHolding DEF Firm, At, Editing, Creating
  <2>2. Exact => Sound(s)'
    <3>1. Exact => op[s].user.userId = op[s].row /\ op[s].row \in DOMAIN users
      BY <1>1 DEF Loose, Exact, Firm, Sound, Editing
    <3>2. 1 \in 1..(Len(accounts') + 1)
      BY <1>1, Files DEF Loose
    <3> QED BY <1>3, <1>6, <3>1, <3>2 DEF Sound, At, Editing
  <2> QED BY <1>1, <1>3, <1>4, <1>6, <2>1, <2>2, TroubleTyped, LocalBase
          DEF files, marks, TypeOK
<1> QED BY <1>2, <1>5, <1>6

LEMMA OpenAccountsFailsBase ==
  ASSUME Loose, NEW s \in Sessions, OpenAccountsFails(s) PROVE Kept
<1>1. /\ op' = [op EXCEPT ![s] = op'[s]] /\ op'[s] \in Op /\ Firm(s)' /\ Sound(s)' /\ Hand(s)
  BY ToMenu, NotHolding DEF OpenAccountsFails, At, Creating
<1>2. cut' \subseteq Nat /\ troubles' \in Nat
  BY InRange, TroubleTyped DEF OpenAccountsFails, At, Disturb, Loose, TypeOK
<1> QED BY <1>1, <1>2, LocalBase DEF OpenAccountsFails, marks, Loose, TypeOK

LEMMA EndSweepBase == ASSUME Loose, NEW s \in Sessions, EndSweep(s) PROVE Kept
<1>1. /\ op' = [op EXCEPT ![s] = op'[s]] /\ op'[s] \in Op /\ Firm(s)' /\ Sound(s)' /\ Hand(s)
  BY ToMenu, NotHolding DEF EndSweep, At, Creating
<1> QED BY <1>1, LocalBase DEF EndSweep, audit, marks, bounds, Loose, TypeOK

\* A step of the loop over the accounts moves on by one record, of which it
\* changes the status only.
LEMMA AccountSwept ==
  ASSUME Loose, NEW s \in Sessions, SweepAccount(s)
  PROVE  /\ op[s].pc = "scan" /\ op[s].row \in DOMAIN accounts
         /\ op' = [op EXCEPT ![s] = op'[s]] /\ op'[s] \in Op
         /\ op'[s].pc = "scan" /\ op'[s].user = op[s].user /\ op'[s].row = op[s].row + 1
         /\ accounts' \in Seq(Account) /\ Len(accounts') = Len(accounts) /\ Grown
         /\ DOMAIN accounts' = DOMAIN accounts
         /\ \A a \in DOMAIN accounts \ {op[s].row} : accounts'[a] = accounts[a]
         /\ \/ /\ accounts[op[s].row].ownerUserId = op[s].user.userId
               /\ accounts'[op[s].row].isActive = op[s].user.isActive
               /\ Passed(op[s].row, accounts[op[s].row].isActive # op[s].user.isActive)
               /\ UNCHANGED <<cut, troubles>>
            \/ /\ accounts[op[s].row].ownerUserId = op[s].user.userId
               /\ UNCHANGED <<accounts, crossed>>
               /\ Fault /\ cut' = cut \cup {op[s].user.userId}
            \/ /\ accounts[op[s].row].ownerUserId # op[s].user.userId
               /\ UNCHANGED <<accounts, cut, crossed, troubles>>
         /\ UNCHANGED <<users, money, mutex, booked, raced, modified, overlapped, late,
                        granted, mistaken>>
<1>1. /\ TypeOK /\ op \in [Sessions -> Op] /\ op[s].pc = "scan" /\ op[s].row \in DOMAIN accounts
      /\ op[s].user.isActive \in BOOLEAN /\ Len(accounts) \in Nat
  BY Files DEF Loose, TypeOK, Op, SweepAccount, At, User
<1>2. /\ op' = [op EXCEPT ![s] = op'[s]] /\ op'[s] \in Op
      /\ op'[s].pc = "scan" /\ op'[s].user = op[s].user /\ op'[s].row = op[s].row + 1
  BY <1>1 DEF SweepAccount, Op
<1>3. \A a \in DOMAIN accounts : accounts[a] \in Account
  BY <1>1, Files
<1>4. UNCHANGED <<users, money, mutex, booked, raced, modified, overlapped, late,
                  granted, mistaken>>
  BY DEF SweepAccount
<1>5. CASE /\ accounts[op[s].row].ownerUserId = op[s].user.userId
           /\ accounts' = [accounts EXCEPT ![op[s].row].isActive = op[s].user.isActive]
           /\ Passed(op[s].row, accounts[op[s].row].isActive # op[s].user.isActive)
           /\ UNCHANGED <<cut, troubles>>
  <2> DEFINE new == [accounts[op[s].row] EXCEPT !.isActive = op[s].user.isActive]
  <2>1. /\ new \in Account /\ new.isActive = op[s].user.isActive
        /\ Same(new, accounts[op[s].row])
    BY <1>1, <1>3 DEF Account, Same
  <2>2. accounts' = [accounts EXCEPT ![op[s].row] = new]
    BY <1>5
  <2> HIDE DEF new
  <2>3. /\ accounts' \in Seq(Account) /\ Len(accounts') = Len(accounts)
        /\ DOMAIN accounts' = DOMAIN accounts
        /\ accounts'[op[s].row] = new
        /\ \A a \in DOMAIN accounts \ {op[s].row} : accounts'[a] = accounts[a]
    BY <1>1, <2>1, <2>2, Replaced DEF TypeOK
  <2>4. Grown
    BY <1>1, <2>1, <2>3 DEF Grown, Same
  <2> QED BY <1>1, <1>2, <1>4, <1>5, <2>1, <2>3, <2>4
<1>6. CASE /\ accounts[op[s].row].ownerUserId = op[s].user.userId
           /\ UNCHANGED <<accounts, crossed>>
           /\ Fault /\ cut' = cut \cup {op[s].user.userId}
  BY <1>1, <1>2, <1>4, <1>6, AllSame DEF TypeOK
<1>7. CASE /\ accounts[op[s].row].ownerUserId # op[s].user.userId
           /\ UNCHANGED <<accounts, cut, crossed, troubles>>
  BY <1>1, <1>2, <1>4, <1>7, AllSame DEF TypeOK
<1> QED BY <1>5, <1>6, <1>7 DEF SweepAccount, Disturb

LEMMA SweepAccountBase == ASSUME Loose, NEW s \in Sessions, SweepAccount(s) PROVE Kept
<1>1. /\ op[s].pc = "scan" /\ op[s].row \in DOMAIN accounts
      /\ op' = [op EXCEPT ![s] = op'[s]] /\ op'[s] \in Op
      /\ op'[s].pc = "scan" /\ op'[s].user = op[s].user /\ op'[s].row = op[s].row + 1
      /\ accounts' \in Seq(Account) /\ Len(accounts') = Len(accounts) /\ Grown
      /\ DOMAIN accounts' = DOMAIN accounts
      /\ UNCHANGED <<users, money, mutex, booked, raced, modified, overlapped, late, granted,
                     mistaken>>
  BY AccountSwept
<1>2. /\ TypeOK /\ Len(users) \in Nat /\ Len(accounts) \in Nat
      /\ DOMAIN accounts = 1..Len(accounts) /\ DOMAIN accounts \subseteq 1..MaxAccounts
  BY Files DEF Loose
<1>3. cut' \subseteq Nat /\ crossed' \subseteq 1..MaxAccounts /\ troubles' \in Nat
  <2>1. op[s].user.userId \in Nat /\ op[s].row \in 1..MaxAccounts
    BY <1>1, <1>2, InRange
  <2>2. \/ /\ Passed(op[s].row, accounts[op[s].row].isActive # op[s].user.isActive)
           /\ UNCHANGED <<cut, troubles>>
        \/ /\ UNCHANGED crossed
           /\ Fault /\ cut' = cut \cup {op[s].user.userId}
        \/ UNCHANGED <<cut, crossed, troubles>>
    BY AccountSwept
  <2>3. troubles' \in Nat
    BY <2>2, TroubleTyped
  <2>4. cut' \subseteq Nat
    BY <1>2, <2>1, <2>2 DEF TypeOK
  <2>5. crossed' \subseteq 1..MaxAccounts
    BY <1>2, <2>1, <2>2 DEF Passed, TypeOK
  <2> QED BY <2>3, <2>4, <2>5
<1>4. Exact => Ids'
  BY <1>1 DEF Exact, Ids, Grown, Same
<1>5. Firm(s)' /\ Hand(s) /\ (Exact => Sound(s)')
  BY <1>1, <1>2, NotHolding DEF Exact, Firm, Sound, At, Creating, Editing
<1>6. Len(users) <= Len(users')
  BY <1>1, <1>2
<1> QED BY <1>1, <1>2, <1>3, <1>4, <1>5, <1>6, BaseStep DEF TypeOK

\* A session's copies of accounts, read and written.
LEMMA Held ==
  ASSUME NEW q \in Seq(Account)
  PROVE  /\ \A x \in Account : <<x>> \in Seq(Account) /\ DOMAIN <<x>> = {1} /\ <<x>>[1] = x
         /\ \A x \in Account :
              /\ Append(q, x) \in Seq(Account) /\ DOMAIN Append(q, x) = DOMAIN q \cup {Len(q) + 1}
              /\ Append(q, x)[Len(q) + 1] = x
              /\ \A k \in DOMAIN q : Append(q, x)[k] = q[k]
         /\ <<>> \in Seq(Account) /\ DOMAIN <<>> = {}
         /\ q # <<>> =>
              /\ 1 \in DOMAIN q /\ Head(q) = q[1] /\ Head(q) \in Account
              /\ Tail(q) \in Seq(Account)
              /\ \A k \in DOMAIN Tail(q) : k + 1 \in DOMAIN q /\ Tail(q)[k] = q[k + 1]
<1>1. Len(q) \in Nat /\ DOMAIN q = 1..Len(q) /\ q \in [1..Len(q) -> Account]
  BY LenProperties
<1>2. \A x \in Account : <<x>> \in Seq(Account) /\ DOMAIN <<x>> = {1} /\ <<x>>[1] = x
  OBVIOUS
<1>3. \A x \in Account :
        /\ Append(q, x) \in Seq(Account) /\ DOMAIN Append(q, x) = DOMAIN q \cup {Len(q) + 1}
        /\ Append(q, x)[Len(q) + 1] = x
        /\ \A k \in DOMAIN q : Append(q, x)[k] = q[k]
  BY Extended
<1>4. <<>> \in Seq(Account) /\ DOMAIN <<>> = {}
  BY EmptySeq
<1>5. ASSUME q # <<>>
      PROVE  /\ 1 \in DOMAIN q /\ Head(q) = q[1] /\ Head(q) \in Account
             /\ Tail(q) \in Seq(Account)
             /\ \A k \in DOMAIN Tail(q) : k + 1 \in DOMAIN q /\ Tail(q)[k] = q[k + 1]
  <2>1. Len(q) # 0
    BY <1>5, EmptySeq
  <2>2. /\ Head(q) \in Account /\ Head(q) = q[1]
        /\ Tail(q) \in Seq(Account) /\ Len(Tail(q)) = Len(q) - 1
        /\ \A k \in 1..Len(Tail(q)) : Tail(q)[k] = q[k + 1]
    BY <1>1, <1>5, <2>1, HeadTailProperties
  <2>3. DOMAIN Tail(q) = 1..(Len(q) - 1)
    BY <2>2, LenProperties
  <2> QED BY <1>1, <2>1, <2>2, <2>3
<1> QED BY <1>2, <1>3, <1>4, <1>5

\* The handlers that move money leave all but accounts and their copies alone.
LEMMA MoneyBase ==
  ASSUME Loose, UNCHANGED <<users, mutex, op, audit, granted, crossed>>,
         mistaken' \in BOOLEAN, troubles' \in Nat,
         account' \in [Sessions -> Nat], held' \in [Sessions -> Seq(Account)],
         accounts' \in Seq(Account), Len(accounts') = Len(accounts),
         Exact /\ ~mistaken' => Grown /\ Copies'
  PROVE  Kept
<1>1. /\ users' = users /\ mutex' = mutex /\ op' = op /\ booked' = booked /\ raced' = raced
      /\ modified' = modified /\ overlapped' = overlapped /\ late' = late /\ cut' = cut
      /\ granted' = granted /\ crossed' = crossed
  BY DEF audit
<1>2. TypeOK /\ DOMAIN accounts = 1..Len(accounts) /\ DOMAIN accounts' = 1..Len(accounts')
  BY Files, LenProperties DEF Loose
<1>3. TypeOK'
  BY <1>1, <1>2 DEF TypeOK
<1>4. \A s \in Sessions : Firm(s)'
  BY <1>1 DEF Loose, Firm, MayModify
<1>5. Loose'
  BY <1>1, <1>3, <1>4 DEF Loose
<1>6. ASSUME Exact, ~mistaken'
      PROVE  Exact'
  <2>1. Ids'
    BY <1>1, <1>2, <1>6 DEF Exact, Ids, Grown, Same
  <2>2. \A s \in Sessions : Sound(s)'
    BY <1>1, <1>6 DEF Exact, Sound, At
  <2> QED BY <1>6, <2>1, <2>2 DEF Exact
<1> QED BY <1>5, <1>6 DEF Kept

\* They only drop copies.
LEMMA FewerBase ==
  ASSUME Loose, UNCHANGED <<files, mutex, op, audit, marks, troubles>>,
         account' \in [Sessions -> Nat], held' \in [Sessions -> Seq(Account)],
         \A t \in Sessions : DOMAIN held'[t] = {} \/ held'[t] = held[t]
  PROVE  Kept
<1>1. TypeOK /\ accounts' = accounts /\ users' = users /\ Len(accounts) \in Nat
  BY Files DEF Loose, files
<1>2. Grown
  BY <1>1, AllSame
<1>3. Exact => Copies'
  BY <1>1, <1>2, CopiesStay DEF Exact, TypeOK
<1> QED BY <1>1, <1>2, <1>3, MoneyBase DEF TypeOK, Loose, marks

LEMMA SelectAccountBase == ASSUME Loose, NEW s \in Sessions, SelectAccount(s) PROVE Kept
<1>1. TypeOK /\ \A a \in DOMAIN accounts : accounts[a].accountId \in Nat
  BY Files DEF Loose, Account
<1>2. account' \in [Sessions -> Nat] /\ held' = held
  BY <1>1 DEF SelectAccount, TypeOK
<1> QED BY <1>1, <1>2, FewerBase DEF SelectAccount, TypeOK

LEMMA LeaveAccountBase == ASSUME Loose, NEW s \in Sessions, LeaveAccount(s) PROVE Kept
<1>1. account' \in [Sessions -> Nat] /\ held' = held /\ TypeOK
  BY DEF Loose, LeaveAccount, TypeOK
<1> QED BY <1>1, FewerBase DEF LeaveAccount, bounds, TypeOK

LEMMA GiveUpBase == ASSUME Loose, NEW s \in Sessions, GiveUp(s) PROVE Kept
<1>1. account' = account /\ held' = [held EXCEPT ![s] = <<>>] /\ TypeOK
  BY DEF Loose, GiveUp
<1>2. held' \in [Sessions -> Seq(Account)]
  BY <1>1 DEF TypeOK
<1>3. \A t \in Sessions : DOMAIN held'[t] = {} \/ held'[t] = held[t]
  BY <1>1 DEF TypeOK
<1> QED BY <1>1, <1>2, <1>3, FewerBase DEF GiveUp, bounds, TypeOK

\* Session s has read record a.
LEMMA CopyRead ==
  ASSUME Loose, NEW s \in Sessions, NEW a, a \in DOMAIN accounts,
         held' \in {[held EXCEPT ![s] = <<accounts[a]>>],
                    [held EXCEPT ![s] = Append(held[s], accounts[a])]},
         UNCHANGED <<files, account, mutex, op, audit, granted, crossed, troubles>>,
         mistaken' \in BOOLEAN,
         ~mistaken' => FindAccountRecord(accounts[a].accountId, a)
  PROVE  /\ held' \in [Sessions -> Seq(Account)]
         /\ \A t \in Sessions : \A k \in DOMAIN held'[t] :
              (\E j \in DOMAIN held[t] : held'[t][k] = held[t][j]) \/ held'[t][k] = accounts[a]
         /\ Kept
<1>1. /\ TypeOK /\ accounts' = accounts /\ accounts[a] \in Account
      /\ held \in [Sessions -> Seq(Account)] /\ held[s] \in Seq(Account)
  BY Files DEF Loose, TypeOK, files
<1>2. \A t \in Sessions \ {s} : held'[t] = held[t]
  BY <1>1
<1>3. /\ held'[s] \in Seq(Account)
      /\ \A k \in DOMAIN held'[s] :
           (\E j \in DOMAIN held[s] : held'[s][k] = held[s][j]) \/ held'[s][k] = accounts[a]
  <2>1. held'[s] = <<accounts[a]>> \/ held'[s] = Append(held[s], accounts[a])
    BY <1>1
  <2>2. CASE held'[s] = <<accounts[a]>>
    BY <1>1, <2>2, Held
  <2>3. CASE held'[s] = Append(held[s], accounts[a])
    <3> DEFINE q == held[s]  x == accounts[a]
    <3>1. q \in Seq(Account) /\ x \in Account
      BY <1>1
    <3> HIDE DEF q, x
    <3>2. /\ Append(q, x) \in Seq(Account) /\ DOMAIN Append(q, x) = DOMAIN q \cup {Len(q) + 1}
          /\ Append(q, x)[Len(q) + 1] = x
          /\ \A k \in DOMAIN q : Append(q, x)[k] = q[k]
      BY <3>1, Held
    <3> QED BY <2>3, <3>2 DEF q, x
  <2> QED BY <2>1, <2>2, <2>3
<1>4. held' \in [Sessions -> Seq(Account)]
  BY <1>1, <1>3
<1>5. \A t \in Sessions : \A k \in DOMAIN held'[t] :
        (\E j \in DOMAIN held[t] : held'[t][k] = held[t][j]) \/ held'[t][k] = accounts[a]
  BY <1>2, <1>3
<1>6. ASSUME Exact, ~mistaken'
      PROVE  Copies'
  <2>1. FindAccountRecord(accounts[a].accountId, a) /\ Same(accounts[a], accounts[a])
    BY <1>6 DEF Same
  <2>2. \A t \in Sessions : \A k \in DOMAIN held'[t] : \E b \in DOMAIN accounts :
          FindAccountRecord(held'[t][k].accountId, b) /\ Same(held'[t][k], accounts[b])
    BY <1>5, <1>6, <2>1 DEF Exact, Copies
  <2> QED BY <1>1, <2>2 DEF Copies, FindAccountRecord
<1>7. Grown
  BY <1>1, Files, AllSame
<1>8. Kept
  BY <1>1, <1>4, <1>6, <1>7, MoneyBase DEF files, Loose, TypeOK
<1> QED BY <1>4, <1>5, <1>8

LEMMA ReadAccountBase == ASSUME Loose, NEW s \in Sessions, ReadAccount(s) PROVE Kept
<1>1. PICK a \in 1..MaxAccounts :
        /\ FindAccountRecord(accounts[a].accountId, a)
        /\ held' = [held EXCEPT ![s] = <<accounts[a]>>]
  BY DEF ReadAccount
<1>2. a \in DOMAIN accounts
  BY <1>1 DEF FindAccountRecord
<1>3. /\ UNCHANGED <<files, account, mutex, op, audit, granted, crossed, troubles>>
      /\ mistaken' \in BOOLEAN
  BY DEF ReadAccount, marks, Loose, TypeOK
<1> QED BY <1>1, <1>2, <1>3, CopyRead

LEMMA ReadReceiverBase == ASSUME Loose, NEW s \in Sessions, ReadReceiver(s) PROVE Kept
<1>1. PICK a \in DOMAIN accounts :
        /\ held' = [held EXCEPT ![s] = Append(held[s], accounts[a])]
        /\ mistaken' = (mistaken \/ ~FindAccountRecord(accounts[a].accountId, a))
  BY DEF ReadReceiver, Loose, TypeOK
<1>2. UNCHANGED <<files, account, mutex, op, audit, granted, crossed, troubles>>
  BY DEF ReadReceiver, bounds
<1>3. mistaken' \in BOOLEAN /\ (~mistaken' => FindAccountRecord(accounts[a].accountId, a))
  BY <1>1
<1> QED BY <1>1, <1>2, <1>3, CopyRead

\* What updateAccount does with the first of the session's copies.
LEMMA AccountWritten ==
  ASSUME Loose, NEW s \in Sessions, WriteAccount(s)
  PROVE  /\ held' \in [Sessions -> Seq(Account)]
         /\ \A t \in Sessions : \A k \in DOMAIN held'[t] :
              \E j \in DOMAIN held[t] : held'[t][k] = held[t][j]
         /\ accounts' \in Seq(Account) /\ Len(accounts') = Len(accounts)
         /\ \/ accounts' = accounts
            \/ \E a \in DOMAIN accounts, j \in DOMAIN held[s] :
                 /\ FindAccountRecord(held[s][j].accountId, a)
                 /\ accounts'[a] = held[s][j]
                 /\ \A b \in DOMAIN accounts \ {a} : accounts'[b] = accounts[b]
<1>1. /\ TypeOK /\ held \in [Sessions -> Seq(Account)] /\ held[s] \in Seq(Account)
      /\ held[s] # <<>> /\ held' = [held EXCEPT ![s] = Tail(held[s])]
  BY DEF Loose, TypeOK, WriteAccount
<1>2. /\ 1 \in DOMAIN held[s] /\ Head(held[s]) = held[s][1] /\ Head(held[s]) \in Account
      /\ Tail(held[s]) \in Seq(Account)
      /\ \A k \in DOMAIN Tail(held[s]) :
           k + 1 \in DOMAIN held[s] /\ Tail(held[s])[k] = held[s][k + 1]
  BY <1>1, Held
<1>3. /\ held' \in [Sessions -> Seq(Account)]
      /\ \A t \in Sessions : \A k \in DOMAIN held'[t] :
           \E j \in DOMAIN held[t] : held'[t][k] = held[t][j]
  BY <1>1, <1>2
<1>4. CASE accounts' = accounts
  BY <1>1, <1>3, <1>4 DEF TypeOK
<1>5. ASSUME NEW a \in 1..MaxAccounts, FindAccountRecord(Head(held[s]).accountId, a),
             accounts' = [accounts EXCEPT ![a] = Head(held[s])]
      PROVE  /\ accounts' \in Seq(Account) /\ Len(accounts') = Len(accounts)
             /\ a \in DOMAIN accounts /\ accounts'[a] = held[s][1]
             /\ \A b \in DOMAIN accounts \ {a} : accounts'[b] = accounts[b]
  <2>1. a \in DOMAIN accounts
    BY <1>5 DEF FindAccountRecord
  <2> QED BY <1>1, <1>2, <1>5, <2>1, Replaced DEF TypeOK
<1>6. ASSUME NEW a \in 1..MaxAccounts, FindAccountRecord(Head(held[s]).accountId, a),
             accounts' = [accounts EXCEPT ![a] = Head(held[s])]
      PROVE  \E b \in DOMAIN accounts, j \in DOMAIN held[s] :
                 /\ FindAccountRecord(held[s][j].accountId, b)
                 /\ accounts'[b] = held[s][j]
                 /\ \A x \in DOMAIN accounts \ {b} : accounts'[x] = accounts[x]
  BY <1>2, <1>5, <1>6
<1> QED BY <1>3, <1>4, <1>5, <1>6 DEF WriteAccount

\* The copy that is written belongs to the record that it replaces.
LEMMA WrittenGrown == ASSUME Base, NEW s \in Sessions, WriteAccount(s) PROVE Grown
<1>1. Len(accounts) \in Nat /\ DOMAIN accounts = 1..Len(accounts)
  BY Files DEF Base, Loose
<1>2. /\ Len(accounts') = Len(accounts)
      /\ \/ accounts' = accounts
         \/ \E a \in DOMAIN accounts, j \in DOMAIN held[s] :
              /\ FindAccountRecord(held[s][j].accountId, a)
              /\ accounts'[a] = held[s][j]
              /\ \A b \in DOMAIN accounts \ {a} : accounts'[b] = accounts[b]
  BY AccountWritten DEF Base
<1>3. CASE accounts' = accounts
  BY <1>1, <1>3, AllSame
<1>4. ASSUME NEW a \in DOMAIN accounts, NEW j \in DOMAIN held[s],
             FindAccountRecord(held[s][j].accountId, a), accounts'[a] = held[s][j],
             \A b \in DOMAIN accounts \ {a} : accounts'[b] = accounts[b]
      PROVE  Grown
  <2>1. PICK b \in DOMAIN accounts :
          FindAccountRecord(held[s][j].accountId, b) /\ Same(held[s][j], accounts[b])
    BY DEF Base, Exact, Copies
  <2>2. a = b
    BY <1>1, <1>4, <2>1, OneFound
  <2> QED BY <1>1, <1>2, <1>4, <2>1, <2>2 DEF Grown, Same
<1> QED BY <1>2, <1>3, <1>4

LEMMA WriteAccountBase == ASSUME Loose, NEW s \in Sessions, WriteAccount(s) PROVE Kept
<1>1. /\ held' \in [Sessions -> Seq(Account)]
      /\ \A t \in Sessions : \A k \in DOMAIN held'[t] :
           \E j \in DOMAIN held[t] : held'[t][k] = held[t][j]
      /\ accounts' \in Seq(Account) /\ Len(accounts') = Len(accounts)
  BY AccountWritten
<1>2. /\ TypeOK /\ Len(accounts) \in Nat /\ DOMAIN accounts = 1..Len(accounts)
      /\ UNCHANGED <<users, account, mutex, op, audit, marks>> /\ troubles' \in Nat
  BY Files, TroubleTyped DEF Loose, WriteAccount
<1>3. Exact => Grown /\ Copies'
  BY <1>1, <1>2, WrittenGrown, CopiesStay DEF Base, Exact
<1> QED BY <1>1, <1>2, <1>3, MoneyBase DEF marks, TypeOK

LEMMA CrashBase == ASSUME Loose, Crash PROVE Kept
<1>1. op' \in [Sessions -> Op] /\ \A s \in Sessions : op'[s].pc = "menu"
  BY IdleIsOp DEF Crash
<1>2. /\ account' \in [Sessions -> Nat] /\ held' \in [Sessions -> Seq(Account)]
      /\ \A s \in Sessions : DOMAIN held'[s] = {}
  BY EmptySeq DEF Crash
<1>3. /\ users' = users /\ accounts' = accounts /\ booked' = booked /\ raced' = raced
      /\ modified' = modified /\ overlapped' = overlapped /\ late' = late
      /\ granted' = granted /\ crossed' = crossed /\ mistaken' = mistaken
      /\ mutex' = Free /\ troubles' = troubles + 1
  BY DEF Crash, files, marks
<1>4. cut' \subseteq Nat
  <2>1. MaxUsers \in Nat /\ cut \subseteq Nat
    BY UsersAssumption DEF Loose, TypeOK
  <2>2. cut' \subseteq cut \cup 1..MaxUsers
    BY DEF Crash
  <2> QED BY <2>1, <2>2
<1>5. TypeOK'
  BY <1>1, <1>2, <1>3, <1>4 DEF Loose, TypeOK, Op
<1>6. \A s \in Sessions : Firm(s)' /\ Sound(s)'
  BY <1>1 DEF Firm, Sound, At, Editing
<1>7. Loose'
  BY <1>3, <1>5, <1>6 DEF Loose
<1>8. Exact => Exact'
  BY <1>2, <1>3, <1>6 DEF Exact, Ids, Copies
<1> QED BY <1>7, <1>8 DEF Kept

LEMMA InitBase == ASSUME Init PROVE Base
<1>1. /\ users = InitialUsers /\ booked = InitialUsers /\ accounts = InitialAccounts
      /\ mutex = Free /\ op = [s \in Sessions |-> Idle]
      /\ account = [s \in Sessions |-> 0] /\ held = [s \in Sessions |-> <<>>]
      /\ raced = {} /\ modified = {} /\ late = {} /\ cut = {} /\ overlapped = FALSE
      /\ granted = {<<r, InitialUsers[r].role>> : r \in DOMAIN InitialUsers}
      /\ crossed = {} /\ mistaken = FALSE
      /\ troubles = 0
  BY DEF Init
<1>2. /\ users \in Seq(User) /\ users # <<>> /\ Len(users) <= MaxUsers
      /\ accounts \in Seq(Account) /\ accounts # <<>> /\ Len(accounts) <= MaxAccounts
      /\ MaxUsers \in Nat
  BY <1>1, UsersAssumption
<1>3. /\ Len(users) \in Nat /\ Len(accounts) \in Nat /\ Len(users) # 0 /\ Len(accounts) # 0
      /\ DOMAIN users = 1..Len(users) /\ users \in [1..Len(users) -> User]
  BY <1>2, LenProperties, EmptySeq
<1>4. op \in [Sessions -> Op] /\ \A s \in Sessions : op[s].pc = "menu"
  BY <1>1, IdleIsOp
<1>5. /\ account \in [Sessions -> Nat] /\ held \in [Sessions -> Seq(Account)]
      /\ \A s \in Sessions : DOMAIN held[s] = {}
  BY <1>1, EmptySeq
<1>6. granted \subseteq (1..MaxUsers) \X Roles
  <2>1. \A r \in DOMAIN users : r \in 1..MaxUsers /\ users[r].role \in Roles
    BY <1>2, <1>3 DEF User
  <2> QED BY <1>1, <2>1
<1>7. TypeOK
  BY <1>1, <1>2, <1>4, <1>5, <1>6 DEF TypeOK, Op
<1>8. Ids
  BY <1>1, UsersAssumption DEF Ids
<1>9. \A s \in Sessions : Firm(s) /\ Sound(s)
  BY <1>4 DEF Firm, Sound, At, Editing
<1> QED BY <1>1, <1>3, <1>5, <1>7, <1>8, <1>9 DEF Base, Loose, Exact, Copies

LEMMA NextBase == ASSUME Loose, [Next]_vars PROVE Kept
<1>1. CASE UNCHANGED vars
  <2>1. /\ users' = users /\ accounts' = accounts /\ booked' = booked /\ mutex' = mutex
        /\ op' = op /\ raced' = raced /\ modified' = modified /\ cut' = cut /\ late' = late
        /\ overlapped' = overlapped /\ troubles' = troubles /\ account' = account
        /\ held' = held /\ granted' = granted /\ crossed' = crossed /\ mistaken' = mistaken
    BY <1>1 DEF vars, files, money, audit, marks, bounds
  <2>2. TypeOK'
    BY <2>1 DEF Loose, TypeOK
  <2>3. \A s \in Sessions : Firm(s)'
    BY <2>1 DEF Loose, Firm, MayModify
  <2>4. Exact => Exact'
    BY <2>1 DEF Exact, Ids, Copies, FindAccountRecord, Sound, At
  <2> QED BY <2>1, <2>2, <2>3, <2>4 DEF Loose, Kept
<1>2. ASSUME Next
      PROVE  Kept
  BY <1>2, CheckUniqueBase, AbortCreationBase, ReadUserIdBase, AppendUserBase,
     AppendUserFailsBase, BeginAccountBase,
     GenerateNumberBase, ReadAccountIdBase, AppendAccountBase, ReadToModifyBase,
     WriteDetailsBase, ReadToChangeBase, WritePasswordBase, ReadToSetStatusBase,
     WriteStatusBase, OpenAccountsFailsBase, SweepAccountBase, EndSweepBase,
     SelectAccountBase, LeaveAccountBase, ReadAccountBase, ReadReceiverBase, GiveUpBase,
     WriteAccountBase, CrashBase
     DEF Next
<1> QED BY <1>1, <1>2

\* A mistake is never undone.
LEMMA Mistaken == ASSUME [Next]_vars, mistaken PROVE mistaken'
<1>1. CASE UNCHANGED vars
  BY <1>1 DEF vars, marks
<1>2. CASE Crash
  BY <1>2 DEF Crash, marks
<1>3. ASSUME NEW s \in Sessions,
             \/ CheckUnique(s) \/ AbortCreation(s) \/ ReadUserId(s)
             \/ AppendUser(s) \/ AppendUserFails(s)
             \/ BeginAccount(s) \/ GenerateNumber(s) \/ ReadAccountId(s) \/ AppendAccount(s)
      PROVE  mistaken'
  BY <1>3 DEF CheckUnique, AbortCreation, ReadUserId, AppendUser, AppendUserFails,
     BeginAccount, GenerateNumber, ReadAccountId, AppendAccount, Mistake, marks
<1>4. ASSUME NEW s \in Sessions,
             \/ ReadToModify(s) \/ WriteDetails(s) \/ ReadToChange(s) \/ WritePassword(s)
             \/ ReadToSetStatus(s) \/ WriteStatus(s) \/ OpenAccountsFails(s)
             \/ SweepAccount(s) \/ EndSweep(s)
      PROVE  mistaken'
  BY <1>4 DEF ReadToModify, WriteDetails, ReadToChange, WritePassword, ReadToSetStatus,
     WriteStatus, OpenAccountsFails, SweepAccount, EndSweep, marks
<1>5. ASSUME NEW s \in Sessions,
             \/ SelectAccount(s) \/ LeaveAccount(s) \/ ReadAccount(s) \/ ReadReceiver(s)
             \/ GiveUp(s) \/ WriteAccount(s)
      PROVE  mistaken'
  BY <1>5 DEF SelectAccount, LeaveAccount, ReadAccount, ReadReceiver, GiveUp, WriteAccount,
     marks
<1> QED BY <1>1, <1>2, <1>3, <1>4, <1>5 DEF Next

LEMMA LooseInvariant == Spec => []Loose
<1>1. Init => Loose
  BY InitBase DEF Base
<1>2. Loose /\ [Next]_vars => Loose'
  BY NextBase DEF Kept
<1> QED BY <1>1, <1>2, PTL DEF Spec

LEMMA ExactInvariant == Spec => [](mistaken \/ Exact)
<1>1. Init => mistaken \/ Exact
  BY InitBase DEF Base
<1>2. Loose /\ (mistaken \/ Exact) /\ [Next]_vars => (mistaken \/ Exact)'
  BY NextBase, Mistaken DEF Kept
<1> QED BY <1>1, <1>2, LooseInvariant, PTL DEF Spec

\* The files stay within their bounds, and every handler's local variables have
\* the types of the C variables they model.
THEOREM TypeCorrect == Spec => []TypeOK
BY LooseInvariant, PTL DEF Loose

\* handle_add_user reads the next id twice, for the user and for the owner of
\* the account; under create_user_mutex both are the user's position in the
\* file, and every account has a user, while no file that cannot be opened has
\* been taken for an empty one.
THEOREM UserIdsAreExact == Spec => []UserIdsExact
<1>1. Loose /\ (mistaken \/ Exact) => UserIdsExact
  BY NextUserId DEF Base, Exact, Ids, Sound, At, UserIdsExact
<1> QED BY <1>1, LooseInvariant, ExactInvariant, PTL

\* create_user_mutex is held by a session that creates a user, and no path out
\* of handle_add_user keeps it.
THEOREM MutexIsOwned == Spec => []MutexOwned
<1>1. Loose => MutexOwned
  BY DEF Loose, Firm, Creating, MutexOwned
<1> QED BY <1>1, LooseInvariant, PTL

-----------------------------------------------------------------------------
(* Where a step takes its session; the others stay. *)

Alone(s) == \A t \in Sessions \ {s} : op'[t] = op[t]

Finishing(s) ==
  \/ AbortCreation(s) \/ AppendUserFails(s) \/ AppendAccount(s) \/ WriteDetails(s) \/ WritePassword(s)
  \/ OpenAccountsFails(s) \/ EndSweep(s)

LEMMA NewPc ==
  ASSUME Loose, NEW s \in Sessions
  PROVE  /\ CheckUnique(s) => op'[s].pc \in {"inUse", "userId"} /\ Alone(s)
         /\ ReadUserId(s) => /\ op[s].pc = "userId" /\ op'[s].pc = "addUser" /\ Alone(s)
                             /\ op'[s].user = op[s].user
         /\ BeginAccount(s) => op[s].pc = "menu" /\ op'[s].pc = "number" /\ Alone(s)
         /\ GenerateNumber(s) => /\ op'[s].pc = "accountId" /\ Alone(s)
                                 /\ op'[s].owner = op[s].owner
         /\ ReadAccountId(s) => /\ op'[s].pc = "addAccount" /\ Alone(s)
                                /\ op'[s].owner = op[s].owner
         /\ ReadToModify(s) \/ ReadToChange(s) \/ ReadToSetStatus(s) =>
              op[s].pc = "menu" /\ op'[s].pc \in Editing /\ Alone(s)
         /\ WriteStatus(s) => op[s].pc = "status" /\ op'[s].pc = "scan" /\ Alone(s)
         /\ SweepAccount(s) => op[s].pc = "scan" /\ op'[s].pc = "scan" /\ Alone(s)
         /\ AppendUser(s) => op'[s].pc \in {"menu", "number"} /\ Alone(s)
         /\ Finishing(s) => op'[s].pc = "menu" /\ Alone(s)
<1>1. op \in [Sessions -> Op]
  BY DEF Loose, TypeOK, Op
<1>2. ASSUME CheckUnique(s)
      PROVE  op'[s].pc \in {"inUse", "userId"} /\ Alone(s)
  BY <1>1, <1>2, Checked DEF Alone
<1>3. ASSUME BeginAccount(s)
      PROVE  op[s].pc = "menu" /\ op'[s].pc = "number" /\ Alone(s)
  BY <1>1, <1>3, IdleIsOp DEF BeginAccount, Begin, At, Op, Alone
<1>4. ASSUME GenerateNumber(s)
      PROVE  op'[s].pc = "accountId" /\ Alone(s) /\ op'[s].owner = op[s].owner
  BY <1>1, <1>4, NextRead DEF Alone
<1>5. ASSUME ReadAccountId(s)
      PROVE  op'[s].pc = "addAccount" /\ Alone(s) /\ op'[s].owner = op[s].owner
  BY <1>1, <1>5, NextRead DEF Alone
<1>6. ASSUME ReadToModify(s) \/ ReadToChange(s) \/ ReadToSetStatus(s)
      PROVE  op[s].pc = "menu" /\ op'[s].pc \in Editing /\ Alone(s)
  <2>1. PICK pc \in Editing : \E id, r : GetUser(s, pc, id, r)
    BY <1>6 DEF ReadToModify, ReadToChange, ReadToSetStatus, Editing
  <2>2. PICK id, r : GetUser(s, pc, id, r)
    BY <2>1
  <2>3. At(s, "menu")
    BY <1>6 DEF ReadToModify, ReadToChange, ReadToSetStatus, Begin
  <2> QED BY <1>1, <2>2, <2>3, UserRead DEF At, Alone
<1>7. ASSUME WriteStatus(s)
      PROVE  op[s].pc = "status" /\ op'[s].pc = "scan" /\ Alone(s)
  BY <1>1, <1>7 DEF WriteStatus, At, Op, Alone
<1>8. ASSUME SweepAccount(s)
      PROVE  op[s].pc = "scan" /\ op'[s].pc = "scan" /\ Alone(s)
  <2>1. op[s].pc = "scan" /\ op'[s].pc = "scan" /\ op' = [op EXCEPT ![s] = op'[s]]
    BY <1>8, AccountSwept
  <2> QED BY <1>1, <2>1 DEF Alone
<1>9. ASSUME AppendUser(s)
      PROVE  op'[s].pc \in {"menu", "number"} /\ Alone(s)
  <2>1. op' = [op EXCEPT ![s].pc = "number"] \/ Finish(s)
    BY <1>9 DEF AppendUser, Goto
  <2> QED BY <1>1, <2>1, ToMenu DEF Op, Alone
<1>10. ASSUME Finishing(s)
       PROVE  op'[s].pc = "menu" /\ Alone(s)
  <2>1. Finish(s)
    BY <1>10 DEF Finishing, AbortCreation, AppendUserFails, AppendAccount, WriteDetails, WritePassword,
       OpenAccountsFails, EndSweep
  <2> QED BY <1>1, <2>1, ToMenu DEF Alone
<1>11. ASSUME ReadUserId(s)
       PROVE  /\ op[s].pc = "userId" /\ op'[s].pc = "addUser" /\ Alone(s)
              /\ op'[s].user = op[s].user
  BY <1>1, <1>11, NextRead DEF Alone
<1> QED BY <1>2, <1>3, <1>4, <1>5, <1>6, <1>7, <1>8, <1>9, <1>10, <1>11

Banking(s) ==
  \/ SelectAccount(s) \/ LeaveAccount(s) \/ ReadAccount(s) \/ ReadReceiver(s)
  \/ GiveUp(s) \/ WriteAccount(s)

\* The handlers that move money change accounts, and of these only the status.
LEMMA MoneyMoves ==
  ASSUME Loose, NEW s \in Sessions, Banking(s)
  PROVE  /\ UNCHANGED <<users, mutex, op, audit, granted, crossed>>
         /\ troubles' = troubles \/ Fault
         /\ accounts' \in Seq(Account) /\ DOMAIN accounts' = DOMAIN accounts
         /\ Exact => Grown
<1>1. TypeOK /\ DOMAIN accounts = 1..Len(accounts) /\ Len(accounts) \in Nat
  BY Files DEF Loose
<1>2. CASE WriteAccount(s)
  <2>1. accounts' \in Seq(Account) /\ Len(accounts') = Len(accounts) /\ (Exact => Grown)
    BY <1>2, AccountWritten, WrittenGrown DEF Base
  <2>2. DOMAIN accounts' = DOMAIN accounts
    BY <1>1, <2>1, LenProperties
  <2> QED BY <1>2, <2>1, <2>2 DEF WriteAccount, marks
<1>3. CASE SelectAccount(s) \/ LeaveAccount(s) \/ ReadAccount(s) \/ ReadReceiver(s) \/ GiveUp(s)
  <2>1. /\ UNCHANGED <<users, mutex, op, audit, granted, crossed>>
        /\ troubles' = troubles /\ accounts' = accounts
    BY <1>3 DEF SelectAccount, LeaveAccount, ReadAccount, ReadReceiver, GiveUp, files, marks,
       bounds
  <2> QED BY <1>1, <2>1, AllSame DEF TypeOK
<1> QED BY <1>2, <1>3 DEF Banking

-----------------------------------------------------------------------------
(* How users change: a handler reads one, writes one back, adds one, or does *)
(* neither.                                                                  *)

Reading(s, pc, r) ==
  /\ At(s, "menu") /\ pc \in Editing
  /\ \E id \in 1..MaxUsers : GetUser(s, pc, id, r)
  /\ UNCHANGED <<files, mutex, booked, modified, overlapped, late, cut, marks, troubles>>

\* Contact and role only change where modified says so, the status only in a
\* handler that goes on to the accounts.
Writing(s, c) ==
  /\ op[s].pc \in Editing /\ c \in Changes /\ UpdateUser(s, c)
  /\ op'[s].pc \in {"menu", "scan"} /\ \A t \in Sessions \ {s} : op'[t] = op[t]
  /\ modified' = modified \cup {op[s].row} \/
       (modified' = modified /\ c.contact = Skip /\ c.role = Skip)
  /\ c.isActive = Skip <=> op[s].pc # "status"
  /\ op[s].pc = "status" <=> op'[s].pc = "scan"
  /\ op[s].pc # "status" => cut' = cut
  /\ granted \subseteq granted' /\ (c.role # Skip => <<op[s].row, c.role>> \in granted')
  /\ UNCHANGED <<accounts, mutex, raced, overlapped, late, troubles>>

\* No copy of a user appears, and no user changes.
Still ==
  /\ UNCHANGED <<users, booked, raced, modified, granted>>
  /\ \A t \in Sessions : op'[t].pc \in Editing => op'[t] = op[t]

LEMMA ToMenuStill ==
  ASSUME Loose, NEW s \in Sessions, Finish(s),
         UNCHANGED <<users, booked, raced, modified, granted>>
  PROVE  Still
<1>1. op'[s].pc = "menu" /\ \A t \in Sessions \ {s} : op'[t] = op[t]
  BY ToMenu DEF Loose, TypeOK
<1> QED BY <1>1 DEF Still, Editing

LEMMA NoChanges ==
  /\ \A p \in TypedPasswords :
       /\ [NoChange EXCEPT !.password = p].contact = Skip
       /\ [NoChange EXCEPT !.password = p].role = Skip
       /\ [NoChange EXCEPT !.password = p].isActive = Skip
  /\ \A b \in BOOLEAN :
       /\ [NoChange EXCEPT !.isActive = b].contact = Skip
       /\ [NoChange EXCEPT !.isActive = b].role = Skip
       /\ [NoChange EXCEPT !.isActive = b].isActive = b
BY DEF NoChange

LEMMA UserMoves ==
  ASSUME Loose, [Next]_vars
  PROVE  \/ \E s \in Sessions, pc \in Editing, r \in 1..MaxUsers : Reading(s, pc, r)
         \/ \E s \in Sessions, c \in Changes : Writing(s, c)
         \/ \E s \in Sessions : AppendUser(s)
         \/ Still
<1>1. TypeOK /\ op \in [Sessions -> Op]
  BY DEF Loose, TypeOK, Op
<1>2. CASE UNCHANGED vars
  BY <1>2 DEF vars, files, audit, marks, Still
<1>3. CASE Crash
  <2>1. \A t \in Sessions : op'[t].pc = "menu"
    BY <1>3, IdleIsOp DEF Crash
  <2> QED BY <1>3, <2>1 DEF Crash, files, marks, Still, Editing
<1>4. ASSUME NEW s \in Sessions, ReadToModify(s) \/ ReadToChange(s) \/ ReadToSetStatus(s)
      PROVE  \E pc \in Editing, r \in 1..MaxUsers : Reading(s, pc, r)
  <2>1. CASE ReadToModify(s)
    <3>1. "modify" \in Editing
      BY DEF Editing
    <3>2. PICK id \in 1..MaxUsers, r \in 1..MaxUsers : GetUser(s, "modify", id, r)
      BY <2>1 DEF ReadToModify
    <3>3. Reading(s, "modify", r)
      BY <2>1, <3>1, <3>2 DEF ReadToModify, Begin, Reading
    <3> QED BY <3>1, <3>3
  <2>2. CASE ReadToChange(s)
    <3>1. "password" \in Editing /\ s \in 1..MaxUsers
      <4>1. InitialUsers \in Seq(User) /\ Sessions \subseteq DOMAIN InitialUsers
            /\ Len(InitialUsers) <= MaxUsers /\ MaxUsers \in Nat
        BY UsersAssumption
      <4>2. Len(InitialUsers) \in Nat /\ DOMAIN InitialUsers = 1..Len(InitialUsers)
        BY <4>1, LenProperties
      <4> QED BY <4>1, <4>2 DEF Editing
    <3>2. PICK r \in 1..MaxUsers : GetUser(s, "password", s, r)
      BY <2>2 DEF ReadToChange
    <3>3. Reading(s, "password", r)
      BY <2>2, <3>1, <3>2 DEF ReadToChange, Begin, Reading
    <3> QED BY <3>1, <3>3
  <2>3. CASE ReadToSetStatus(s)
    <3>1. "status" \in Editing
      BY DEF Editing
    <3>2. PICK id \in 1..MaxUsers, r \in 1..MaxUsers : GetUser(s, "status", id, r)
      BY <2>3 DEF ReadToSetStatus
    <3>3. Reading(s, "status", r)
      BY <2>3, <3>1, <3>2 DEF ReadToSetStatus, Begin, Reading
    <3> QED BY <3>1, <3>3
  <2> QED BY <1>4, <2>1, <2>2, <2>3
<1>5. ASSUME NEW s \in Sessions, WriteDetails(s) \/ WritePassword(s)
      PROVE  (\E c \in Changes : Writing(s, c)) \/ Still
  <2>1. /\ op[s].pc \in Editing /\ op[s].pc # "status" /\ Finish(s)
        /\ op'[s].pc = "menu" /\ \A t \in Sessions \ {s} : op'[t] = op[t]
        /\ UNCHANGED <<accounts, mutex, raced, overlapped, late, cut>>
        /\ op[s].row \in DOMAIN users
    BY <1>1, <1>5, ToMenu DEF Loose, Firm, WriteDetails, WritePassword, At, Editing
  <2>2. CASE WriteDetails(s)
    <3>1. CASE UNCHANGED <<users, booked, modified, granted>>
      BY <2>1, <3>1, ToMenuStill
    <3>2. ASSUME NEW c \in Changes, c.isActive = Skip, UpdateUser(s, c),
                 c.role # Skip => MayGiveRole(s), Give(s, op[s].row, c.role),
                 modified' = modified \cup {op[s].row}, UNCHANGED troubles
          PROVE  Writing(s, c)
      BY <2>1, <3>2 DEF Writing, Give, MayGiveRole
    <3> QED BY <2>2, <3>1, <3>2 DEF WriteDetails
  <2>3. CASE WritePassword(s)
    <3>1. CASE UNCHANGED <<users, booked>>
      BY <2>1, <2>3, <3>1, ToMenuStill DEF WritePassword, marks
    <3>2. ASSUME NEW p \in TypedPasswords, UpdateUser(s, [NoChange EXCEPT !.password = p]),
                 UNCHANGED troubles
          PROVE  \E c \in Changes : Writing(s, c)
      <4> DEFINE c == [NoChange EXCEPT !.password = p]
      <4>1. c \in Changes /\ c.contact = Skip /\ c.role = Skip /\ c.isActive = Skip
        BY OneChange, NoChanges
      <4>2. UpdateUser(s, c)
        BY <3>2
      <4> HIDE DEF c
      <4>3. Writing(s, c)
        BY <2>1, <2>3, <3>2, <4>1, <4>2 DEF Writing, WritePassword, marks
      <4> QED BY <4>1, <4>3
    <3> QED BY <2>3, <3>1, <3>2 DEF WritePassword
  <2> QED BY <1>5, <2>2, <2>3
<1>6. ASSUME NEW s \in Sessions, WriteStatus(s)
      PROVE  (\E c \in Changes : Writing(s, c)) \/ Still
  <2>1. /\ op[s].pc = "status" /\ op[s].pc \in Editing
        /\ op'[s].pc = "scan" /\ \A t \in Sessions \ {s} : op'[t] = op[t]
        /\ UNCHANGED <<accounts, mutex, raced, modified, overlapped, late, granted>>
    BY <1>1, <1>6, NewPc DEF WriteStatus, marks, Editing, Alone
  <2>2. CASE UNCHANGED <<users, booked>>
    BY <2>1, <2>2 DEF Still, Editing
  <2>3. ASSUME NEW b \in BOOLEAN, UpdateUser(s, [NoChange EXCEPT !.isActive = b]),
               UNCHANGED troubles
        PROVE  \E c \in Changes : Writing(s, c)
    <3> DEFINE c == [NoChange EXCEPT !.isActive = b]
    <3>1. c \in Changes /\ c.contact = Skip /\ c.role = Skip /\ c.isActive # Skip
      BY OneChange, NoChanges, UsersAssumption
    <3>2. UpdateUser(s, c)
      BY <2>3
    <3> HIDE DEF c
    <3>3. Writing(s, c)
      BY <2>1, <2>3, <3>1, <3>2 DEF Writing
    <3> QED BY <3>1, <3>3
  <2> QED BY <1>6, <2>2, <2>3 DEF WriteStatus
<1>7. ASSUME NEW s \in Sessions,
             \/ CheckUnique(s) \/ ReadUserId(s) \/ BeginAccount(s) \/ GenerateNumber(s)
             \/ ReadAccountId(s) \/ SweepAccount(s)
      PROVE  Still
  <2>1. UNCHANGED <<users, booked, raced, modified, granted>>
    BY <1>7 DEF CheckUnique, ReadUserId, BeginAccount, GenerateNumber, ReadAccountId,
       SweepAccount, files, audit, marks
  <2>2. op'[s].pc \in Creating \cup {"scan"} /\ Alone(s)
    BY <1>7, NewPc DEF Creating
  <2> QED BY <2>1, <2>2 DEF Still, Editing, Creating, Alone
<1>8. ASSUME NEW s \in Sessions,
             \/ AbortCreation(s) \/ AppendUserFails(s) \/ AppendAccount(s)
             \/ OpenAccountsFails(s) \/ EndSweep(s)
      PROVE  Still
  BY <1>8, ToMenuStill
     DEF AbortCreation, AppendUserFails, AppendAccount, OpenAccountsFails, EndSweep, files,
         audit, marks
<1>9. ASSUME NEW s \in Sessions, Banking(s)
      PROVE  Still
  BY <1>9, MoneyMoves DEF audit, Still
<1> QED BY <1>2, <1>3, <1>4, <1>5, <1>6, <1>7, <1>8, <1>9 DEF Next, Banking

-----------------------------------------------------------------------------
(* Races *)

\* What addUser appends to the file and to the history.
LEMMA UserAppended ==
  ASSUME Loose, NEW s \in Sessions, AppendUser(s)
  PROVE  /\ op[s].pc = "addUser" /\ mutex = s
         /\ Exact => op[s].owner = Len(users) + 1
         /\ Len(users) \in Nat /\ Len(users) + 1 \notin DOMAIN users
         /\ op[s].user \in User
         /\ DOMAIN users' = DOMAIN users \cup {Len(users) + 1}
         /\ \A r \in DOMAIN users : users'[r] = users[r] /\ booked'[r] = booked[r]
         /\ users'[Len(users) + 1].contact = op[s].user.contact
         /\ users'[Len(users) + 1].role = op[s].user.role
         /\ booked'[Len(users) + 1] = users'[Len(users) + 1]
         /\ granted' = granted \cup {<<Len(users) + 1, op[s].user.role>>}
         /\ op'[s].pc \in {"menu", "number"} /\ \A t \in Sessions \ {s} : op'[t] = op[t]
         /\ op[s].user.role = "CUSTOMER" <=> op'[s].pc = "number"
         /\ op'[s].pc = "number" => op'[s].owner = op[s].owner /\ mutex' = mutex
         /\ op'[s].pc = "menu" => mutex' = Free
         /\ UNCHANGED <<accounts, held, raced, modified, overlapped, late, cut, crossed>>
         /\ troubles' = troubles \/ mistaken'
<1>1. /\ TypeOK /\ op \in [Sessions -> Op] /\ Firm(s) /\ op[s].pc = "addUser"
      /\ Len(users) \in Nat /\ DOMAIN users = 1..Len(users)
      /\ DOMAIN booked = DOMAIN users /\ Len(booked) = Len(users)
      /\ users \in Seq(User) /\ booked \in Seq(User)
  BY Files DEF Loose, TypeOK, Op, AppendUser, At
<1>2. mutex = s /\ op[s].user \in User /\ (Exact => op[s].owner = Len(users) + 1)
  BY <1>1 DEF Firm, Op, Exact, Sound, At
<1>3. PICK id \in {GetNextUserId, First} :
        /\ users' = Append(users, [op[s].user EXCEPT !.userId = id])
        /\ booked' = Append(booked, [op[s].user EXCEPT !.userId = id])
        /\ troubles' = troubles \/ mistaken'
  BY DEF AppendUser, Mistake
<1> DEFINE user == [op[s].user EXCEPT !.userId = id]
<1>4. user \in User /\ user.contact = op[s].user.contact /\ user.role = op[s].user.role
  <2>1. id \in Nat
    BY <1>1, Files DEF Loose, GetNextUserId, First, User
  <2> QED BY <1>2, <2>1 DEF User
<1>5. users' = Append(users, user) /\ booked' = Append(booked, user)
  BY <1>3
<1> HIDE DEF user
<1>6. /\ DOMAIN users' = DOMAIN users \cup {Len(users) + 1}
      /\ \A r \in DOMAIN users : users'[r] = users[r] /\ booked'[r] = booked[r]
      /\ users'[Len(users) + 1] = user /\ booked'[Len(users) + 1] = user
  <2>1. /\ DOMAIN users' = DOMAIN users \cup {Len(users) + 1}
        /\ \A r \in DOMAIN users : users'[r] = users[r]
        /\ users'[Len(users) + 1] = user
    BY <1>1, <1>4, <1>5, Extended
  <2>2. /\ \A r \in DOMAIN booked : booked'[r] = booked[r]
        /\ booked'[Len(booked) + 1] = user
    BY <1>1, <1>4, <1>5, Extended
  <2> QED BY <1>1, <2>1, <2>2
<1>7. /\ granted' = granted \cup {<<Len(users) + 1, op[s].user.role>>}
      /\ UNCHANGED <<accounts, held, raced, modified, overlapped, late, cut, crossed>>
  BY DEF AppendUser, money
<1>8. Len(users) + 1 \notin DOMAIN users
  BY <1>1
<1>9. CASE op[s].user.role = "CUSTOMER"
  <2>1. op' = [op EXCEPT ![s].pc = "number"] /\ mutex' = mutex
    BY <1>9 DEF AppendUser, Goto
  <2>2. /\ op'[s].pc = "number" /\ op'[s].owner = op[s].owner
        /\ \A t \in Sessions \ {s} : op'[t] = op[t]
    BY <1>1, <2>1 DEF Op
  <2> QED BY <1>1, <1>2, <1>3, <1>4, <1>6, <1>7, <1>8, <1>9, <2>1, <2>2
<1>10. CASE op[s].user.role # "CUSTOMER"
  <2>1. op'[s].pc = "menu" /\ (\A t \in Sessions \ {s} : op'[t] = op[t]) /\ mutex' = Free
    BY <1>1, <1>2, <1>10, ToMenu DEF AppendUser, Unlock
  <2> QED BY <1>1, <1>2, <1>3, <1>4, <1>6, <1>7, <1>8, <1>10, <2>1
<1> QED BY <1>9, <1>10

LEMMA InitRaces == ASSUME Init PROVE Races
BY IdleIsOp DEF Init, Races, UnracedExact, Editing

LEMMA NextRaces == ASSUME Loose, Races, [Next]_vars PROVE Races'
<1>1. TypeOK /\ op \in [Sessions -> Op] /\ \A r \in DOMAIN users : users[r] \in User
  BY Files DEF Loose, TypeOK, Op
<1>2. ASSUME NEW s \in Sessions, NEW pc \in Editing, NEW r \in 1..MaxUsers, Reading(s, pc, r)
      PROVE  Races'
  <2>1. PICK id \in 1..MaxUsers : GetUser(s, pc, id, r)
    BY <1>2 DEF Reading
  <2>2. /\ op'[s].pc = pc /\ op'[s].user = users[r] /\ op'[s].row = r
        /\ \A t \in Sessions \ {s} : op'[t] = op[t]
    BY <1>1, <2>1, UserRead
  <2>3. /\ raced' = IF \E t \in Sessions \ {s} : op[t].pc \in Editing /\ op[t].row = r
                      THEN raced \cup {r} ELSE raced
        /\ UNCHANGED <<users, booked>>
    BY <1>2, <2>1 DEF GetUser, Reading, files
  <2>4. raced \subseteq raced'
    BY <2>3
  <2>5. ASSUME NEW t \in Sessions, NEW u \in Sessions, t # u,
               op'[t].pc \in Editing, op'[u].pc \in Editing, op'[t].row = op'[u].row
        PROVE  op'[t].row \in raced'
    <3>1. CASE t # s /\ u # s
      BY <2>2, <2>4, <2>5, <3>1 DEF Races
    <3>2. CASE t = s \/ u = s
      BY <2>2, <2>3, <2>5, <3>2
    <3> QED BY <3>1, <3>2
  <2>6. ASSUME NEW t \in Sessions, op'[t].pc \in Editing, op'[t].row \notin raced'
        PROVE  op'[t].user = users'[op'[t].row]
    BY <2>2, <2>3, <2>4, <2>6 DEF Races
  <2>7. UnracedExact'
    BY <2>3, <2>4 DEF Races, UnracedExact
  <2> QED BY <2>5, <2>6, <2>7 DEF Races
<1>3. ASSUME NEW s \in Sessions, NEW c \in Changes, Writing(s, c)
      PROVE  Races'
  <2>1. /\ op[s].pc \in Editing /\ op'[s].pc \notin Editing
        /\ \A t \in Sessions \ {s} : op'[t] = op[t]
        /\ raced' = raced
    BY <1>3 DEF Writing, Editing
  <2>2. /\ op[s].row \in DOMAIN users /\ DOMAIN users' = DOMAIN users
        /\ users'[op[s].row] = Apply(c, op[s].user)
        /\ \A r \in DOMAIN users \ {op[s].row} : users'[r] = users[r]
        /\ booked'[op[s].row] = Apply(c, booked[op[s].row])
        /\ \A r \in DOMAIN users \ {op[s].row} : booked'[r] = booked[r]
    BY <1>3, UserUpdated DEF Writing
  <2>3. ASSUME NEW t \in Sessions, op'[t].pc \in Editing, op'[t].row \notin raced'
        PROVE  op'[t].user = users'[op'[t].row]
    <3>1. t # s /\ op'[t] = op[t] /\ op[t].row # op[s].row /\ op[t].user = users[op[t].row]
      BY <2>1, <2>3 DEF Races
    <3>2. op[t].row \in DOMAIN users
      BY <2>3, <3>1 DEF Loose, Firm
    <3> QED BY <2>2, <3>1, <3>2
  <2>4. UnracedExact'
    BY <2>1, <2>2 DEF Races, UnracedExact
  <2> QED BY <2>1, <2>3, <2>4 DEF Races
<1>4. ASSUME NEW s \in Sessions, AppendUser(s)
      PROVE  Races'
  <2>1. /\ op'[s].pc \notin Editing /\ \A t \in Sessions \ {s} : op'[t] = op[t]
        /\ DOMAIN users' = DOMAIN users \cup {Len(users) + 1}
        /\ \A r \in DOMAIN users : users'[r] = users[r] /\ booked'[r] = booked[r]
        /\ booked'[Len(users) + 1] = users'[Len(users) + 1]
        /\ raced' = raced
    BY <1>4, UserAppended DEF Editing
  <2>2. \A t \in Sessions : op[t].pc \in Editing => op[t].row \in DOMAIN users
    BY DEF Loose, Firm
  <2> QED BY <2>1, <2>2 DEF Races, UnracedExact
<1>5. CASE Still
  BY <1>5 DEF Still, Races, UnracedExact
<1> QED BY <1>2, <1>3, <1>4, <1>5, UserMoves

LEMMA RacesInvariant == Spec => []Races
BY LooseInvariant, InitRaces, NextRaces, PTL DEF Spec

\* Each handler writes back the whole record it read before its prompts; a user
\* on whom no two handlers worked at once is still what the written changes
\* made him.
THEOREM UnracedAreExact == Spec => []UnracedExact
BY RacesInvariant, PTL DEF Races

LEMMA InitGiven == ASSUME Init PROVE Given
BY IdleIsOp DEF Init, Given, Editing

LEMMA NextGiven == ASSUME Loose, Given, [Next]_vars PROVE Given'
<1>1. op \in [Sessions -> Op] /\ \A s \in Sessions : op[s].user \in User
  BY DEF Loose, TypeOK, Op
<1>2. ASSUME NEW s \in Sessions, NEW pc \in Editing, NEW r \in 1..MaxUsers, Reading(s, pc, r)
      PROVE  Given'
  <2>1. PICK id \in 1..MaxUsers : GetUser(s, pc, id, r)
    BY <1>2 DEF Reading
  <2>2. /\ r \in DOMAIN users /\ op'[s].user = users[r] /\ op'[s].row = r
        /\ \A t \in Sessions \ {s} : op'[t] = op[t]
    BY <1>1, <2>1, UserRead
  <2>3. users' = users /\ granted' = granted
    BY <1>2 DEF Reading, files, marks
  <2> QED BY <2>2, <2>3 DEF Given
<1>3. ASSUME NEW s \in Sessions, NEW c \in Changes, Writing(s, c)
      PROVE  Given'
  <2>1. /\ op[s].pc \in Editing /\ op'[s].pc \notin Editing
        /\ \A t \in Sessions \ {s} : op'[t] = op[t]
        /\ granted \subseteq granted' /\ (c.role # Skip => <<op[s].row, c.role>> \in granted')
    BY <1>3 DEF Writing, Editing
  <2>2. /\ op[s].row \in DOMAIN users /\ DOMAIN users' = DOMAIN users
        /\ users'[op[s].row] = Apply(c, op[s].user)
        /\ \A r \in DOMAIN users \ {op[s].row} : users'[r] = users[r]
    BY <1>3, UserUpdated DEF Writing
  <2>3. users'[op[s].row].role = IF c.role = Skip THEN op[s].user.role ELSE c.role
    BY <1>1, <2>2, ApplyUser
  <2>4. <<op[s].row, op[s].user.role>> \in granted
    BY <2>1 DEF Given
  <2>5. <<op[s].row, users'[op[s].row].role>> \in granted'
    BY <2>1, <2>3, <2>4
  <2> QED BY <2>1, <2>2, <2>5 DEF Given
<1>4. ASSUME NEW s \in Sessions, AppendUser(s)
      PROVE  Given'
  <2>1. /\ op'[s].pc \notin Editing /\ \A t \in Sessions \ {s} : op'[t] = op[t]
        /\ DOMAIN users' = DOMAIN users \cup {Len(users) + 1}
        /\ \A r \in DOMAIN users : users'[r] = users[r]
        /\ users'[Len(users) + 1].role = op[s].user.role
        /\ granted' = granted \cup {<<Len(users) + 1, op[s].user.role>>}
    BY <1>4, UserAppended DEF Editing
  <2> QED BY <2>1 DEF Given
<1>5. CASE Still
  BY <1>5 DEF Still, Given
<1> QED BY <1>2, <1>3, <1>4, <1>5, UserMoves

\* Handlers write back whole records of users, the role included, as they read
\* them before their prompts; even so nobody gets a role that he was not created
\* with and no administrator gave him (employee.c asks for it in admin_mode
\* only), and staff only have customers, or former ones, in hand.
THEOREM RolesAreGranted == Spec => []RolesGranted
<1>1. Init => Given
  BY InitGiven
<1>2. Loose /\ Given /\ [Next]_vars => Given'
  BY NextGiven
<1>3. Loose /\ Given => RolesGranted
  BY UsersAssumption DEF Loose, Firm, Given, MayModify, Editing, RolesGranted, Sessions
<1> QED BY <1>1, <1>2, <1>3, LooseInvariant, PTL DEF Spec

-----------------------------------------------------------------------------
(* Numbers of accounts *)

LEMMA InitNumbers == ASSUME Init PROVE Numbers
BY IdleIsOp, UsersAssumption DEF Init, Numbers, AccountIdsUntilOverlap, At

\* Only the ids and numbers of the accounts and the handlers that read them matter.
LEMMA NumbersStill ==
  ASSUME Numbers, ~mistaken, Len(accounts) \in Nat, DOMAIN accounts = 1..Len(accounts),
         accounts' \in Seq(Account), DOMAIN accounts' = DOMAIN accounts, Grown,
         UNCHANGED overlapped,
         \A t \in Sessions : op'[t].pc \in {"accountId", "addAccount"} => op'[t] = op[t]
  PROVE  Numbers'
<1>1. Len(accounts') = Len(accounts)
  <2>1. Len(accounts') \in Nat /\ DOMAIN accounts' = 1..Len(accounts')
    BY LenProperties
  <2> QED BY <2>1
<1>2. \A a \in DOMAIN accounts :
        /\ accounts'[a].accountId = accounts[a].accountId
        /\ accounts'[a].accountNumber = accounts[a].accountNumber
  BY DEF Grown, Same
<1> QED BY <1>1, <1>2 DEF Numbers, AccountIdsUntilOverlap, At

LEMMA NumbersSame ==
  ASSUME Base, Numbers, ~mistaken, UNCHANGED <<accounts, overlapped>>,
         \A t \in Sessions : op'[t].pc \in {"accountId", "addAccount"} => op'[t] = op[t]
  PROVE  Numbers'
<1>1. /\ accounts \in Seq(Account) /\ Len(accounts) \in Nat
      /\ DOMAIN accounts = 1..Len(accounts)
  BY Files DEF Base, Loose, TypeOK
<1>2. Grown
  BY <1>1, AllSame
<1> QED BY <1>1, <1>2, NumbersStill

LEMMA NextNumbers ==
  ASSUME Base, ~mistaken, ~mistaken', Numbers, [Next]_vars PROVE Numbers'
<1>1. /\ TypeOK /\ op \in [Sessions -> Op]
      /\ Len(accounts) \in Nat /\ DOMAIN accounts = 1..Len(accounts)
      /\ Len(accounts) \in DOMAIN accounts
  <2>1. Len(accounts) \in Nat /\ DOMAIN accounts = 1..Len(accounts) /\ Len(accounts) > 0
    BY Files DEF Base, Loose
  <2> QED BY <2>1 DEF Base, Loose, TypeOK, Op
<1>2. ASSUME NEW s \in Sessions, GenerateNumber(s)
      PROVE  Numbers'
  <2>1. /\ op'[s].pc = "accountId" /\ op'[s].number = NewAccountNumber
        /\ \A t \in Sessions \ {s} : op'[t] = op[t]
        /\ UNCHANGED <<accounts, overlapped>>
    BY <1>1, <1>2, NextRead DEF Base, files, audit
  <2>2. ~overlapped => NewAccountNumber = Len(accounts) + 1
    BY <1>1 DEF Numbers, AccountIdsUntilOverlap, NewAccountNumber
  <2> QED BY <2>1, <2>2 DEF Numbers, AccountIdsUntilOverlap, At
<1>3. ASSUME NEW s \in Sessions, ReadAccountId(s)
      PROVE  Numbers'
  <2>1. /\ op[s].pc = "accountId" /\ op'[s].pc = "addAccount"
        /\ op'[s].id = GetNextAccountId /\ op'[s].number = op[s].number
        /\ \A t \in Sessions \ {s} : op'[t] = op[t]
        /\ UNCHANGED <<accounts, overlapped>>
    BY <1>1, <1>3, NextRead DEF Base, files, audit
  <2>2. ~overlapped => GetNextAccountId = Len(accounts) + 1
    BY <1>1 DEF Numbers, AccountIdsUntilOverlap, GetNextAccountId
  <2> QED BY <2>1, <2>2 DEF Numbers, AccountIdsUntilOverlap, At
<1>4. ASSUME NEW s \in Sessions, AppendAccount(s)
      PROVE  Numbers'
  <2>1. /\ op[s].pc = "addAccount" /\ op'[s].pc = "menu"
        /\ \A t \in Sessions \ {s} : op'[t] = op[t]
    BY <1>1, <1>4, ToMenu DEF Base, AppendAccount, At
  <2>2. CASE UNCHANGED <<accounts, overlapped>>
    BY <2>1, <2>2, NumbersSame
  <2>3. CASE /\ accounts' = Append(accounts, NewAccount(s))
             /\ overlapped' = (overlapped \/ \E t \in Sessions \ {s} :
                                               op[t].pc \in {"accountId", "addAccount"})
    <3>1. /\ DOMAIN accounts' = DOMAIN accounts \cup {Len(accounts) + 1}
          /\ accounts'[Len(accounts) + 1] = NewAccount(s)
          /\ \A a \in DOMAIN accounts : accounts'[a] = accounts[a]
      BY <2>3, AccountAppended DEF Base
    <3>2. SUFFICES ASSUME ~overlapped'
                   PROVE  /\ \A t \in Sessions : op'[t].pc \notin {"accountId", "addAccount"}
                          /\ AccountIdsUntilOverlap'
      BY DEF Numbers, At
    <3>3. ~overlapped /\ \A t \in Sessions \ {s} : op[t].pc \notin {"accountId", "addAccount"}
      BY <2>3, <3>2
    <3>4. op[s].id = Len(accounts) + 1 /\ op[s].number = Len(accounts) + 1
      BY <2>1, <3>3 DEF Numbers, At
    <3> QED BY <2>1, <3>1, <3>3, <3>4 DEF Numbers, AccountIdsUntilOverlap, NewAccount
  <2> QED BY <1>4, <2>2, <2>3 DEF AppendAccount, NewAccount
<1>5. ASSUME NEW s \in Sessions, SweepAccount(s)
      PROVE  Numbers'
  <2>1. /\ op' = [op EXCEPT ![s] = op'[s]] /\ op'[s].pc = "scan"
        /\ accounts' \in Seq(Account) /\ DOMAIN accounts' = DOMAIN accounts /\ Grown
        /\ overlapped' = overlapped
    BY <1>5, AccountSwept DEF Base
  <2>2. \A t \in Sessions : op'[t].pc \in {"accountId", "addAccount"} => op'[t] = op[t]
    BY <1>1, <2>1
  <2> QED BY <1>1, <2>1, <2>2, NumbersStill
<1>6. CASE UNCHANGED vars
  BY <1>6, NumbersSame DEF vars, files, audit
<1>7. CASE Crash
  <2>1. \A t \in Sessions : op'[t].pc = "menu"
    BY <1>7, IdleIsOp DEF Crash
  <2> QED BY <1>7, <2>1, NumbersSame DEF Crash, files
<1>8. ASSUME NEW s \in Sessions,
             \/ CheckUnique(s) \/ AbortCreation(s) \/ ReadUserId(s)
             \/ AppendUser(s) \/ AppendUserFails(s) \/ BeginAccount(s)
             \/ ReadToModify(s) \/ WriteDetails(s) \/ ReadToChange(s) \/ WritePassword(s)
             \/ ReadToSetStatus(s) \/ WriteStatus(s) \/ OpenAccountsFails(s) \/ EndSweep(s)
      PROVE  Numbers'
  <2>1. UNCHANGED <<accounts, overlapped>>
    BY <1>8 DEF CheckUnique, AbortCreation, ReadUserId, AppendUser, AppendUserFails, BeginAccount, ReadToModify,
       WriteDetails, ReadToChange, WritePassword, ReadToSetStatus, WriteStatus,
       OpenAccountsFails, EndSweep, files, audit
  <2>2. op'[s].pc \in {"inUse", "userId", "addUser", "number", "menu", "scan"} \cup Editing
        /\ Alone(s)
    BY <1>8, NewPc DEF Base, Finishing
  <2>3. \A t \in Sessions : op'[t].pc \in {"accountId", "addAccount"} => op'[t] = op[t]
    BY <2>2 DEF Editing, Alone
  <2> QED BY <2>1, <2>3, NumbersSame
<1>9. ASSUME NEW s \in Sessions, Banking(s)
      PROVE  Numbers'
  <2>1. /\ accounts' \in Seq(Account) /\ DOMAIN accounts' = DOMAIN accounts /\ Grown
        /\ overlapped' = overlapped /\ op' = op
    BY <1>9, MoneyMoves DEF Base, audit
  <2> QED BY <1>1, <2>1, NumbersStill
<1> QED BY <1>2, <1>3, <1>4, <1>5, <1>6, <1>7, <1>8, <1>9 DEF Next, Banking

LEMMA NumbersInvariant == Spec => [](mistaken \/ Numbers)
<1>1. Init => mistaken \/ Numbers
  BY InitNumbers
<1>2. /\ Loose /\ (mistaken \/ Exact) /\ (mistaken \/ Numbers) /\ [Next]_vars
      => (mistaken \/ Numbers)'
  BY NextNumbers, Mistaken DEF Base
<1> QED BY <1>1, <1>2, LooseInvariant, ExactInvariant, PTL DEF Spec

\* Account ids and numbers are the positions in the file until two creations
\* overlap: get_next_account_id and generate_new_account_number read what the
\* append does not keep locked; and while no file that cannot be opened has
\* been taken for an empty one.
THEOREM AccountIdsArePositions == Spec => []AccountIdsUntilOverlap
<1>1. mistaken \/ Numbers => AccountIdsUntilOverlap
  BY DEF Numbers, AccountIdsUntilOverlap
<1> QED BY <1>1, NumbersInvariant, PTL

-----------------------------------------------------------------------------
(* Status of users and accounts *)

LEMMA InitSwept == ASSUME Init PROVE Swept
<1>1. \A s \in Sessions : op[s].pc = "menu"
  BY IdleIsOp DEF Init
<1>2. \A a \in DOMAIN accounts :
        /\ accounts[a].ownerUserId \in DOMAIN users
        /\ accounts[a].isActive /\ users[accounts[a].ownerUserId].isActive
  BY UsersAssumption DEF Init
<1>3. \A a \in DOMAIN accounts : accounts[a].isActive = users[accounts[a].ownerUserId].isActive
  <2>1. \A a \in DOMAIN accounts :
          accounts[a].isActive \in BOOLEAN /\ users[accounts[a].ownerUserId].isActive \in BOOLEAN
    BY <1>2, InitBase, Files DEF Base, Loose, Account, User
  <2> QED BY <1>2, <2>1
<1>4. Fresh
  BY EmptySeq DEF Init, Fresh
<1> QED BY <1>1, <1>3, <1>4 DEF Swept, AccountsFollowUser, At

\* A record that a copy's id finds after the step was found before it.
LEMMA CopiesFind ==
  ASSUME Base, accounts' \in Seq(Account), Grown,
         NEW t \in Sessions, NEW j \in DOMAIN held[t], NEW b \in DOMAIN accounts',
         accounts'[b].accountId = held[t][j].accountId,
         \A q \in 1..(b - 1) : accounts'[q].accountId # held[t][j].accountId
  PROVE  b \in DOMAIN accounts /\ FindAccountRecord(held[t][j].accountId, b) /\ Copied(b)
<1>1. /\ Len(accounts) \in Nat /\ DOMAIN accounts = 1..Len(accounts)
      /\ Len(accounts') \in Nat /\ DOMAIN accounts' = 1..Len(accounts')
  BY Files, LenProperties DEF Base, Loose
<1>2. PICK a \in DOMAIN accounts : FindAccountRecord(held[t][j].accountId, a)
  BY DEF Base, Exact, Copies
<1>3. /\ a \in DOMAIN accounts' /\ accounts'[a].accountId = held[t][j].accountId
      /\ \A q \in 1..(a - 1) : accounts'[q].accountId # held[t][j].accountId
  BY <1>2, FoundStays DEF Base, Loose
<1>4. a \in Nat /\ b \in Nat /\ a >= 1 /\ b >= 1
  BY <1>1
<1>5. ~(a < b) /\ ~(b < a)
  BY <1>3, <1>4
<1>6. a = b
  BY <1>4, <1>5
<1> QED BY <1>2, <1>6 DEF Copied

\* Copies stay fresh if the accounts they belong to keep their status, or are
\* noted in crossed.
LEMMA FreshStays ==
  ASSUME Base, Fresh, accounts' \in Seq(Account), Grown,
         \A t \in Sessions : \A k \in DOMAIN held'[t] :
           \E j \in DOMAIN held[t] : held'[t][k] = held[t][j],
         \A a \in DOMAIN accounts : Copied(a) /\ a \notin crossed' =>
           a \notin crossed /\ accounts'[a].isActive = accounts[a].isActive
  PROVE  Fresh'
<1> SUFFICES ASSUME NEW t \in Sessions, NEW k \in DOMAIN held'[t],
                    NEW b \in DOMAIN accounts', b \notin crossed',
                    accounts'[b].accountId = held'[t][k].accountId,
                    \A q \in 1..(b - 1) : accounts'[q].accountId # held'[t][k].accountId
             PROVE  held'[t][k].isActive = accounts'[b].isActive
  BY DEF Fresh, FindAccountRecord
<1>1. PICK j \in DOMAIN held[t] : held'[t][k] = held[t][j]
  OBVIOUS
<1>2. b \in DOMAIN accounts /\ FindAccountRecord(held[t][j].accountId, b) /\ Copied(b)
  BY <1>1, CopiesFind
<1> QED BY <1>1, <1>2 DEF Fresh

\* The accounts keep their status, the status handlers stay or are noted in
\* cut, and an unraced user keeps his status.
LEMMA SweptStill ==
  ASSUME Base, ~mistaken, Swept, Fresh',
         DOMAIN accounts' = DOMAIN accounts, Grown, crossed' = crossed,
         \A a \in DOMAIN accounts \ crossed : accounts'[a].isActive = accounts[a].isActive,
         late' = late, raced \subseteq raced', cut \subseteq cut',
         \A r \in DOMAIN users \ raced' : users'[r].isActive = users[r].isActive,
         \A t \in Sessions : At(t, "scan")' => op'[t] = op[t],
         \A t \in Sessions : At(t, "scan") => op'[t] = op[t] \/ op[t].user.userId \in cut'
  PROVE  Swept'
<1>1. \A t \in Sessions : At(t, "scan") => op[t].user.userId \in DOMAIN users
  BY DEF Base, Exact, Sound
<1>2. \A a \in DOMAIN accounts : accounts[a].ownerUserId \in DOMAIN users
  BY DEF Base, Exact, Ids
<1>3. \A u : Sweeping(u) => Sweeping(u)' \/ u \in cut'
  BY DEF Sweeping, At
<1>4. \A a \in DOMAIN accounts : accounts'[a].ownerUserId = accounts[a].ownerUserId
  BY DEF Grown, Same
<1>5. AccountsFollowUser'
  <2> SUFFICES ASSUME NEW a \in DOMAIN accounts \ crossed,
                      accounts[a].ownerUserId \notin cut' \cup raced',
                      ~Sweeping(accounts[a].ownerUserId)'
               PROVE  \/ accounts[a].isActive = users'[accounts[a].ownerUserId].isActive
                      \/ accounts[a].isActive /\ a \in late
    BY <1>4 DEF AccountsFollowUser
  <2>1. accounts[a].ownerUserId \in DOMAIN users \ raced'
    BY <1>2
  <2>2. users'[accounts[a].ownerUserId].isActive = users[accounts[a].ownerUserId].isActive
    BY <2>1
  <2>3. ~Sweeping(accounts[a].ownerUserId)
    BY <1>3, <1>4 DEF Sweeping
  <2>4. accounts[a].ownerUserId \notin cut \cup raced
    OBVIOUS
  <2> QED BY <2>2, <2>3, <2>4 DEF Swept, AccountsFollowUser
<1>6. ASSUME NEW t \in Sessions, At(t, "scan")', op'[t].user.userId \notin cut' \cup raced'
      PROVE  /\ users'[op'[t].user.userId].isActive = op'[t].user.isActive
             /\ \A a \in DOMAIN accounts' \ crossed' :
                  a < op'[t].row /\ accounts'[a].ownerUserId = op'[t].user.userId =>
                    accounts'[a].isActive = op'[t].user.isActive
  <2>1. At(t, "scan") /\ op'[t] = op[t]
    BY <1>6 DEF At
  <2> QED BY <1>1, <1>4, <1>6, <2>1 DEF Swept
<1>7. ASSUME NEW t \in Sessions, NEW v \in Sessions, At(t, "scan")', At(v, "scan")',
             op'[t].user.userId = op'[v].user.userId
      PROVE  t = v \/ op'[t].user.userId \in cut'
  BY <1>7 DEF Swept, At
<1> QED BY <1>5, <1>6, <1>7 DEF Swept

\* The same when no account changes and copies only go.
LEMMA SweptSame ==
  ASSUME Base, ~mistaken, Swept, accounts' = accounts, crossed' = crossed,
         \A t \in Sessions : DOMAIN held'[t] = {} \/ held'[t] = held[t],
         late' = late, raced \subseteq raced', cut \subseteq cut',
         \A r \in DOMAIN users \ raced' : users'[r].isActive = users[r].isActive,
         \A t \in Sessions : At(t, "scan")' => op'[t] = op[t],
         \A t \in Sessions : At(t, "scan") => op'[t] = op[t] \/ op[t].user.userId \in cut'
  PROVE  Swept'
<1>1. Grown /\ accounts' \in Seq(Account)
  BY Files, AllSame DEF Base, Loose, TypeOK
<1>2. Fresh'
  BY <1>1, FreshStays DEF Swept
<1> QED BY <1>1, <1>2, SweptStill

LEMMA MoneySwept ==
  ASSUME Base, ~mistaken, ~mistaken', Swept, NEW s \in Sessions, Banking(s)
  PROVE  Swept'
<1>1. /\ users' = users /\ op' = op /\ raced' = raced /\ cut' = cut /\ late' = late
      /\ crossed' = crossed
      /\ accounts' \in Seq(Account) /\ DOMAIN accounts' = DOMAIN accounts /\ Grown
  BY MoneyMoves DEF Base, audit
<1>2. /\ TypeOK /\ Len(accounts) \in Nat /\ DOMAIN accounts = 1..Len(accounts)
      /\ held \in [Sessions -> Seq(Account)]
  BY Files DEF Base, Loose, TypeOK
<1>3. CASE WriteAccount(s)
  <2>1. /\ \A t \in Sessions : \A k \in DOMAIN held'[t] :
             \E j \in DOMAIN held[t] : held'[t][k] = held[t][j]
        /\ \/ accounts' = accounts
           \/ \E a \in DOMAIN accounts, j \in DOMAIN held[s] :
                /\ FindAccountRecord(held[s][j].accountId, a)
                /\ accounts'[a] = held[s][j]
                /\ \A b \in DOMAIN accounts \ {a} : accounts'[b] = accounts[b]
    BY <1>3, AccountWritten DEF Base
  <2>2. \A a \in DOMAIN accounts \ crossed : accounts'[a].isActive = accounts[a].isActive
    BY <2>1 DEF Swept, Fresh
  <2>3. Fresh'
    BY <1>1, <2>1, <2>2, FreshStays DEF Swept
  <2> QED BY <1>1, <2>2, <2>3, SweptStill DEF At
<1>4. CASE SelectAccount(s) \/ LeaveAccount(s) \/ GiveUp(s)
  <2>1. accounts' = accounts /\ (held' = held \/ held' = [held EXCEPT ![s] = <<>>])
    BY <1>4 DEF SelectAccount, LeaveAccount, GiveUp, files
  <2>2. \A t \in Sessions : DOMAIN held'[t] = {} \/ held'[t] = held[t]
    BY <1>2, <2>1, EmptySeq
  <2> QED BY <1>1, <2>1, <2>2, SweptSame DEF At
<1>5. ASSUME NEW a, a \in DOMAIN accounts, accounts' = accounts,
             \A t \in Sessions : \A k \in DOMAIN held'[t] :
               (\E j \in DOMAIN held[t] : held'[t][k] = held[t][j]) \/ held'[t][k] = accounts[a],
             FindAccountRecord(accounts[a].accountId, a)
      PROVE  Swept'
  <2>1. Fresh'
    <3> SUFFICES ASSUME NEW t \in Sessions, NEW k \in DOMAIN held'[t],
                        NEW b \in DOMAIN accounts \ crossed,
                        FindAccountRecord(held'[t][k].accountId, b)
                 PROVE  held'[t][k].isActive = accounts[b].isActive
      BY <1>1, <1>5 DEF Fresh, FindAccountRecord
    <3>1. CASE held'[t][k] = accounts[a]
      BY <1>2, <1>5, <3>1, OneFound
    <3>2. ASSUME NEW j \in DOMAIN held[t], held'[t][k] = held[t][j]
          PROVE  held'[t][k].isActive = accounts[b].isActive
      BY <3>2 DEF Swept, Fresh
    <3> QED BY <1>5, <3>1, <3>2
  <2> QED BY <1>1, <1>5, <2>1, SweptStill DEF At
<1>6. CASE ReadAccount(s)
  <2>1. PICK a \in 1..MaxAccounts :
          /\ FindAccountRecord(accounts[a].accountId, a)
          /\ held' = [held EXCEPT ![s] = <<accounts[a]>>]
    BY <1>6 DEF ReadAccount
  <2>2. /\ a \in DOMAIN accounts
        /\ UNCHANGED <<files, account, mutex, op, audit, granted, crossed, troubles>>
        /\ mistaken' \in BOOLEAN
    BY <1>6, <2>1 DEF FindAccountRecord, ReadAccount, marks, Base, Loose, TypeOK
  <2>3. \A t \in Sessions : \A k \in DOMAIN held'[t] :
          (\E j \in DOMAIN held[t] : held'[t][k] = held[t][j]) \/ held'[t][k] = accounts[a]
    BY <2>1, <2>2, CopyRead DEF Base
  <2> QED BY <1>5, <2>1, <2>2, <2>3 DEF files
<1>7. CASE ReadReceiver(s)
  <2>1. PICK a \in DOMAIN accounts :
          /\ held' = [held EXCEPT ![s] = Append(held[s], accounts[a])]
          /\ mistaken' = (mistaken \/ ~FindAccountRecord(accounts[a].accountId, a))
    BY <1>2, <1>7 DEF ReadReceiver
  <2>2. /\ UNCHANGED <<files, account, mutex, op, audit, granted, crossed, troubles>>
        /\ FindAccountRecord(accounts[a].accountId, a) /\ mistaken' \in BOOLEAN
    BY <1>7, <2>1 DEF ReadReceiver, bounds
  <2>3. \A t \in Sessions : \A k \in DOMAIN held'[t] :
          (\E j \in DOMAIN held[t] : held'[t][k] = held[t][j]) \/ held'[t][k] = accounts[a]
    BY <2>1, <2>2, CopyRead DEF Base
  <2> QED BY <1>5, <2>1, <2>2, <2>3 DEF files
<1> QED BY <1>3, <1>4, <1>6, <1>7 DEF Banking

LEMMA AppendAccountSwept ==
  ASSUME Base, ~mistaken, Swept, NEW s \in Sessions, AppendAccount(s)
  PROVE  Swept'
<1>1. /\ op[s].pc = "addAccount" /\ op'[s].pc = "menu" /\ Alone(s)
      /\ UNCHANGED <<users, held, raced, cut, crossed>>
      /\ Len(accounts) \in Nat /\ DOMAIN accounts = 1..Len(accounts)
  BY NewPc, Files DEF Base, Loose, Finishing, AppendAccount, At, money, marks
<1>2. \A t \in Sessions : At(t, "scan") => op'[t] = op[t]
  BY <1>1 DEF At, Alone
<1>3. \A t \in Sessions : At(t, "scan")' => op'[t] = op[t]
  BY <1>1 DEF At, Alone
<1>4. CASE UNCHANGED <<accounts, late>>
  BY <1>1, <1>2, <1>3, <1>4, SweptSame
<1>5. CASE /\ accounts' = Append(accounts, NewAccount(s))
           /\ late' = IF users[op[s].owner].isActive \/ Sweeping(op[s].owner)
                        THEN late ELSE late \cup {Len(accounts) + 1}
  <2>1. /\ accounts' \in Seq(Account) /\ Len(accounts') = Len(accounts) + 1
        /\ DOMAIN accounts' = DOMAIN accounts \cup {Len(accounts) + 1}
        /\ accounts'[Len(accounts) + 1] = NewAccount(s)
        /\ \A a \in DOMAIN accounts : accounts'[a] = accounts[a]
    BY <1>5, AccountAppended DEF Base
  <2>2. \A u : Sweeping(u)' <=> Sweeping(u)
    BY <1>2, <1>3 DEF Sweeping, At
  <2>3. \A t \in Sessions : At(t, "scan") => op[t].row <= Len(accounts) + 1 /\ op[t].row \in Nat
    BY <1>1 DEF Base, Exact, Sound
  <2>4. ASSUME NEW t \in Sessions, At(t, "scan")', op'[t].user.userId \notin cut \cup raced
        PROVE  /\ users[op[t].user.userId].isActive = op[t].user.isActive
               /\ \A a \in DOMAIN accounts' \ crossed :
                    a < op[t].row /\ accounts'[a].ownerUserId = op[t].user.userId =>
                      accounts'[a].isActive = op[t].user.isActive
    <3>1. At(t, "scan") /\ op'[t] = op[t]
      BY <1>3, <2>4 DEF At
    <3>2. ~(Len(accounts) + 1 < op[t].row)
      BY <1>1, <2>3, <3>1
    <3> QED BY <2>1, <2>4, <3>1, <3>2 DEF Swept
  <2>5. ASSUME NEW a \in DOMAIN accounts' \ crossed,
               accounts'[a].ownerUserId \notin cut \cup raced,
               ~Sweeping(accounts'[a].ownerUserId)
        PROVE  \/ accounts'[a].isActive = users[accounts'[a].ownerUserId].isActive
               \/ accounts'[a].isActive /\ a \in late'
    <3>1. CASE a \in DOMAIN accounts
      BY <1>5, <2>1, <2>5, <3>1 DEF Swept, AccountsFollowUser
    <3>2. CASE a = Len(accounts) + 1
      <4>1. accounts'[a].isActive = TRUE /\ accounts'[a].ownerUserId = op[s].owner
        BY <2>1, <3>2 DEF NewAccount
      <4>2. users[op[s].owner].isActive \in BOOLEAN
        <5>1. op[s].owner \in DOMAIN users
          BY <1>1 DEF Base, Exact, Sound
        <5> QED BY <5>1, Files DEF Base, Loose, User
      <4> QED BY <1>5, <2>5, <3>2, <4>1, <4>2
    <3> QED BY <2>1, <3>1, <3>2
  <2>6. AccountsFollowUser'
    BY <1>1, <2>2, <2>5 DEF AccountsFollowUser
  <2>7. \A t \in Sessions : At(t, "scan")' => At(t, "scan") /\ op'[t] = op[t]
    BY <1>3 DEF At
  <2>8. Fresh'
    <3>1. Grown
      BY <1>1, <2>1 DEF Grown, Same
    <3> QED BY <1>1, <2>1, <3>1, FreshStays DEF Swept
  <2> QED BY <1>1, <2>4, <2>6, <2>7, <2>8 DEF Swept
<1> QED BY <1>4, <1>5 DEF AppendAccount, NewAccount

LEMMA WriteStatusSwept ==
  ASSUME Base, ~mistaken, Swept, NEW s \in Sessions, WriteStatus(s)
  PROVE  Swept'
<1> DEFINE u == op[s].user.userId
<1>1. /\ op \in [Sessions -> Op] /\ op[s].pc = "status" /\ Alone(s)
      /\ op[s].user \in User /\ op[s].row = u /\ u \in DOMAIN users
      /\ UNCHANGED <<accounts, held, raced, late, crossed>>
  BY NewPc DEF Base, Loose, TypeOK, Op, Firm, Exact, Sound, Editing, WriteStatus, At, money,
     marks
<1>2. PICK new \in BOOLEAN :
        /\ op' = [op EXCEPT ![s].pc = "scan", ![s].row = 1, ![s].user.isActive = new]
        /\ \/ /\ UpdateUser(s, [NoChange EXCEPT !.isActive = new])
              /\ IF Sweeping(u) THEN Disturb(u) ELSE UNCHANGED cut
           \/ Disturb(u) /\ UNCHANGED users
  BY DEF WriteStatus
<1>3. op'[s].pc = "scan" /\ op'[s].row = 1
  BY <1>2, StatusSet DEF Base
<1>4. op'[s].user.userId = u /\ op'[s].user.isActive = new
  BY <1>2, StatusSet DEF Base
<1>5. cut' \in {cut, cut \cup {u}} /\ (Sweeping(u) => u \in cut')
  BY <1>2 DEF Disturb
<1>6. /\ \A r \in DOMAIN users \ {u} : users'[r] = users[r]
      /\ u \notin cut' => users'[u].isActive = new
  <2>1. CASE UpdateUser(s, [NoChange EXCEPT !.isActive = new])
    <3> DEFINE c == [NoChange EXCEPT !.isActive = new]
    <3>1. c \in Changes /\ c.isActive = new /\ new # Skip
      BY OneChange, NoChanges, UsersAssumption
    <3>2. UpdateUser(s, c)
      BY <2>1
    <3> HIDE DEF c
    <3>3. /\ \A r \in DOMAIN users \ {u} : users'[r] = users[r]
          /\ users'[u] = Apply(c, op[s].user)
      BY <1>1, <3>1, <3>2, UserUpdated DEF Base, Editing
    <3> QED BY <1>1, <3>1, <3>3, ApplyUser
  <2>2. CASE Disturb(u) /\ UNCHANGED users
    BY <2>2 DEF Disturb
  <2> QED BY <1>2, <2>1, <2>2
<1>7. ASSUME NEW t \in Sessions \ {s}, At(t, "scan")'
      PROVE  At(t, "scan") /\ op'[t] = op[t] /\ op[t].user.userId \in DOMAIN users
  BY <1>1, <1>7 DEF At, Alone, Base, Exact, Sound
<1>8. \A t \in Sessions \ {s} : At(t, "scan")' /\ op'[t].user.userId = u => u \in cut'
  BY <1>5, <1>7 DEF Sweeping
<1>9. ASSUME NEW t \in Sessions, NEW v \in Sessions, t # v, At(t, "scan")', At(v, "scan")',
             op'[t].user.userId = op'[v].user.userId
      PROVE  op'[t].user.userId \in cut'
  <2>1. CASE t = s \/ v = s
    BY <1>4, <1>8, <1>9, <2>1
  <2>2. CASE t # s /\ v # s
    BY <1>5, <1>7, <1>9, <2>2 DEF Swept
  <2> QED BY <2>1, <2>2
<1>10. ASSUME NEW t \in Sessions, At(t, "scan")', op'[t].user.userId \notin cut' \cup raced
       PROVE  /\ users'[op'[t].user.userId].isActive = op'[t].user.isActive
              /\ \A a \in DOMAIN accounts \ crossed :
                   a < op'[t].row /\ accounts[a].ownerUserId = op'[t].user.userId =>
                     accounts[a].isActive = op'[t].user.isActive
  <2>1. CASE t = s
    <3>1. \A a \in DOMAIN accounts : ~(a < 1)
      BY Files DEF Base, Loose
    <3> QED BY <1>3, <1>4, <1>6, <1>10, <2>1, <3>1
  <2>2. CASE t # s
    BY <1>5, <1>6, <1>7, <1>8, <1>10, <2>2 DEF Swept
  <2> QED BY <2>1, <2>2
<1>11. ASSUME NEW a \in DOMAIN accounts \ crossed, accounts[a].ownerUserId \notin cut' \cup raced,
              ~Sweeping(accounts[a].ownerUserId)'
       PROVE  \/ accounts[a].isActive = users'[accounts[a].ownerUserId].isActive
              \/ accounts[a].isActive /\ a \in late
  <2>1. accounts[a].ownerUserId # u
    BY <1>1, <1>3, <1>4, <1>11 DEF Sweeping, At
  <2>2. ~Sweeping(accounts[a].ownerUserId)
    BY <1>1, <1>11 DEF Sweeping, At, Alone
  <2>3. accounts[a].ownerUserId \in DOMAIN users
    BY DEF Base, Exact, Ids
  <2> QED BY <1>5, <1>6, <1>11, <2>1, <2>2, <2>3 DEF Swept, AccountsFollowUser
<1>12. AccountsFollowUser'
  BY <1>1, <1>11 DEF AccountsFollowUser
<1>13. Fresh'
  BY <1>1 DEF Swept, Fresh, FindAccountRecord
<1> QED BY <1>1, <1>9, <1>10, <1>12, <1>13 DEF Swept

LEMMA SweepAccountSwept ==
  ASSUME Base, ~mistaken, Swept, NEW s \in Sessions, SweepAccount(s)
  PROVE  Swept'
<1> DEFINE u   == op[s].user.userId
           k   == op[s].row
           new == op[s].user.isActive
<1>1. /\ op[s].pc = "scan" /\ k \in DOMAIN accounts
      /\ op'[s].pc = "scan" /\ op'[s].user = op[s].user /\ op'[s].row = k + 1
      /\ accounts' \in Seq(Account) /\ DOMAIN accounts' = DOMAIN accounts /\ Grown
      /\ \A a \in DOMAIN accounts \ {k} : accounts'[a] = accounts[a]
      /\ UNCHANGED <<users, money, raced, late>>
  BY AccountSwept DEF Base
<1>2. \/ /\ accounts[k].ownerUserId = u /\ accounts'[k].isActive = new
         /\ Passed(k, accounts[k].isActive # new)
         /\ cut' = cut
      \/ /\ accounts[k].ownerUserId = u /\ accounts' = accounts /\ crossed' = crossed
         /\ cut' = cut \cup {u}
      \/ /\ accounts[k].ownerUserId # u /\ accounts' = accounts /\ crossed' = crossed
         /\ cut' = cut
  BY AccountSwept DEF Base
<1>3. /\ Alone(s) /\ DOMAIN accounts = 1..Len(accounts) /\ Len(accounts) \in Nat
      /\ held' = held
  BY <1>1, NewPc, Files DEF Base, Loose, money
<1>4. \A t \in Sessions : /\ At(t, "scan")' <=> At(t, "scan")
                          /\ op'[t].user = op[t].user \/ ~At(t, "scan")
                          /\ t # s => op'[t] = op[t]
  BY <1>1, <1>3 DEF At, Alone
<1>5. \A v : Sweeping(v)' <=> Sweeping(v)
  BY <1>4 DEF Sweeping
<1>6. \A a \in DOMAIN accounts : accounts'[a].ownerUserId = accounts[a].ownerUserId
  BY <1>1 DEF Grown, Same
<1>7. /\ cut \subseteq cut'
      /\ \A a \in DOMAIN accounts \ crossed' : a \in crossed => a = k /\ accounts[k].ownerUserId = u
  BY <1>2 DEF Passed
<1>8. Fresh'
  <2>1. \A a \in DOMAIN accounts : Copied(a) /\ a \notin crossed' =>
          a \notin crossed /\ accounts'[a].isActive = accounts[a].isActive
    BY <1>1, <1>2 DEF Passed
  <2> QED BY <1>1, <1>3, <2>1, FreshStays DEF Swept
<1>9. ASSUME NEW t \in Sessions, At(t, "scan"), op[t].user.userId \notin cut' \cup raced,
             NEW a \in DOMAIN accounts \ crossed', a < op'[t].row,
             accounts[a].ownerUserId = op[t].user.userId
      PROVE  accounts'[a].isActive = op[t].user.isActive
  <2>1. CASE t = s
    <3>1. CASE a = k
      BY <1>2, <1>9, <2>1, <3>1
    <3>2. CASE a # k
      <4>1. a < k /\ a \notin crossed
        BY <1>1, <1>3, <1>7, <1>9, <2>1, <3>2
      <4> QED BY <1>1, <1>7, <1>9, <2>1, <3>2, <4>1 DEF Swept
    <3> QED BY <3>1, <3>2
  <2>2. CASE t # s
    <3>1. op[t].user.userId # u
      BY <1>1, <1>7, <1>9, <2>2 DEF Swept, At
    <3>2. accounts'[a] = accounts[a] /\ a \notin crossed
      BY <1>1, <1>2, <1>7, <1>9, <3>1
    <3> QED BY <1>4, <1>7, <1>9, <2>2, <3>2 DEF Swept
  <2> QED BY <2>1, <2>2
<1>10. ASSUME NEW a \in DOMAIN accounts \ crossed', accounts[a].ownerUserId \notin cut' \cup raced,
              ~Sweeping(accounts[a].ownerUserId)
       PROVE  \/ accounts'[a].isActive = users[accounts[a].ownerUserId].isActive
              \/ accounts'[a].isActive /\ a \in late
  <2>1. accounts[a].ownerUserId # u
    BY <1>1, <1>10 DEF Sweeping, At
  <2>2. accounts'[a] = accounts[a] /\ a \notin crossed
    BY <1>1, <1>2, <1>7, <1>10, <2>1
  <2> QED BY <1>7, <1>10, <2>2 DEF Swept, AccountsFollowUser
<1>11. AccountsFollowUser'
  BY <1>1, <1>5, <1>6, <1>10 DEF AccountsFollowUser
<1>12. ASSUME NEW t \in Sessions, At(t, "scan"), op[t].user.userId \notin cut' \cup raced
       PROVE  users[op[t].user.userId].isActive = op[t].user.isActive
  BY <1>7, <1>12 DEF Swept
<1>13. ASSUME NEW t \in Sessions, NEW v \in Sessions, t # v, At(t, "scan"), At(v, "scan"),
              op[t].user.userId = op[v].user.userId
       PROVE  op[t].user.userId \in cut'
  BY <1>7, <1>13 DEF Swept
<1> QED BY <1>1, <1>4, <1>6, <1>8, <1>9, <1>11, <1>12, <1>13 DEF Swept

LEMMA EndSweepSwept ==
  ASSUME Base, ~mistaken, Swept, NEW s \in Sessions, EndSweep(s)
  PROVE  Swept'
<1>1. /\ op[s].pc = "scan" /\ op[s].row \notin DOMAIN accounts
      /\ op'[s].pc = "menu" /\ Alone(s)
      /\ UNCHANGED <<users, accounts, held, raced, cut, late, crossed>>
  BY NewPc DEF Base, EndSweep, Finishing, At, files, money, audit, marks
<1>2. /\ DOMAIN accounts = 1..Len(accounts) /\ Len(accounts) \in Nat
      /\ op[s].row \in 1..(Len(accounts) + 1)
  BY <1>1, Files DEF Base, Loose, Exact, Sound, At
<1>3. \A a \in DOMAIN accounts : a < op[s].row
  BY <1>1, <1>2
<1>4. \A t \in Sessions : At(t, "scan")' => At(t, "scan") /\ op'[t] = op[t]
  BY <1>1 DEF At, Alone
<1>5. \A u : Sweeping(u) => Sweeping(u)' \/ u = op[s].user.userId
  BY <1>1 DEF Sweeping, At, Alone
<1>6. AccountsFollowUser'
  BY <1>1, <1>3, <1>5 DEF Swept, AccountsFollowUser, At
<1>7. Fresh'
  BY <1>1 DEF Swept, Fresh, FindAccountRecord
<1> QED BY <1>1, <1>4, <1>6, <1>7 DEF Swept

LEMMA NextSwept ==
  ASSUME Base, ~mistaken, ~mistaken', Races, Swept, [Next]_vars PROVE Swept'
<1>1. ASSUME NEW s \in Sessions,
             \/ CheckUnique(s) \/ AbortCreation(s) \/ ReadUserId(s) \/ BeginAccount(s)
             \/ GenerateNumber(s) \/ ReadAccountId(s)
             \/ ReadToModify(s) \/ ReadToChange(s) \/ ReadToSetStatus(s) \/ AppendUserFails(s)
      PROVE  Swept'
  <2>1. /\ UNCHANGED <<users, accounts, held, late, cut, crossed>> /\ op[s].pc # "scan"
    BY <1>1 DEF CheckUnique, AbortCreation, ReadUserId, BeginAccount, GenerateNumber,
       ReadAccountId, ReadToModify, ReadToChange, ReadToSetStatus, AppendUserFails, Begin, At,
       files, money, audit, marks
  <2>2. op'[s].pc # "scan" /\ Alone(s)
    BY <1>1, NewPc DEF Base, Finishing, Editing
  <2>3. raced \subseteq raced'
    BY <1>1 DEF CheckUnique, AbortCreation, ReadUserId, BeginAccount, GenerateNumber,
       ReadAccountId, ReadToModify, ReadToChange, ReadToSetStatus, AppendUserFails, GetUser,
       audit
  <2> QED BY <2>1, <2>2, <2>3, SweptSame DEF At, Alone
<1>2. ASSUME NEW s \in Sessions, WriteDetails(s) \/ WritePassword(s)
      PROVE  Swept'
  <2>1. /\ op[s].pc \in Editing /\ UNCHANGED <<accounts, held, late, cut, raced, crossed>>
        /\ op'[s].pc = "menu" /\ Alone(s)
    BY <1>2, NewPc DEF Base, WriteDetails, WritePassword, At, Editing, Finishing, money, marks
  <2>2. ASSUME NEW c \in Changes, c.isActive = Skip, UpdateUser(s, c)
        PROVE  \A r \in DOMAIN users \ raced : users'[r].isActive = users[r].isActive
    <3>1. /\ op[s].row \in DOMAIN users
          /\ users'[op[s].row] = Apply(c, op[s].user)
          /\ \A r \in DOMAIN users \ {op[s].row} : users'[r] = users[r]
          /\ op[s].user \in User
      BY <2>1, <2>2, UserUpdated DEF Base, Loose, TypeOK
    <3>2. Apply(c, op[s].user).isActive = op[s].user.isActive
      BY <2>2, <3>1, ApplyUser
    <3> QED BY <2>1, <3>1, <3>2 DEF Races
  <2>3. users' = users \/ \E c \in Changes : c.isActive = Skip /\ UpdateUser(s, c)
    <3>1. CASE WriteDetails(s)
      BY <3>1 DEF WriteDetails
    <3>2. CASE WritePassword(s)
      <4>1. CASE UNCHANGED users
        BY <4>1
      <4>2. ASSUME NEW p \in TypedPasswords, UpdateUser(s, [NoChange EXCEPT !.password = p])
            PROVE  \E c \in Changes : c.isActive = Skip /\ UpdateUser(s, c)
        BY <4>2, OneChange, NoChanges, Zenon
      <4> QED BY <3>2, <4>1, <4>2 DEF WritePassword
    <3> QED BY <1>2, <3>1, <3>2
  <2>4. \A r \in DOMAIN users \ raced : users'[r].isActive = users[r].isActive
    BY <2>2, <2>3
  <2> QED BY <2>1, <2>4, SweptSame DEF At, Alone, Editing
<1>3. ASSUME NEW s \in Sessions, AppendUser(s)
      PROVE  Swept'
  <2>1. /\ op[s].pc = "addUser" /\ op'[s].pc \in {"menu", "number"}
        /\ \A t \in Sessions \ {s} : op'[t] = op[t]
        /\ \A r \in DOMAIN users : users'[r] = users[r]
        /\ UNCHANGED <<accounts, held, raced, late, cut, crossed>>
    BY <1>3, UserAppended DEF Base
  <2> QED BY <2>1, SweptSame DEF At
<1>4. ASSUME NEW s \in Sessions, OpenAccountsFails(s)
      PROVE  Swept'
  <2>1. /\ op[s].pc = "scan" /\ op'[s].pc = "menu" /\ Alone(s)
        /\ UNCHANGED <<users, accounts, held, raced, late, crossed>>
        /\ cut' = cut \cup {op[s].user.userId}
    BY <1>4, NewPc DEF Base, OpenAccountsFails, Disturb, Finishing, At, files, money, marks
  <2> QED BY <2>1, SweptSame DEF At, Alone
<1>5. CASE Crash
  <2>1. \A t \in Sessions : op'[t].pc = "menu"
    BY <1>5, IdleIsOp DEF Crash
  <2>2. \A t \in Sessions : At(t, "scan") => op[t].user.userId \in cut'
    BY <1>5, InRange DEF Base, Crash, Sweeping, At
  <2>3. \A t \in Sessions : DOMAIN held'[t] = {}
    BY <1>5, EmptySeq DEF Crash
  <2> QED BY <1>5, <2>1, <2>2, <2>3, SweptSame DEF Crash, files, marks, At
<1>6. CASE UNCHANGED vars
  BY <1>6, SweptSame DEF vars, files, money, audit, marks, At
<1> QED BY <1>1, <1>2, <1>3, <1>4, <1>5, <1>6, AppendAccountSwept, WriteStatusSwept,
        SweepAccountSwept, EndSweepSwept, MoneySwept DEF Next, Banking

LEMMA SweptInvariant == Spec => [](mistaken \/ Swept)
<1>1. Init => mistaken \/ Swept
  BY InitSwept
<1>2. /\ Loose /\ (mistaken \/ Exact) /\ Races /\ (mistaken \/ Swept) /\ [Next]_vars
      => (mistaken \/ Swept)'
  BY NextSwept, Mistaken DEF Base
<1> QED BY <1>1, <1>2, LooseInvariant, ExactInvariant, RacesInvariant, PTL DEF Spec

\* handle_set_account_status changes the user first and his accounts one by one;
\* when no handler is at work on a user his accounts have his status, unless a
\* change was cut, failed in part or overlapped with another one, or the account
\* was opened for a user who was inactive; and unless the loop passed the
\* account while a deposit, withdrawal, transfer or credit had a copy of it,
\* which is written back whole and may bring the old status back, until the loop
\* passes it again.  A copy that is younger than the last change is harmless.
THEOREM AccountsFollow == Spec => []AccountsFollowUser
<1>1. mistaken \/ Swept => AccountsFollowUser
  BY DEF Swept, AccountsFollowUser
<1> QED BY <1>1, SweptInvariant, PTL

-----------------------------------------------------------------------------
(* Created users *)

\* Customers without an account are records of the file.
LEMMA WithoutFinite ==
  ASSUME Base
  PROVE  IsFiniteSet(WithoutAccount)
<1>1. Len(users) \in Nat /\ WithoutAccount \subseteq 1..Len(users)
  BY Files DEF Base, Loose, WithoutAccount
<1>2. IsFiniteSet(1..Len(users))
  BY <1>1, FS_Interval
<1> QED BY <1>1, <1>2, FS_Subset

\* A step without trouble adds nobody to those that a cut creation left without
\* an account; a crash or a failed write adds one at most.
LEMMA OneMore ==
  ASSUME Base, Base', Created, NEW x,
         \/ /\ troubles' = troubles
            /\ WithoutAccount' \ Pending' \subseteq WithoutAccount \ Pending
         \/ /\ troubles' = troubles + 1
            /\ WithoutAccount' \ Pending' \subseteq (WithoutAccount \ Pending) \cup {x}
  PROVE  (Cardinality(WithoutAccount \ Pending) <= troubles)'
<1> DEFINE L == WithoutAccount \ Pending
           M == WithoutAccount' \ Pending'
<1>1. IsFiniteSet(L) /\ Cardinality(L) \in Nat /\ Cardinality(L) <= troubles /\ troubles \in Nat
  BY WithoutFinite, FS_Difference, FS_CardinalityType DEF Base, Loose, Created
<1>2. IsFiniteSet(L \cup {x}) /\ Cardinality(L \cup {x}) <= Cardinality(L) + 1
  BY <1>1, FS_AddElement
<1>3. CASE troubles' = troubles /\ M \subseteq L
  <2>1. Cardinality(M) <= Cardinality(L) /\ Cardinality(M) \in Nat
    BY <1>1, <1>3, FS_Subset, FS_CardinalityType
  <2> QED BY <1>1, <1>3, <2>1
<1>4. CASE troubles' = troubles + 1 /\ M \subseteq L \cup {x}
  <2>1. Cardinality(M) <= Cardinality(L \cup {x}) /\ Cardinality(M) \in Nat
    BY <1>2, <1>4, FS_Subset, FS_CardinalityType
  <2>2. Cardinality(L \cup {x}) \in Nat
    BY <1>2, FS_CardinalityType
  <2> QED BY <1>1, <1>2, <1>4, <2>1, <2>2
<1> QED BY <1>3, <1>4

\* Nobody joins them while the customers stay what they are and no account goes.
LEMMA NoneJoins ==
  ASSUME Base, DOMAIN users' = DOMAIN users, modified \subseteq modified',
         \A r \in DOMAIN users \ modified' :
           users'[r].role = "CUSTOMER" => users[r].role = "CUSTOMER",
         \A a \in DOMAIN accounts :
           a \in DOMAIN accounts' /\ accounts'[a].ownerUserId = accounts[a].ownerUserId
  PROVE  WithoutAccount' \subseteq WithoutAccount
BY DEF WithoutAccount

\* The pending user stays while no session takes, gives or renames it.
LEMMA PendingStays ==
  ASSUME Base, NEW s \in Sessions, mutex' = mutex, Alone(s),
         op[s].pc \in Creating => op'[s].owner = op[s].owner
  PROVE  Pending' = Pending
BY DEF Base, Loose, TypeOK, Alone, Pending

\* A handler has the mutex only in a creation.
LEMMA HolderCreates ==
  ASSUME Base, NEW s \in Sessions, mutex = s
  PROVE  op[s].pc \in Creating /\ mutex # Free
BY UsersAssumption DEF Base, Loose

LEMMA CountsSteps ==
  ASSUME Base, Base', Created, NEW s \in Sessions, Alone(s), mutex' = mutex,
         op[s].pc \in Creating => op'[s].owner = op[s].owner,
         WithoutAccount' \subseteq WithoutAccount,
         troubles' = troubles \/ Fault
  PROVE  (Cardinality(WithoutAccount \ Pending) <= troubles)'
<1>1. Pending' = Pending
  BY PendingStays
<1> QED BY <1>1, OneMore DEF Fault

\* The holder that has not read the id of the new user yet has nobody pending.
LEMMA CheckUniqueCounts ==
  ASSUME Base, Base', Created, NEW s \in Sessions, CheckUnique(s)
  PROVE  (Cardinality(WithoutAccount \ Pending) <= troubles)'
<1>1. /\ mutex = Free /\ mutex' = s /\ op'[s].owner = 0 /\ (troubles' = troubles \/ Fault)
      /\ WithoutAccount' = WithoutAccount
  BY Checked DEF Base, Mistake, WithoutAccount, files, audit
<1>2. Pending = {} /\ s # Free
  BY <1>1, UsersAssumption DEF Pending
<1>3. Pending' = {0}
  BY <1>1, <1>2 DEF Pending
<1> QED BY <1>1, <1>2, <1>3, OneMore DEF Fault

LEMMA ReadUserIdCounts ==
  ASSUME Base, Base', Created, NEW s \in Sessions, ReadUserId(s)
  PROVE  (Cardinality(WithoutAccount \ Pending) <= troubles)'
<1>1. /\ op[s].pc = "userId" /\ mutex' = mutex /\ (troubles' = troubles \/ Fault)
      /\ WithoutAccount' = WithoutAccount
  <2>1. /\ op[s].pc = "userId" /\ UNCHANGED <<users, accounts, mutex, modified>>
        /\ UNCHANGED <<mistaken, troubles>> \/ Mistake
    BY NextRead DEF Base, files, audit
  <2>2. troubles' = troubles \/ Fault
    BY <2>1 DEF Mistake
  <2>3. WithoutAccount' = WithoutAccount
    BY <2>1 DEF WithoutAccount
  <2> QED BY <2>1, <2>2, <2>3
<1>2. mutex = s /\ op[s].owner = 0
  BY <1>1 DEF Base, Loose, Firm, Exact, Sound
<1>3. Pending = {0}
  BY <1>2, UsersAssumption DEF Pending
<1>4. 0 \notin WithoutAccount
  BY Files DEF Base, Loose, WithoutAccount
<1> QED BY <1>1, <1>3, <1>4, OneMore DEF Fault

LEMMA AbortCreationCounts ==
  ASSUME Base, Base', Created, NEW s \in Sessions, AbortCreation(s)
  PROVE  (Cardinality(WithoutAccount \ Pending) <= troubles)'
<1>1. /\ op[s].pc = "inUse" /\ Unlock(s) /\ troubles' = troubles
      /\ WithoutAccount' = WithoutAccount
  BY DEF AbortCreation, At, bounds, WithoutAccount, files, audit
<1>2. mutex = s /\ op[s].owner = 0
  BY <1>1 DEF Base, Loose, Firm, Exact, Sound
<1>3. Pending = {0}
  BY <1>2, UsersAssumption DEF Pending
<1>4. 0 \notin WithoutAccount
  BY Files DEF Base, Loose, WithoutAccount
<1> QED BY <1>1, <1>3, <1>4, OneMore

LEMMA AppendUserCounts ==
  ASSUME Base, Base', Created, ~mistaken', NEW s \in Sessions, AppendUser(s)
  PROVE  (Cardinality(WithoutAccount \ Pending) <= troubles)'
<1> DEFINE n == Len(users) + 1
<1>1. /\ op[s].pc = "addUser" /\ mutex = s /\ op[s].owner = n /\ n \notin DOMAIN users
      /\ DOMAIN users' = DOMAIN users \cup {n}
      /\ \A r \in DOMAIN users : users'[r] = users[r]
      /\ users'[n].role = op[s].user.role
      /\ op'[s].pc \in {"menu", "number"}
      /\ op[s].user.role = "CUSTOMER" <=> op'[s].pc = "number"
      /\ op'[s].pc = "number" => op'[s].owner = op[s].owner /\ mutex' = mutex
      /\ op'[s].pc = "menu" => mutex' = Free
      /\ accounts' = accounts /\ modified' = modified /\ troubles' = troubles
  BY UserAppended DEF Base
<1>2. Pending = {n}
  BY <1>1, HolderCreates DEF Pending
<1>3. n \notin WithoutAccount
  BY <1>1 DEF WithoutAccount
<1>4. WithoutAccount' \subseteq WithoutAccount \cup
        (IF op[s].user.role = "CUSTOMER" THEN {n} ELSE {})
  BY <1>1 DEF WithoutAccount
<1>5. Pending' = IF op[s].user.role = "CUSTOMER" THEN {n} ELSE {}
  BY <1>1, HolderCreates DEF Pending
<1> QED BY <1>1, <1>2, <1>3, <1>4, <1>5, OneMore

LEMMA AppendUserFailsCounts ==
  ASSUME Base, Base', Created, NEW s \in Sessions, AppendUserFails(s)
  PROVE  (Cardinality(WithoutAccount \ Pending) <= troubles)'
<1>1. /\ mutex = s /\ op[s].owner = Len(users) + 1 /\ Fault
      /\ WithoutAccount' = WithoutAccount
  BY DEF AppendUserFails, Base, Loose, Firm, Exact, Sound, At, WithoutAccount, files, audit
<1>2. Pending = {Len(users) + 1}
  BY <1>1, HolderCreates DEF Pending
<1> QED BY <1>1, <1>2, OneMore DEF Fault

LEMMA AppendAccountCounts ==
  ASSUME Base, Base', Created, NEW s \in Sessions, AppendAccount(s)
  PROVE  (Cardinality(WithoutAccount \ Pending) <= troubles)'
<1>1. /\ op[s].pc = "addAccount" /\ op'[s].pc = "menu" /\ Alone(s)
      /\ UNCHANGED <<users, modified>>
      /\ Unlock(s)
  BY NewPc DEF Base, AppendAccount, Finishing, At
<1>2. mutex = s => Pending = {op[s].owner} /\ Pending' = {}
  BY <1>1, HolderCreates DEF Pending, Unlock
<1>3. mutex # s => Pending' = Pending
  <2>1. ASSUME mutex # s
        PROVE  mutex' = mutex
    BY <1>1, <2>1 DEF Unlock
  <2> QED BY <1>1, <2>1 DEF Base, Loose, TypeOK, Alone, Pending
<1>4. CASE Fault /\ UNCHANGED accounts
  <2>1. WithoutAccount' = WithoutAccount /\ troubles' = troubles + 1
    BY <1>1, <1>4 DEF WithoutAccount, Fault
  <2> QED BY <1>2, <1>3, <2>1, OneMore
<1>5. CASE accounts' = Append(accounts, NewAccount(s)) /\ UNCHANGED troubles
  <2>1. /\ DOMAIN accounts' = DOMAIN accounts \cup {Len(accounts) + 1}
        /\ accounts'[Len(accounts) + 1].ownerUserId = op[s].owner
        /\ \A a \in DOMAIN accounts : accounts'[a] = accounts[a]
    BY <1>1, <1>5, AccountAppended DEF Base, NewAccount
  <2>2. WithoutAccount' \subseteq WithoutAccount \ {op[s].owner}
    BY <1>1, <2>1 DEF WithoutAccount
  <2> QED BY <1>2, <1>3, <1>5, <2>2, OneMore
<1> QED BY <1>4, <1>5 DEF AppendAccount, NewAccount

LEMMA CrashCounts ==
  ASSUME Base, Base', Created, Crash
  PROVE  (Cardinality(WithoutAccount \ Pending) <= troubles)'
<1>1. WithoutAccount' = WithoutAccount /\ troubles' = troubles + 1
  BY DEF Crash, WithoutAccount, files
<1>2. WithoutAccount \subseteq (WithoutAccount \ Pending) \cup {op[mutex].owner}
  BY DEF Pending
<1> QED BY <1>1, <1>2, OneMore

LEMMA InitCreated == ASSUME Init PROVE Created
<1>1. \A s \in Sessions : op[s].pc = "menu"
  BY IdleIsOp DEF Init
<1>2. CreatedUnique
  BY UsersAssumption DEF Init, CreatedUnique
<1>3. WithoutAccount = {}
  <2>1. users = InitialUsers /\ accounts = InitialAccounts
    BY DEF Init
  <2>2. \A r \in DOMAIN InitialUsers : InitialUsers[r].role = "CUSTOMER" =>
          \E a \in DOMAIN InitialAccounts : InitialAccounts[a].ownerUserId = r
    BY UsersAssumption
  <2> QED BY <2>1, <2>2 DEF WithoutAccount
<1>4. WithoutAccount \ Pending = {} /\ troubles = 0
  BY <1>3 DEF Init
<1>5. Cardinality(WithoutAccount \ Pending) <= troubles
  BY <1>4, FS_EmptySet
<1> QED BY <1>1, <1>2, <1>5 DEF Created, SameCreated, At, Editing

\* A session that comes to create a user has looked for the contact, or did so
\* before it read the id.
LEMMA ContactIsNew ==
  ASSUME Base, ~mistaken', [Next]_vars, NEW t \in Sessions,
         op'[t].pc \in {"userId", "addUser"}, op'[t] # op[t]
  PROVE  /\ users' = users /\ modified' = modified
         /\ \/ ~InUse(op'[t].user.contact)
            \/ op[t].pc = "userId" /\ op'[t].user = op[t].user
<1>1. op \in [Sessions -> Op]
  BY DEF Base, Loose, TypeOK, Op
<1>2. op' # op
  OBVIOUS
<1>3. ~Crash
  BY IdleIsOp DEF Crash
<1>4. \A s \in Sessions : ~Banking(s)
  BY <1>2, MoneyMoves DEF Base
<1>5. PICK s \in Sessions :
       \/ CheckUnique(s) \/ ReadUserId(s) \/ AppendUser(s) \/ BeginAccount(s)
       \/ GenerateNumber(s) \/ ReadAccountId(s) \/ ReadToModify(s) \/ ReadToChange(s)
       \/ ReadToSetStatus(s) \/ WriteStatus(s) \/ SweepAccount(s) \/ Finishing(s)
  BY <1>2, <1>3, <1>4 DEF Next, vars, Finishing, Banking
<1>6. Alone(s) /\ t = s /\ (CheckUnique(s) \/ ReadUserId(s))
  BY <1>5, NewPc DEF Base, Alone, Editing
<1>7. CASE CheckUnique(s)
  BY <1>6, <1>7, NewPc, Checked DEF Base, files, audit
<1>8. CASE ReadUserId(s)
  BY <1>6, <1>8, NewPc DEF Base, ReadUserId, files, audit
<1> QED BY <1>6, <1>7, <1>8

LEMMA UsersCount ==
  ASSUME Base, Base', Created, ~mistaken', [Next]_vars
  PROVE  (Cardinality(WithoutAccount \ Pending) <= troubles)'
<1>1. ASSUME NEW s \in Sessions,
             \/ BeginAccount(s) \/ GenerateNumber(s) \/ ReadAccountId(s)
             \/ ReadToModify(s) \/ ReadToChange(s) \/ ReadToSetStatus(s)
             \/ OpenAccountsFails(s) \/ EndSweep(s)
      PROVE  (Cardinality(WithoutAccount \ Pending) <= troubles)'
  <2>1. UNCHANGED <<users, accounts, mutex, modified>> /\ (troubles' = troubles \/ Fault)
    BY <1>1 DEF BeginAccount, GenerateNumber, ReadAccountId, ReadToModify, ReadToChange,
       ReadToSetStatus, OpenAccountsFails, EndSweep, Mistake, files, audit, bounds
  <2>2. Alone(s) /\ (op[s].pc \in Creating => op'[s].owner = op[s].owner)
    BY <1>1, NewPc DEF Base, OpenAccountsFails, EndSweep, At, Finishing, Creating
  <2>3. WithoutAccount' = WithoutAccount
    BY <2>1 DEF WithoutAccount
  <2> QED BY <2>1, <2>2, <2>3, CountsSteps
<1>2. ASSUME NEW s \in Sessions, WriteDetails(s) \/ WritePassword(s) \/ WriteStatus(s)
      PROVE  (Cardinality(WithoutAccount \ Pending) <= troubles)'
  <2>1. op[s].pc \in Editing /\ Alone(s)
    BY <1>2, NewPc DEF Base, WriteDetails, WritePassword, WriteStatus, At, Editing, Finishing
  <2>2. UNCHANGED <<accounts, mutex>> /\ (troubles' = troubles \/ Fault)
    BY <1>2 DEF WriteDetails, WritePassword, WriteStatus
  <2>3. (users' = users /\ modified' = modified) \/ \E c \in Changes : Writing(s, c)
    <3>1. \/ \E t \in Sessions, pc \in Editing, r \in 1..MaxUsers : Reading(t, pc, r)
          \/ \E t \in Sessions, c \in Changes : Writing(t, c)
          \/ \E t \in Sessions : AppendUser(t)
          \/ Still
      BY <1>2, UserMoves DEF Base, Next
    <3>2. op'[s].pc \notin Editing
      BY <1>2, NewPc DEF Base, Finishing, Editing
    <3>3. ASSUME NEW t \in Sessions, op'[t] # op[t]
          PROVE  t = s
      BY <2>1, <3>3 DEF Alone
    <3>4. ASSUME NEW t \in Sessions, NEW pc \in Editing, NEW r \in 1..MaxUsers,
                 Reading(t, pc, r)
          PROVE  FALSE
      <4>1. op[t].pc = "menu" /\ op'[t].pc \in Editing
        <5>1. PICK id : GetUser(t, pc, id, r)
          BY <3>4 DEF Reading
        <5> QED BY <3>4, <5>1, UserRead DEF Base, Reading, At
      <4> QED BY <2>1, <3>2, <3>3, <4>1 DEF Editing
    <3>5. ASSUME NEW t \in Sessions, AppendUser(t)
          PROVE  FALSE
      <4>1. op[t].pc = "addUser" /\ op'[t].pc # "addUser"
        BY <3>5, UserAppended DEF Base
      <4> QED BY <2>1, <3>3, <4>1 DEF Editing
    <3>6. ASSUME NEW t \in Sessions, NEW c \in Changes, Writing(t, c)
          PROVE  t = s
      <4>1. op[t].pc \in Editing /\ op'[t].pc \notin Editing
        BY <3>6 DEF Writing, Editing
      <4> QED BY <3>3, <4>1
    <3> QED BY <3>1, <3>4, <3>5, <3>6 DEF Still
  <2>4. WithoutAccount' \subseteq WithoutAccount
    <3>1. CASE users' = users /\ modified' = modified
      BY <2>2, <3>1 DEF WithoutAccount
    <3>2. ASSUME NEW c \in Changes, Writing(s, c)
          PROVE  WithoutAccount' \subseteq WithoutAccount
      <4>1. /\ op[s].row \in DOMAIN users /\ DOMAIN users' = DOMAIN users
            /\ users'[op[s].row] = Apply(c, op[s].user)
            /\ \A r \in DOMAIN users \ {op[s].row} : users'[r] = users[r]
            /\ op[s].user \in User
        BY <3>2, UserUpdated DEF Writing, Base, Loose, TypeOK
      <4>2. op[s].row \notin modified' => users'[op[s].row].role = users[op[s].row].role
        BY <3>2, <4>1, ApplyUser DEF Writing, Created, SameCreated
      <4>3. modified \subseteq modified'
        BY <3>2 DEF Writing
      <4> QED BY <2>2, <4>1, <4>2, <4>3, NoneJoins
    <3> QED BY <2>3, <3>1, <3>2
  <2> QED BY <2>1, <2>2, <2>4, CountsSteps DEF Editing, Creating
<1>3. ASSUME NEW s \in Sessions, SweepAccount(s)
      PROVE  (Cardinality(WithoutAccount \ Pending) <= troubles)'
  <2>1. /\ DOMAIN accounts' = DOMAIN accounts
        /\ \A a \in DOMAIN accounts : accounts'[a].ownerUserId = accounts[a].ownerUserId
        /\ UNCHANGED <<users, mutex, modified>> /\ op[s].pc = "scan"
    BY <1>3, AccountSwept DEF Base, SweepAccount, Grown, Same
  <2>2. Alone(s) /\ (troubles' = troubles \/ Fault)
    BY <1>3, NewPc DEF Base, SweepAccount
  <2>3. WithoutAccount' \subseteq WithoutAccount
    BY <2>1, NoneJoins
  <2> QED BY <2>1, <2>2, <2>3, CountsSteps DEF Creating
<1>4. ASSUME NEW s \in Sessions, Banking(s)
      PROVE  (Cardinality(WithoutAccount \ Pending) <= troubles)'
  <2>1. /\ UNCHANGED <<users, mutex, op, modified>> /\ (troubles' = troubles \/ Fault)
        /\ DOMAIN accounts' = DOMAIN accounts
        /\ \A a \in DOMAIN accounts : accounts'[a].ownerUserId = accounts[a].ownerUserId
    BY <1>4, MoneyMoves DEF Base, audit, Grown, Same
  <2>2. WithoutAccount' \subseteq WithoutAccount /\ Pending' = Pending
    BY <2>1, NoneJoins DEF Pending
  <2> QED BY <2>1, <2>2, OneMore DEF Fault
<1>5. CASE UNCHANGED vars
  <2>1. WithoutAccount' = WithoutAccount /\ Pending' = Pending /\ troubles' = troubles
    BY <1>5 DEF vars, files, audit, bounds, WithoutAccount, Pending
  <2> QED BY <2>1 DEF Created
<1> QED BY <1>1, <1>2, <1>3, <1>4, <1>5, CheckUniqueCounts, ReadUserIdCounts,
        AbortCreationCounts, AppendUserCounts, AppendUserFailsCounts, AppendAccountCounts,
        CrashCounts DEF Next, Banking

LEMMA NextCreated ==
  ASSUME Base, Base', Created, ~mistaken, ~mistaken', [Next]_vars
  PROVE  Created'
<1>1. /\ TypeOK /\ \A r \in DOMAIN users : users[r] \in User
      /\ \A s \in Sessions : op[s].pc \in Editing => op[s].row \in DOMAIN users
  BY Files DEF Base, Loose, Firm
<1>2. (Cardinality(WithoutAccount \ Pending) <= troubles)'
  BY UsersCount
<1>3. ASSUME NEW s \in Sessions, op'[s].pc \in {"userId", "addUser"}, op'[s] # op[s]
      PROVE  \A r \in DOMAIN users' \ modified' : users'[r].contact # op'[s].user.contact
  BY <1>3, ContactIsNew DEF InUse, Created
<1>4. ASSUME NEW s \in Sessions, NEW pc \in Editing, NEW r \in 1..MaxUsers, Reading(s, pc, r)
      PROVE  Created'
  <2>1. /\ op'[s].user = users[r] /\ op'[s].row = r
        /\ \A t \in Sessions \ {s} : op'[t] = op[t]
    <3>1. PICK id : GetUser(s, pc, id, r)
      BY <1>4 DEF Reading
    <3>2. op' = [op EXCEPT ![s] = op'[s]] /\ op'[s].user = users[r] /\ op'[s].row = r
      BY <3>1, UserRead DEF Base, Reading
    <3>3. DOMAIN op = Sessions
      BY DEF Base, Loose, TypeOK
    <3> QED BY <3>2, <3>3
  <2>2. UNCHANGED <<users, modified>>
    BY <1>4 DEF Reading, files
  <2> QED BY <1>2, <1>3, <2>1, <2>2 DEF Created, SameCreated, CreatedUnique, At
<1>5. ASSUME NEW s \in Sessions, NEW c \in Changes, Writing(s, c)
      PROVE  Created'
  <2>1. /\ op[s].pc \in Editing /\ op'[s].pc \notin Editing
        /\ \A t \in Sessions \ {s} : op'[t] = op[t]
        /\ modified \subseteq modified'
    BY <1>5 DEF Writing, Editing
  <2>2. /\ op[s].row \in DOMAIN users /\ DOMAIN users' = DOMAIN users
        /\ users'[op[s].row] = Apply(c, op[s].user)
        /\ \A r \in DOMAIN users \ {op[s].row} : users'[r] = users[r]
        /\ op[s].user \in User
    BY <1>5, UserUpdated DEF Writing, Base, Loose, TypeOK
  <2>3. op[s].row \notin modified' =>
          /\ users'[op[s].row].contact = users[op[s].row].contact
          /\ users'[op[s].row].role = users[op[s].row].role
    BY <1>5, <2>2, ApplyUser DEF Writing, Created, SameCreated
  <2>4. \A r \in DOMAIN users \ modified' :
          users'[r].contact = users[r].contact /\ users'[r].role = users[r].role
    BY <2>2, <2>3
  <2>5. \A t \in Sessions : SameCreated(t)'
    BY <1>1, <2>1, <2>4 DEF Created, SameCreated
  <2>6. \A t \in Sessions : op'[t].pc \in {"userId", "addUser"} =>
          \A r \in DOMAIN users' \ modified' : users'[r].contact # op'[t].user.contact
    BY <1>3, <2>1, <2>2, <2>4 DEF Created, At
  <2>7. CreatedUnique'
    BY <2>1, <2>2, <2>4 DEF Created, CreatedUnique
  <2> QED BY <1>2, <2>5, <2>6, <2>7 DEF Created, At
<1>6. ASSUME NEW s \in Sessions, AppendUser(s)
      PROVE  Created'
  <2> DEFINE n == Len(users) + 1
  <2>1. /\ op[s].pc = "addUser" /\ mutex = s /\ n \notin DOMAIN users
        /\ DOMAIN users' = DOMAIN users \cup {n}
        /\ \A r \in DOMAIN users : users'[r] = users[r]
        /\ users'[n].contact = op[s].user.contact
        /\ op'[s].pc \in {"menu", "number"}
        /\ \A t \in Sessions \ {s} : op'[t] = op[t]
        /\ modified' = modified
    BY <1>6, UserAppended DEF Base
  <2>3. \A r \in DOMAIN users \ modified : users[r].contact # users'[n].contact
    BY <2>1 DEF Created, At
  <2>4. CreatedUnique'
    <3>1. ASSUME NEW i \in DOMAIN users \ modified, NEW j \in DOMAIN users \ modified, i # j
          PROVE  users'[i].contact # users'[j].contact
      BY <2>1, <3>1 DEF Created, CreatedUnique
    <3>2. ASSUME NEW i \in DOMAIN users \ modified
          PROVE  users'[i].contact # users'[n].contact
      BY <2>1, <2>3
    <3> HIDE DEF n
    <3> QED BY <2>1, <3>1, <3>2 DEF CreatedUnique
  <2>5. \A t \in Sessions : op'[t].pc \notin {"userId", "addUser"}
    BY <2>1 DEF Base, Loose, Firm
  <2>6. \A t \in Sessions : SameCreated(t)'
    BY <1>1, <2>1 DEF Created, SameCreated, Editing
  <2> QED BY <1>2, <2>4, <2>5, <2>6 DEF Created, At
<1>7. CASE Still
  <2>1. UNCHANGED <<users, modified>>
    BY <1>7 DEF Still
  <2>2. \A s \in Sessions : SameCreated(s)'
    BY <1>7, <2>1 DEF Still, Created, SameCreated
  <2>3. \A s \in Sessions : op'[s].pc \in {"userId", "addUser"} =>
          \A r \in DOMAIN users' \ modified' : users'[r].contact # op'[s].user.contact
    BY <1>3, <2>1 DEF Created, At
  <2>4. CreatedUnique'
    BY <2>1 DEF Created, CreatedUnique
  <2> QED BY <1>2, <2>2, <2>3, <2>4 DEF Created, At
<1> QED BY <1>4, <1>5, <1>6, <1>7, UserMoves DEF Base

LEMMA CreatedInvariant == Spec => [](mistaken \/ Created)
<1>1. Init => mistaken \/ Created
  BY InitCreated
<1>2. /\ Loose /\ (mistaken \/ Exact) /\ Loose' /\ (mistaken \/ Exact)'
      /\ (mistaken \/ Created) /\ [Next]_vars
      => (mistaken \/ Created)'
  BY NextCreated, Mistaken DEF Base
<1> QED BY <1>1, <1>2, LooseInvariant, ExactInvariant, PTL DEF Spec

\* Two users share a phone or an email only if handle_modify_user_details gave
\* it to one of them: under create_user_mutex nobody comes between
\* find_user_by_phone and addUser; unless a search that could not open the file
\* was taken for one without a hit.
THEOREM ContactsAreUnique == Spec => []CreatedUnique
<1>1. mistaken \/ Created => CreatedUnique
  BY DEF Created, CreatedUnique
<1> QED BY <1>1, CreatedInvariant, PTL

\* A customer without an account is being created, or a crash or a failed write
\* cut his creation: each leaves at most one (employee.c adds the user first),
\* while no file that cannot be opened has been taken for an empty one.
THEOREM OneCreationIsCut == Spec => []OneCreationCut
<1>1. ASSUME Base, Created
      PROVE  Cardinality(WithoutAccount) <= InCreation + troubles
  <2> DEFINE L == WithoutAccount \ Pending
             x == op[mutex].owner
  <2>1. /\ IsFiniteSet(L) /\ Cardinality(L) \in Nat /\ Cardinality(L) <= troubles
        /\ troubles \in Nat
    BY <1>1, WithoutFinite, FS_Difference, FS_CardinalityType DEF Base, Loose, Created
  <2>2. CASE InCreation = 1
    <3>1. WithoutAccount \subseteq L \cup {x}
      BY DEF Pending
    <3> HIDE DEF L, x
    <3>2. /\ IsFiniteSet(L \cup {x})
          /\ Cardinality(L \cup {x}) <= Cardinality(L) + 1
      BY <2>1, FS_AddElement
    <3>3. /\ Cardinality(WithoutAccount) <= Cardinality(L \cup {x})
          /\ Cardinality(WithoutAccount) \in Nat
          /\ Cardinality(L \cup {x}) \in Nat
      BY <3>1, <3>2, FS_Subset, FS_CardinalityType
    <3> QED BY <2>1, <2>2, <3>2, <3>3
  <2>3. CASE InCreation = 0
    <3>1. WithoutAccount = L
      BY <2>3 DEF InCreation, Pending, WithoutAccount
    <3> QED BY <2>1, <2>3, <3>1
  <2> QED BY <2>2, <2>3 DEF InCreation
<1>2. Loose /\ (mistaken \/ Exact) /\ (mistaken \/ Created) => OneCreationCut
  BY <1>1 DEF Base, OneCreationCut
<1> QED BY <1>2, LooseInvariant, ExactInvariant, CreatedInvariant, PTL
=============================================================================
