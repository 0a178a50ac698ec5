------------------------------ MODULE Sessions ------------------------------
(***************************************************************************)
(* Client connections of the server (server.c): a thread per connection,   *)
(* login, the table of active users that sessionMutex protects, the menus, *)
(* logout, and clients that disconnect at any point.                       *)
(*                                                                         *)
(* A step is what a thread does between two points at which another thread *)
(* can see the difference: a read of the socket, a write to it, a lock, or *)
(* one assignment to the table.  A write to a connection that the client   *)
(* has closed may raise SIGPIPE, which the server leaves at its default:   *)
(* the process ends.  It is then started again.                            *)
(***************************************************************************)
EXTENDS Integers

CONSTANTS
  Conns,        \* connections, each with its thread
  Users,        \* userIds in data/users.dat
  Role,         \* role of each user
  MaxSessions,  \* MAX_SESSIONS
  NoConn,       \* nobody, as the holder of sessionMutex
  NoUser,       \* no user: a slot of the table never written, a thread not logged in
  MaxDeaths     \* bound: times the process ends

Roles == {"CUSTOMER", "EMPLOYEE", "MANAGER", "ADMINISTRATOR"}

ASSUME SessionsAssumption ==
  /\ Role \in [Users -> Roles]
  /\ MaxSessions \in Nat \ {0}
  /\ NoConn \notin Conns /\ NoUser \notin Users
  /\ MaxDeaths \in Nat

VARIABLES
  pc,             \* where the thread of each connection is
  open,           \* connections whose socket the server has not closed
  connected,      \* connections that the client has not closed
  user,           \* user of each thread once check_login has found it
  level,          \* how many menus deep the thread is; 0 is the outermost
  activeUserIds,  \* the table, an array
  activeUserCount,
  index,          \* loop variable i of the thread inside the critical section
  sessionMutex,   \* the thread that holds it
  deaths

table == <<activeUserIds, activeUserCount>>
vars  == <<pc, open, connected, user, level, table, index, sessionMutex, deaths>>

Empty == [i \in 0..(MaxSessions - 1) |-> NoUser]

Init ==
  /\ pc = [c \in Conns |-> "none"]
  /\ open = {} /\ connected = {}
  /\ user = [c \in Conns |-> NoUser]
  /\ level = [c \in Conns |-> 0]
  /\ activeUserIds = Empty /\ activeUserCount = 0
  /\ index = 0
  /\ sessionMutex = NoConn
  /\ deaths = 0

Goto(c, p) == pc' = [pc EXCEPT ![c] = p]

-----------------------------------------------------------------------------
(* Connecting and logging in *)

\* The accept loop takes one connection after the other ...
Accept(c) ==
  /\ pc[c] = "none" /\ c \notin open
  /\ \A d \in Conns : pc[d] # "start"
  /\ Goto(c, "start")
  /\ open' = open \cup {c} /\ connected' = connected \cup {c}
  /\ UNCHANGED <<user, level, table, index, sessionMutex, deaths>>

\* ... starts a thread for it ...
StartThread(c) ==
  /\ pc[c] = "start"
  /\ Goto(c, "ask")
  /\ UNCHANGED <<open, connected, user, level, table, index, sessionMutex, deaths>>

\* ... or closes it again, if there is no memory or no thread to be had.
StartFails(c) ==
  /\ pc[c] = "start"
  /\ Goto(c, "none")
  /\ open' = open \ {c} /\ connected' = connected \ {c}
  /\ UNCHANGED <<user, level, table, index, sessionMutex, deaths>>

\* The client closes its end, between any two steps of the thread.
Disconnect(c) ==
  /\ c \in connected
  /\ connected' = connected \ {c}
  /\ UNCHANGED <<pc, open, user, level, table, index, sessionMutex, deaths>>

\* The prompts for role, user id and password, taken as one.
Ask(c) ==
  /\ pc[c] = "ask"
  /\ Goto(c, "login")
  /\ UNCHANGED <<open, connected, user, level, table, index, sessionMutex, deaths>>

\* The credentials are right, the user is active and has the chosen role ...
CheckLogin(c) ==
  /\ pc[c] = "login" /\ c \in connected
  /\ \E u \in Users : user' = [user EXCEPT ![c] = u]
  /\ Goto(c, "lock")
  /\ UNCHANGED <<open, connected, level, table, index, sessionMutex, deaths>>

\* ... or not.
LoginFailed(c) ==
  /\ pc[c] = "login" /\ c \in connected
  /\ Goto(c, "refuse")
  /\ UNCHANGED <<open, connected, user, level, table, index, sessionMutex, deaths>>

\* A read that fails before the login is over ends the thread at once.
LoginAbandoned(c) ==
  /\ pc[c] = "login" /\ c \notin connected
  /\ Goto(c, "none")
  /\ UNCHANGED <<open, connected, user, level, table, index, sessionMutex, deaths>>

-----------------------------------------------------------------------------
(* The table of active users *)

Lock(c)   == sessionMutex = NoConn /\ sessionMutex' = c
Unlock(c) == sessionMutex' = NoConn

\* Variant: the table is read without taking the mutex.
LockToEnterNot(c) ==
  /\ pc[c] = "lock"
  /\ Goto(c, "search")
  /\ index' = 0
  /\ UNCHANGED <<open, connected, user, level, table, sessionMutex, deaths>>

LockToEnter(c) ==
  /\ pc[c] = "lock"
  /\ Lock(c)
  /\ Goto(c, "search")
  /\ index' = 0
  /\ UNCHANGED <<open, connected, user, level, table, deaths>>

\* One iteration of the search for alreadyLoggedIn.
SearchNext(c) ==
  /\ pc[c] = "search"
  /\ index < activeUserCount
  /\ activeUserIds[index] # user[c]
  /\ index' = index + 1
  /\ UNCHANGED <<pc, open, connected, user, level, table, sessionMutex, deaths>>

AlreadyLoggedIn(c) ==
  /\ pc[c] = "search"
  /\ index < activeUserCount
  /\ activeUserIds[index] = user[c]
  /\ Unlock(c)
  /\ Goto(c, "refuse")
  /\ UNCHANGED <<open, connected, user, level, table, index, deaths>>

\* Variant: one of the paths forgets to unlock.
ServerFullLocked(c) ==
  /\ pc[c] = "search"
  /\ index >= activeUserCount
  /\ activeUserCount >= MaxSessions
  /\ Goto(c, "refuse")
  /\ UNCHANGED <<open, connected, user, level, table, index, sessionMutex, deaths>>

ServerFull(c) ==
  /\ pc[c] = "search"
  /\ index >= activeUserCount
  /\ activeUserCount >= MaxSessions
  /\ Unlock(c)
  /\ Goto(c, "refuse")
  /\ UNCHANGED <<open, connected, user, level, table, index, deaths>>

\* Variant: the size of the array is not checked.
InsertUnchecked(c) ==
  /\ pc[c] = "search"
  /\ index >= activeUserCount
  /\ activeUserIds' = [i \in 0..(MaxSessions - 1) |->
                         IF i = activeUserCount THEN user[c] ELSE activeUserIds[i]]
  /\ Goto(c, "count")
  /\ UNCHANGED <<open, connected, user, level, activeUserCount, index, sessionMutex, deaths>>

Insert(c) ==
  /\ pc[c] = "search"
  /\ index >= activeUserCount
  /\ activeUserCount < MaxSessions
  /\ activeUserIds' = [activeUserIds EXCEPT ![activeUserCount] = user[c]]
  /\ Goto(c, "count")
  /\ UNCHANGED <<open, connected, user, level, activeUserCount, index, sessionMutex, deaths>>

\* The session exists; level 0 is the menu of the user's role.
Enter(c) ==
  /\ pc[c] = "count"
  /\ activeUserCount' = activeUserCount + 1
  /\ Unlock(c)
  /\ level' = [level EXCEPT ![c] = 0]
  /\ Goto(c, "show")
  /\ UNCHANGED <<open, connected, user, activeUserIds, index, deaths>>

LockToLeave(c) ==
  /\ pc[c] = "leave"
  /\ Lock(c)
  /\ Goto(c, "find")
  /\ index' = 0
  /\ UNCHANGED <<open, connected, user, level, table, deaths>>

\* The search of the clean-up, which always ends at an entry (EntryFound).
FindNext(c) ==
  /\ pc[c] = "find"
  /\ index < activeUserCount
  /\ activeUserIds[index] # user[c]
  /\ index' = index + 1
  /\ UNCHANGED <<pc, open, connected, user, level, table, sessionMutex, deaths>>

\* Variant: a pop without the swap.
SwapNot(c) ==
  /\ pc[c] = "find"
  /\ index < activeUserCount
  /\ activeUserIds[index] = user[c]
  /\ Goto(c, "pop")
  /\ UNCHANGED <<open, connected, user, level, table, index, sessionMutex, deaths>>

\* Swap-and-pop: the last entry takes the place of the one removed.
Swap(c) ==
  /\ pc[c] = "find"
  /\ index < activeUserCount
  /\ activeUserIds[index] = user[c]
  /\ activeUserIds' = [activeUserIds EXCEPT ![index] = activeUserIds[activeUserCount - 1]]
  /\ Goto(c, "pop")
  /\ UNCHANGED <<open, connected, user, level, activeUserCount, index, sessionMutex, deaths>>

Pop(c) ==
  /\ pc[c] = "pop"
  /\ activeUserCount' = activeUserCount - 1
  /\ Unlock(c)
  /\ Goto(c, "close")
  /\ UNCHANGED <<open, connected, user, level, activeUserIds, index, deaths>>

\* Variant: the clean-up runs after a refused login too.
RefuseAndCleanUp(c) ==
  /\ pc[c] = "refuse"
  /\ Goto(c, "leave")
  /\ UNCHANGED <<open, connected, user, level, table, index, sessionMutex, deaths>>

\* Variant: a refused login returns as an abandoned one does.
RefuseWithoutClose(c) ==
  /\ pc[c] = "refuse"
  /\ Goto(c, "none")
  /\ UNCHANGED <<open, connected, user, level, table, index, sessionMutex, deaths>>

\* The error message of a login that did not succeed; no clean-up follows.
Refuse(c) ==
  /\ pc[c] = "refuse"
  /\ Goto(c, "close")
  /\ UNCHANGED <<open, connected, user, level, table, index, sessionMutex, deaths>>

Close(c) ==
  /\ pc[c] = "close"
  /\ Goto(c, "none")
  /\ open' = open \ {c} /\ connected' = connected \ {c}
  /\ user' = [user EXCEPT ![c] = NoUser]
  /\ UNCHANGED <<level, table, index, sessionMutex, deaths>>

-----------------------------------------------------------------------------
(* Menus *)

\* account_selection_menu, customer_menu and the prompts of a handler; the
\* menu and the prompts of a handler for the other roles.
Depth(c) == IF Role[user[c]] = "CUSTOMER" THEN 2 ELSE 1

\* The menu or prompt is written.
Show(c) ==
  /\ pc[c] = "show"
  /\ Goto(c, "read")
  /\ UNCHANGED <<open, connected, user, level, table, index, sessionMutex, deaths>>

\* account_selection_menu returns at once for a customer who has no active
\* account left.
NoAccounts(c) ==
  /\ pc[c] = "show" /\ level[c] = 0
  /\ Role[user[c]] = "CUSTOMER"
  /\ Goto(c, "leave")
  /\ UNCHANGED <<open, connected, user, level, table, index, sessionMutex, deaths>>

\* customer_menu returns at once if it cannot read the account.
AccountGone(c) ==
  /\ pc[c] = "show" /\ level[c] = 1
  /\ Role[user[c]] = "CUSTOMER"
  /\ level' = [level EXCEPT ![c] = 0]
  /\ UNCHANGED <<pc, open, connected, user, table, index, sessionMutex, deaths>>

\* The client chooses something from the menu, returns from it, or types what
\* is no choice.
Choose(c) ==
  /\ pc[c] = "read" /\ c \in connected
  /\ \/ level[c] < Depth(c) /\ level' = [level EXCEPT ![c] = @ + 1]
     \/ level[c] > 0 /\ level' = [level EXCEPT ![c] = @ - 1]
     \/ UNCHANGED level
  /\ Goto(c, "show")
  /\ UNCHANGED <<open, connected, user, table, index, sessionMutex, deaths>>

Logout(c) ==
  /\ pc[c] = "read" /\ c \in connected
  /\ level[c] = 0
  /\ Goto(c, "leave")
  /\ UNCHANGED <<open, connected, user, level, table, index, sessionMutex, deaths>>

\* A read that fails takes the thread one menu up ...
ReadFails(c) ==
  /\ pc[c] = "read" /\ c \notin connected
  /\ level[c] > 0
  /\ level' = [level EXCEPT ![c] = @ - 1]
  /\ Goto(c, "show")
  /\ UNCHANGED <<open, connected, user, table, index, sessionMutex, deaths>>

\* Variant: the manager's menu does not look at the result either.
MenuReadFailsCustomer(c) ==
  /\ pc[c] = "read" /\ c \notin connected
  /\ level[c] = 0
  /\ Role[user[c]] = "CUSTOMER"
  /\ Goto(c, "leave")
  /\ UNCHANGED <<open, connected, user, level, table, index, sessionMutex, deaths>>

\* ... and out of the outermost menu of a customer or a manager ...
MenuReadFails(c) ==
  /\ pc[c] = "read" /\ c \notin connected
  /\ level[c] = 0
  /\ Role[user[c]] \in {"CUSTOMER", "MANAGER"}
  /\ Goto(c, "leave")
  /\ UNCHANGED <<open, connected, user, level, table, index, sessionMutex, deaths>>

\* ... but the menus of employees and administrators do not look at the result:
\* an empty choice is an invalid one, and the menu is written again.
MenuReadIgnored(c) ==
  /\ pc[c] = "read" /\ c \notin connected
  /\ level[c] = 0
  /\ Role[user[c]] \in {"EMPLOYEE", "ADMINISTRATOR"}
  /\ Goto(c, "show")
  /\ UNCHANGED <<open, connected, user, level, table, index, sessionMutex, deaths>>

\* A thread writes to a connection that the client has closed, and the reset
\* has arrived: SIGPIPE ends the process, with the table and every connection.
WriteKills(c) ==
  /\ pc[c] \in {"ask", "refuse", "show"} /\ c \notin connected
  /\ deaths < MaxDeaths
  /\ deaths' = deaths + 1
  /\ pc' = [d \in Conns |-> "none"]
  /\ open' = {} /\ connected' = {}
  /\ user' = [d \in Conns |-> NoUser]
  /\ level' = [d \in Conns |-> 0]
  /\ activeUserIds' = Empty /\ activeUserCount' = 0
  /\ index' = 0
  /\ sessionMutex' = NoConn

-----------------------------------------------------------------------------

\* What the thread does by itself, and what the client and the main thread do.
Login(c) ==
  \/ Ask(c) \/ LoginAbandoned(c)
  \/ LockToEnter(c) \/ SearchNext(c) \/ AlreadyLoggedIn(c) \/ ServerFull(c)
  \/ Insert(c) \/ Enter(c)

Leave(c) ==
  \/ LockToLeave(c) \/ FindNext(c) \/ Swap(c) \/ Pop(c)
  \/ Refuse(c) \/ Close(c)

Menu(c) ==
  \/ Show(c) \/ NoAccounts(c) \/ AccountGone(c)
  \/ ReadFails(c) \/ MenuReadFails(c) \/ MenuReadIgnored(c)

Client(c) ==
  \/ Accept(c) \/ StartThread(c) \/ StartFails(c) \/ Disconnect(c)
  \/ CheckLogin(c) \/ LoginFailed(c) \/ Choose(c) \/ Logout(c)

Next ==
  \E c \in Conns : Login(c) \/ Leave(c) \/ Menu(c) \/ Client(c) \/ WriteKills(c)

Spec == Init /\ [][Next]_vars

\* A thread that can go on does; one that waits for sessionMutex gets it if it
\* is free again and again.  Nothing is assumed of the clients.
FairSpec ==
  /\ Spec
  /\ \A c \in Conns : /\ WF_vars(Login(c) \/ Leave(c) \/ Menu(c))
                      /\ SF_vars(LockToEnter(c)) /\ SF_vars(LockToLeave(c))

-----------------------------------------------------------------------------
(* Properties *)

Critical  == {"search", "count", "find", "pop"}
InSession == {"show", "read", "leave", "find", "pop"}

TypeOK ==
  /\ pc \in [Conns -> {"none", "start", "ask", "login", "lock", "leave", "show", "read",
                       "refuse", "close"} \cup Critical]
  /\ open \subseteq Conns /\ connected \subseteq open
  /\ user \in [Conns -> Users \cup {NoUser}]
  /\ level \in [Conns -> 0..2]
  /\ activeUserIds \in [0..(MaxSessions - 1) -> Users \cup {NoUser}]
  /\ activeUserCount \in 0..MaxSessions
  /\ index \in 0..MaxSessions
  /\ sessionMutex \in Conns \cup {NoConn}
  /\ deaths \in Nat

\* README.md line 36: no two threads serve the same user at the same time,
\* from the entry in the table to its removal, however logins, logouts and
\* disconnects interleave.
OneSessionPerUser ==
  \A c, d \in Conns :
    pc[c] \in InSession /\ pc[d] \in InSession /\ user[c] = user[d] => c = d

\* Between two critical sections the table lists the users in session, each
\* once: no entry is lost when the last one is moved into a hole, none is left
\* behind, and a refused login removes nobody.
TableExact ==
  sessionMutex = NoConn =>
    /\ {activeUserIds[i] : i \in 0..(activeUserCount - 1)}
         = {user[c] : c \in {d \in Conns : pc[d] \in InSession}}
    /\ \A i, j \in 0..(activeUserCount - 1) :
         activeUserIds[i] = activeUserIds[j] => i = j

\* The search of the clean-up comes to the entry of its user: no other thread
\* has moved it out of reach or removed it.
EntryFound ==
  \A c \in Conns :
    pc[c] = "find" => \E i \in index..(activeUserCount - 1) : activeUserIds[i] = user[c]

\* A client that is still there is never left on an open socket without a
\* thread: the returns of handle_client that skip close (server.c:209, 244, 248)
\* leak only sockets of clients that have gone.
NobodyStranded == \A c \in connected : pc[c] # "none"

\* A thread ends its menus and gives its entry back if its client is gone, for
\* the roles whose menus look at the result of read_client_input.
OrphanRemoved(c) ==
  (pc[c] = "read" /\ c \notin connected /\ Role[user[c]] \in {"CUSTOMER", "MANAGER"})
    ~> (pc[c] \notin InSession)

OrphansRemoved == \A c \in Conns : OrphanRemoved(c)

\* Every login is decided, even if the client has disconnected meanwhile: no
\* path through the critical sections keeps sessionMutex.
LoginDecided == \A c \in Conns : (pc[c] = "lock") ~> (pc[c] \in {"show", "refuse", "none"})

\* README.md line 88: "The server robustly handles unexpected client disconnects
\* (`Ctrl+C`) by detecting the `read()` failure, which causes the thread to exit
\* and trigger the session cleanup logic."  The disconnect of one client does not
\* end the session of another one that is still there.
DisconnectContained ==
  [][\A c \in connected : pc[c] \in {"show", "read"} => c \in open']_vars
=============================================================================
