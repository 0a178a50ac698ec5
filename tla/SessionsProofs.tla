---------------------------- MODULE SessionsProofs ----------------------------
(* Theorems about Sessions, for any number of connections, users and slots. *)
EXTENDS Sessions, TLAPS

USE DEF Critical

\* Threads whose user is, or is about to be, out of reach of another login.
Seated == {"count", "show", "read", "leave", "find", "pop"}
Listed == Seated \ {"pop"}

\* sessionMutex is held by the one thread inside a critical section.
MutexHeld == \A c \in Conns : pc[c] \in Critical <=> sessionMutex = c

\* Length of the table once the critical section that is being executed, if
\* any, has set activeUserCount.
Live ==
  IF \E c \in Conns : pc[c] = "count" THEN activeUserCount + 1
  ELSE IF \E c \in Conns : pc[c] = "pop" THEN activeUserCount - 1
  ELSE activeUserCount

\* The first n entries list the users of the threads in Listed, each once.
Rows(n) ==
  /\ n \in 0..MaxSessions
  /\ \A c \in Conns : pc[c] \in Listed => \E i \in 0..(n - 1) : activeUserIds[i] = user[c]
  /\ \A i \in 0..(n - 1) : \E c \in Conns : pc[c] \in Listed /\ activeUserIds[i] = user[c]
  /\ \A i, j \in 0..(n - 1) : activeUserIds[i] = activeUserIds[j] => i = j

OneSeat ==
  \A c, d \in Conns : pc[c] \in Seated /\ pc[d] \in Seated /\ user[c] = user[d] => c = d

\* The entries that a search has passed are not those of its user.
Searched ==
  \A c \in Conns : pc[c] \in {"search", "find"} =>
    \A i \in 0..(index - 1) : activeUserIds[i] # user[c]

Inv == TypeOK /\ MutexHeld /\ Rows(Live) /\ OneSeat /\ Searched

-----------------------------------------------------------------------------
(* Init and the steps outside of the critical sections *)

LEMMA InitInv == Init => Inv
<1> SUFFICES ASSUME Init PROVE Inv
  OBVIOUS
<1>1. TypeOK
  BY SessionsAssumption DEF Init, TypeOK, Empty
<1>2. MutexHeld /\ OneSeat /\ Searched
  BY SessionsAssumption DEF Init, MutexHeld, OneSeat, Searched, Seated
<1>3. Live = 0
  BY DEF Init, Live
<1>4. Rows(0)
  BY SessionsAssumption DEF Init, Rows, Listed, Seated
<1> QED BY <1>1, <1>2, <1>3, <1>4 DEF Inv

\* A thread moves on without entering or leaving the session table; a user who
\* is looked for or listed does not change.
LEMMA OutsideStep ==
  ASSUME Inv, NEW c \in Conns, NEW p,
         pc' = [pc EXCEPT ![c] = p],
         pc[c] \notin Critical, p \notin Critical, pc[c] \in Seated <=> p \in Seated,
         \A d \in Conns : pc[d] \in Seated \cup {"search"} => user'[d] = user[d],
         UNCHANGED <<activeUserIds, activeUserCount, index, sessionMutex>>
  PROVE  MutexHeld' /\ Rows(Live)' /\ OneSeat' /\ Searched'
<1>1. /\ pc'[c] = p
      /\ \A d \in Conns \ {c} : pc'[d] = pc[d]
  BY DEF Inv, TypeOK
<1>2. \A d \in Conns : /\ pc'[d] \in Seated <=> pc[d] \in Seated
                       /\ pc'[d] \in Listed <=> pc[d] \in Listed
                       /\ pc'[d] \in Critical <=> pc[d] \in Critical
                       /\ pc'[d] = "count" <=> pc[d] = "count"
                       /\ pc'[d] = "pop" <=> pc[d] = "pop"
                       /\ pc'[d] \in {"search", "find"} <=> pc[d] \in {"search", "find"}
  BY <1>1 DEF Listed, Seated
<1>3. MutexHeld'
  BY <1>2 DEF Inv, MutexHeld
<1>4. Live' = Live
  BY <1>2 DEF Live
<1>5. \A d \in Conns : pc[d] \in Listed => user'[d] = user[d]
  BY DEF Listed
<1>6. Rows(Live)'
  BY <1>2, <1>4, <1>5 DEF Inv, Rows
<1>7. OneSeat' /\ Searched'
  BY <1>2 DEF Inv, OneSeat, Searched, Seated
<1> QED BY <1>3, <1>6, <1>7

-----------------------------------------------------------------------------
(* Steps into, inside and out of the critical sections *)

LEMMA Alone ==
  ASSUME Inv, NEW c \in Conns, pc[c] \in Critical
  PROVE  /\ sessionMutex = c
         /\ \A d \in Conns \ {c} : pc[d] \notin Critical
  BY DEF Inv, MutexHeld

\* A thread takes the mutex.
LEMMA LockStep ==
  ASSUME Inv, NEW c \in Conns, NEW p \in {"search", "find"},
         pc[c] = (IF p = "search" THEN "lock" ELSE "leave"),
         pc' = [pc EXCEPT ![c] = p], Lock(c), index' = 0,
         UNCHANGED <<user, activeUserIds, activeUserCount>>
  PROVE  MutexHeld' /\ Rows(Live)' /\ OneSeat' /\ Searched'
<1>1. /\ pc'[c] = p
      /\ \A d \in Conns \ {c} : pc'[d] = pc[d]
  BY DEF Inv, TypeOK
<1>2. sessionMutex = NoConn /\ sessionMutex' = c
  BY DEF Lock
<1>3. \A d \in Conns : pc[d] \notin Critical
  BY <1>2, SessionsAssumption DEF Inv, MutexHeld
<1>4. MutexHeld'
  BY <1>1, <1>2, <1>3 DEF MutexHeld
<1>5. \A d \in Conns : /\ pc'[d] \in Seated <=> pc[d] \in Seated
                       /\ pc'[d] \in Listed <=> pc[d] \in Listed
  BY <1>1 DEF Listed, Seated
<1>6. Live = activeUserCount /\ Live' = activeUserCount
  BY <1>1, <1>3 DEF Live
<1>7. Rows(Live)'
  BY <1>5, <1>6 DEF Inv, Rows
<1>8. OneSeat'
  BY <1>5 DEF Inv, OneSeat
<1>9. Searched'
  BY DEF Searched
<1> QED BY <1>4, <1>7, <1>8, <1>9

\* A search moves on to the next entry.
LEMMA SearchStep ==
  ASSUME Inv, NEW c \in Conns, pc[c] \in {"search", "find"},
         activeUserIds[index] # user[c], index' = index + 1,
         UNCHANGED <<pc, user, activeUserIds, activeUserCount, sessionMutex>>
  PROVE  MutexHeld' /\ Rows(Live)' /\ OneSeat' /\ Searched'
<1>1. MutexHeld' /\ Live' = Live /\ OneSeat'
  BY DEF Inv, MutexHeld, Live, OneSeat
<1>2. Rows(Live)'
  BY <1>1 DEF Inv, Rows
<1>3. Searched'
  <2> SUFFICES ASSUME NEW d \in Conns, pc[d] \in {"search", "find"}, NEW i \in 0..index
               PROVE  activeUserIds[i] # user[d]
    BY DEF Searched, Inv, TypeOK
  <2>1. d = c
    BY Alone
  <2>2. index \in Nat
    BY DEF Inv, TypeOK
  <2>3. CASE i = index
    BY <2>1, <2>3
  <2>4. CASE i \in 0..(index - 1)
    BY <2>4 DEF Inv, Searched
  <2> QED BY <2>2, <2>3, <2>4
<1> QED BY <1>1, <1>2, <1>3

\* A login is refused inside the critical section.
LEMMA RefusedStep ==
  ASSUME Inv, NEW c \in Conns, pc[c] = "search",
         pc' = [pc EXCEPT ![c] = "refuse"], Unlock(c),
         UNCHANGED <<user, activeUserIds, activeUserCount, index>>
  PROVE  MutexHeld' /\ Rows(Live)' /\ OneSeat' /\ Searched'
<1>1. /\ pc'[c] = "refuse"
      /\ \A d \in Conns \ {c} : pc'[d] = pc[d] /\ pc[d] \notin Critical
  BY Alone DEF Inv, TypeOK
<1>2. MutexHeld'
  BY <1>1, SessionsAssumption DEF Unlock, MutexHeld
<1>3. \A d \in Conns : /\ pc'[d] \in Seated <=> pc[d] \in Seated
                       /\ pc'[d] \in Listed <=> pc[d] \in Listed
  BY <1>1 DEF Listed, Seated
<1>4. Live = activeUserCount /\ Live' = activeUserCount
  BY <1>1 DEF Live
<1>5. Rows(Live)'
  BY <1>3, <1>4 DEF Inv, Rows
<1>6. OneSeat'
  BY <1>3 DEF Inv, OneSeat
<1>7. Searched'
  BY <1>1 DEF Searched
<1> QED BY <1>2, <1>5, <1>6, <1>7

\* The search has found no entry of the user: nobody else has the user's seat.
LEMMA InsertStep ==
  ASSUME Inv, NEW c \in Conns, Insert(c)
  PROVE  MutexHeld' /\ Rows(Live)' /\ OneSeat' /\ Searched'
<1>1. /\ pc[c] = "search" /\ index >= activeUserCount /\ activeUserCount < MaxSessions
      /\ activeUserIds' = [activeUserIds EXCEPT ![activeUserCount] = user[c]]
      /\ UNCHANGED <<user, activeUserCount, index, sessionMutex>>
  BY DEF Insert
<1>2. /\ pc'[c] = "count"
      /\ \A d \in Conns \ {c} : pc'[d] = pc[d] /\ pc[d] \notin Critical
  BY <1>1, Alone DEF Insert, Goto, Inv, TypeOK
<1>3. activeUserCount \in Nat /\ index \in Nat /\ MaxSessions \in Nat
  BY SessionsAssumption DEF Inv, TypeOK
<1>4. /\ activeUserIds'[activeUserCount] = user[c]
      /\ \A i \in 0..(activeUserCount - 1) : activeUserIds'[i] = activeUserIds[i]
  BY <1>1, <1>3 DEF Inv, TypeOK
<1>5. Live = activeUserCount /\ Live' = activeUserCount + 1
  BY <1>1, <1>2 DEF Live
<1>6. \A i \in 0..(activeUserCount - 1) : activeUserIds[i] # user[c]
  BY <1>1, <1>3 DEF Inv, Searched
<1>7. Rows(activeUserCount)
  BY <1>5 DEF Inv
<1>8. \A d \in Conns \ {c} : pc[d] \in Seated => pc[d] \in Listed /\ user[d] # user[c]
  BY <1>2, <1>6, <1>7 DEF Seated, Listed, Rows
<1>9. MutexHeld'
  BY <1>1, <1>2 DEF Inv, MutexHeld
<1>10. OneSeat'
  BY <1>1, <1>2, <1>8 DEF Inv, OneSeat
<1>11. Searched'
  BY <1>2 DEF Searched
<1>12. Rows(Live)'
  <2>1. Live' \in 0..MaxSessions
    BY <1>1, <1>3, <1>5
  <2>2. ASSUME NEW d \in Conns, pc'[d] \in Listed
        PROVE  \E i \in 0..activeUserCount : activeUserIds'[i] = user[d]
    <3>1. CASE d = c
      BY <3>1, <1>3, <1>4
    <3>2. CASE d # c
      BY <3>2, <2>2, <1>2, <1>3, <1>4, <1>7 DEF Rows
    <3> QED BY <3>1, <3>2
  <2>3. ASSUME NEW i \in 0..activeUserCount
        PROVE  \E d \in Conns : pc'[d] \in Listed /\ activeUserIds'[i] = user[d]
    <3>1. CASE i = activeUserCount
      BY <3>1, <1>2, <1>4 DEF Listed, Seated
    <3>2. CASE i \in 0..(activeUserCount - 1)
      <4>1. PICK d \in Conns : pc[d] \in Listed /\ activeUserIds[i] = user[d]
        BY <3>2, <1>7 DEF Rows
      <4>2. d # c
        BY <4>1, <1>1 DEF Listed, Seated
      <4> QED BY <3>2, <4>1, <4>2, <1>2, <1>4
    <3> QED BY <3>1, <3>2, <1>3
  <2>4. ASSUME NEW i \in 0..activeUserCount, NEW j \in 0..activeUserCount,
               activeUserIds'[i] = activeUserIds'[j]
        PROVE  i = j
    BY <2>4, <1>3, <1>4, <1>6, <1>7 DEF Rows
  <2> QED BY <1>1, <1>3, <1>5, <2>1, <2>2, <2>3, <2>4 DEF Rows
<1> QED BY <1>9, <1>10, <1>11, <1>12

\* The entry written by Insert becomes part of the table.
LEMMA EnterStep ==
  ASSUME Inv, NEW c \in Conns, Enter(c)
  PROVE  MutexHeld' /\ Rows(Live)' /\ OneSeat' /\ Searched'
<1>1. /\ pc[c] = "count" /\ activeUserCount' = activeUserCount + 1
      /\ sessionMutex' = NoConn
      /\ UNCHANGED <<user, activeUserIds, index>>
  BY DEF Enter, Unlock
<1>2. /\ pc'[c] = "show"
      /\ \A d \in Conns \ {c} : pc'[d] = pc[d] /\ pc[d] \notin Critical
  BY <1>1, Alone DEF Enter, Goto, Inv, TypeOK
<1>3. \A d \in Conns : /\ pc'[d] \in Seated <=> pc[d] \in Seated
                       /\ pc'[d] \in Listed <=> pc[d] \in Listed
  BY <1>1, <1>2 DEF Listed, Seated
<1>4. Live = activeUserCount + 1 /\ Live' = activeUserCount + 1
  BY <1>1, <1>2 DEF Live
<1>5. MutexHeld'
  BY <1>1, <1>2, SessionsAssumption DEF MutexHeld
<1>6. Rows(Live)'
  BY <1>1, <1>3, <1>4 DEF Inv, Rows
<1>7. OneSeat'
  BY <1>1, <1>3 DEF Inv, OneSeat
<1>8. Searched'
  BY <1>2 DEF Searched
<1> QED BY <1>5, <1>6, <1>7, <1>8

\* Swap-and-pop: the last entry, which may be another user's, takes the place
\* of the entry that goes; the rows that stay list everybody else.
LEMMA SwapStep ==
  ASSUME Inv, NEW c \in Conns, Swap(c)
  PROVE  MutexHeld' /\ Rows(Live)' /\ OneSeat' /\ Searched'
<1> DEFINE last == activeUserCount - 1
<1>1. /\ pc[c] = "find" /\ index < activeUserCount /\ activeUserIds[index] = user[c]
      /\ activeUserIds' = [activeUserIds EXCEPT ![index] = activeUserIds[last]]
      /\ UNCHANGED <<user, activeUserCount, index, sessionMutex>>
  BY DEF Swap
<1>2. /\ pc'[c] = "pop"
      /\ \A d \in Conns \ {c} : pc'[d] = pc[d] /\ pc[d] \notin Critical
  BY <1>1, Alone DEF Swap, Goto, Inv, TypeOK
<1>3. activeUserCount \in 0..MaxSessions /\ index \in Nat /\ MaxSessions \in Nat
  BY SessionsAssumption DEF Inv, TypeOK
<1>4. last \in 0..MaxSessions /\ index \in 0..last
  BY <1>1, <1>3
<1>5. /\ activeUserIds'[index] = activeUserIds[last]
      /\ \A i \in 0..last : i # index => activeUserIds'[i] = activeUserIds[i]
  BY <1>1, <1>3, <1>4 DEF Inv, TypeOK
<1>6. Live = activeUserCount /\ Live' = last
  BY <1>1, <1>2 DEF Live
<1>7. Rows(activeUserCount)
  BY <1>6 DEF Inv
<1>8. \A d \in Conns \ {c} : pc[d] \in Seated => pc[d] \in Listed /\ user[d] # user[c]
  BY <1>1, <1>2 DEF Seated, Listed, Inv, OneSeat
<1>9. MutexHeld'
  BY <1>1, <1>2 DEF Inv, MutexHeld
<1>10. OneSeat'
  BY <1>1, <1>2, <1>8 DEF Inv, OneSeat
<1>11. Searched'
  BY <1>2 DEF Searched
<1>12. Rows(Live)'
  <2>1. ASSUME NEW d \in Conns, pc'[d] \in Listed
        PROVE  \E i \in 0..(last - 1) : activeUserIds'[i] = user[d]
    <3>1. d # c /\ pc[d] \in Listed
      BY <2>1, <1>2 DEF Listed, Seated
    <3>2. PICK i \in 0..last : activeUserIds[i] = user[d]
      BY <3>1, <1>3, <1>7 DEF Rows
    <3>3. i # index
      BY <3>1, <3>2, <1>1, <1>8 DEF Listed
    <3>4. CASE i = last
      <4>1. index \in 0..(last - 1)
        BY <3>3, <3>4, <1>3, <1>4
      <4> QED BY <4>1, <3>2, <3>4, <1>5
    <3>5. CASE i # last
      <4>1. i \in 0..(last - 1)
        BY <3>5, <1>3, <1>4
      <4> QED BY <4>1, <3>2, <3>3, <1>5
    <3> QED BY <3>4, <3>5
  <2>2. ASSUME NEW i \in 0..(last - 1)
        PROVE  \E d \in Conns : pc'[d] \in Listed /\ activeUserIds'[i] = user[d]
    <3>1. PICK k \in 0..last : k # index /\ activeUserIds'[i] = activeUserIds[k]
      <4>1. CASE i = index
        BY <4>1, <1>3, <1>4, <1>5
      <4>2. CASE i # index
        BY <4>2, <1>3, <1>4, <1>5
      <4> QED BY <4>1, <4>2
    <3>2. PICK d \in Conns : pc[d] \in Listed /\ activeUserIds[k] = user[d]
      BY <1>3, <1>7 DEF Rows
    <3>3. d # c
      BY <3>1, <3>2, <1>1, <1>3, <1>4, <1>7 DEF Rows
    <3> QED BY <3>1, <3>2, <3>3, <1>2
  <2>3. ASSUME NEW i \in 0..(last - 1), NEW j \in 0..(last - 1),
               activeUserIds'[i] = activeUserIds'[j]
        PROVE  i = j
    BY <2>3, <1>3, <1>4, <1>5, <1>7 DEF Rows
  <2> QED BY <1>1, <1>4, <1>6, <2>1, <2>2, <2>3 DEF Rows
<1> QED BY <1>9, <1>10, <1>11, <1>12

\* The table gets shorter by the entry that Swap has made superfluous.
LEMMA PopStep ==
  ASSUME Inv, NEW c \in Conns, Pop(c)
  PROVE  MutexHeld' /\ Rows(Live)' /\ OneSeat' /\ Searched'
<1>1. /\ pc[c] = "pop" /\ activeUserCount' = activeUserCount - 1
      /\ sessionMutex' = NoConn
      /\ UNCHANGED <<user, activeUserIds, index>>
  BY DEF Pop, Unlock
<1>2. /\ pc'[c] = "close"
      /\ \A d \in Conns \ {c} : pc'[d] = pc[d] /\ pc[d] \notin Critical
  BY <1>1, Alone DEF Pop, Goto, Inv, TypeOK
<1>3. \A d \in Conns : /\ pc'[d] \in Seated => pc[d] \in Seated
                       /\ pc'[d] \in Listed <=> pc[d] \in Listed
  BY <1>1, <1>2 DEF Listed, Seated
<1>4. Live = activeUserCount - 1 /\ Live' = activeUserCount - 1
  BY <1>1, <1>2 DEF Live
<1>5. MutexHeld'
  BY <1>1, <1>2, SessionsAssumption DEF MutexHeld
<1>6. Rows(Live)'
  BY <1>1, <1>3, <1>4 DEF Inv, Rows
<1>7. OneSeat'
  BY <1>1, <1>3 DEF Inv, OneSeat
<1>8. Searched'
  BY <1>2 DEF Searched
<1> QED BY <1>5, <1>6, <1>7, <1>8

-----------------------------------------------------------------------------
(* Every step *)

LEMMA StepType == Inv /\ [Next]_vars => TypeOK'
<1> SUFFICES ASSUME Inv, [Next]_vars PROVE TypeOK'
  OBVIOUS
<1> USE DEF Goto, Lock, Unlock, table
<1>0. TypeOK
  BY DEF Inv
<1>a. MaxSessions \in Nat \ {0}
  BY SessionsAssumption
<1>1. ASSUME NEW c \in Conns, Accept(c) PROVE TypeOK'
  BY <1>1, <1>0, <1>a DEF Accept, TypeOK, Critical
<1>2. ASSUME NEW c \in Conns, Disconnect(c) PROVE TypeOK'
  BY <1>2, <1>0, <1>a DEF Disconnect, TypeOK, Critical
<1>3. ASSUME NEW c \in Conns, Ask(c) PROVE TypeOK'
  BY <1>3, <1>0, <1>a DEF Ask, TypeOK, Critical
<1>4. ASSUME NEW c \in Conns, CheckLogin(c) PROVE TypeOK'
  BY <1>4, <1>0, <1>a DEF CheckLogin, TypeOK, Critical
<1>5. ASSUME NEW c \in Conns, LoginFailed(c) PROVE TypeOK'
  BY <1>5, <1>0, <1>a DEF LoginFailed, TypeOK, Critical
<1>6. ASSUME NEW c \in Conns, LoginAbandoned(c) PROVE TypeOK'
  BY <1>6, <1>0, <1>a DEF LoginAbandoned, TypeOK, Critical
<1>7. ASSUME NEW c \in Conns, LockToEnter(c) PROVE TypeOK'
  BY <1>7, <1>0, <1>a DEF LockToEnter, TypeOK, Critical
<1>8. ASSUME NEW c \in Conns, SearchNext(c) PROVE TypeOK'
  BY <1>8, <1>0, <1>a DEF SearchNext, TypeOK, Critical
<1>9. ASSUME NEW c \in Conns, AlreadyLoggedIn(c) PROVE TypeOK'
  BY <1>9, <1>0, <1>a DEF AlreadyLoggedIn, TypeOK, Critical
<1>10. ASSUME NEW c \in Conns, ServerFull(c) PROVE TypeOK'
  BY <1>10, <1>0, <1>a DEF ServerFull, TypeOK, Critical
<1>11. ASSUME NEW c \in Conns, Insert(c) PROVE TypeOK'
  BY <1>11, <1>0, <1>a DEF Insert, TypeOK, Critical
<1>12. ASSUME NEW c \in Conns, LockToLeave(c) PROVE TypeOK'
  BY <1>12, <1>0, <1>a DEF LockToLeave, TypeOK, Critical
<1>13. ASSUME NEW c \in Conns, FindNext(c) PROVE TypeOK'
  BY <1>13, <1>0, <1>a DEF FindNext, TypeOK, Critical
<1>14. ASSUME NEW c \in Conns, Swap(c) PROVE TypeOK'
  BY <1>14, <1>0, <1>a DEF Swap, TypeOK, Critical
<1>15. ASSUME NEW c \in Conns, Refuse(c) PROVE TypeOK'
  BY <1>15, <1>0, <1>a DEF Refuse, TypeOK, Critical
<1>16. ASSUME NEW c \in Conns, Close(c) PROVE TypeOK'
  BY <1>16, <1>0, <1>a DEF Close, TypeOK, Critical
<1>17. ASSUME NEW c \in Conns, Show(c) PROVE TypeOK'
  BY <1>17, <1>0, <1>a DEF Show, TypeOK, Critical
<1>18. ASSUME NEW c \in Conns, Logout(c) PROVE TypeOK'
  BY <1>18, <1>0, <1>a DEF Logout, TypeOK, Critical
<1>19. ASSUME NEW c \in Conns, ReadFails(c) PROVE TypeOK'
  BY <1>19, <1>0, <1>a DEF ReadFails, TypeOK, Critical
<1>20. ASSUME NEW c \in Conns, MenuReadFails(c) PROVE TypeOK'
  BY <1>20, <1>0, <1>a DEF MenuReadFails, TypeOK, Critical
<1>21. ASSUME NEW c \in Conns, MenuReadIgnored(c) PROVE TypeOK'
  BY <1>21, <1>0, <1>a DEF MenuReadIgnored, TypeOK, Critical
<1>22. ASSUME NEW c \in Conns, Choose(c) PROVE TypeOK'
  BY <1>22, <1>0 DEF Choose, Depth, TypeOK
<1>23. ASSUME NEW c \in Conns, WriteKills(c) PROVE TypeOK'
  BY <1>23, <1>0, <1>a DEF WriteKills, Empty, TypeOK
<1>24. ASSUME NEW c \in Conns, Enter(c) PROVE TypeOK'
  <2>1. Live = activeUserCount + 1
    BY <1>24 DEF Enter, Live
  <2>2. activeUserCount + 1 \in 0..MaxSessions
    BY <2>1 DEF Inv, Rows
  <2> QED BY <1>24, <1>0, <2>2 DEF Enter, TypeOK
<1>25. ASSUME NEW c \in Conns, Pop(c) PROVE TypeOK'
  <2>1. Live = activeUserCount - 1
    BY <1>25, Alone DEF Pop, Live
  <2>2. activeUserCount - 1 \in 0..MaxSessions
    BY <2>1 DEF Inv, Rows
  <2> QED BY <1>25, <1>0, <2>2 DEF Pop, TypeOK
<1>26. CASE UNCHANGED vars
  BY <1>26, <1>0 DEF vars, TypeOK
<1>27. ASSUME NEW c \in Conns, StartThread(c) PROVE TypeOK'
  BY <1>27, <1>0, <1>a DEF StartThread, TypeOK, Critical
<1>28. ASSUME NEW c \in Conns, StartFails(c) PROVE TypeOK'
  BY <1>28, <1>0, <1>a DEF StartFails, TypeOK, Critical
<1>29. ASSUME NEW c \in Conns, NoAccounts(c) PROVE TypeOK'
  BY <1>29, <1>0, <1>a DEF NoAccounts, TypeOK, Critical
<1>30. ASSUME NEW c \in Conns, AccountGone(c) PROVE TypeOK'
  BY <1>30, <1>0, <1>a DEF AccountGone, TypeOK, Critical
<1> QED
  BY <1>1, <1>2, <1>3, <1>4, <1>5, <1>6, <1>7, <1>8, <1>9, <1>10, <1>11, <1>12,
     <1>13, <1>14, <1>15, <1>16, <1>17, <1>18, <1>19, <1>20, <1>21, <1>22, <1>23,
     <1>24, <1>25, <1>26, <1>27, <1>28, <1>29, <1>30
     DEF Next, Login, Leave, Menu, Client

LEMMA StepInv == Inv /\ [Next]_vars => Inv'
<1> SUFFICES ASSUME Inv, [Next]_vars PROVE MutexHeld' /\ Rows(Live)' /\ OneSeat' /\ Searched'
  BY StepType DEF Inv
<1> USE DEF Goto, table
<1>1. ASSUME NEW c \in Conns, Accept(c) PROVE MutexHeld' /\ Rows(Live)' /\ OneSeat' /\ Searched'
  BY <1>1, OutsideStep DEF Accept, Seated
<1>2. ASSUME NEW c \in Conns, Ask(c) PROVE MutexHeld' /\ Rows(Live)' /\ OneSeat' /\ Searched'
  BY <1>2, OutsideStep DEF Ask, Seated
<1>3. ASSUME NEW c \in Conns, LoginFailed(c) PROVE MutexHeld' /\ Rows(Live)' /\ OneSeat' /\ Searched'
  BY <1>3, OutsideStep DEF LoginFailed, Seated
<1>4. ASSUME NEW c \in Conns, LoginAbandoned(c) PROVE MutexHeld' /\ Rows(Live)' /\ OneSeat' /\ Searched'
  BY <1>4, OutsideStep DEF LoginAbandoned, Seated
<1>5. ASSUME NEW c \in Conns, Refuse(c) PROVE MutexHeld' /\ Rows(Live)' /\ OneSeat' /\ Searched'
  BY <1>5, OutsideStep DEF Refuse, Seated
<1>6. ASSUME NEW c \in Conns, Show(c) PROVE MutexHeld' /\ Rows(Live)' /\ OneSeat' /\ Searched'
  BY <1>6, OutsideStep DEF Show, Seated
<1>7. ASSUME NEW c \in Conns, Choose(c) PROVE MutexHeld' /\ Rows(Live)' /\ OneSeat' /\ Searched'
  BY <1>7, OutsideStep DEF Choose, Seated
<1>8. ASSUME NEW c \in Conns, Logout(c) PROVE MutexHeld' /\ Rows(Live)' /\ OneSeat' /\ Searched'
  BY <1>8, OutsideStep DEF Logout, Seated
<1>9. ASSUME NEW c \in Conns, ReadFails(c) PROVE MutexHeld' /\ Rows(Live)' /\ OneSeat' /\ Searched'
  BY <1>9, OutsideStep DEF ReadFails, Seated
<1>10. ASSUME NEW c \in Conns, MenuReadFails(c) PROVE MutexHeld' /\ Rows(Live)' /\ OneSeat' /\ Searched'
  BY <1>10, OutsideStep DEF MenuReadFails, Seated
<1>11. ASSUME NEW c \in Conns, MenuReadIgnored(c) PROVE MutexHeld' /\ Rows(Live)' /\ OneSeat' /\ Searched'
  BY <1>11, OutsideStep DEF MenuReadIgnored, Seated
<1>12. ASSUME NEW c \in Conns, CheckLogin(c) PROVE MutexHeld' /\ Rows(Live)' /\ OneSeat' /\ Searched'
  <2>1. \A d \in Conns : pc[d] \in Seated \cup {"search"} => user'[d] = user[d]
    BY <1>12 DEF CheckLogin, Seated, Inv, TypeOK
  <2> QED BY <1>12, <2>1, OutsideStep DEF CheckLogin, Seated
<1>13. ASSUME NEW c \in Conns, Close(c) PROVE MutexHeld' /\ Rows(Live)' /\ OneSeat' /\ Searched'
  <2>1. \A d \in Conns : pc[d] \in Seated \cup {"search"} => user'[d] = user[d]
    BY <1>13 DEF Close, Seated, Inv, TypeOK
  <2> QED BY <1>13, <2>1, OutsideStep DEF Close, Seated
<1>14. ASSUME NEW c \in Conns, Disconnect(c) PROVE MutexHeld' /\ Rows(Live)' /\ OneSeat' /\ Searched'
  BY <1>14 DEF Disconnect, Inv, MutexHeld, Rows, Live, OneSeat, Searched
<1>15. ASSUME NEW c \in Conns, LockToEnter(c) PROVE MutexHeld' /\ Rows(Live)' /\ OneSeat' /\ Searched'
  BY <1>15, LockStep DEF LockToEnter
<1>16. ASSUME NEW c \in Conns, LockToLeave(c) PROVE MutexHeld' /\ Rows(Live)' /\ OneSeat' /\ Searched'
  BY <1>16, LockStep DEF LockToLeave
<1>17. ASSUME NEW c \in Conns, SearchNext(c) PROVE MutexHeld' /\ Rows(Live)' /\ OneSeat' /\ Searched'
  BY <1>17, SearchStep DEF SearchNext
<1>18. ASSUME NEW c \in Conns, FindNext(c) PROVE MutexHeld' /\ Rows(Live)' /\ OneSeat' /\ Searched'
  BY <1>18, SearchStep DEF FindNext
<1>19. ASSUME NEW c \in Conns, AlreadyLoggedIn(c) PROVE MutexHeld' /\ Rows(Live)' /\ OneSeat' /\ Searched'
  BY <1>19, RefusedStep DEF AlreadyLoggedIn
<1>20. ASSUME NEW c \in Conns, ServerFull(c) PROVE MutexHeld' /\ Rows(Live)' /\ OneSeat' /\ Searched'
  BY <1>20, RefusedStep DEF ServerFull
<1>21. ASSUME NEW c \in Conns, Insert(c) PROVE MutexHeld' /\ Rows(Live)' /\ OneSeat' /\ Searched'
  BY <1>21, InsertStep
<1>22. ASSUME NEW c \in Conns, Enter(c) PROVE MutexHeld' /\ Rows(Live)' /\ OneSeat' /\ Searched'
  BY <1>22, EnterStep
<1>23. ASSUME NEW c \in Conns, Swap(c) PROVE MutexHeld' /\ Rows(Live)' /\ OneSeat' /\ Searched'
  BY <1>23, SwapStep
<1>24. ASSUME NEW c \in Conns, Pop(c) PROVE MutexHeld' /\ Rows(Live)' /\ OneSeat' /\ Searched'
  BY <1>24, PopStep
<1>25. ASSUME NEW c \in Conns, WriteKills(c) PROVE MutexHeld' /\ Rows(Live)' /\ OneSeat' /\ Searched'
  <2>1. MutexHeld' /\ OneSeat' /\ Searched'
    BY <1>25, SessionsAssumption DEF WriteKills, MutexHeld, OneSeat, Searched, Seated
  <2>2. Live' = 0
    BY <1>25 DEF WriteKills, Live
  <2>3. Rows(Live)'
    BY <1>25, <2>2, SessionsAssumption DEF WriteKills, Rows, Listed, Seated
  <2> QED BY <2>1, <2>3
<1>26. CASE UNCHANGED vars
  BY <1>26 DEF vars, Inv, MutexHeld, Rows, Live, OneSeat, Searched
<1>27. ASSUME NEW c \in Conns, StartThread(c) PROVE MutexHeld' /\ Rows(Live)' /\ OneSeat' /\ Searched'
  BY <1>27, OutsideStep DEF StartThread, Seated
<1>28. ASSUME NEW c \in Conns, StartFails(c) PROVE MutexHeld' /\ Rows(Live)' /\ OneSeat' /\ Searched'
  BY <1>28, OutsideStep DEF StartFails, Seated
<1>29. ASSUME NEW c \in Conns, NoAccounts(c) PROVE MutexHeld' /\ Rows(Live)' /\ OneSeat' /\ Searched'
  BY <1>29, OutsideStep DEF NoAccounts, Seated
<1>30. ASSUME NEW c \in Conns, AccountGone(c) PROVE MutexHeld' /\ Rows(Live)' /\ OneSeat' /\ Searched'
  <2>1. pc' = [pc EXCEPT ![c] = "show"]
    BY <1>30 DEF AccountGone, Inv, TypeOK
  <2> QED BY <1>30, <2>1, OutsideStep DEF AccountGone, Seated
<1> QED
  BY <1>1, <1>2, <1>3, <1>4, <1>5, <1>6, <1>7, <1>8, <1>9, <1>10, <1>11, <1>12,
     <1>13, <1>14, <1>15, <1>16, <1>17, <1>18, <1>19, <1>20, <1>21, <1>22, <1>23,
     <1>24, <1>25, <1>26, <1>27, <1>28, <1>29, <1>30
     DEF Next, Login, Leave, Menu, Client

LEMMA Invariance == Spec => []Inv
  BY InitInv, StepInv, PTL DEF Spec

-----------------------------------------------------------------------------

\* Every variable keeps its type: in particular activeUserCount and the loop
\* variable stay within the array.
THEOREM TypeCorrect == Spec => []TypeOK
<1>1. Inv => TypeOK
  BY DEF Inv
<1> QED BY <1>1, Invariance, PTL

\* No two threads ever serve the same user, whatever the number of connections
\* and slots, and wherever clients disconnect.
THEOREM SessionsUnique == Spec => []OneSessionPerUser
<1>1. Inv => OneSessionPerUser
  BY DEF Inv, OneSeat, Seated, OneSessionPerUser, InSession
<1> QED BY <1>1, Invariance, PTL

\* Whenever sessionMutex is free the table lists the users in session, each of
\* them once: the critical sections of handle_client are correct.
THEOREM TableCorrect == Spec => []TableExact
<1>1. Inv => TableExact
  <2> SUFFICES ASSUME Inv, sessionMutex = NoConn PROVE TableExact
    BY DEF TableExact
  <2>1. \A c \in Conns : pc[c] \notin Critical
    BY SessionsAssumption DEF Inv, MutexHeld
  <2>2. Rows(activeUserCount)
    BY <2>1 DEF Inv, Live
  <2>3. \A c \in Conns : pc[c] \in InSession <=> pc[c] \in Listed
    BY <2>1 DEF InSession, Listed, Seated
  <2> QED BY <2>2, <2>3 DEF TableExact, Rows
<1> QED BY <1>1, Invariance, PTL

\* The clean-up of a session always comes to the entry of its user.
THEOREM CleanUpFindsEntry == Spec => []EntryFound
<1>1. Inv => EntryFound
  <2> SUFFICES ASSUME Inv, NEW c \in Conns, pc[c] = "find"
               PROVE  \E i \in index..(activeUserCount - 1) : activeUserIds[i] = user[c]
    BY DEF EntryFound
  <2>1. Rows(activeUserCount)
    BY Alone DEF Inv, Live
  <2>2. PICK i \in 0..(activeUserCount - 1) : activeUserIds[i] = user[c]
    BY <2>1 DEF Rows, Listed, Seated
  <2>3. i \notin 0..(index - 1)
    BY <2>2 DEF Inv, Searched
  <2>4. index \in Nat /\ activeUserCount \in Nat
    BY DEF Inv, TypeOK
  <2> QED BY <2>2, <2>3, <2>4
<1> QED BY <1>1, Invariance, PTL

\* A thread comes to "none" only after its client has gone: a connection is
\* never left open with a client on it and nobody to serve it, although three
\* returns of handle_client skip close.
THEOREM NobodyIsStranded == Spec => []NobodyStranded
<1>1. Init => NobodyStranded
  BY DEF Init, NobodyStranded
<1>2. TypeOK /\ NobodyStranded /\ [Next]_vars => NobodyStranded'
  <2> SUFFICES ASSUME TypeOK, NobodyStranded, [Next]_vars, NEW d \in connected'
               PROVE  pc'[d] # "none"
    BY DEF NobodyStranded
  <2>1. ASSUME NEW c \in Conns, connected' = connected, NEW p,
               pc' = [pc EXCEPT ![c] = p], p # "none" \/ c \notin connected
        PROVE  pc'[d] # "none"
    BY <2>1 DEF TypeOK, NobodyStranded
  <2>2. CASE pc' = pc /\ connected' \subseteq connected
    BY <2>2 DEF NobodyStranded
  <2>3. ASSUME NEW c \in Conns, Accept(c)
        PROVE  pc'[d] # "none"
    <3>1. pc' = [pc EXCEPT ![c] = "start"] /\ connected' = connected \cup {c}
      BY <2>3 DEF Accept, Goto
    <3> QED BY <3>1 DEF TypeOK, NobodyStranded
  <2>4. ASSUME NEW c \in Conns, Close(c) \/ StartFails(c)
        PROVE  pc'[d] # "none"
    <3>1. pc' = [pc EXCEPT ![c] = "none"] /\ connected' = connected \ {c}
      BY <2>4 DEF Close, StartFails, Goto
    <3> QED BY <3>1 DEF TypeOK, NobodyStranded
  <2>5. ASSUME NEW c \in Conns, Login(c)
        PROVE  pc'[d] # "none"
    <3>1. CASE LoginAbandoned(c)
      BY <2>1, <3>1 DEF LoginAbandoned, Goto
    <3>2. CASE ~LoginAbandoned(c) /\ ~SearchNext(c)
      BY <2>1, <2>5, <3>2
      DEF Login, Ask, LockToEnter, AlreadyLoggedIn, ServerFull, Insert, Enter, Goto
    <3>3. CASE SearchNext(c)
      BY <2>2, <3>3 DEF SearchNext
    <3> QED BY <3>1, <3>2, <3>3
  <2>6. ASSUME NEW c \in Conns, Leave(c), ~Close(c)
        PROVE  pc'[d] # "none"
    BY <2>1, <2>2, <2>6 DEF Leave, LockToLeave, FindNext, Swap, Pop, Refuse, Goto
  <2>7. ASSUME NEW c \in Conns, Menu(c)
        PROVE  pc'[d] # "none"
    BY <2>1, <2>2, <2>7
    DEF Menu, Show, NoAccounts, AccountGone, ReadFails, MenuReadFails, MenuReadIgnored, Goto
  <2>8. ASSUME NEW c \in Conns, Client(c), ~Accept(c), ~StartFails(c)
        PROVE  pc'[d] # "none"
    BY <2>1, <2>2, <2>8
    DEF Client, StartThread, Disconnect, CheckLogin, LoginFailed, Choose, Logout, Goto
  <2>9. ASSUME NEW c \in Conns, WriteKills(c)
        PROVE  pc'[d] # "none"
    BY <2>9 DEF WriteKills
  <2>10. CASE UNCHANGED vars
    BY <2>2, <2>10 DEF vars
  <2> QED BY <2>3, <2>4, <2>5, <2>6, <2>7, <2>8, <2>9, <2>10 DEF Next
<1> QED BY <1>1, <1>2, TypeCorrect, PTL DEF Spec
=============================================================================
