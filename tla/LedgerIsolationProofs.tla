------------------------ MODULE LedgerIsolationProofs ------------------------
(* Theorems about the interleaving of Ledger's handlers, for any sets of      *)
(* sessions and accounts, while no write fails.  The steps of the sessions    *)
(* come first; the theorems are about a server that does not crash, and       *)
(* LedgerRecoveryProofs takes the steps up for one that does.                 *)
EXTENDS LedgerProofs, FiniteSets, FiniteSetTheorems, WellFoundedInduction

-----------------------------------------------------------------------------
(* Induction over a set of numbers.  The induction rule of NaturalsInduction  *)
(* has an operator for a parameter; a least element does without.             *)

LEMMA Least ==
  ASSUME NEW T \in SUBSET Nat, T # {}
  PROVE  \E n \in T : \A m \in T : n <= m
<1>1. IsWellFoundedOn(OpToRel(<, Nat), Nat)
  BY NatLessThanWellFounded
<1>2. PICK n \in T : \A m \in T : <<m, n>> \notin OpToRel(<, Nat)
  BY <1>1, WFMin
<1>3. \A m \in T : ~(m < n)
  BY <1>2 DEF OpToRel
<1> QED BY <1>3

LEMMA Induction ==
  ASSUME NEW T, 0 \in T, \A n \in Nat : n \in T => n + 1 \in T
  PROVE  Nat \subseteq T
<1> SUFFICES ASSUME Nat \ T # {} PROVE FALSE
  OBVIOUS
<1>1. PICK n \in Nat \ T : \A m \in Nat \ T : n <= m
  BY Least
<1>2. n - 1 \in Nat /\ n - 1 \in T
  BY <1>1
<1> QED BY <1>1, <1>2

\* f lists the sums of the first 0, 1, ..., n numbers of v.
Sums(f, v, n) == f = [i \in 0..n |-> IF i = 0 THEN 0 ELSE f[i - 1] + v[i]]

\* There is exactly one such list: what a recursive definition needs to mean something.
LEMMA SumsUnique ==
  ASSUME NEW n \in Nat, NEW v, NEW f, NEW g, Sums(f, v, n), Sums(g, v, n)
  PROVE  f = g
<1> DEFINE T == {i \in Nat : i <= n => f[i] = g[i]}
<1>0. /\ f = [i \in 0..n |-> IF i = 0 THEN 0 ELSE f[i - 1] + v[i]]
      /\ g = [i \in 0..n |-> IF i = 0 THEN 0 ELSE g[i - 1] + v[i]]
  BY DEF Sums
<1>1. /\ \A i \in 0..n : f[i] = IF i = 0 THEN 0 ELSE f[i - 1] + v[i]
      /\ \A i \in 0..n : g[i] = IF i = 0 THEN 0 ELSE g[i - 1] + v[i]
  BY <1>0
<1>2. 0 \in T
  BY <1>1
<1>3. ASSUME NEW i \in Nat, i \in T PROVE i + 1 \in T
  <2>1. CASE i + 1 <= n
    <3>1. f[i + 1] = f[i + 1 - 1] + v[i + 1] /\ g[i + 1] = g[i + 1 - 1] + v[i + 1] 
      BY <1>1, <2>1
    <3> QED BY <1>3, <2>1, <3>1
  <2> QED BY <2>1
<1> HIDE DEF T
<1>4. Nat \subseteq T
  BY <1>2, <1>3, Induction
<1>5. \A i \in 0..n : f[i] = g[i]
  BY <1>4 DEF T
<1> QED BY <1>0, <1>5

LEMMA SumsExist ==
  ASSUME NEW n \in Nat, NEW v \in [1..n -> Int]
  PROVE  \E f \in [0..n -> Int] : Sums(f, v, n)
<1> DEFINE T == {m \in Nat : m <= n => \E f \in [0..m -> Int] : Sums(f, v, m)}
<1>1. 0 \in T
  <2>1. [i \in 0..0 |-> 0] \in [0..0 -> Int]
    OBVIOUS
  <2>2. Sums([i \in 0..0 |-> 0], v, 0)
    BY DEF Sums
  <2> QED BY <2>1, <2>2
<1>2. ASSUME NEW m \in Nat, m \in T PROVE m + 1 \in T
  <2> SUFFICES ASSUME m + 1 <= n PROVE \E f \in [0..m + 1 -> Int] : Sums(f, v, m + 1)
    OBVIOUS
  <2>1. PICK f \in [0..m -> Int] : Sums(f, v, m)
    BY <1>2
  <2> DEFINE g == [i \in 0..m + 1 |-> IF i = m + 1 THEN f[m] + v[i] ELSE f[i]]
  <2>2. g \in [0..m + 1 -> Int]
    OBVIOUS
  <2>3. \A i \in 0..m : f[i] = IF i = 0 THEN 0 ELSE f[i - 1] + v[i]
    BY <2>1 DEF Sums
  <2>4. ASSUME NEW i \in 0..m + 1 PROVE g[i] = IF i = 0 THEN 0 ELSE g[i - 1] + v[i]
    <3>1. CASE i = m + 1
      BY <3>1
    <3>2. CASE i # m + 1
      <4>1. i \in 0..m /\ g[i] = f[i] /\ (i # 0 => g[i - 1] = f[i - 1])
        BY <3>2
      <4> QED BY <2>3, <4>1
    <3> QED BY <3>1, <3>2
  <2>5. g = [i \in 0..m + 1 |-> IF i = 0 THEN 0 ELSE g[i - 1] + v[i]]
    BY <2>4
  <2> QED BY <2>2, <2>5 DEF Sums
<1> HIDE DEF T
<1>3. n \in T
  BY <1>1, <1>2, Induction
<1> QED BY <1>3 DEF T

LEMMA SumsStep ==
  ASSUME NEW n \in Nat, NEW v \in [1..n -> Int], NEW w \in [1..n + 1 -> Int],
         \A i \in 1..n : w[i] = v[i],
         NEW f, Sums(f, v, n), NEW g, Sums(g, w, n + 1)
  PROVE  f[n] \in Int /\ g[n + 1] = f[n] + w[n + 1]
<1>1. f \in [0..n -> Int]
  BY SumsExist, SumsUnique
<1>2. \A i \in 0..n + 1 : g[i] = IF i = 0 THEN 0 ELSE g[i - 1] + w[i]
  BY DEF Sums
<1> DEFINE h == [i \in 0..n |-> g[i]]
<1>3. ASSUME NEW i \in 0..n PROVE h[i] = IF i = 0 THEN 0 ELSE h[i - 1] + v[i]
  BY <1>2
<1>4. h = [i \in 0..n |-> IF i = 0 THEN 0 ELSE h[i - 1] + v[i]]
  BY <1>3
<1>5. h = f
  <2> HIDE DEF h
  <2>1. Sums(h, v, n)
    BY <1>4 DEF Sums
  <2> QED BY <2>1, SumsUnique, Zenon
<1>6. g[n] = f[n]
  BY <1>5
<1>7. g[n + 1] = g[n] + w[n + 1]
  BY <1>2
<1> QED BY <1>1, <1>6, <1>7

-----------------------------------------------------------------------------
(* Sums over the sessions, as sizes of sets *)

\* As many things as the numbers of f add up to.
Units(f, S) == UNION {{s} \X (1..f[s]) : s \in S}

LEMMA UnitsNone ==
  ASSUME NEW S, NEW f, \A s \in S : f[s] = 0
  PROVE  IsFiniteSet(Units(f, S)) /\ Cardinality(Units(f, S)) = 0
<1>1. Units(f, S) = {}
  BY DEF Units
<1> QED BY <1>1, FS_EmptySet

LEMMA UnitsOfOne ==
  ASSUME NEW s, NEW n \in Nat
  PROVE  IsFiniteSet({s} \X (1..n)) /\ Cardinality({s} \X (1..n)) = n
<1>1. IsFiniteSet(1..n) /\ Cardinality(1..n) = n
  <2>1. /\ IsFiniteSet(1..n)
        /\ Cardinality(1..n) = IF 1 > n THEN 0 ELSE n - 1 + 1
    <3>1. 1 \in Int /\ n \in Int
      OBVIOUS
    <3> QED BY <3>1, FS_Interval, Zenon
  <2> QED BY <2>1
<1>2. IsFiniteSet({s}) /\ Cardinality({s}) = 1
  BY FS_Singleton, Zenon
<1>3. /\ IsFiniteSet({s} \X (1..n))
      /\ Cardinality({s} \X (1..n)) = Cardinality({s}) * Cardinality(1..n)
  BY <1>1, <1>2, FS_Product, Zenon
<1> QED BY <1>1, <1>2, <1>3

LEMMA UnitsStep ==
  ASSUME NEW S, NEW f, NEW g, NEW s \in S,
         f[s] \in Nat, g[s] \in Nat, \A r \in S \ {s} : g[r] = f[r],
         IsFiniteSet(Units(f, S))
  PROVE  /\ IsFiniteSet(Units(g, S))
         /\ Cardinality(Units(g, S)) = Cardinality(Units(f, S)) - f[s] + g[s]
<1> DEFINE rest == Units(f, S \ {s})
           old  == {s} \X (1..f[s])
           new  == {s} \X (1..g[s])
<1>1. Units(f, S) = rest \cup old
  BY DEF Units
<1>2. Units(g, S) = rest \cup new
  BY DEF Units
<1>3. rest \cap old = {} /\ rest \cap new = {}
  BY DEF Units
<1>4. /\ IsFiniteSet(old) /\ Cardinality(old) = f[s]
      /\ IsFiniteSet(new) /\ Cardinality(new) = g[s]
  <2>1. f[s] \in Nat /\ g[s] \in Nat
    OBVIOUS
  <2> QED BY <2>1, UnitsOfOne, Zenon
<1> HIDE DEF rest, old, new
<1>5. IsFiniteSet(rest) /\ Cardinality(rest) \in Nat
  BY <1>1, FS_Subset, FS_CardinalityType
<1>6. rest \cap old = {} /\ Cardinality(rest \cap old) = 0 /\ Cardinality(rest \cap new) = 0
  BY <1>3, FS_EmptySet
<1>7. /\ Cardinality(rest \cup old) = Cardinality(rest) + f[s]
      /\ Cardinality(rest \cup new) = Cardinality(rest) + g[s]
      /\ IsFiniteSet(rest \cup new)
  <2>1. Cardinality(rest \cup old) = Cardinality(rest) + Cardinality(old) - Cardinality(rest \cap old)
    BY <1>4, <1>5, FS_Union
  <2>2. /\ Cardinality(rest \cup new) = Cardinality(rest) + Cardinality(new) - Cardinality(rest \cap new)
        /\ IsFiniteSet(rest \cup new)
    BY <1>4, <1>5, FS_Union
  <2>3. f[s] \in Nat /\ g[s] \in Nat
    OBVIOUS
  <2> QED BY <1>4, <1>5, <1>6, <2>1, <2>2, <2>3
<1>8. f[s] \in Nat /\ g[s] \in Nat
  OBVIOUS
<1> QED BY <1>1, <1>2, <1>5, <1>7, <1>8

-----------------------------------------------------------------------------
(* The history of an account *)

Shares(h, a) == [i \in 1..Len(h) |-> Share(h[i], a)]

LEMMA ShareType ==
  ASSUME NEW h \in Seq(Transaction), NEW a
  PROVE  Shares(h, a) \in [1..Len(h) -> Int]
<1>1. \A n \in Amounts : n \in Int
  BY LedgerAssumption
<1>2. ASSUME NEW t \in Transaction PROVE Share(t, a) \in Int
  BY <1>1 DEF Share, Signed, Transaction
<1> QED BY <1>2 DEF Shares

LEMMA TotalIsSum ==
  ASSUME NEW h \in Seq(Transaction), NEW a
  PROVE  \E f : Sums(f, Shares(h, a), Len(h)) /\ TotalOf(h, a) = f[Len(h)]
<1> DEFINE Unfolds(f) == f = [i \in 0..Len(h) |-> IF i = 0 THEN 0 ELSE f[i - 1] + Share(h[i], a)]
           total == CHOOSE f : Unfolds(f)
<1>1. TotalOf(h, a) = total[Len(h)]
  BY DEF TotalOf
<1>2. Len(h) \in Nat
  OBVIOUS
<1>3. ASSUME NEW f PROVE Unfolds(f) <=> Sums(f, Shares(h, a), Len(h))
  <2>1. \A i \in 0..Len(h) : i # 0 => Shares(h, a)[i] = Share(h[i], a)
    BY <1>2 DEF Shares
  <2>2. [i \in 0..Len(h) |-> IF i = 0 THEN 0 ELSE f[i - 1] + Share(h[i], a)]
          = [i \in 0..Len(h) |-> IF i = 0 THEN 0 ELSE f[i - 1] + Shares(h, a)[i]]
    BY <2>1
  <2> QED BY <2>2 DEF Sums
<1>4. \E f : Unfolds(f)
  BY <1>2, <1>3, ShareType, SumsExist
<1> HIDE DEF Unfolds
<1>5. Unfolds(total)
  BY <1>4
<1> HIDE DEF total
<1> QED BY <1>1, <1>3, <1>5

LEMMA TotalAppend ==
  ASSUME NEW h \in Seq(Transaction), NEW t \in Transaction, NEW a
  PROVE  /\ TotalOf(h, a) \in Int /\ Share(t, a) \in Int
         /\ TotalOf(Append(h, t), a) = TotalOf(h, a) + Share(t, a)
<1> DEFINE n == Len(h)
           g == Append(h, t)
<1>1. /\ n \in Nat /\ g \in Seq(Transaction) /\ Len(g) = n + 1
      /\ \A i \in 1..n : g[i] = h[i]
      /\ g[n + 1] = t
  OBVIOUS
<1>2. Shares(h, a) \in [1..n -> Int] /\ Shares(g, a) \in [1..n + 1 -> Int]
  BY <1>1, ShareType
<1>3. \A i \in 1..n : Shares(g, a)[i] = Shares(h, a)[i]
  BY <1>1 DEF Shares
<1>4. Shares(g, a)[n + 1] = Share(t, a)
  BY <1>1 DEF Shares
<1>5. PICK f : Sums(f, Shares(h, a), n) /\ TotalOf(h, a) = f[n]
  BY TotalIsSum
<1>6. PICK e : Sums(e, Shares(g, a), n + 1) /\ TotalOf(g, a) = e[n + 1]
  BY <1>1, TotalIsSum
<1> HIDE DEF n, g
<1>7. f[n] \in Int /\ e[n + 1] = f[n] + Shares(g, a)[n + 1]
  BY <1>1, <1>2, <1>3, <1>5, <1>6, SumsStep
<1>8. Shares(g, a)[n + 1] \in Int
  BY <1>1, <1>2
<1> QED BY <1>4, <1>5, <1>6, <1>7, <1>8 DEF g

LEMMA TotalEmpty == ASSUME NEW a PROVE TotalOf(<<>>, a) = 0
<1>1. <<>> \in Seq(Transaction) /\ Len(<<>>) = 0
  OBVIOUS
<1>2. PICK f : Sums(f, Shares(<<>>, a), 0) /\ TotalOf(<<>>, a) = f[0]
  BY <1>1, TotalIsSum
<1>3. f = [i \in 0..0 |-> IF i = 0 THEN 0 ELSE f[i - 1] + Shares(<<>>, a)[i]]
  BY <1>2 DEF Sums
<1> QED BY <1>2, <1>3

-----------------------------------------------------------------------------
(* Isolation: the invariant *)

\* Two sessions that are between the read and the write of one account at the
\* same time have been seen.
OneWorker ==
  \A r, s \in Sessions, a \in Accounts :
    a \in Window(r) /\ a \in Window(s) => r = s \/ a \in raced

Writing == {"debit", "credit", "commit"}

\* The copies of a handler are the records as the completed operations left
\* them, with its own change once it is computed.
Copies(s) ==
  /\ op[s].pc = "update" /\ op[s].from \notin raced =>
       op[s].mine = Plus(booked[op[s].from], Delta(s))
  /\ op[s].pc = "statusUpdate" /\ op[s].from \notin raced =>
       op[s].mine = [booked[op[s].from] EXCEPT !.isActive = op[s].status]
  /\ op[s].pc \in {"receiver", "undoSender", "undoReceiver"} /\ op[s].from \notin raced =>
       op[s].mine = booked[op[s].from]
  /\ op[s].pc \in {"undoSender", "undoReceiver"} /\ op[s].to \notin raced =>
       op[s].theirs = booked[op[s].to]
  /\ op[s].pc \in Writing /\ op[s].from \notin raced =>
       op[s].mine = Plus(booked[op[s].from], -op[s].amount)
  /\ op[s].pc \in Writing /\ op[s].to \notin raced =>
       op[s].theirs = Plus(booked[op[s].to], op[s].amount)
  /\ op[s].pc \in {"undoSender", "undoReceiver"} \cup Writing => op[s].from # op[s].to

\* What a transfer has written so far is in the file.
Wrote(s) ==
  /\ op[s].ok
  /\ op[s].pc \in {"credit", "commit"} /\ op[s].from \notin raced =>
       accounts[op[s].from] = op[s].mine
  /\ op[s].pc = "commit" /\ op[s].to \notin raced => accounts[op[s].to] = op[s].theirs

Sound(s) == Copies(s) /\ Wrote(s)

Isolated == OneWorker /\ UncontendedExact /\ \A s \in Sessions : Sound(s)

-----------------------------------------------------------------------------
(* One step of one session *)

\* The session has written the account and not yet committed.
Written(s, a) ==
  \/ op[s].pc \in {"credit", "commit"} /\ op[s].from = a
  \/ op[s].pc = "commit" /\ op[s].to = a

LEMMA WrittenInWindow ==
  ASSUME NEW s, NEW a, Written(s, a)
  PROVE  a \in Window(s)
BY DEF Written, Window

\* Nobody else is at work on an account of a session that was not raced for,
\* and the file holds what the completed operations made it.
LEMMA Own ==
  ASSUME Isolated, NEW s \in Sessions, NEW a \in Accounts \ raced,
         \A r \in Sessions \ {s} : a \notin Window(r), ~Written(s, a)
  PROVE  accounts[a] = booked[a]
<1>1. \A r \in Sessions : ~Written(r, a)
  BY WrittenInWindow
<1>2. ~InTransfer(a)
  BY <1>1 DEF InTransfer, Written
<1> QED BY <1>2 DEF Isolated, UncontendedExact

LEMMA Exclusive ==
  ASSUME Isolated, NEW s \in Sessions, NEW a \in Accounts \ raced, a \in Window(s)
  PROVE  \A r \in Sessions \ {s} : a \notin Window(r)
BY DEF Isolated, OneWorker

\* A session that stands still is not disturbed by a step of another one that
\* changes only the accounts that one works on.
LEMMA Undisturbed ==
  ASSUME TypeOK, Isolated, NEW s \in Sessions, NEW r \in Sessions \ {s},
         op'[r] = op[r], raced \subseteq raced',
         \A a \in Accounts \ Window(s) : accounts'[a] = accounts[a] /\ booked'[a] = booked[a]
  PROVE  Sound(r)'
<1>1. \A a \in Window(r) : a \in Accounts \ raced' => accounts'[a] = accounts[a] /\ booked'[a] = booked[a]
  BY DEF Isolated, OneWorker
<1>2. op[r] \in Handler /\ Sound(r)
  BY DEF TypeOK, Isolated
<1>3. op[r].pc \notin {"menu", "scan"} => op[r].from \in Accounts
  BY <1>2 DEF Handler
<1>4. op[r].pc \in TransferSteps => op[r].to \in Accounts
  BY <1>2 DEF Handler
<1>5. op[r].pc \in {"update", "receiver", "statusUpdate"} => op[r].from \in Window(r)
  BY DEF Window
<1>6. op[r].pc \in {"undoSender", "undoReceiver"} \cup Writing =>
        op[r].from \in Window(r) /\ op[r].to \in Window(r)
  BY DEF Window, Writing
<1>7. Copies(r)'
  BY <1>1, <1>2, <1>3, <1>4, <1>5, <1>6 DEF Sound, Copies, Delta, Writing, TransferSteps
<1>8. Wrote(r)'
  BY <1>1, <1>2, <1>3, <1>4, <1>6 DEF Sound, Wrote, Writing, TransferSteps
<1> QED BY <1>7, <1>8 DEF Sound

LEMMA OneSteps ==
  ASSUME TypeOK, Isolated, NEW s \in Sessions,
         \A r \in Sessions \ {s} : op'[r] = op[r],
         raced \subseteq raced',
         \A a \in Accounts \ Window(s) : accounts'[a] = accounts[a] /\ booked'[a] = booked[a],
         \A a \in Window(s)' :
           a \in Window(s) \/ a \in raced' \/ \A r \in Sessions \ {s} : a \notin Window(r),
         \A a \in Accounts \ raced' :
           a \in Window(s) => accounts'[a] = booked'[a] \/ Written(s, a)',
         Sound(s)'
  PROVE  Isolated'
<1>2. \A r \in Sessions \ {s} : Window(r)' = Window(r)
  BY DEF Window
<1>3. OneWorker'
  BY <1>2 DEF Isolated, OneWorker
<1>4. \A r \in Sessions : Sound(r)'
  BY Undisturbed
<1>5. UncontendedExact'
  <2> SUFFICES ASSUME NEW a \in Accounts \ raced', ~InTransfer(a)'
               PROVE  accounts'[a] = booked'[a]
    BY DEF UncontendedExact
  <2>1. \A r \in Sessions : ~Written(r, a)'
    BY DEF InTransfer, Written
  <2>2. CASE a \in Window(s)
    BY <2>1, <2>2
  <2>3. CASE a \notin Window(s)
    <3>1. \A r \in Sessions \ {s} : ~Written(r, a)
      BY <2>1 DEF Written
    <3>2. ~Written(s, a)
      BY <2>3, WrittenInWindow
    <3>3. ~InTransfer(a)
      BY <3>1, <3>2 DEF InTransfer, Written
    <3> QED BY <2>3, <3>3 DEF Isolated, UncontendedExact
  <2> QED BY <2>2, <2>3
<1> QED BY <1>3, <1>4, <1>5 DEF Isolated

\* A read of an account that somebody else works on is noticed.
LEMMA Noticed ==
  ASSUME NEW s, NEW a, Opens(s, a)
  PROVE  /\ raced \subseteq raced'
         /\ a \in raced' \/ \A r \in Sessions \ {s} : a \notin Window(r)
BY DEF Opens

LEMMA NoFault == ASSUME TypeOK, MaxFaults = 0 PROVE ~Fault
  BY DEF TypeOK, Fault

LEMMA NoCrash == ASSUME TypeOK, MaxCrashes = 0 PROVE ~Crash
  BY DEF TypeOK, Crash

\* A step that writes no account, of a handler that has written none.
LEMMA Reads ==
  ASSUME TypeOK, Isolated, NEW s \in Sessions,
         UNCHANGED <<accounts, booked>>, op[s].pc \notin {"credit", "commit"},
         \A r \in Sessions \ {s} : op'[r] = op[r],
         raced \subseteq raced',
         \A a \in Window(s)' :
           a \in Window(s) \/ a \in raced' \/ \A r \in Sessions \ {s} : a \notin Window(r),
         Sound(s)'
  PROVE  Isolated'
<1>1. \A a \in Accounts \ raced' : a \in Window(s) => accounts'[a] = booked'[a]
  BY Own, Exclusive DEF Written
<1> QED BY <1>1, OneSteps

\* Such a step that leaves the handler between its accounts, or at its end.
LEMMA Leaves ==
  ASSUME TypeOK, Isolated, NEW s \in Sessions,
         UNCHANGED <<accounts, booked, raced>>, op[s].pc \notin {"credit", "commit"},
         NEW o, op' = [op EXCEPT ![s] = o],
         o.pc \in {"menu", "record", "recordOut", "recordIn", "scan"}, o.ok
  PROVE  Isolated'
<1>1. op'[s] = o /\ \A r \in Sessions \ {s} : op'[r] = op[r]
  BY DEF TypeOK
<1>2. Window(s)' = {}
  BY <1>1 DEF Window
<1>3. Sound(s)'
  BY <1>1 DEF Sound, Copies, Wrote, Writing
<1> QED BY <1>1, <1>2, <1>3, Reads

LEMMA IdleSound == Idle.pc = "menu" /\ Idle.ok
  BY DEF Idle

-----------------------------------------------------------------------------
(* Deposit, withdrawal and the credit of a loan *)

LEMMA ReadAccountIsolated ==
  ASSUME TypeOK, Isolated, NEW s \in Sessions, NEW a \in Accounts, NEW n \in Amounts,
         NEW type \in {"DEPOSIT", "WITHDRAWAL"},
         ReadAccount(s, a, type, n, IF type = "DEPOSIT" THEN n ELSE -n)
  PROVE  Isolated'
<1> DEFINE delta == IF type = "DEPOSIT" THEN n ELSE -n
<1>1. UNCHANGED <<accounts, booked>> /\ op[s].pc = "menu"
  BY DEF ReadAccount, Begin, At, disk
<1>2. /\ op'[s] = [Idle EXCEPT !.pc = "update", !.type = type, !.from = a, !.amount = n,
                               !.mine = Plus(accounts[a], delta)]
      /\ \A r \in Sessions \ {s} : op'[r] = op[r]
  BY DEF ReadAccount, TypeOK
<1>3. /\ op'[s].pc = "update" /\ op'[s].type = type /\ op'[s].from = a
      /\ op'[s].amount = n /\ op'[s].mine = Plus(accounts[a], delta) /\ op'[s].ok
  BY <1>2 DEF Idle
<1>4. /\ raced \subseteq raced'
      /\ a \in raced' \/ \A r \in Sessions \ {s} : a \notin Window(r)
  BY Noticed DEF ReadAccount
<1>5. Window(s)' = {a}
  BY <1>3 DEF Window
<1>6. a \notin raced' => accounts[a] = booked[a]
  BY <1>1, <1>4, Own DEF Written
<1>7. Delta(s)' = delta
  BY <1>3 DEF Delta
<1>8. Copies(s)'
  BY <1>1, <1>3, <1>6, <1>7 DEF Copies, Writing
<1>9. Wrote(s)'
  BY <1>3 DEF Wrote
<1> QED BY <1>1, <1>2, <1>4, <1>5, <1>8, <1>9, Reads DEF Sound

\* The session writes an account it works on the way its operation is booked.
LEMMA BooksIt ==
  ASSUME TypeOK, Isolated, NEW s \in Sessions,
         UNCHANGED raced, NEW a \in Accounts, Window(s) = {a},
         NEW account, a \notin raced => op[s].mine = account,
         accounts' = [accounts EXCEPT ![a] = op[s].mine],
         booked' = [booked EXCEPT ![a] = account],
         NEW pc \in {"record", "scan"}, op' = [op EXCEPT ![s].pc = pc]
  PROVE  Isolated'
<1>1. op[s] \in Handler /\ op[s] \in OpRecord
  BY DEF TypeOK, Handler
<1>2. /\ op'[s].pc = pc /\ op'[s].ok = op[s].ok
      /\ \A r \in Sessions \ {s} : op'[r] = op[r]
  BY <1>1 DEF TypeOK, OpRecord
<1>3. Window(s)' = {}
  BY <1>2 DEF Window
<1>4. /\ \A b \in Accounts \ {a} : accounts'[b] = accounts[b] /\ booked'[b] = booked[b]
      /\ a \notin raced' => accounts'[a] = booked'[a]
  BY DEF TypeOK
<1>5. Sound(s)'
  BY <1>2 DEF Isolated, Sound, Copies, Wrote, Writing
<1> QED BY <1>2, <1>3, <1>4, <1>5, OneSteps

LEMMA UpdateAccountIsolated ==
  ASSUME TypeOK, Isolated, MaxFaults = 0, NEW s \in Sessions, UpdateAccount(s)
  PROVE  Isolated'
<1>1. /\ UNCHANGED raced /\ op[s].pc = "update"
      /\ accounts' = [accounts EXCEPT ![op[s].from] = op[s].mine]
      /\ booked' = [booked EXCEPT ![op[s].from] = Plus(booked[op[s].from], Delta(s))]
      /\ op' = [op EXCEPT ![s].pc = "record"]
  BY NoFault DEF UpdateAccount, At, Update, Goto
<1>2. op[s].from \in Accounts
  BY <1>1 DEF TypeOK, Handler
<1>3. Window(s) = {op[s].from}
  BY <1>1 DEF Window
<1>4. op[s].from \notin raced => op[s].mine = Plus(booked[op[s].from], Delta(s))
  BY <1>1 DEF Isolated, Sound, Copies
<1> QED BY <1>1, <1>2, <1>3, <1>4, BooksIt

LEMMA RecordIsolated ==
  ASSUME TypeOK, Isolated, NEW s \in Sessions,
         RecordTransaction(s) \/ RecordOut(s) \/ RecordIn(s)
  PROVE  Isolated'
<1>1. UNCHANGED <<accounts, booked, raced>> /\ op[s].pc \in {"record", "recordOut", "recordIn"}
  BY DEF RecordTransaction, RecordOut, RecordIn, At, AddTransaction, audit
<1>2. op[s] \in OpRecord /\ op[s].ok
  BY DEF TypeOK, Handler, Isolated, Sound, Wrote
<1>3. CASE Finish(s)
  BY <1>1, <1>3, IdleSound, Leaves DEF Finish
<1>4. CASE Goto(s, "recordIn")
  <2> DEFINE o == [op[s] EXCEPT !.pc = "recordIn"]
  <2>1. o.pc = "recordIn" /\ o.ok
    BY <1>2 DEF OpRecord
  <2>2. op' = [op EXCEPT ![s] = o]
    BY <1>4 DEF Goto, TypeOK
  <2> HIDE DEF o
  <2> QED BY <1>1, <2>1, <2>2, Leaves
<1> QED BY <1>3, <1>4 DEF RecordTransaction, RecordOut, RecordIn

-----------------------------------------------------------------------------
(* Transfers *)

LEMMA ReadSenderIsolated ==
  ASSUME TypeOK, Isolated, NEW s \in Sessions, ReadSender(s)
  PROVE  Isolated'
<1>1. PICK a \in Accounts, b \in Accounts, n \in Amounts :
        /\ Begin(s)
        /\ op' = [op EXCEPT ![s] = [Idle EXCEPT !.pc = "receiver", !.from = a, !.to = b,
                                                !.amount = n, !.mine = accounts[a]]]
        /\ Opens(s, a)
        /\ UNCHANGED <<disk, boot, selected, booked, crashes, faults>>
  BY DEF ReadSender
<1>2. UNCHANGED <<accounts, booked>> /\ op[s].pc = "menu"
  BY <1>1 DEF Begin, At, disk
<1>3. /\ op'[s].pc = "receiver" /\ op'[s].from = a /\ op'[s].mine = accounts[a] /\ op'[s].ok
      /\ \A r \in Sessions \ {s} : op'[r] = op[r]
  BY <1>1 DEF TypeOK, Idle
<1>4. /\ raced \subseteq raced'
      /\ a \in raced' \/ \A r \in Sessions \ {s} : a \notin Window(r)
  BY <1>1, Noticed
<1>5. Window(s)' = {a}
  BY <1>3 DEF Window
<1>6. a \notin raced' => accounts[a] = booked[a]
  BY <1>2, <1>4, Own DEF Written
<1>7. Copies(s)' /\ Wrote(s)'
  BY <1>2, <1>3, <1>6 DEF Copies, Wrote, Writing
<1> QED BY <1>2, <1>3, <1>4, <1>5, <1>7, Reads DEF Sound

LEMMA ReadReceiverIsolated ==
  ASSUME TypeOK, Isolated, NEW s \in Sessions, ReadReceiver(s)
  PROVE  Isolated'
<1> DEFINE a == op[s].from
           b == op[s].to
<1>1. UNCHANGED <<accounts, booked>> /\ op[s].pc = "receiver"
  BY DEF ReadReceiver, At, disk
<1>2. op[s] \in OpRecord /\ op[s].ok /\ a \in Accounts /\ b \in Accounts
  BY <1>1 DEF TypeOK, Handler, TransferSteps, Isolated, Sound, Wrote
<1>3. CASE Finish(s) /\ UNCHANGED raced
  BY <1>1, <1>3, IdleSound, Leaves DEF Finish
<1>4. CASE /\ Transferable(s, accounts[b])
           /\ op' = [op EXCEPT ![s].pc = "undoSender", ![s].theirs = accounts[b]]
           /\ Opens(s, b)
  <2>1. /\ op'[s].pc = "undoSender" /\ op'[s].from = a /\ op'[s].to = b
        /\ op'[s].mine = op[s].mine /\ op'[s].theirs = accounts[b] /\ op'[s].ok
        /\ \A r \in Sessions \ {s} : op'[r] = op[r]
    BY <1>2, <1>4 DEF TypeOK, OpRecord
  <2>2. /\ raced \subseteq raced'
        /\ b \in raced' \/ \A r \in Sessions \ {s} : b \notin Window(r)
    BY <1>4, Noticed
  <2>3. Window(s) = {a} /\ Window(s)' = {a, b}
    BY <1>1, <2>1 DEF Window
  <2>4. b \notin raced' => accounts[b] = booked[b]
    BY <1>1, <1>2, <2>2, Own DEF Written
  <2>5. a \notin raced' => op[s].mine = booked[a]
    BY <1>1, <2>2 DEF Isolated, Sound, Copies
  <2>6. a # b
    BY <1>4 DEF Transferable
  <2>7. Copies(s)' /\ Wrote(s)'
    BY <1>1, <2>1, <2>4, <2>5, <2>6 DEF Copies, Wrote, Writing
  <2> QED BY <1>1, <2>1, <2>2, <2>3, <2>7, Reads DEF Sound
<1> QED BY <1>3, <1>4 DEF ReadReceiver

LEMMA LogUndoIsolated ==
  ASSUME TypeOK, Isolated, NEW s \in Sessions, LogSenderUndo(s) \/ LogReceiverUndo(s)
  PROVE  Isolated'
<1>1. UNCHANGED <<accounts, booked, raced>> /\ op[s].pc \in {"undoSender", "undoReceiver"}
  BY DEF LogSenderUndo, LogReceiverUndo, At, audit
<1>2. op[s] \in OpRecord /\ op[s].ok /\ op[s].from # op[s].to
  BY <1>1 DEF TypeOK, Handler, Isolated, Sound, Copies, Wrote
<1>3. /\ op[s].from \notin raced => op[s].mine = booked[op[s].from]
      /\ op[s].to \notin raced => op[s].theirs = booked[op[s].to]
  BY <1>1 DEF Isolated, Sound, Copies
<1>4. /\ op'[s].from = op[s].from /\ op'[s].to = op[s].to
      /\ op'[s].amount = op[s].amount /\ op'[s].ok
      /\ \A r \in Sessions \ {s} : op'[r] = op[r]
      /\ \/ op'[s].pc = "undoReceiver" /\ op'[s].mine = op[s].mine /\ op'[s].theirs = op[s].theirs
         \/ /\ op'[s].pc = "debit"
            /\ op'[s].mine = Plus(op[s].mine, -op[s].amount)
            /\ op'[s].theirs = Plus(op[s].theirs, op[s].amount)
  <2>1. CASE LogSenderUndo(s)
    BY <1>2, <2>1 DEF LogSenderUndo, Goto, TypeOK, OpRecord
  <2>2. CASE LogReceiverUndo(s)
    BY <1>2, <2>2 DEF LogReceiverUndo, TypeOK, OpRecord
  <2> QED BY <2>1, <2>2
<1>5. Window(s)' = Window(s)
  BY <1>1, <1>4 DEF Window
<1>6. Copies(s)' /\ Wrote(s)'
  BY <1>1, <1>2, <1>3, <1>4 DEF Copies, Wrote, Writing
<1> QED BY <1>1, <1>4, <1>5, <1>6, Reads DEF Sound

\* What a transfer that is about to write knows of its two accounts.
LEMMA AboutToWrite ==
  ASSUME TypeOK, Isolated, NEW s \in Sessions, op[s].pc \in Writing
  PROVE  /\ op[s] \in OpRecord
         /\ op[s].from \in Accounts /\ op[s].to \in Accounts /\ op[s].from # op[s].to
         /\ op[s].ok
         /\ Window(s) = {op[s].from, op[s].to}
         /\ op[s].from \notin raced => op[s].mine = Plus(booked[op[s].from], -op[s].amount)
         /\ op[s].to \notin raced => op[s].theirs = Plus(booked[op[s].to], op[s].amount)
<1>1. op[s] \in Handler /\ Sound(s)
  BY DEF TypeOK, Isolated
<1>2. op[s].from \in Accounts /\ op[s].to \in Accounts /\ op[s] \in OpRecord
  BY <1>1 DEF Handler, Writing, TransferSteps
<1> QED BY <1>1, <1>2 DEF Sound, Copies, Wrote, Window, Writing

LEMMA DebitIsolated ==
  ASSUME TypeOK, Isolated, MaxFaults = 0, NEW s \in Sessions, Debit(s)
  PROVE  Isolated'
<1> DEFINE a == op[s].from
           b == op[s].to
<1>1. /\ UNCHANGED <<booked, raced>>
      /\ op[s].pc = "debit"
      /\ accounts' = [accounts EXCEPT ![a] = op[s].mine]
      /\ op' = [op EXCEPT ![s].pc = "credit"]
  BY NoFault DEF Debit, At, Update, Goto, audit
<1>2. /\ op[s] \in OpRecord /\ a \in Accounts /\ b \in Accounts /\ a # b /\ op[s].ok
      /\ Window(s) = {a, b}
      /\ a \notin raced => op[s].mine = Plus(booked[a], -op[s].amount)
      /\ b \notin raced => op[s].theirs = Plus(booked[b], op[s].amount)
  BY <1>1, AboutToWrite DEF Writing
<1>3. /\ op'[s].pc = "credit" /\ op'[s].from = a /\ op'[s].to = b
      /\ op'[s].amount = op[s].amount /\ op'[s].mine = op[s].mine
      /\ op'[s].theirs = op[s].theirs /\ op'[s].ok
      /\ \A r \in Sessions \ {s} : op'[r] = op[r]
  BY <1>1, <1>2 DEF TypeOK, OpRecord
<1>4. Window(s)' = {a, b}
  BY <1>3 DEF Window
<1>5. accounts'[a] = op[s].mine /\ \A c \in Accounts \ {a} : accounts'[c] = accounts[c]
  BY <1>1, <1>2 DEF TypeOK
<1>6. b \notin raced => accounts'[b] = booked'[b]
  BY <1>1, <1>2, <1>5, Own, Exclusive DEF Written
<1>7. Written(s, a)'
  BY <1>3 DEF Written
<1>8. Copies(s)' /\ Wrote(s)'
  BY <1>1, <1>2, <1>3, <1>5 DEF Copies, Wrote, Writing
<1>9. \A c \in Accounts \ raced' : c \in Window(s) => accounts'[c] = booked'[c] \/ Written(s, c)'
  BY <1>1, <1>2, <1>6, <1>7
<1> QED BY <1>1, <1>2, <1>3, <1>4, <1>5, <1>8, <1>9, OneSteps DEF Sound

LEMMA CreditIsolated ==
  ASSUME TypeOK, Isolated, MaxFaults = 0, NEW s \in Sessions, Credit(s)
  PROVE  Isolated'
<1> DEFINE a == op[s].from
           b == op[s].to
<1>1. /\ UNCHANGED <<booked, raced>>
      /\ op[s].pc = "credit"
      /\ accounts' = [accounts EXCEPT ![b] = op[s].theirs]
      /\ op' = [op EXCEPT ![s].pc = "commit"]
  BY NoFault DEF Credit, At, Update, Goto, audit
<1>2. /\ op[s] \in OpRecord /\ a \in Accounts /\ b \in Accounts /\ a # b /\ op[s].ok
      /\ Window(s) = {a, b}
      /\ a \notin raced => op[s].mine = Plus(booked[a], -op[s].amount)
      /\ b \notin raced => op[s].theirs = Plus(booked[b], op[s].amount)
  BY <1>1, AboutToWrite DEF Writing
<1>3. /\ op'[s].pc = "commit" /\ op'[s].from = a /\ op'[s].to = b
      /\ op'[s].amount = op[s].amount /\ op'[s].mine = op[s].mine
      /\ op'[s].theirs = op[s].theirs /\ op'[s].ok
      /\ \A r \in Sessions \ {s} : op'[r] = op[r]
  BY <1>1, <1>2 DEF TypeOK, OpRecord
<1>4. Window(s)' = {a, b}
  BY <1>3 DEF Window
<1>5. accounts'[b] = op[s].theirs /\ \A c \in Accounts \ {b} : accounts'[c] = accounts[c]
  BY <1>1, <1>2 DEF TypeOK
<1>6. a \notin raced => accounts[a] = op[s].mine
  BY <1>1 DEF Isolated, Sound, Wrote
<1>7. Copies(s)' /\ Wrote(s)'
  BY <1>1, <1>2, <1>3, <1>5, <1>6 DEF Copies, Wrote, Writing
<1>8. \A c \in Accounts \ raced' : c \in Window(s) => accounts'[c] = booked'[c] \/ Written(s, c)'
  BY <1>2, <1>3 DEF Written
<1> QED BY <1>1, <1>2, <1>3, <1>4, <1>5, <1>7, <1>8, OneSteps DEF Sound

LEMMA CommitIsolated ==
  ASSUME TypeOK, Isolated, NEW s \in Sessions, Commit(s)
  PROVE  Isolated'
<1> DEFINE a == op[s].from
           b == op[s].to
<1>1. /\ UNCHANGED <<accounts, raced>>
      /\ op[s].pc = "commit"
      /\ booked' = [booked EXCEPT ![a] = Plus(@, -op[s].amount), ![b] = Plus(@, op[s].amount)]
      /\ op' = [op EXCEPT ![s].pc = "recordOut"]
  BY DEF Commit, At, Goto
<1>2. /\ op[s] \in OpRecord /\ a \in Accounts /\ b \in Accounts /\ a # b /\ op[s].ok
      /\ Window(s) = {a, b}
      /\ a \notin raced => op[s].mine = Plus(booked[a], -op[s].amount)
      /\ b \notin raced => op[s].theirs = Plus(booked[b], op[s].amount)
  BY <1>1, AboutToWrite DEF Writing
<1>3. /\ op'[s].pc = "recordOut" /\ op'[s].ok
      /\ \A r \in Sessions \ {s} : op'[r] = op[r]
  BY <1>1, <1>2 DEF TypeOK, OpRecord
<1>4. Window(s)' = {}
  BY <1>3 DEF Window
<1>5. /\ booked'[a] = Plus(booked[a], -op[s].amount) /\ booked'[b] = Plus(booked[b], op[s].amount)
      /\ \A c \in Accounts \ {a, b} : booked'[c] = booked[c]
  BY <1>1, <1>2 DEF TypeOK
<1>6. /\ a \notin raced => accounts[a] = op[s].mine
      /\ b \notin raced => accounts[b] = op[s].theirs
  BY <1>1 DEF Isolated, Sound, Wrote
<1>7. Copies(s)' /\ Wrote(s)'
  BY <1>3 DEF Copies, Wrote, Writing
<1>8. \A c \in Accounts \ raced' : c \in Window(s) => accounts'[c] = booked'[c]
  BY <1>1, <1>2, <1>5, <1>6
<1> QED BY <1>1, <1>2, <1>3, <1>4, <1>5, <1>7, <1>8, OneSteps DEF Sound

-----------------------------------------------------------------------------
(* Activation and deactivation of a customer's accounts *)

LEMMA ScanAccountIsolated ==
  ASSUME TypeOK, Isolated, NEW s \in Sessions, ScanAccount(s)
  PROVE  Isolated'
<1>1. UNCHANGED <<accounts, booked>> /\ op[s].pc = "scan"
  BY DEF ScanAccount, At, disk
<1>2. op[s] \in OpRecord /\ op[s].ok /\ op[s].todo \subseteq Accounts
  BY DEF TypeOK, Handler, OpRecord, Isolated, Sound, Wrote
<1>3. PICK a \in op[s].todo :
        \/ /\ op' = [op EXCEPT ![s].pc = "statusUpdate", ![s].from = a,
                               ![s].todo = @ \ {a},
                               ![s].mine = [accounts[a] EXCEPT !.isActive = op[s].status]]
           /\ Opens(s, a)
        \/ op' = [op EXCEPT ![s].todo = @ \ {a}] /\ UNCHANGED raced
  BY DEF ScanAccount
<1>4. CASE op' = [op EXCEPT ![s].todo = @ \ {a}] /\ UNCHANGED raced
  <2> DEFINE o == [op[s] EXCEPT !.todo = @ \ {a}]
  <2>1. o.pc = "scan" /\ o.ok
    BY <1>1, <1>2 DEF OpRecord
  <2>2. op' = [op EXCEPT ![s] = o]
    BY <1>4 DEF TypeOK
  <2> HIDE DEF o
  <2> QED BY <1>1, <1>4, <2>1, <2>2, Leaves
<1>5. CASE /\ op' = [op EXCEPT ![s].pc = "statusUpdate", ![s].from = a,
                               ![s].todo = @ \ {a},
                               ![s].mine = [accounts[a] EXCEPT !.isActive = op[s].status]]
           /\ Opens(s, a)
  <2>1. /\ op'[s].pc = "statusUpdate" /\ op'[s].from = a /\ op'[s].status = op[s].status
        /\ op'[s].mine = [accounts[a] EXCEPT !.isActive = op[s].status] /\ op'[s].ok
        /\ \A r \in Sessions \ {s} : op'[r] = op[r]
    BY <1>2, <1>5 DEF TypeOK, OpRecord
  <2>2. /\ raced \subseteq raced'
        /\ a \in raced' \/ \A r \in Sessions \ {s} : a \notin Window(r)
    BY <1>5, Noticed
  <2>3. Window(s)' = {a}
    BY <2>1 DEF Window
  <2>4. a \notin raced' => accounts[a] = booked[a]
    BY <1>1, <1>2, <2>2, Own DEF Written
  <2>5. Copies(s)' /\ Wrote(s)'
    BY <1>1, <2>1, <2>4 DEF Copies, Wrote, Writing
  <2> QED BY <1>1, <2>1, <2>2, <2>3, <2>5, Reads DEF Sound
<1> QED BY <1>3, <1>4, <1>5

LEMMA UpdateStatusIsolated ==
  ASSUME TypeOK, Isolated, MaxFaults = 0, NEW s \in Sessions, UpdateStatus(s)
  PROVE  Isolated'
<1> DEFINE a == op[s].from
           account == [booked[a] EXCEPT !.isActive = op[s].status]
<1>1. /\ UNCHANGED raced /\ op[s].pc = "statusUpdate"
      /\ accounts' = [accounts EXCEPT ![a] = op[s].mine]
      /\ booked' = [booked EXCEPT ![a].isActive = op[s].status]
      /\ op' = [op EXCEPT ![s].pc = "scan"]
  BY NoFault DEF UpdateStatus, At, Update, Goto
<1>2. a \in Accounts
  BY <1>1 DEF TypeOK, Handler
<1>3. Window(s) = {a}
  BY <1>1 DEF Window
<1>4. a \notin raced => op[s].mine = account
  BY <1>1 DEF Isolated, Sound, Copies
<1>5. booked' = [booked EXCEPT ![a] = account]
  BY <1>1, <1>2 DEF TypeOK
<1> HIDE DEF account
<1> QED BY <1>1, <1>2, <1>3, <1>4, <1>5, BooksIt

LEMMA BeginEndStatusIsolated ==
  ASSUME TypeOK, Isolated, NEW s \in Sessions, BeginStatus(s) \/ EndStatus(s)
  PROVE  Isolated'
<1>1. UNCHANGED <<accounts, booked, raced>> /\ op[s].pc \in {"menu", "scan"}
  BY DEF BeginStatus, EndStatus, Begin, At, disk, audit
<1>2. CASE BeginStatus(s)
  <2>1. PICK u \in Users, status \in BOOLEAN :
          op' = [op EXCEPT ![s] = [Idle EXCEPT !.pc = "scan", !.status = status,
                                               !.todo = {a \in Accounts : Owner[a] = u}]]
    BY <1>2 DEF BeginStatus
  <2>2. [Idle EXCEPT !.pc = "scan", !.status = status,
                     !.todo = {a \in Accounts : Owner[a] = u}].pc = "scan"
    BY DEF Idle
  <2>3. [Idle EXCEPT !.pc = "scan", !.status = status,
                     !.todo = {a \in Accounts : Owner[a] = u}].ok
    BY DEF Idle
  <2> QED BY <1>1, <2>1, <2>2, <2>3, Leaves
<1>3. CASE EndStatus(s)
  BY <1>1, <1>3, IdleSound, Leaves DEF EndStatus, Finish
<1> QED BY <1>2, <1>3

-----------------------------------------------------------------------------

LEMMA UnchangedIsolated ==
  ASSUME Isolated, UNCHANGED <<disk, op, audit>>
  PROVE  Isolated'
<1>1. OneWorker'
  BY DEF Isolated, OneWorker, Window, audit
<1>2. UncontendedExact'
  BY DEF Isolated, UncontendedExact, InTransfer, disk, audit
<1>3. \A s \in Sessions : Sound(s)'
  BY DEF Isolated, Sound, Copies, Wrote, Delta, disk, audit
<1> QED BY <1>1, <1>2, <1>3 DEF Isolated

\* While clients are served.
Serving ==
  \/ \E s \in Users : Menu(s) \/ Deposit(s) \/ Withdraw(s) \/ Transfer(s)
  \/ \E s \in Employees : CreditLoan(s)
  \/ \E s \in Users \cup Employees : UpdateAccount(s) \/ RecordTransaction(s)
  \/ \E s \in Managers : SetStatus(s)

LEMMA NextIs == Next <=> Serving \/ Recovery \/ Crash
BY DEF Next, Serving

LEMMA ServingBoot == Serving => server = "up" /\ UNCHANGED boot
<1> SUFFICES ASSUME Serving PROVE server = "up" /\ UNCHANGED boot
  OBVIOUS
<1>1. ASSUME NEW s, Menu(s) \/ Deposit(s) \/ Withdraw(s) \/ CreditLoan(s)
      PROVE  server = "up" /\ UNCHANGED boot
  BY <1>1 DEF Menu, SelectAccount, LeaveAccount, Deposit, Withdraw, CreditLoan, ReadAccount,
              Begin, At
<1>2. ASSUME NEW s, Transfer(s) PROVE server = "up" /\ UNCHANGED boot
  <2>1. CASE ReadSender(s) \/ ReadReceiver(s) \/ LogSenderUndo(s) \/ LogReceiverUndo(s)
    BY <2>1 DEF ReadSender, ReadReceiver, LogSenderUndo, LogReceiverUndo, Begin, At
  <2>2. CASE Debit(s) \/ Credit(s) \/ Commit(s) \/ GiveUp(s)
    BY <2>2 DEF Debit, Credit, Commit, GiveUp, At
  <2>3. CASE RecordOut(s) \/ RecordIn(s)
    BY <2>3 DEF RecordOut, RecordIn, AddTransaction, At
  <2> QED BY <1>2, <2>1, <2>2, <2>3 DEF Transfer
<1>3. ASSUME NEW s, UpdateAccount(s) \/ RecordTransaction(s)
      PROVE  server = "up" /\ UNCHANGED boot
  BY <1>3 DEF UpdateAccount, RecordTransaction, AddTransaction, At
<1>4. ASSUME NEW s, SetStatus(s) PROVE server = "up" /\ UNCHANGED boot
  BY <1>4 DEF SetStatus, BeginStatus, ScanAccount, UpdateStatus, EndStatus, Begin, At
<1> QED BY <1>1, <1>2, <1>3, <1>4 DEF Serving

LEMMA ServingIsolated ==
  ASSUME TypeOK, Isolated, MaxFaults = 0, Serving
  PROVE  Isolated'
<1>c. Users \subseteq Sessions /\ Employees \subseteq Sessions /\ Managers \subseteq Sessions
  BY DEF Sessions
<1>1. ASSUME NEW s \in Users, Menu(s) PROVE Isolated'
  BY <1>1, UnchangedIsolated DEF Menu, SelectAccount, LeaveAccount
<1>2. ASSUME NEW s \in Users, Deposit(s) PROVE Isolated'
  <2>1. PICK a \in Accounts, n \in Amounts : ReadAccount(s, a, "DEPOSIT", n, n)
    BY <1>2 DEF Deposit
  <2> QED BY <2>1, <1>c, ReadAccountIsolated
<1>3. ASSUME NEW s \in Users, Withdraw(s) PROVE Isolated'
  <2>1. PICK a \in Accounts, n \in Amounts : ReadAccount(s, a, "WITHDRAWAL", n, -n)
    BY <1>3 DEF Withdraw
  <2> QED BY <2>1, <1>c, ReadAccountIsolated
<1>4. ASSUME NEW s \in Employees, CreditLoan(s) PROVE Isolated'
  <2>1. PICK a \in Accounts, n \in Amounts : ReadAccount(s, a, "DEPOSIT", n, n)
    BY <1>4 DEF CreditLoan
  <2> QED BY <2>1, <1>c, ReadAccountIsolated
<1>5. ASSUME NEW s \in Sessions, UpdateAccount(s) \/ RecordTransaction(s) PROVE Isolated'
  BY <1>5, UpdateAccountIsolated, RecordIsolated
<1>6. ASSUME NEW s \in Users, Transfer(s) PROVE Isolated'
  <2>1. CASE ReadSender(s) \/ ReadReceiver(s) \/ LogSenderUndo(s) \/ LogReceiverUndo(s)
    BY <2>1, <1>c, ReadSenderIsolated, ReadReceiverIsolated, LogUndoIsolated
  <2>2. CASE Debit(s) \/ Credit(s) \/ Commit(s)
    BY <2>2, <1>c, DebitIsolated, CreditIsolated, CommitIsolated
  <2>3. ~GiveUp(s)
    BY <1>c DEF GiveUp, Isolated, Sound, Wrote
  <2>4. CASE RecordOut(s) \/ RecordIn(s)
    BY <2>4, <1>c, RecordIsolated
  <2> QED BY <1>6, <2>1, <2>2, <2>3, <2>4 DEF Transfer
<1>7. ASSUME NEW s \in Managers, SetStatus(s) PROVE Isolated'
  BY <1>7, <1>c, ScanAccountIsolated, UpdateStatusIsolated, BeginEndStatusIsolated DEF SetStatus
<1> QED BY <1>1, <1>2, <1>3, <1>4, <1>5, <1>6, <1>7, <1>c DEF Serving

-----------------------------------------------------------------------------
(* A server that does not crash *)

\* It is about to start for the first time, or it runs.
Calm == server \in {"down", "up"} /\ (server = "down" => journal = <<>>)

\* It starts on an empty journal and accepts clients at once.
LEMMA RecoveryCalm ==
  ASSUME TypeOK, Calm, MaxFaults = 0, Recovery
  PROVE  server' = "up" /\ UNCHANGED <<disk, menus, audit>>
<1>1. server = "down" /\ journal = <<>>
  BY DEF Calm, Recovery, ReadJournal, RollBackEntry, EndRollBack, JournalLogClear
<1>2. EntryCount = 0
  BY <1>1, LedgerAssumption DEF EntryCount
<1> QED BY <1>1, <1>2, NoFault
       DEF Recovery, ReadJournal, RollBackEntry, EndRollBack, JournalLogClear

LEMMA InitIsolated == Init => Isolated
<1> SUFFICES ASSUME Init PROVE Isolated
  OBVIOUS
<1>1. \A s \in Sessions : op[s].pc = "menu" /\ op[s].ok
  BY DEF Init, Idle
<1>2. OneWorker /\ UncontendedExact
  BY <1>1 DEF Init, OneWorker, Window, UncontendedExact
<1>3. \A s \in Sessions : Sound(s)
  BY <1>1 DEF Sound, Copies, Wrote, Writing
<1> QED BY <1>2, <1>3 DEF Isolated

LEMMA StepIsolated ==
  ASSUME TypeOK, Isolated, Calm, MaxCrashes = 0, MaxFaults = 0, [Next]_vars
  PROVE  Isolated' /\ Calm'
<1>1. CASE Serving
  BY <1>1, ServingIsolated, ServingBoot DEF Calm, boot
<1>2. CASE Recovery
  BY <1>2, RecoveryCalm, UnchangedIsolated DEF Calm, menus
<1>3. CASE UNCHANGED vars
  BY <1>3, UnchangedIsolated DEF Calm, vars, disk, boot, menus
<1> QED BY <1>1, <1>2, <1>3, NextIs, NoCrash

\* While the server runs and its writes succeed, an account that two sessions
\* never worked on at the same time holds exactly what its completed operations
\* add up to, for any number of sessions, accounts and operations: the handlers
\* need no lock around their read, computation and write to keep uncontended
\* accounts apart, although they share the files and the journal.
THEOREM UncontendedAccountsExact ==
  ASSUME MaxCrashes = 0, MaxFaults = 0 PROVE Spec => []UncontendedExact
<1>1. Init => Isolated /\ Calm
  BY InitIsolated DEF Init, Calm
<1>2. TypeOK /\ Isolated /\ Calm /\ [Next]_vars => Isolated' /\ Calm'
  BY StepIsolated
<1>3. Isolated => UncontendedExact
  BY DEF Isolated
<1> QED BY <1>1, <1>2, <1>3, TypeCorrect, PTL DEF Spec
-----------------------------------------------------------------------------
(* Where the steps of a handler lead *)

\* Session s opens an account, or none.
Marks(s) == raced' = raced \/ \E a : Opens(s, a)

LEMMA MarksMore == ASSUME NEW s, Marks(s) PROVE raced \subseteq raced'
BY DEF Marks, Opens

\* The first step of a handler.
LEMMA Begins ==
  ASSUME TypeOK, NEW s \in Sessions,
         \/ \E a \in Accounts, n \in Amounts, k \in {"DEPOSIT", "WITHDRAWAL"}, d \in Int :
              ReadAccount(s, a, k, n, d)
         \/ ReadSender(s) \/ BeginStatus(s)
  PROVE  /\ UNCHANGED <<accounts, journal, transactions, booked>> /\ Marks(s)
         /\ op[s].pc = "menu" /\ (Serial => \A r \in Sessions : op[r].pc = "menu")
         /\ op'[s].pc \in {"update", "receiver", "scan"}
         /\ op'[s].pc = "receiver" => Len(journal) + 3 <= JournalLimit
         /\ \A r \in Sessions \ {s} : op'[r] = op[r]
<1>1. /\ UNCHANGED <<accounts, journal, transactions, booked>>
      /\ op[s].pc = "menu" /\ (Serial => \A r \in Sessions : op[r].pc = "menu")
  BY DEF ReadAccount, ReadSender, BeginStatus, Begin, At, disk, audit
<1>2. ASSUME NEW o, op' = [op EXCEPT ![s] = o]
      PROVE  op'[s] = o /\ \A r \in Sessions \ {s} : op'[r] = op[r]
  BY <1>2 DEF TypeOK
<1>3. Marks(s)
  BY DEF Marks, ReadAccount, ReadSender, BeginStatus, audit
<1>4. /\ op'[s].pc \in {"update", "receiver", "scan"}
      /\ op'[s].pc = "receiver" => Len(journal) + 3 <= JournalLimit
      /\ \A r \in Sessions \ {s} : op'[r] = op[r]
  <2>1. CASE \E a \in Accounts, n \in Amounts, k \in {"DEPOSIT", "WITHDRAWAL"}, d \in Int :
               ReadAccount(s, a, k, n, d)
    <3>1. PICK a \in Accounts, n \in Amounts, k \in {"DEPOSIT", "WITHDRAWAL"}, d \in Int :
            op' = [op EXCEPT ![s] = [Idle EXCEPT !.pc = "update", !.type = k, !.from = a,
                                                 !.amount = n, !.mine = Plus(accounts[a], d)]]
      BY <2>1 DEF ReadAccount
    <3>2. [Idle EXCEPT !.pc = "update", !.type = k, !.from = a, !.amount = n,
                       !.mine = Plus(accounts[a], d)].pc = "update"
      BY DEF Idle
    <3> QED BY <3>1, <3>2, <1>2
  <2>2. CASE ReadSender(s)
    <3>1. PICK a \in Accounts, b \in Accounts, n \in Amounts :
            /\ op' = [op EXCEPT ![s] = [Idle EXCEPT !.pc = "receiver", !.from = a, !.to = b,
                                                    !.amount = n, !.mine = accounts[a]]]
            /\ Len(journal) + 3 <= JournalLimit
      BY <2>2 DEF ReadSender
    <3>2. [Idle EXCEPT !.pc = "receiver", !.from = a, !.to = b, !.amount = n,
                       !.mine = accounts[a]].pc = "receiver"
      BY DEF Idle
    <3> QED BY <3>1, <3>2, <1>2
  <2>3. CASE BeginStatus(s)
    <3>1. PICK u \in Users, status \in BOOLEAN :
            op' = [op EXCEPT ![s] = [Idle EXCEPT !.pc = "scan", !.status = status,
                                                 !.todo = {a \in Accounts : Owner[a] = u}]]
      BY <2>3 DEF BeginStatus
    <3>2. [Idle EXCEPT !.pc = "scan", !.status = status,
                       !.todo = {a \in Accounts : Owner[a] = u}].pc = "scan"
      BY DEF Idle
    <3> QED BY <3>1, <3>2, <1>2
  <2> QED BY <2>1, <2>2, <2>3
<1> QED BY <1>1, <1>3, <1>4

\* A step of the account loop.
LEMMA StatusGoes ==
  ASSUME TypeOK, NEW s \in Sessions, ScanAccount(s) \/ UpdateStatus(s) \/ EndStatus(s)
  PROVE  /\ UNCHANGED <<journal, transactions>> /\ Marks(s)
         /\ op[s].pc \in {"scan", "statusUpdate"}
         /\ \A a \in Accounts : booked'[a].balance = booked[a].balance
         /\ op'[s].pc \in {"menu", "scan", "statusUpdate"}
         /\ \A r \in Sessions \ {s} : op'[r] = op[r]
<1>1. UNCHANGED <<journal, transactions>> /\ op[s].pc \in {"scan", "statusUpdate"}
  BY DEF ScanAccount, UpdateStatus, EndStatus, At, disk
<1>m. Marks(s)
  BY DEF Marks, ScanAccount, UpdateStatus, EndStatus, audit
<1>2. op[s] \in OpRecord
  BY DEF TypeOK, Handler
<1>3. \A a \in Accounts : booked'[a].balance = booked[a].balance
  <2>1. CASE UNCHANGED booked
    BY <2>1
  <2>2. CASE booked' = [booked EXCEPT ![op[s].from].isActive = op[s].status]
    BY <2>2 DEF TypeOK, Account
  <2> QED BY <2>1, <2>2 DEF ScanAccount, UpdateStatus, EndStatus, audit
<1>4. /\ op'[s].pc \in {"menu", "scan", "statusUpdate"}
      /\ \A r \in Sessions \ {s} : op'[r] = op[r]
  <2>1. CASE ScanAccount(s)
    <3>1. PICK a \in op[s].todo :
            \/ op' = [op EXCEPT ![s].pc = "statusUpdate", ![s].from = a,
                                ![s].todo = @ \ {a},
                                ![s].mine = [accounts[a] EXCEPT !.isActive = op[s].status]]
            \/ op' = [op EXCEPT ![s].todo = @ \ {a}]
      BY <2>1 DEF ScanAccount
    <3>2. CASE op' = [op EXCEPT ![s].pc = "statusUpdate", ![s].from = a,
                                ![s].todo = @ \ {a},
                                ![s].mine = [accounts[a] EXCEPT !.isActive = op[s].status]]
      BY <3>2, <1>2 DEF TypeOK, OpRecord
    <3>3. CASE op' = [op EXCEPT ![s].todo = @ \ {a}]
      BY <3>3, <1>1, <1>2 DEF TypeOK, OpRecord
    <3> QED BY <3>1, <3>2, <3>3
  <2>2. CASE UpdateStatus(s)
    BY <2>2, <1>2 DEF UpdateStatus, Goto, TypeOK, OpRecord
  <2>3. CASE EndStatus(s)
    BY <2>3, IdleSound DEF EndStatus, Finish, TypeOK
  <2> QED BY <2>1, <2>2, <2>3
<1> QED BY <1>1, <1>m, <1>3, <1>4

-----------------------------------------------------------------------------
(* The history explains the books *)

Recording == {"record", "recordOut", "recordIn"}

\* What a handler o has booked for account a and still to record.
DueIn(o, a) ==
  IF \/ o.pc = "record" /\ o.type = "DEPOSIT" /\ o.from = a
     \/ o.pc \in {"recordOut", "recordIn"} /\ o.to = a
  THEN o.amount ELSE 0

DueOut(o, a) ==
  IF \/ o.pc = "record" /\ o.type = "WITHDRAWAL" /\ o.from = a
     \/ o.pc = "recordOut" /\ o.from = a
  THEN o.amount ELSE 0

In(handlers, a)  == Units([s \in Sessions |-> DueIn(handlers[s], a)], Sessions)
Out(handlers, a) == Units([s \in Sessions |-> DueOut(handlers[s], a)], Sessions)

\* What handler o adds to the sum of what is due.
DueOf(o, a) == DueIn(o, a) - DueOut(o, a)

Due(handlers, a) == Cardinality(In(handlers, a)) - Cardinality(Out(handlers, a))

\* The records of an account and those that are due add up to b.
Explained(b, history, handlers, a) ==
  /\ IsFiniteSet(In(handlers, a)) /\ IsFiniteSet(Out(handlers, a))
  /\ b = InitialBalance[a] + (TotalOf(history, a) + Due(handlers, a))

\* So it is for the books of every account, raced for or not.
Accounted == \A a \in Accounts : Explained(booked[a].balance, transactions, op, a)

LEMMA DueType ==
  ASSUME NEW o \in Handler, NEW a
  PROVE  DueIn(o, a) \in Nat /\ DueOut(o, a) \in Nat
<1>1. o.amount \in Amounts \cup {0}
  BY DEF Handler, OpRecord
<1>2. o.amount \in Nat
  BY <1>1, LedgerAssumption
<1> QED BY <1>2 DEF DueIn, DueOut

LEMMA TotalType ==
  ASSUME NEW h \in Seq(Transaction), NEW a
  PROVE  TotalOf(h, a) \in Int
<1>1. PICK f : Sums(f, Shares(h, a), Len(h)) /\ TotalOf(h, a) = f[Len(h)]
  BY TotalIsSum
<1>2. Shares(h, a) \in [1..Len(h) -> Int] /\ Len(h) \in Nat
  BY ShareType
<1>3. f \in [0..Len(h) -> Int]
  BY <1>1, <1>2, SumsExist, SumsUnique
<1> QED BY <1>1, <1>2, <1>3

\* One session's part of the sums changes.
LEMMA InStep ==
  ASSUME NEW a, NEW s \in Sessions, NEW o, NEW p,
         DueIn(o[s], a) \in Nat, DueIn(p[s], a) \in Nat,
         \A r \in Sessions \ {s} : p[r] = o[r], IsFiniteSet(In(o, a))
  PROVE  /\ IsFiniteSet(In(p, a))
         /\ Cardinality(In(p, a)) = Cardinality(In(o, a)) - DueIn(o[s], a) + DueIn(p[s], a)
<1> DEFINE old == [r \in Sessions |-> DueIn(o[r], a)]
           new == [r \in Sessions |-> DueIn(p[r], a)]
<1>1. /\ old[s] = DueIn(o[s], a) /\ new[s] = DueIn(p[s], a)
      /\ \A r \in Sessions \ {s} : new[r] = old[r]
  OBVIOUS
<1>2. In(o, a) = Units(old, Sessions) /\ In(p, a) = Units(new, Sessions)
  BY DEF In
<1> HIDE DEF old, new
<1>3. old[s] \in Nat /\ new[s] \in Nat /\ IsFiniteSet(Units(old, Sessions))
  BY <1>1, <1>2
<1>4. /\ IsFiniteSet(Units(new, Sessions))
      /\ Cardinality(Units(new, Sessions)) = Cardinality(Units(old, Sessions)) - old[s] + new[s]
  BY <1>1, <1>3, UnitsStep
<1> QED BY <1>1, <1>2, <1>4

LEMMA OutStep ==
  ASSUME NEW a, NEW s \in Sessions, NEW o, NEW p,
         DueOut(o[s], a) \in Nat, DueOut(p[s], a) \in Nat,
         \A r \in Sessions \ {s} : p[r] = o[r], IsFiniteSet(Out(o, a))
  PROVE  /\ IsFiniteSet(Out(p, a))
         /\ Cardinality(Out(p, a)) = Cardinality(Out(o, a)) - DueOut(o[s], a) + DueOut(p[s], a)
<1> DEFINE old == [r \in Sessions |-> DueOut(o[r], a)]
           new == [r \in Sessions |-> DueOut(p[r], a)]
<1>1. /\ old[s] = DueOut(o[s], a) /\ new[s] = DueOut(p[s], a)
      /\ \A r \in Sessions \ {s} : new[r] = old[r]
  OBVIOUS
<1>2. Out(o, a) = Units(old, Sessions) /\ Out(p, a) = Units(new, Sessions)
  BY DEF Out
<1> HIDE DEF old, new
<1>3. old[s] \in Nat /\ new[s] \in Nat /\ IsFiniteSet(Units(old, Sessions))
  BY <1>1, <1>2
<1>4. /\ IsFiniteSet(Units(new, Sessions))
      /\ Cardinality(Units(new, Sessions)) = Cardinality(Units(old, Sessions)) - old[s] + new[s]
  BY <1>1, <1>3, UnitsStep
<1> QED BY <1>1, <1>2, <1>4

LEMMA DueStep ==
  ASSUME NEW a, NEW s \in Sessions, NEW o, NEW p, o[s] \in Handler, p[s] \in Handler,
         \A r \in Sessions \ {s} : p[r] = o[r],
         IsFiniteSet(In(o, a)), IsFiniteSet(Out(o, a))
  PROVE  /\ IsFiniteSet(In(p, a)) /\ IsFiniteSet(Out(p, a))
         /\ Due(o, a) \in Int /\ DueOf(o[s], a) \in Int /\ DueOf(p[s], a) \in Int
         /\ Due(p, a) = Due(o, a) + (DueOf(p[s], a) - DueOf(o[s], a))
<1>1. /\ DueIn(o[s], a) \in Nat /\ DueOut(o[s], a) \in Nat
      /\ DueIn(p[s], a) \in Nat /\ DueOut(p[s], a) \in Nat
  BY DueType
<1>2. /\ IsFiniteSet(In(p, a))
      /\ Cardinality(In(p, a)) = Cardinality(In(o, a)) - DueIn(o[s], a) + DueIn(p[s], a)
  BY <1>1, InStep
<1>3. /\ IsFiniteSet(Out(p, a))
      /\ Cardinality(Out(p, a)) = Cardinality(Out(o, a)) - DueOut(o[s], a) + DueOut(p[s], a)
  BY <1>1, OutStep
<1>4. Cardinality(In(o, a)) \in Nat /\ Cardinality(Out(o, a)) \in Nat
  BY FS_CardinalityType, Zenon
<1> QED BY <1>1, <1>2, <1>3, <1>4 DEF Due, DueOf

LEMMA Balance ==
  ASSUME NEW init \in Int, NEW total \in Int, NEW due \in Int, NEW x \in Int, NEW d \in Int
  PROVE  (init + (total + due)) + (x + d) = init + ((total + x) + (due + d))
OBVIOUS

\* A step of session s keeps the books of a explained if it books what it
\* records (x) and what becomes due.
LEMMA ExplainedStep ==
  ASSUME NEW a \in Accounts, NEW s \in Sessions, NEW o, NEW p, o[s] \in Handler, p[s] \in Handler,
         \A r \in Sessions \ {s} : p[r] = o[r],
         NEW h \in Seq(Transaction), NEW g, NEW x \in Int, TotalOf(g, a) = TotalOf(h, a) + x,
         NEW b, NEW c, Explained(b, h, o, a),
         c = b + (x + (DueOf(p[s], a) - DueOf(o[s], a)))
  PROVE  Explained(c, g, p, a)
<1>1. IsFiniteSet(In(o, a)) /\ IsFiniteSet(Out(o, a))
  BY DEF Explained
<1>2. /\ IsFiniteSet(In(p, a)) /\ IsFiniteSet(Out(p, a))
      /\ Due(o, a) \in Int /\ DueOf(o[s], a) \in Int /\ DueOf(p[s], a) \in Int
      /\ Due(p, a) = Due(o, a) + (DueOf(p[s], a) - DueOf(o[s], a))
  BY <1>1, DueStep, Zenon
<1>3. InitialBalance[a] \in Int /\ TotalOf(h, a) \in Int
  BY LedgerAssumption, TotalType
<1>4. b = InitialBalance[a] + (TotalOf(h, a) + Due(o, a))
  BY DEF Explained
<1> DEFINE d == DueOf(p[s], a) - DueOf(o[s], a)
<1>5. c = b + (x + d) /\ Due(p, a) = Due(o, a) + d /\ d \in Int
  BY <1>2
<1> HIDE DEF d
<1>6. (InitialBalance[a] + (TotalOf(h, a) + Due(o, a))) + (x + d)
        = InitialBalance[a] + ((TotalOf(h, a) + x) + (Due(o, a) + d))
  <2> DEFINE init == InitialBalance[a]
             total == TotalOf(h, a)
             due == Due(o, a)
  <2>1. init \in Int /\ total \in Int /\ due \in Int
    BY <1>2, <1>3
  <2> HIDE DEF init, total, due
  <2>2. (init + (total + due)) + (x + d) = init + ((total + x) + (due + d))
    BY <1>5, <2>1, Balance
  <2> QED BY <2>2 DEF init, total, due
<1>7. c = InitialBalance[a] + (TotalOf(g, a) + Due(p, a))
  BY <1>4, <1>5, <1>6, Zenon
<1> QED BY <1>2, <1>7 DEF Explained

LEMMA AccountedStep ==
  ASSUME TypeOK, TypeOK', Accounted, NEW s \in Sessions,
         \A r \in Sessions \ {s} : op'[r] = op[r],
         ASSUME NEW a \in Accounts
         PROVE  \E x \in Int :
                  /\ TotalOf(transactions', a) = TotalOf(transactions, a) + x
                  /\ booked'[a].balance =
                       booked[a].balance + (x + (DueOf(op'[s], a) - DueOf(op[s], a)))
  PROVE  Accounted'
<1> SUFFICES ASSUME NEW a \in Accounts
             PROVE  Explained(booked'[a].balance, transactions', op', a)
  BY DEF Accounted
<1>1. transactions \in Seq(Transaction) /\ op[s] \in Handler /\ op'[s] \in Handler
  BY DEF TypeOK
<1>2. PICK x \in Int :
        /\ TotalOf(transactions', a) = TotalOf(transactions, a) + x
        /\ booked'[a].balance =
             booked[a].balance + (x + (DueOf(op'[s], a) - DueOf(op[s], a)))
  OBVIOUS
<1>3. Explained(booked[a].balance, transactions, op, a)
  BY DEF Accounted
<1> QED BY <1>1, <1>2, <1>3, ExplainedStep

\* A step that records nothing books what becomes due.
LEMMA BooksDue ==
  ASSUME TypeOK, TypeOK', Accounted, UNCHANGED transactions, NEW s \in Sessions,
         \A r \in Sessions \ {s} : op'[r] = op[r],
         \A a \in Accounts :
           booked'[a].balance = booked[a].balance + (DueOf(op'[s], a) - DueOf(op[s], a))
  PROVE  Accounted'
<1>1. transactions \in Seq(Transaction) /\ op[s] \in Handler /\ op'[s] \in Handler
  BY DEF TypeOK
<1>2. ASSUME NEW a \in Accounts
      PROVE  \E x \in Int :
               /\ TotalOf(transactions', a) = TotalOf(transactions, a) + x
               /\ booked'[a].balance =
                    booked[a].balance + (x + (DueOf(op'[s], a) - DueOf(op[s], a)))
  <2>1. DueOf(op[s], a) \in Int /\ DueOf(op'[s], a) \in Int
    BY <1>1, DueType DEF DueOf
  <2>2. TotalOf(transactions', a) = TotalOf(transactions, a) + 0
    BY <1>1, TotalType
  <2>3. 0 + (DueOf(op'[s], a) - DueOf(op[s], a)) = DueOf(op'[s], a) - DueOf(op[s], a)
    BY <2>1
  <2>4. 0 \in Int
    OBVIOUS
  <2> WITNESS 0 \in Int
  <2> QED BY <2>2, <2>3
<1> QED BY <1>2, AccountedStep

\* A step that books nothing and has nothing to record before or after.
LEMMA NothingDue ==
  ASSUME TypeOK, TypeOK', Accounted, UNCHANGED transactions, NEW s \in Sessions,
         \A r \in Sessions \ {s} : op'[r] = op[r],
         \A a \in Accounts : booked'[a].balance = booked[a].balance,
         op[s].pc \notin Recording, op'[s].pc \notin Recording
  PROVE  Accounted'
<1>1. \A a \in Accounts : DueOf(op[s], a) = 0 /\ DueOf(op'[s], a) = 0
  BY DEF DueOf, DueIn, DueOut, Recording
<1>2. \A a \in Accounts : booked[a].balance \in Int
  BY DEF TypeOK, Account
<1> QED BY <1>1, <1>2, BooksDue

\* A record takes what it says from what is due.
LEMMA RecordsDue ==
  ASSUME TypeOK, TypeOK', Accounted, UNCHANGED booked, NEW s \in Sessions,
         \A r \in Sessions \ {s} : op'[r] = op[r],
         NEW t \in Transaction, transactions' = Append(transactions, t),
         \A a \in Accounts : Share(t, a) = DueOf(op[s], a) - DueOf(op'[s], a)
  PROVE  Accounted'
<1>1. /\ transactions \in Seq(Transaction) /\ op[s] \in Handler /\ op'[s] \in Handler
      /\ \A a \in Accounts : booked[a].balance \in Int
  BY DEF TypeOK, Account
<1>2. ASSUME NEW a \in Accounts
      PROVE  \E x \in Int :
               /\ TotalOf(transactions', a) = TotalOf(transactions, a) + x
               /\ booked'[a].balance =
                    booked[a].balance + (x + (DueOf(op'[s], a) - DueOf(op[s], a)))
  <2>1. DueOf(op[s], a) \in Int /\ DueOf(op'[s], a) \in Int
    BY <1>1, DueType DEF DueOf
  <2>2. TotalOf(transactions', a) = TotalOf(transactions, a) + Share(t, a) /\ Share(t, a) \in Int
    BY <1>1, TotalAppend
  <2>3. booked'[a].balance = booked[a].balance + (Share(t, a) + (DueOf(op'[s], a) - DueOf(op[s], a)))
    BY <1>1, <2>1
  <2> QED BY <2>2, <2>3
<1> QED BY <1>2, AccountedStep

-----------------------------------------------------------------------------

LEMMA ReadsAccounted ==
  ASSUME TypeOK, TypeOK', Accounted, NEW s \in Sessions,
         \/ \E a \in Accounts, n \in Amounts, k \in {"DEPOSIT", "WITHDRAWAL"}, d \in Int :
              ReadAccount(s, a, k, n, d)
         \/ ReadSender(s) \/ BeginStatus(s)
  PROVE  Accounted'
BY Begins, NothingDue DEF Recording

LEMMA TransferAccounted ==
  ASSUME TypeOK, TypeOK', Accounted, NEW s \in Sessions,
         \/ ReadReceiver(s) \/ LogSenderUndo(s) \/ LogReceiverUndo(s)
         \/ Debit(s) \/ Credit(s) \/ GiveUp(s)
  PROVE  Accounted'
<1>1. /\ UNCHANGED transactions /\ UNCHANGED booked
      /\ op[s].pc \in {"receiver", "undoSender", "undoReceiver", "debit", "credit", "commit"}
  BY DEF ReadReceiver, LogSenderUndo, LogReceiverUndo, Debit, Credit, GiveUp, At, disk, audit
<1>2. op[s] \in OpRecord
  BY DEF TypeOK, Handler
<1>3. /\ op'[s].pc \in {"menu", "undoSender", "undoReceiver", "debit", "credit", "commit"}
      /\ \A r \in Sessions \ {s} : op'[r] = op[r]
  <2>1. CASE Finish(s)
    BY <2>1, IdleSound DEF Finish, TypeOK
  <2>2. CASE \E pc \in {"undoReceiver", "credit", "commit"} : Goto(s, pc)
    BY <2>2, <1>2 DEF Goto, TypeOK, OpRecord
  <2>3. CASE \E c : op' = [op EXCEPT ![s].pc = "undoSender", ![s].theirs = c]
    BY <2>3, <1>2 DEF TypeOK, OpRecord
  <2>4. CASE LogReceiverUndo(s)
    BY <2>4, <1>2 DEF LogReceiverUndo, TypeOK, OpRecord
  <2>5. CASE \E pc \in {"credit", "commit"} : op' = [op EXCEPT ![s].pc = pc, ![s].ok = FALSE]
    BY <2>5, <1>2 DEF TypeOK, OpRecord
  <2> QED BY <2>1, <2>2, <2>3, <2>4, <2>5
          DEF ReadReceiver, LogSenderUndo, Debit, Credit, GiveUp
<1> QED BY <1>1, <1>3, NothingDue DEF Recording

LEMMA StatusAccounted ==
  ASSUME TypeOK, TypeOK', Accounted, NEW s \in Sessions,
         ScanAccount(s) \/ UpdateStatus(s) \/ EndStatus(s)
  PROVE  Accounted'
BY StatusGoes, NothingDue DEF Recording

\* The write of a deposit or a withdrawal is booked, and its record due.
LEMMA UpdateAccounted ==
  ASSUME TypeOK, TypeOK', Accounted, MaxFaults = 0, NEW s \in Sessions, UpdateAccount(s)
  PROVE  Accounted'
<1> DEFINE from == op[s].from
<1>1. /\ UNCHANGED transactions /\ op[s].pc = "update"
      /\ booked' = [booked EXCEPT ![from] = Plus(booked[from], Delta(s))]
      /\ op' = [op EXCEPT ![s].pc = "record"]
  BY NoFault DEF UpdateAccount, At, Goto
<1>2. /\ op[s] \in OpRecord /\ from \in Accounts /\ op[s].amount \in Amounts
      /\ op[s].type \in {"DEPOSIT", "WITHDRAWAL"}
  BY <1>1 DEF TypeOK, Handler, OpRecord
<1>3. /\ op'[s].pc = "record" /\ op'[s].type = op[s].type /\ op'[s].from = from
      /\ op'[s].amount = op[s].amount
      /\ \A r \in Sessions \ {s} : op'[r] = op[r]
  BY <1>1, <1>2 DEF TypeOK, OpRecord
<1>n. \A m \in Amounts : m \in Int /\ -m \in Int
  BY LedgerAssumption
<1>4. op[s].amount \in Int /\ -op[s].amount \in Int
  BY <1>2, <1>n
<1>5. Delta(s) \in Int /\ booked \in [Accounts -> Account]
  BY <1>4 DEF Delta, TypeOK
<1>6. /\ booked'[from].balance = booked[from].balance + Delta(s)
      /\ \A a \in Accounts : booked[a].balance \in Int
      /\ \A a \in Accounts \ {from} : booked'[a].balance = booked[a].balance
  BY <1>1, <1>2, <1>5, PlusType DEF Account
<1>7. ASSUME NEW a \in Accounts
      PROVE  /\ DueOf(op[s], a) = 0
             /\ DueOf(op'[s], a) = IF a = from THEN Delta(s) ELSE 0
  BY <1>1, <1>2, <1>3, <1>4 DEF DueOf, DueIn, DueOut, Delta
<1>8. \A a \in Accounts :
        booked'[a].balance = booked[a].balance + (DueOf(op'[s], a) - DueOf(op[s], a))
  BY <1>5, <1>6, <1>7
<1> QED BY <1>1, <1>3, <1>8, BooksDue

\* The commit of a transfer is booked, and both its records due.
LEMMA CommitAccounted ==
  ASSUME TypeOK, TypeOK', Isolated, Accounted, NEW s \in Sessions, Commit(s)
  PROVE  Accounted'
<1> DEFINE from == op[s].from
           to   == op[s].to
           n    == op[s].amount
<1>1. /\ UNCHANGED transactions /\ op[s].pc = "commit"
      /\ booked' = [booked EXCEPT ![from] = Plus(@, -n), ![to] = Plus(@, n)]
      /\ op' = [op EXCEPT ![s].pc = "recordOut"]
  BY DEF Commit, At, Goto
<1>2. op[s] \in OpRecord /\ from \in Accounts /\ to \in Accounts /\ from # to /\ n \in Amounts
  BY <1>1, AboutToWrite DEF Writing, TypeOK, Handler, TransferSteps
<1>3. /\ op'[s].pc = "recordOut" /\ op'[s].from = from /\ op'[s].to = to /\ op'[s].amount = n
      /\ \A r \in Sessions \ {s} : op'[r] = op[r]
  BY <1>1, <1>2 DEF TypeOK, OpRecord
<1>a. \A m \in Amounts : m \in Int /\ -m \in Int
  BY LedgerAssumption
<1>4. n \in Int /\ -n \in Int
  BY <1>2, <1>a
<1>5. booked \in [Accounts -> Account]
  BY DEF TypeOK
<1>6. /\ booked'[from] = Plus(booked[from], -n) /\ booked'[to] = Plus(booked[to], n)
      /\ \A a \in Accounts \ {from, to} : booked'[a] = booked[a]
  BY <1>1, <1>2, <1>5
<1>7. /\ booked'[from].balance = booked[from].balance + (-n)
      /\ booked'[to].balance = booked[to].balance + n
  BY <1>2, <1>4, <1>5, <1>6, PlusType
<1>8. \A a \in Accounts : booked[a].balance \in Int
  BY <1>5 DEF Account
<1>9. ASSUME NEW a \in Accounts
      PROVE  /\ DueOf(op[s], a) = 0
             /\ DueOf(op'[s], a) = IF a = to THEN n ELSE IF a = from THEN -n ELSE 0
  BY <1>1, <1>2, <1>3, <1>4 DEF DueOf, DueIn, DueOut
<1>10. \A a \in Accounts :
         booked'[a].balance = booked[a].balance + (DueOf(op'[s], a) - DueOf(op[s], a))
  BY <1>2, <1>4, <1>6, <1>7, <1>8, <1>9
<1> QED BY <1>1, <1>3, <1>10, BooksDue

\* Each record that is appended was due, and is no longer.
LEMMA RecordAccounted ==
  ASSUME TypeOK, TypeOK', Accounted, MaxFaults = 0, NEW s \in Sessions,
         RecordTransaction(s) \/ RecordOut(s) \/ RecordIn(s)
  PROVE  Accounted'
<1> DEFINE n == op[s].amount
<1>1. UNCHANGED booked
  BY DEF RecordTransaction, RecordOut, RecordIn, AddTransaction, audit
<1>2. op[s] \in OpRecord /\ op[s] \in Handler
  BY DEF TypeOK, Handler
<1>3. op[s].pc \in Recording /\ op[s].mine.balance \in Int /\ op[s].theirs.balance \in Int
  BY <1>2 DEF RecordTransaction, RecordOut, RecordIn, At, Recording, OpRecord, Account
<1>4. /\ op[s].from \in Accounts /\ n \in Amounts
      /\ op[s].pc # "record" => op[s].to \in Accounts
  BY <1>2, <1>3 DEF Handler, Recording, TransferSteps
<1>a. \A m \in Amounts : m \in Int /\ -m \in Int
  BY LedgerAssumption
<1>5. n \in Int /\ -n \in Int
  BY <1>4, <1>a
<1>6. CASE RecordTransaction(s)
  <2> DEFINE t == Txn(op[s].from, op[s].type, n, op[s].mine.balance)
  <2>1. /\ op[s].pc = "record" /\ transactions' = Append(transactions, t)
        /\ op'[s].pc = "menu" /\ \A r \in Sessions \ {s} : op'[r] = op[r]
    BY <1>6, NoFault, IdleSound DEF RecordTransaction, At, AddTransaction, Finish, TypeOK
  <2>2. op[s].type \in {"DEPOSIT", "WITHDRAWAL"}
    BY <1>2 DEF OpRecord
  <2>3. t \in Transaction
    BY <1>3, <1>4, <2>2 DEF Txn, Transaction
  <2>4. ASSUME NEW a \in Accounts PROVE Share(t, a) = DueOf(op[s], a) - DueOf(op'[s], a)
    BY <1>5, <2>1, <2>2 DEF Txn, Share, Signed, DueOf, DueIn, DueOut
  <2> HIDE DEF t
  <2> QED BY <1>1, <2>1, <2>3, <2>4, RecordsDue
<1>7. CASE RecordOut(s)
  <2> DEFINE t == Txn(op[s].from, "TRANSFER_OUT", n, op[s].mine.balance)
  <2>1. /\ op[s].pc = "recordOut" /\ transactions' = Append(transactions, t)
        /\ op' = [op EXCEPT ![s].pc = "recordIn"]
    BY <1>7, NoFault DEF RecordOut, At, AddTransaction, Goto
  <2>2. /\ op'[s].pc = "recordIn" /\ op'[s].from = op[s].from /\ op'[s].to = op[s].to
        /\ op'[s].amount = n /\ \A r \in Sessions \ {s} : op'[r] = op[r]
    BY <1>2, <2>1 DEF TypeOK, OpRecord
  <2>3. t \in Transaction
    BY <1>3, <1>4 DEF Txn, Transaction
  <2>4. ASSUME NEW a \in Accounts PROVE Share(t, a) = DueOf(op[s], a) - DueOf(op'[s], a)
    <3>1. Share(t, a) = IF a = op[s].from THEN -n ELSE 0
      BY DEF Txn, Share, Signed
    <3>2. DueOf(op[s], a) = (IF a = op[s].to THEN n ELSE 0) - (IF a = op[s].from THEN n ELSE 0)
      BY <2>1 DEF DueOf, DueIn, DueOut
    <3>3. DueOf(op'[s], a) = (IF a = op[s].to THEN n ELSE 0) - 0
      BY <2>2 DEF DueOf, DueIn, DueOut
    <3> HIDE DEF t, n
    <3> QED BY <1>5, <3>1, <3>2, <3>3
  <2> HIDE DEF t
  <2> QED BY <1>1, <2>1, <2>2, <2>3, <2>4, RecordsDue
<1>8. CASE RecordIn(s)
  <2> DEFINE t == Txn(op[s].to, "TRANSFER_IN", n, op[s].theirs.balance)
  <2>1. /\ op[s].pc = "recordIn" /\ transactions' = Append(transactions, t)
        /\ op'[s].pc = "menu" /\ \A r \in Sessions \ {s} : op'[r] = op[r]
    BY <1>8, NoFault, IdleSound DEF RecordIn, At, AddTransaction, Finish, TypeOK
  <2>2. t \in Transaction
    BY <1>3, <1>4, <2>1 DEF Txn, Transaction
  <2>3. ASSUME NEW a \in Accounts PROVE Share(t, a) = DueOf(op[s], a) - DueOf(op'[s], a)
    BY <1>5, <2>1 DEF Txn, Share, Signed, DueOf, DueIn, DueOut
  <2> HIDE DEF t
  <2> QED BY <1>1, <2>1, <2>2, <2>3, RecordsDue
<1> QED BY <1>6, <1>7, <1>8

LEMMA UnchangedAccounted ==
  ASSUME Accounted, UNCHANGED <<transactions, op, booked>>
  PROVE  Accounted'
BY DEF Accounted

\* Nothing is due of sessions that are at the menu.
LEMMA DueNone ==
  ASSUME NEW handlers, \A s \in Sessions : handlers[s].pc = "menu", NEW a
  PROVE  /\ IsFiniteSet(In(handlers, a)) /\ IsFiniteSet(Out(handlers, a))
         /\ Due(handlers, a) = 0
<1>1. /\ \A s \in Sessions : [r \in Sessions |-> DueIn(handlers[r], a)][s] = 0
      /\ \A s \in Sessions : [r \in Sessions |-> DueOut(handlers[r], a)][s] = 0
  BY DEF DueIn, DueOut
<1>2. /\ IsFiniteSet(In(handlers, a)) /\ Cardinality(In(handlers, a)) = 0
      /\ IsFiniteSet(Out(handlers, a)) /\ Cardinality(Out(handlers, a)) = 0
  BY <1>1, UnitsNone DEF In, Out
<1> QED BY <1>2 DEF Due

LEMMA InitAccounted == Init => Accounted
<1> SUFFICES ASSUME Init, NEW a \in Accounts
             PROVE  Explained(booked[a].balance, transactions, op, a)
  BY DEF Accounted
<1>1. \A s \in Sessions : op[s].pc = "menu"
  BY DEF Init, Idle
<1>2. /\ IsFiniteSet(In(op, a)) /\ IsFiniteSet(Out(op, a)) /\ Due(op, a) = 0
  BY <1>1, DueNone
<1>3. booked[a].balance = InitialBalance[a] /\ InitialBalance[a] \in Int
  BY LedgerAssumption DEF Init
<1>4. TotalOf(transactions, a) = 0
  BY TotalEmpty DEF Init
<1> QED BY <1>2, <1>3, <1>4 DEF Explained

LEMMA StepAccounted ==
  ASSUME TypeOK, Isolated, Calm, Accounted, MaxCrashes = 0, MaxFaults = 0, [Next]_vars
  PROVE  Accounted'
<1>t. TypeOK'
  BY StepType
<1>c. Users \subseteq Sessions /\ Employees \subseteq Sessions /\ Managers \subseteq Sessions
  BY DEF Sessions
<1>n. \A n \in Amounts : n \in Int /\ -n \in Int
  BY LedgerAssumption
<1>1. ASSUME NEW s \in Users, Menu(s) PROVE Accounted'
  BY <1>1, UnchangedAccounted DEF Menu, SelectAccount, LeaveAccount, disk, audit
<1>2. ASSUME NEW s \in Sessions, Deposit(s) \/ Withdraw(s) \/ CreditLoan(s) PROVE Accounted'
  <2>1. \E a \in Accounts, n \in Amounts, k \in {"DEPOSIT", "WITHDRAWAL"}, d \in Int :
          ReadAccount(s, a, k, n, d)
    BY <1>2, <1>n DEF Deposit, Withdraw, CreditLoan
  <2> QED BY <1>t, <2>1, ReadsAccounted
<1>3. ASSUME NEW s \in Sessions, UpdateAccount(s) \/ RecordTransaction(s) PROVE Accounted'
  BY <1>t, <1>3, UpdateAccounted, RecordAccounted
<1>4. ASSUME NEW s \in Sessions, Transfer(s) PROVE Accounted'
  <2>1. CASE ReadSender(s)
    BY <1>t, <2>1, ReadsAccounted
  <2>2. CASE \/ ReadReceiver(s) \/ LogSenderUndo(s) \/ LogReceiverUndo(s)
             \/ Debit(s) \/ Credit(s) \/ GiveUp(s)
    BY <1>t, <2>2, TransferAccounted
  <2>3. CASE Commit(s)
    BY <1>t, <2>3, CommitAccounted
  <2>4. CASE RecordOut(s) \/ RecordIn(s)
    BY <1>t, <2>4, RecordAccounted
  <2> QED BY <1>4, <2>1, <2>2, <2>3, <2>4 DEF Transfer
<1>5. ASSUME NEW s \in Sessions, SetStatus(s) PROVE Accounted'
  BY <1>t, <1>5, ReadsAccounted, StatusAccounted DEF SetStatus
<1>6. CASE Recovery
  BY <1>6, UnchangedAccounted
     DEF Recovery, ReadJournal, RollBackEntry, EndRollBack, JournalLogClear, disk, menus, audit
<1>7. CASE UNCHANGED vars
  BY <1>7, UnchangedAccounted DEF vars, disk, menus, audit
<1> QED BY <1>1, <1>2, <1>3, <1>4, <1>5, <1>6, <1>7, <1>c, NoCrash DEF Next

\* While the server runs and its writes succeed, the history of an account
\* explains its balance whenever no handler is running, for any number of
\* sessions, accounts and operations: every handler appends what it has booked,
\* once and for the right account, although the records of concurrent handlers
\* come in any order; and on an account nobody raced for, what is booked is what
\* the file holds.
THEOREM HistoryExplainsBalances ==
  ASSUME MaxCrashes = 0, MaxFaults = 0 PROVE Spec => []HistoryExplains
<1>1. Init => Isolated /\ Calm /\ Accounted
  BY InitIsolated, InitAccounted DEF Init, Calm
<1>2. TypeOK /\ Isolated /\ Calm /\ Accounted /\ [Next]_vars => Isolated' /\ Calm' /\ Accounted'
  BY StepIsolated, StepAccounted
<1>3. TypeOK /\ Isolated /\ Accounted => HistoryExplains
  <2> SUFFICES ASSUME TypeOK, Isolated, Accounted, Quiet, NEW a \in Accounts \ raced
               PROVE  accounts[a].balance = InitialBalance[a] + HistoryTotal(a)
    BY DEF HistoryExplains
  <2>1. \A s \in Sessions : op[s].pc = "menu"
    BY DEF Quiet
  <2>2. ~InTransfer(a)
    BY <2>1 DEF InTransfer
  <2>3. accounts[a] = booked[a]
    BY <2>2 DEF Isolated, UncontendedExact
  <2>4. booked[a].balance = InitialBalance[a] + (TotalOf(transactions, a) + Due(op, a))
    BY DEF Accounted, Explained
  <2>5. Due(op, a) = 0
    BY <2>1, DueNone
  <2>6. TotalOf(transactions, a) \in Int
    BY TotalType DEF TypeOK
  <2> QED BY <2>3, <2>4, <2>5, <2>6 DEF HistoryTotal
<1> QED BY <1>1, <1>2, <1>3, TypeCorrect, PTL DEF Spec
=============================================================================
