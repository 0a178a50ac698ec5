---------------------------- MODULE FeedbackProofs ----------------------------
(* Theorems about FileLocks and Feedback, for any sets of customers and       *)
(* managers, and any number of records.                                      *)
EXTENDS Feedback, TLAPS, SequenceTheorems

-----------------------------------------------------------------------------
(* The locks *)

\* What the process has locked, a thread between lock and unlock has in its range.
Held ==
  \A r \in Records : lock[r] # "F_UNLCK" =>
    \E t \in Threads : call[t].pc = "locked" /\ r \in call[t].req.range

LocksInv == TypeOK /\ Held

LockStep(t) ==
  \/ \E req \in Requests : Open(t, req)
  \/ Lock(t) \/ GoOnUnlocked(t) \/ Unlock(t) \/ Close(t)

LEMMA LockSet ==
  ASSUME TypeOK, NEW type \in LockTypes, NEW range, SetLock(type, range)
  PROVE  /\ lock' \in [Records -> LockTypes]
         /\ \A r \in Records : lock'[r] = IF r \in range THEN type ELSE lock[r]
BY DEF TypeOK, SetLock

\* The place in a call changes with the lock.
LEMMA CallGoes ==
  ASSUME TypeOK, NEW t \in Threads, NEW pc \in {"idle", "open", "locked", "unlocked"}, Goto(t, pc)
  PROVE  /\ call' \in [Threads -> Calls]
         /\ call'[t].pc = pc /\ call'[t].req = call[t].req
         /\ \A u \in Threads \ {t} : call'[u] = call[u]
BY DEF TypeOK, Goto, Calls

LEMMA CallLeaves ==
  ASSUME TypeOK, NEW t \in Threads, NEW pc \in {"idle", "unlocked"}, Leave(t, pc)
  PROVE  /\ call' \in [Threads -> Calls]
         /\ \A u \in Threads \ {t} : call'[u] = call[u]
<1>1. [NoCall EXCEPT !.pc = pc] \in Calls
  BY DEF NoCall, NoRequest, Calls, Requests
<1> QED BY <1>1 DEF TypeOK, Leave

LEMMA LocksInit == Init => LocksInv
<1> SUFFICES ASSUME Init PROVE LocksInv
  OBVIOUS
<1>1. NoRequest \in Requests
  BY DEF NoRequest, Requests
<1> QED BY <1>1 DEF Init, NoCall, LocksInv, TypeOK, Held, Calls, LockTypes

LEMMA LocksStep ==
  ASSUME LocksInv, NEW t \in Threads, LockStep(t)
  PROVE  LocksInv'
<1>1. TypeOK /\ Held /\ call[t].req \in Requests /\ call[t].req.type \in LockTypes
  BY DEF LocksInv, TypeOK, Calls, Requests, LockTypes
<1>2. ASSUME NEW req \in Requests, Open(t, req)
      PROVE  LocksInv'
  <2>1. [pc |-> "open", req |-> req] \in Calls
    BY <1>2 DEF Calls
  <2>2. call' \in [Threads -> Calls] /\ \A u \in Threads : call[u].pc = "locked" => call'[u] = call[u]
    BY <1>1, <1>2, <2>1 DEF Open, TypeOK
  <2>3. lock' = lock
    BY <1>2 DEF Open
  <2> QED BY <1>1, <2>2, <2>3 DEF LocksInv, TypeOK, Held
<1>3. CASE Lock(t)
  <2>1. SetLock(call[t].req.type, call[t].req.range) /\ Goto(t, "locked")
        /\ call[t].pc = "open"
    BY <1>3 DEF Lock
  <2>2. /\ lock' \in [Records -> LockTypes]
        /\ \A r \in Records : lock'[r] = IF r \in call[t].req.range THEN call[t].req.type ELSE lock[r]
    BY <1>1, <2>1, LockSet
  <2>3. /\ call' \in [Threads -> Calls]
        /\ call'[t].pc = "locked" /\ call'[t].req = call[t].req
        /\ \A u \in Threads \ {t} : call'[u] = call[u]
    BY <1>1, <2>1, CallGoes
  <2>4. Held'
    BY <1>1, <2>1, <2>2, <2>3 DEF Held
  <2> QED BY <2>2, <2>3, <2>4 DEF LocksInv, TypeOK
<1>4. CASE GoOnUnlocked(t)
  <2>1. Goto(t, "locked") /\ call[t].pc = "open" /\ lock' = lock
    BY <1>4 DEF GoOnUnlocked
  <2>2. /\ call' \in [Threads -> Calls]
        /\ \A u \in Threads \ {t} : call'[u] = call[u]
    BY <1>1, <2>1, CallGoes
  <2>3. Held'
    BY <1>1, <2>1, <2>2 DEF Held
  <2> QED BY <1>1, <2>1, <2>2, <2>3 DEF LocksInv, TypeOK
<1>5. CASE Unlock(t)
  <2>1. SetLock("F_UNLCK", call[t].req.range) /\ Leave(t, "unlocked")
    BY <1>5 DEF Unlock
  <2>2. /\ lock' \in [Records -> LockTypes]
        /\ \A r \in Records : lock'[r] = IF r \in call[t].req.range THEN "F_UNLCK" ELSE lock[r]
    BY <1>1, <2>1, LockSet DEF LockTypes
  <2>3. /\ call' \in [Threads -> Calls]
        /\ \A u \in Threads \ {t} : call'[u] = call[u]
    BY <1>1, <2>1, CallLeaves
  <2>4. Held'
    BY <1>1, <2>2, <2>3 DEF Held
  <2> QED BY <2>2, <2>3, <2>4 DEF LocksInv, TypeOK
<1>6. CASE Close(t)
  <2>1. SetLock("F_UNLCK", Records) /\ Leave(t, "idle")
    BY <1>6 DEF Close
  <2>2. /\ lock' \in [Records -> LockTypes]
        /\ \A r \in Records : lock'[r] = "F_UNLCK"
    BY <1>1, <2>1, LockSet DEF LockTypes
  <2>3. call' \in [Threads -> Calls]
    BY <1>1, <2>1, CallLeaves
  <2> QED BY <2>2, <2>3 DEF LocksInv, TypeOK, Held
<1> QED BY <1>2, <1>3, <1>4, <1>5, <1>6 DEF LockStep

-----------------------------------------------------------------------------
(* The handlers *)

Steps == {"menu", "nextId", "append", "list", "ask", "find", "read", "findAgain", "write"}
Job   == [step : Steps, id : 1..(MaxRecords + 1), row : Rows, copy : Feedback]

\* Types of the handlers' state; FeedbackTypeOK is this and FileLocks' TypeOK.
DataTypes ==
  /\ file \in Seq(Feedback)
  /\ job \in [Threads -> Job]
  /\ misnumbered \in BOOLEAN /\ faults \in 0..MaxFaults

\* A customer about to append has an id that is not too large, and the right
\* one as long as no record has been appended during another addFeedback.
Adding(t) ==
  /\ job[t].step \in {"nextId", "append"} => t \in Customers
  /\ job[t].step = "append" =>
       /\ job[t].id <= Len(file) + 1
       /\ ~misnumbered => job[t].id = Len(file) + 1

Marked(record) == [record EXCEPT !.isReviewed = TRUE]

\* A manager at a record is at the first one with the id, and his copy of it
\* differs at most in the mark.
Reviewing(t) ==
  /\ job[t].step \in {"read", "findAgain", "write"} => Found(job[t].id, job[t].row)
  /\ job[t].step \in {"findAgain", "write"} => Marked(job[t].copy) = Marked(file[job[t].row])

\* Ids never run ahead of the positions.
Ids == \A r \in DOMAIN file :
         file[r].feedbackId <= r /\ (~misnumbered => file[r].feedbackId = r)

Sound(t) == Adding(t) /\ Reviewing(t)

DataInv == DataTypes /\ Ids /\ \A t \in Threads : Sound(t)

LEMMA File ==
  ASSUME DataTypes
  PROVE  /\ Len(file) \in Nat
         /\ DOMAIN file = 1..Len(file)
         /\ \A r \in DOMAIN file : file[r] \in Feedback
<1>1. file \in Seq(Feedback)
  BY DEF DataTypes
<1>2. Len(file) \in Nat /\ DOMAIN file = 1..Len(file) /\ file \in [1..Len(file) -> Feedback]
  BY <1>1, LenProperties, Zenon
<1> QED BY <1>2

LEMMA NewIsFeedback ==
  ASSUME NEW id \in Rows, NEW u \in Customers
  PROVE  New(id, u) \in Feedback
BY DEF New, Feedback

LEMMA IdleIsJob == Idle \in Job /\ Idle.step = "menu"
<1>1. 1 \in Rows /\ 1 \in 1..(MaxRecords + 1)
  BY FeedbackAssumption DEF Rows
<1>2. (CHOOSE u \in Customers : TRUE) \in Customers
  BY FeedbackAssumption
<1>3. New(1, CHOOSE u \in Customers : TRUE) \in Feedback
  BY <1>1, <1>2, NewIsFeedback
<1> QED BY <1>1, <1>3 DEF Idle, Job, Steps

LEMMA NextId ==
  ASSUME DataTypes, Ids
  PROVE  /\ GetNextFeedbackId \in 1..(MaxRecords + 1)
         /\ GetNextFeedbackId <= Len(file) + 1
         /\ ~misnumbered => GetNextFeedbackId = Len(file) + 1
<1>1. CASE file = <<>>
  BY <1>1, FeedbackAssumption DEF GetNextFeedbackId
<1>2. CASE file # <<>>
  <2>1. Len(file) \in Nat \ {0} /\ Len(file) \in DOMAIN file
    BY <1>2, File, EmptySeq DEF DataTypes
  <2>2. file[Len(file)].feedbackId \in 1..MaxRecords
    BY <2>1, File DEF Feedback, Rows
  <2> QED BY <1>2, <2>1, <2>2, FeedbackAssumption DEF GetNextFeedbackId, Ids
<1> QED BY <1>1, <1>2

\* The record that find_feedback_record returns does not depend on anything
\* but the ids of the records up to it, and is the only one.
LEMMA FoundOnce ==
  ASSUME DataTypes, NEW id, NEW q, NEW r, Found(id, q), Found(id, r)
  PROVE  q = r
<1>1. q \in Nat /\ r \in Nat /\ q >= 1 /\ r >= 1
  BY File DEF Found
<1>2. ~(q < r) /\ ~(r < q)
  BY <1>1 DEF Found
<1> QED BY <1>1, <1>2

\* A session that does not move stays sound when the file stays.
LEMMA Elsewhere ==
  ASSUME NEW t \in Threads, Sound(t), job'[t] = job[t],
         file' = file, misnumbered' = misnumbered
  PROVE  Sound(t)'
BY DEF Sound, Adding, Reviewing, Found, Marked

\* A step that leaves the file alone: the session that moves needs a look.
LEMMA OneMoves ==
  ASSUME DataInv, NEW t \in Threads, NEW new \in Job, job' = [job EXCEPT ![t] = new],
         file' = file, misnumbered' = misnumbered, faults' \in 0..MaxFaults,
         Sound(t)'
  PROVE  DataInv'
<1>1. DataTypes'
  BY DEF DataInv, DataTypes
<1>2. Ids'
  BY DEF DataInv, Ids
<1>3. ASSUME NEW u \in Threads
      PROVE  Sound(u)'
  <2>1. CASE u = t
    BY <2>1
  <2>2. CASE u # t
    BY <2>2, Elsewhere DEF DataInv, DataTypes
  <2> QED BY <2>1, <2>2
<1> QED BY <1>1, <1>2, <1>3 DEF DataInv

\* So does a session that is back in its menu.
LEMMA Ended ==
  ASSUME DataInv, NEW t \in Threads, Done(t), file' = file, misnumbered' = misnumbered,
         faults' \in 0..MaxFaults
  PROVE  DataInv'
<1>1. job' = [job EXCEPT ![t] = Idle] /\ Idle \in Job /\ Idle.step = "menu"
  BY IdleIsJob DEF Done
<1>2. Sound(t)'
  BY <1>1 DEF DataInv, DataTypes, Sound, Adding, Reviewing
<1> QED BY <1>1, <1>2, OneMoves

\* A failed write is within the bound.
LEMMA Faulty ==
  ASSUME DataTypes, Fault
  PROVE  faults' \in 0..MaxFaults
BY FeedbackAssumption DEF DataTypes, Fault

\* The steps that leave the file alone, one by one.
LEMMA ChooseKeeps ==
  ASSUME DataInv, NEW t \in Threads, Choose(t)
  PROVE  DataInv'
<1> DEFINE step == IF t \in Customers THEN "nextId" ELSE "list"
           new  == [job[t] EXCEPT !.step = step]
<1>1. DataTypes /\ job \in [Threads -> Job] /\ job[t] \in Job /\ step \in Steps
  BY DEF DataInv, DataTypes, Steps
<1>2. new \in Job /\ new.step = step /\ job' = [job EXCEPT ![t] = new]
  BY <1>1 DEF Choose, To, Job
<1>3. UNCHANGED <<file, misnumbered, faults>>
  BY DEF Choose
<1>4. Sound(t)'
  BY <1>1, <1>2 DEF Sound, Adding, Reviewing
<1> HIDE DEF step, new
<1> QED BY <1>1, <1>2, <1>3, <1>4, OneMoves DEF DataTypes

LEMMA TypeIdKeeps ==
  ASSUME DataInv, NEW t \in Threads, TypeId(t)
  PROVE  DataInv'
<1>1. DataTypes /\ job \in [Threads -> Job] /\ job[t] \in Job
  BY DEF DataInv, DataTypes
<1>2. PICK id \in Rows : job' = [job EXCEPT ![t].step = "find", ![t].id = id]
  BY DEF TypeId
<1> DEFINE new == [job[t] EXCEPT !.step = "find", !.id = id]
<1>3. id \in 1..(MaxRecords + 1)
  BY FeedbackAssumption DEF Rows
<1>4. new \in Job /\ new.step = "find" /\ job' = [job EXCEPT ![t] = new]
  BY <1>1, <1>2, <1>3 DEF Job, Steps
<1>5. UNCHANGED <<file, misnumbered, faults>>
  BY DEF TypeId
<1>6. Sound(t)'
  BY <1>1, <1>4 DEF Sound, Adding, Reviewing
<1> HIDE DEF new
<1> QED BY <1>1, <1>4, <1>5, <1>6, OneMoves DEF DataTypes

LEMMA ReadIdKeeps ==
  ASSUME DataInv, NEW t \in Threads, ReadId(t)
  PROVE  DataInv'
<1>1. DataTypes /\ Ids /\ Sound(t) /\ job \in [Threads -> Job] /\ job[t] \in Job
  BY DEF DataInv, DataTypes
<1> DEFINE id  == GetNextFeedbackId
           new == [job[t] EXCEPT !.step = "append", !.id = id]
<1>2. id \in 1..(MaxRecords + 1) /\ id <= Len(file) + 1 /\ (~misnumbered => id = Len(file) + 1)
  BY <1>1, NextId
<1> HIDE DEF id
<1>3. job' = [job EXCEPT ![t].step = "append", ![t].id = id] /\ job[t].step = "nextId"
  BY DEF ReadId, Holds, id
<1>4. new \in Job /\ new.step = "append" /\ new.id = id /\ job' = [job EXCEPT ![t] = new]
  BY <1>1, <1>2, <1>3 DEF Job, Steps
<1>5. UNCHANGED <<file, misnumbered, faults>>
  BY DEF ReadId
<1>6. Sound(t)'
  BY <1>1, <1>2, <1>3, <1>4, <1>5 DEF Sound, Adding, Reviewing
<1> HIDE DEF new
<1> QED BY <1>1, <1>4, <1>5, <1>6, OneMoves DEF DataTypes

LEMMA ListKeeps ==
  ASSUME DataInv, NEW t \in Threads, ListUnreviewed(t)
  PROVE  DataInv'
<1>1. DataTypes /\ job \in [Threads -> Job] /\ job[t] \in Job
  BY DEF DataInv, DataTypes
<1>2. UNCHANGED <<file, misnumbered, faults>> /\ faults' \in 0..MaxFaults
  BY <1>1 DEF ListUnreviewed, DataTypes
<1>3. CASE Done(t)
  BY <1>2, <1>3, Ended
<1>4. CASE To(t, "ask")
  <2> DEFINE new == [job[t] EXCEPT !.step = "ask"]
  <2>1. new \in Job /\ new.step = "ask" /\ job' = [job EXCEPT ![t] = new]
    BY <1>1, <1>4 DEF To, Job, Steps
  <2>2. Sound(t)'
    BY <1>1, <2>1 DEF Sound, Adding, Reviewing
  <2> HIDE DEF new
  <2> QED BY <1>2, <2>1, <2>2, OneMoves
<1> QED BY <1>3, <1>4 DEF ListUnreviewed

LEMMA FindKeeps ==
  ASSUME DataInv, NEW t \in Threads, Find(t)
  PROVE  DataInv'
<1>1. DataTypes /\ job \in [Threads -> Job] /\ job[t] \in Job
  BY DEF DataInv, DataTypes
<1>2. UNCHANGED <<file, misnumbered, faults>> /\ faults' \in 0..MaxFaults
  BY <1>1 DEF Find, FindRecord, DataTypes
<1>3. PICK r \in Rows : /\ Found(job[t].id, r)
                        /\ job' = [job EXCEPT ![t].step = "read", ![t].row = r]
  BY DEF Find, FindRecord
<1> DEFINE new == [job[t] EXCEPT !.step = "read", !.row = r]
<1>4. /\ new \in Job /\ new.step = "read" /\ new.row = r /\ new.id = job[t].id
      /\ job' = [job EXCEPT ![t] = new]
  BY <1>1, <1>3 DEF Job, Steps
<1>5. Sound(t)'
  BY <1>1, <1>2, <1>3, <1>4 DEF Sound, Adding, Reviewing, Found
<1> HIDE DEF new
<1> QED BY <1>2, <1>4, <1>5, OneMoves

\* The second search finds the record of the copy again.
LEMMA FindAgainKeeps ==
  ASSUME DataInv, NEW t \in Threads, FindAgain(t)
  PROVE  DataInv'
<1>1. DataTypes /\ Sound(t) /\ job \in [Threads -> Job] /\ job[t] \in Job
  BY DEF DataInv, DataTypes
<1>2. /\ UNCHANGED <<file, misnumbered, faults>> /\ faults' \in 0..MaxFaults
      /\ job[t].step = "findAgain"
  BY <1>1 DEF FindAgain, FindRecord, Holds, DataTypes
<1>3. PICK r \in Rows : /\ Found(job[t].id, r)
                        /\ job' = [job EXCEPT ![t].step = "write", ![t].row = r]
  BY DEF FindAgain, FindRecord
<1> DEFINE new == [job[t] EXCEPT !.step = "write", !.row = r]
<1>4. /\ new \in Job /\ new.step = "write" /\ new.row = r /\ new.id = job[t].id
      /\ new.copy = job[t].copy
      /\ job' = [job EXCEPT ![t] = new]
  BY <1>1, <1>3 DEF Job, Steps
<1>5. r = job[t].row
  BY <1>1, <1>2, <1>3, FoundOnce DEF Sound, Reviewing
<1>6. Sound(t)'
  BY <1>1, <1>2, <1>3, <1>4, <1>5 DEF Sound, Adding, Reviewing, Found, Marked
<1> HIDE DEF new
<1> QED BY <1>2, <1>4, <1>6, OneMoves

\* An id that could not be read is 1, which is never too large.
LEMMA GoesOnKeeps ==
  ASSUME DataInv, NEW t \in Threads, GoesOn(t), file' = file, faults' \in 0..MaxFaults
  PROVE  DataInv'
<1>1. DataTypes /\ Ids /\ Sound(t) /\ job \in [Threads -> Job] /\ job[t] \in Job
  BY DEF DataInv, DataTypes
<1>2. CASE job[t].step # "nextId"
  BY <1>2, Ended DEF GoesOn
<1>3. CASE job[t].step = "nextId"
  <2> DEFINE new == [job[t] EXCEPT !.step = "append", !.id = 1]
  <2>1. job' = [job EXCEPT ![t].step = "append", ![t].id = 1] /\ misnumbered' = TRUE
    BY <1>3 DEF GoesOn
  <2>2. 1 \in 1..(MaxRecords + 1)
    BY FeedbackAssumption
  <2>3. new \in Job /\ new.step = "append" /\ new.id = 1 /\ job' = [job EXCEPT ![t] = new]
    BY <1>1, <2>1, <2>2 DEF Job, Steps
  <2> HIDE DEF new
  <2>4. DataTypes'
    BY <1>1, <2>1, <2>3 DEF DataTypes
  <2>5. Ids'
    BY <1>1, <2>1 DEF Ids
  <2>6. ASSUME NEW u \in Threads
        PROVE  Sound(u)'
    <3>1. CASE u = t
      <4>1. job'[u] = new /\ Len(file) \in Nat
        BY <1>1, <2>3, <3>1, File
      <4> QED BY <1>1, <1>3, <2>1, <2>3, <3>1, <4>1 DEF Sound, Adding, Reviewing
    <3>2. CASE u # t
      <4>1. job'[u] = job[u] /\ Sound(u)
        BY <1>1, <2>3, <3>2 DEF DataInv
      <4> QED BY <2>1, <4>1 DEF Sound, Adding, Reviewing, Found, Marked
    <3> QED BY <3>1, <3>2
  <2> QED BY <2>4, <2>5, <2>6 DEF DataInv
<1> QED BY <1>2, <1>3

LEMMA ReadKeeps ==
  ASSUME DataInv, NEW t \in Threads, ReadRecord(t)
  PROVE  DataInv'
<1>1. DataTypes /\ Sound(t) /\ job \in [Threads -> Job] /\ job[t] \in Job
  BY DEF DataInv, DataTypes
<1>2. /\ UNCHANGED <<file, misnumbered, faults>> /\ faults' \in 0..MaxFaults
      /\ job[t].step = "read"
  BY <1>1 DEF ReadRecord, Holds, DataTypes
<1>3. CASE Done(t)
  BY <1>2, <1>3, Ended
<1>4. CASE job' = [job EXCEPT ![t].step = "findAgain", ![t].copy = file[job[t].row]]
  <2> DEFINE record == file[job[t].row]
             new    == [job[t] EXCEPT !.step = "findAgain", !.copy = record]
  <2>1. record \in Feedback /\ Found(job[t].id, job[t].row)
    BY <1>1, <1>2, File DEF Sound, Reviewing, Found
  <2>2. /\ new \in Job /\ new.step = "findAgain" /\ new.row = job[t].row /\ new.id = job[t].id
        /\ new.copy = record
        /\ job' = [job EXCEPT ![t] = new]
    BY <1>1, <1>4, <2>1 DEF Job, Steps
  <2>3. Sound(t)'
    BY <1>1, <1>2, <1>4, <2>1, <2>2 DEF Sound, Adding, Reviewing, Found, Marked
  <2> HIDE DEF new
  <2> QED BY <1>2, <2>2, <2>3, OneMoves
<1> QED BY <1>3, <1>4 DEF ReadRecord

\* An id taken before another append is at most the number of records: it is
\* not larger than the position, and equal to it while none misnumbered.
LEMMA AppendKeeps ==
  ASSUME DataInv, NEW t \in Threads, AppendRecord(t)
  PROVE  DataInv'
<1>1. DataTypes /\ Ids /\ Sound(t) /\ job \in [Threads -> Job] /\ job[t] \in Job
  BY DEF DataInv, DataTypes
<1>2. Done(t) /\ job[t].step = "append" /\ t \in Customers
  BY <1>1 DEF AppendRecord, Holds, Sound, Adding
<1>3. /\ Len(file) < MaxRecords
      /\ file' = Append(file, New(job[t].id, t))
      /\ misnumbered' = (misnumbered \/ Overlap(t))
      /\ UNCHANGED faults
  BY DEF AppendRecord
<1> DEFINE n   == Len(file)
           new == New(job[t].id, t)
<1>4. job[t].id \in Rows /\ job[t].id <= n + 1 /\ (~misnumbered => job[t].id = n + 1)
  BY <1>1, <1>2, <1>3, File, FeedbackAssumption DEF Sound, Adding, Job, Rows
<1>5. new \in Feedback /\ new.feedbackId = job[t].id
  BY <1>2, <1>4, NewIsFeedback DEF New
<1> HIDE DEF new
<1>6. /\ file' \in Seq(Feedback) /\ Len(file') = n + 1
      /\ \A r \in 1..n : file'[r] = file[r]
      /\ file'[n + 1] = new
  <2>1. file \in Seq(Feedback) /\ file' = Append(file, new)
    BY <1>1, <1>3 DEF DataTypes, new
  <2> QED BY <1>5, <2>1, AppendProperties DEF n
<1>7. n \in Nat /\ DOMAIN file = 1..n
  BY <1>1, File
<1>8. DOMAIN file' = 1..(n + 1)
  BY <1>6, LenProperties, Zenon
<1> HIDE DEF n
<1>9. DataTypes'
  <2>1. Idle \in Job
    BY IdleIsJob
  <2>2. job' \in [Threads -> Job]
    BY <1>1, <1>2, <2>1 DEF Done
  <2>3. misnumbered' \in BOOLEAN
    BY <1>1, <1>3 DEF DataTypes, Overlap
  <2> QED BY <1>1, <1>3, <1>6, <2>2, <2>3 DEF DataTypes
<1>10. Ids'
  <2> SUFFICES ASSUME NEW r \in 1..(n + 1)
               PROVE  file'[r].feedbackId <= r /\ (~misnumbered' => file'[r].feedbackId = r)
    BY <1>8 DEF Ids
  <2>1. CASE r = n + 1
    BY <1>3, <1>4, <1>5, <1>6, <1>7, <2>1, FeedbackAssumption DEF Rows
  <2>2. CASE r # n + 1
    <3>1. r \in DOMAIN file /\ file'[r] = file[r]
      BY <1>6, <1>7, <2>2
    <3>2. ~misnumbered' => ~misnumbered
      BY <1>3
    <3> QED BY <1>1, <3>1, <3>2 DEF Ids
  <2> QED BY <2>1, <2>2
<1>11. ASSUME NEW u \in Threads
      PROVE  Sound(u)'
  <2>1. CASE u = t
    BY <1>1, <1>2, <2>1, IdleIsJob DEF Done, Sound, Adding, Reviewing
  <2>2. CASE u # t
    <3>1. job'[u] = job[u] /\ Sound(u) /\ job[u] \in Job
      BY <1>1, <1>2, <2>2 DEF Done, DataInv
    <3>2. Adding(u)'
      <4>1. job[u].step = "append" => misnumbered'
        BY <1>3, <2>2 DEF Overlap
      <4>2. Len(file') = n + 1 /\ job[u].id \in Nat
        BY <1>6, <3>1, FeedbackAssumption DEF Job
      <4>3. job[u].step = "append" => job[u].id <= n
                                        \/ job[u].id = n + 1
        BY <3>1, <1>7, <4>2 DEF Sound, Adding, n
      <4> QED BY <1>7, <3>1, <4>1, <4>2, <4>3 DEF Sound, Adding
    <3>3. Reviewing(u)'
      <4>1. ASSUME NEW r, Found(job[u].id, r)
            PROVE  Found(job[u].id, r)' /\ file'[r] = file[r]
        <5>1. r \in 1..n
          BY <1>7, <4>1 DEF Found
        <5>2. \A q \in 1..r : file'[q] = file[q] /\ q \in DOMAIN file'
          BY <1>6, <1>7, <1>8, <5>1
        <5> QED BY <1>7, <3>1, <4>1, <5>1, <5>2 DEF Found
      <4> QED BY <3>1, <4>1 DEF Sound, Reviewing, Marked
    <3> QED BY <3>2, <3>3 DEF Sound
  <2> QED BY <2>1, <2>2
<1> QED BY <1>9, <1>10, <1>11 DEF DataInv

\* The copy that is written back is the record, marked.
LEMMA MarkOnly ==
  ASSUME DataInv, NEW t \in Threads, Holds(t, "write"),
         file' = [file EXCEPT ![job[t].row] = Marked(job[t].copy)]
  PROVE  /\ file' \in Seq(Feedback) /\ Len(file') = Len(file) /\ DOMAIN file' = DOMAIN file
         /\ \A r \in DOMAIN file : file'[r] \in {file[r], Marked(file[r])}
<1>1. DataTypes /\ Sound(t) /\ job \in [Threads -> Job] /\ job[t] \in Job
  BY DEF DataInv, DataTypes
<1> DEFINE row == job[t].row
           new == Marked(job[t].copy)
<1>2. row \in DOMAIN file /\ new = Marked(file[row])
  BY <1>1 DEF Holds, Sound, Reviewing, Found
<1>3. new \in Feedback
  BY <1>1 DEF Job, Feedback, Marked
<1>4. file \in Seq(Feedback) /\ row \in 1..Len(file) /\ DOMAIN file = 1..Len(file)
  BY <1>1, <1>2, File DEF DataTypes
<1> HIDE DEF new, row
<1>5. file' = [file EXCEPT ![row] = new]
  BY DEF new, row
<1>6. /\ file' \in Seq(Feedback) /\ Len(file') = Len(file)
      /\ \A r \in 1..Len(file) : file'[r] = IF r = row THEN new ELSE file[r]
  <2>1. /\ [file EXCEPT ![row] = new] \in Seq(Feedback)
        /\ Len([file EXCEPT ![row] = new]) = Len(file)
        /\ \A r \in 1..Len(file) : [file EXCEPT ![row] = new][r] = IF r = row THEN new ELSE file[r]
    BY <1>3, <1>4, ExceptSeq, Zenon
  <2> QED BY <1>5, <2>1, Zenon
<1>7. DOMAIN file' = DOMAIN file
  BY <1>5
<1> QED BY <1>2, <1>4, <1>6, <1>7

LEMMA WriteKeeps ==
  ASSUME DataInv, NEW t \in Threads, WriteRecord(t)
  PROVE  DataInv'
<1>1. DataTypes /\ Ids /\ job \in [Threads -> Job] /\ Done(t) /\ misnumbered' = misnumbered
  BY DEF DataInv, DataTypes, WriteRecord
<1>2. /\ file' = [file EXCEPT ![job[t].row] = [job[t].copy EXCEPT !.isReviewed = TRUE]]
      /\ UNCHANGED faults
  BY DEF WriteRecord
<1>3. /\ file' \in Seq(Feedback) /\ Len(file') = Len(file) /\ DOMAIN file' = DOMAIN file
      /\ \A r \in DOMAIN file : file'[r] \in {file[r], Marked(file[r])}
  <2>1. Holds(t, "write") /\ file' = [file EXCEPT ![job[t].row] = Marked(job[t].copy)]
    BY <1>2 DEF WriteRecord, Marked
  <2> QED BY <2>1, MarkOnly
<1>4. \A r \in DOMAIN file : /\ file'[r].feedbackId = file[r].feedbackId
                             /\ Marked(file'[r]) = Marked(file[r])
  <2>1. \A r \in DOMAIN file : file[r] \in Feedback
    BY <1>1, File
  <2> QED BY <1>3, <2>1 DEF Marked, Feedback
<1>5. DataTypes'
  BY <1>1, <1>2, <1>3, IdleIsJob DEF DataTypes, Done
<1>6. Ids'
  BY <1>1, <1>3, <1>4 DEF Ids
<1>7. ASSUME NEW u \in Threads
      PROVE  Sound(u)'
  <2>1. CASE u = t
    BY <1>1, <2>1, IdleIsJob DEF Done, Sound, Adding, Reviewing
  <2>2. CASE u # t
    <3>1. job'[u] = job[u] /\ Sound(u)
      BY <1>1, <2>2 DEF Done, DataInv
    <3>2. Adding(u)'
      BY <1>1, <1>3, <3>1 DEF Sound, Adding
    <3>3. ASSUME NEW r, Found(job[u].id, r)
          PROVE  Found(job[u].id, r)' /\ Marked(file'[r]) = Marked(file[r])
      <4>1. r \in DOMAIN file /\ \A q \in 1..(r - 1) : q \in DOMAIN file
        BY <1>1, <3>3, File DEF Found
      <4> QED BY <1>3, <1>4, <3>1, <3>3, <4>1 DEF Found
    <3>4. Reviewing(u)'
      BY <3>1, <3>3 DEF Sound, Reviewing, Marked
    <3> QED BY <3>2, <3>4 DEF Sound
  <2> QED BY <2>1, <2>2
<1> QED BY <1>5, <1>6, <1>7 DEF DataInv

-----------------------------------------------------------------------------
(* The specification *)

\* A step of a handler that moves the call and leaves what the handler keeps.
LEMMA OnlyTheCall == ASSUME DataInv, UNCHANGED data PROVE DataInv'
<1>1. file' = file /\ job' = job /\ misnumbered' = misnumbered /\ faults' = faults
  BY DEF data
<1> QED BY <1>1 DEF DataInv, DataTypes, Ids, Sound, Adding, Reviewing, Found, Marked

LEMMA DataInit == FeedbackInit => DataInv
<1> SUFFICES ASSUME FeedbackInit PROVE DataInv
  OBVIOUS
<1>1. /\ file = <<>> /\ job = [t \in Threads |-> Idle]
      /\ misnumbered = FALSE /\ faults = 0 /\ Idle \in Job /\ Idle.step = "menu"
  BY IdleIsJob DEF FeedbackInit
<1>2. file \in Seq(Feedback) /\ DOMAIN file = {}
  BY <1>1
<1>3. DataTypes
  <2>1. job \in [Threads -> Job]
    BY <1>1
  <2>2. MaxFaults \in Nat
    BY FeedbackAssumption
  <2>3. faults \in 0..MaxFaults
    BY <1>1, <2>2
  <2>4. misnumbered \in BOOLEAN
    BY <1>1
  <2> QED BY <1>2, <2>1, <2>3, <2>4 DEF DataTypes
<1> QED BY <1>1, <1>2, <1>3 DEF DataInv, Ids, Sound, Adding, Reviewing

LEMMA DataStep == DataInv /\ [FeedbackNext]_feedbackVars => DataInv'
<1> SUFFICES ASSUME DataInv, [FeedbackNext]_feedbackVars PROVE DataInv'
  OBVIOUS
<1>1. CASE UNCHANGED feedbackVars
  BY <1>1, OnlyTheCall DEF feedbackVars
<1>2. ASSUME NEW t \in Threads, Cancel(t)
      PROVE  DataInv'
  <2>1. Done(t) /\ UNCHANGED <<file, misnumbered, faults>> /\ faults \in 0..MaxFaults
    BY <1>2 DEF Cancel, DataInv, DataTypes
  <2> QED BY <2>1, Ended
<1>3. ASSUME NEW t \in Threads, OpenFile(t) \/ LockFile(t) \/ CloseFile(t)
      PROVE  DataInv'
  BY <1>3, OnlyTheCall DEF OpenFile, LockFile, CloseFile
<1>4. ASSUME NEW t \in Threads, OpenFails(t) \/ LockFails(t) \/ AccessFails(t)
      PROVE  DataInv'
  <2>1. GoesOn(t) /\ file' = file /\ Fault
    BY <1>4 DEF OpenFails, LockFails, AccessFails
  <2>2. faults' \in 0..MaxFaults
    BY <2>1, Faulty DEF DataInv
  <2> QED BY <2>1, <2>2, GoesOnKeeps
<1>5. ASSUME NEW t \in Threads, LockIgnored(t)
      PROVE  DataInv'
  <2>1. UNCHANGED <<file, job, misnumbered>> /\ faults' \in 0..MaxFaults
    BY <1>5, Faulty DEF LockIgnored, DataInv
  <2> QED BY <2>1 DEF DataInv, DataTypes, Ids, Sound, Adding, Reviewing, Found, Marked
<1>6. ASSUME NEW t \in Threads, NotFound(t)
      PROVE  DataInv'
  <2>1. Done(t) /\ UNCHANGED <<file, misnumbered, faults>> /\ faults \in 0..MaxFaults
    BY <1>6 DEF NotFound, DataInv, DataTypes
  <2> QED BY <2>1, Ended
<1> QED
  BY <1>1, <1>2, <1>3, <1>4, <1>5, <1>6, ChooseKeeps, TypeIdKeeps, ReadIdKeeps, AppendKeeps, ListKeeps,
     FindKeeps, ReadKeeps, FindAgainKeeps, WriteKeeps
  DEF FeedbackNext

LEMMA DataInvariance == FeedbackSpec => []DataInv
BY DataInit, DataStep, PTL DEF FeedbackSpec

\* What each call of a handler locks is one of FileLocks' requests.
LEMMA RequestAllowed ==
  ASSUME NEW j \in Job
  PROVE  Request(j) \in Requests
<1>1. j.row - 1 \in Records
  BY FeedbackAssumption DEF Job, Rows
<1> QED BY <1>1 DEF Request, Requests, NoRequest, AppendLock, Shared, Exclusive

\* Every step of a handler takes its thread one step on in a call, or leaves
\* the locks alone.
LEMMA CallsMove ==
  ASSUME DataInv, [FeedbackNext]_feedbackVars
  PROVE  UNCHANGED vars \/ \E t \in Threads : LockStep(t)
<1>1. CASE UNCHANGED feedbackVars
  BY <1>1 DEF feedbackVars
<1>2. ASSUME NEW t \in Threads, Choose(t) \/ TypeId(t) \/ Cancel(t) \/ OpenFails(t)
      PROVE  UNCHANGED vars
  BY <1>2 DEF Choose, TypeId, Cancel, OpenFails
<1>3. ASSUME NEW t \in Threads, OpenFile(t)
      PROVE  LockStep(t)
  <2>1. Request(job[t]) \in Requests
    BY RequestAllowed DEF DataInv, DataTypes
  <2> QED BY <1>3, <2>1 DEF OpenFile, LockStep
<1>4. ASSUME NEW t \in Threads, LockFile(t) \/ LockIgnored(t) \/ LockFails(t) \/ CloseFile(t)
      PROVE  LockStep(t)
  BY <1>4 DEF LockFile, LockIgnored, LockFails, CloseFile, LockStep
<1>5. ASSUME NEW t \in Threads,
             \/ AccessFails(t) \/ ReadId(t) \/ AppendRecord(t) \/ ListUnreviewed(t)
             \/ Find(t) \/ FindAgain(t) \/ NotFound(t) \/ ReadRecord(t) \/ WriteRecord(t)
      PROVE  LockStep(t)
  <2>1. Unlock(t)
    BY <1>5 DEF AccessFails, ReadId, AppendRecord, ListUnreviewed, Find, FindAgain, FindRecord,
                NotFound, ReadRecord, WriteRecord
  <2> QED BY <2>1 DEF LockStep
<1> QED BY <1>1, <1>2, <1>3, <1>4, <1>5 DEF FeedbackNext

LEMMA LocksInvariance == FeedbackSpec => []LocksInv
<1>1. FeedbackInit => LocksInv
  BY LocksInit DEF FeedbackInit
<1>2. LocksInv /\ DataInv /\ [FeedbackNext]_feedbackVars => LocksInv'
  <2> SUFFICES ASSUME LocksInv, DataInv, [FeedbackNext]_feedbackVars PROVE LocksInv'
    OBVIOUS
  <2>1. CASE UNCHANGED vars
    BY <2>1 DEF vars, LocksInv, TypeOK, Held
  <2>2. CASE \E t \in Threads : LockStep(t)
    BY <2>2, LocksStep
  <2> QED BY <2>1, <2>2, CallsMove
<1> QED BY <1>1, <1>2, DataInvariance, PTL DEF FeedbackSpec

\* While no session is between lock and unlock, the process has nothing locked:
\* no exit of data_access.c returns with a lock, for any number of sessions.
THEOREM LocksAreReleased == FeedbackSpec => []NoLockLeft
<1>1. LocksInv => NoLockLeft
  BY DEF LocksInv, Held, NoLockLeft
<1> QED BY <1>1, LocksInvariance, PTL

\* The file, the locks and the handlers' local variables keep their types.
THEOREM TypeCorrect == FeedbackSpec => []FeedbackTypeOK
<1>1. LocksInv /\ DataInv => FeedbackTypeOK
  BY DEF LocksInv, DataInv, DataTypes, FeedbackTypeOK, Job, Steps
<1> QED BY <1>1, DataInvariance, LocksInvariance, PTL

\* Feedback ids are the positions in the file until two addFeedback overlap or
\* one cannot read the last id: data_access.c takes the id in one locked call and
\* appends in another.
THEOREM IdsArePositions == FeedbackSpec => []IdsUntilOverlap
<1>1. DataInv => IdsUntilOverlap
  BY DEF DataInv, Ids, IdsUntilOverlap
<1> QED BY <1>1, DataInvariance, PTL

\* A review that writes back an old copy of a record takes no mark away and
\* changes nothing else, whatever the other sessions do between the calls.
THEOREM ReviewsOnlyMark == FeedbackSpec => OnlyMarks
<1> DEFINE Kept == \A r \in DOMAIN file :
                     /\ r \in DOMAIN file'
                     /\ file'[r] \in {file[r], [file[r] EXCEPT !.isReviewed = TRUE]}
<1>1. DataInv /\ [FeedbackNext]_feedbackVars => [Kept]_feedbackVars
  <2> SUFFICES ASSUME DataInv, FeedbackNext PROVE Kept
    OBVIOUS
  <2>1. CASE UNCHANGED file
    BY <2>1
  <2>2. ASSUME NEW t \in Threads, AppendRecord(t), file' # file
        PROVE  Kept
    <3>1. /\ job[t].step = "append" /\ Len(file) < MaxRecords
          /\ file' = Append(file, New(job[t].id, t))
      BY <2>2 DEF AppendRecord, Holds
    <3>2. DataTypes /\ Sound(t) /\ job[t] \in Job
      BY DEF DataInv, DataTypes
    <3>3. New(job[t].id, t) \in Feedback
      BY <3>1, <3>2, File, NewIsFeedback, FeedbackAssumption DEF Sound, Adding, Job, Rows
    <3>4. /\ file' \in Seq(Feedback) /\ Len(file') = Len(file) + 1
          /\ \A r \in 1..Len(file) : file'[r] = file[r]
      BY <3>1, <3>2, <3>3, AppendProperties DEF DataTypes
    <3>5. DOMAIN file' = 1..(Len(file) + 1)
      BY <3>4, LenProperties, Zenon
    <3> QED BY <3>2, <3>4, <3>5, File
  <2>3. ASSUME NEW t \in Threads, WriteRecord(t), file' # file
        PROVE  Kept
    <3>1. Holds(t, "write") /\ file' = [file EXCEPT ![job[t].row] = Marked(job[t].copy)]
      BY <2>3 DEF WriteRecord, Marked
    <3> QED BY <3>1, MarkOnly DEF Marked
  <2>4. ASSUME NEW t \in Threads, ~AppendRecord(t), ~WriteRecord(t),
               \/ Choose(t) \/ TypeId(t) \/ Cancel(t)
               \/ OpenFile(t) \/ OpenFails(t) \/ LockFile(t) \/ LockIgnored(t) \/ LockFails(t)
               \/ AccessFails(t) \/ CloseFile(t)
               \/ ReadId(t) \/ ListUnreviewed(t) \/ Find(t) \/ FindAgain(t) \/ NotFound(t)
               \/ ReadRecord(t)
        PROVE  UNCHANGED file
    BY <2>4 DEF Choose, TypeId, Cancel, OpenFile, OpenFails, LockFile, LockIgnored, LockFails,
                AccessFails, CloseFile, ReadId, ListUnreviewed, Find, FindAgain, FindRecord,
                NotFound, ReadRecord, data
  <2> QED BY <2>1, <2>2, <2>3, <2>4 DEF FeedbackNext
<1> QED BY <1>1, DataInvariance, PTL DEF FeedbackSpec, OnlyMarks

=============================================================================
