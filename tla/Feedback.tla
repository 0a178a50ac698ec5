------------------------------ MODULE Feedback ------------------------------
(***************************************************************************)
(* Feedback: a customer adds a record to data/feedback.dat (customer.c), a *)
(* manager marks it as reviewed (manager.c).  The handlers are modelled    *)
(* down to the locked calls of data_access.c that they consist of, over    *)
(* the kernel's locks (module FileLocks); the other handlers use the data  *)
(* files in the same way.                                                  *)
(***************************************************************************)
EXTENDS FileLocks, Sequences

CONSTANTS
  Customers, Managers,  \* users; each has one session, a thread of the server
  MaxRecords,           \* bound: records in data/feedback.dat
  MaxFaults             \* bound: system calls that fail

\* There is somebody to give feedback.
ASSUME FeedbackAssumption ==
  /\ Threads = Customers \cup Managers
  /\ Customers \cap Managers = {} /\ Customers # {}
  /\ MaxRecords \in Nat \ {0}
  /\ Records = 0..(MaxRecords - 1)
  /\ MaxFaults \in Nat

VARIABLES
  file,        \* data/feedback.dat; file[r] is record number r - 1
  job,         \* what each session does next, with its local variables
  misnumbered, \* history: a record was appended during another addFeedback, or
               \* the last id could not be read
  faults       \* how much of the bound is used

data         == <<file, job, misnumbered, faults>>
feedbackVars == <<vars, data>>

-----------------------------------------------------------------------------

Rows     == 1..MaxRecords
Feedback == [feedbackId : Rows, userId : Customers, isReviewed : BOOLEAN]

\* What each call locks; record r is number r - 1 of the file.
Shared(r)    == [type |-> "F_RDLCK", range |-> {r - 1}]
Exclusive(r) == [type |-> "F_WRLCK", range |-> {r - 1}]
AppendLock   == [type |-> "F_WRLCK", range |-> Records]
Request(j) ==
  CASE j.step = "append" -> AppendLock
    [] j.step = "read"   -> Shared(j.row)
    [] j.step = "write"  -> Exclusive(j.row)
    [] OTHER             -> NoRequest

\* A session between two menu choices.
New(id, u) == [feedbackId |-> id, userId |-> u, isReviewed |-> FALSE]
Idle == [step |-> "menu", id |-> 1, row |-> 1, copy |-> New(1, CHOOSE u \in Customers : TRUE)]

FeedbackInit ==
  /\ Init
  /\ file = <<>>
  /\ job = [t \in Threads |-> Idle]
  /\ misnumbered = FALSE
  /\ faults = 0

To(t, step) == job' = [job EXCEPT ![t].step = step]
Done(t)     == job' = [job EXCEPT ![t] = Idle]

\* History: another session has taken an id and has not yet appended.
Overlap(t) == \E u \in Threads \ {t} : job[u].step = "append"

-----------------------------------------------------------------------------
(* The menus *)

\* A choice in the menu; both handlers begin with a look at the whole file.
Choose(t) ==
  /\ job[t].step = "menu" /\ call[t].pc = "idle"
  /\ t \in Customers => Len(file) < MaxRecords
  /\ To(t, IF t \in Customers THEN "nextId" ELSE "list")
  /\ UNCHANGED <<vars, file, misnumbered, faults>>

\* The manager types any id, listed or not, which is then looked for ...
TypeId(t) ==
  /\ job[t].step = "ask" /\ call[t].pc = "idle"
  /\ \E id \in Rows : job' = [job EXCEPT ![t].step = "find", ![t].id = id]
  /\ UNCHANGED <<vars, file, misnumbered, faults>>

\* ... or '0', or disconnects.
Cancel(t) ==
  /\ job[t].step = "ask" /\ call[t].pc = "idle"
  /\ Done(t)
  /\ UNCHANGED <<vars, file, misnumbered, faults>>

-----------------------------------------------------------------------------
(* The calls of the data-access layer, with their failures *)

\* Steps that are a call.
InCall(t) == job[t].step \notin {"menu", "ask"}

\* A system call of this step fails.
Fault == faults < MaxFaults /\ faults' = faults + 1

\* What the handler does when its call could not do its work: the next id is
\* then 1; nothing was found, read or written, which ends the handler.
GoesOn(t) ==
  IF job[t].step = "nextId"
    THEN /\ job' = [job EXCEPT ![t].step = "append", ![t].id = 1]
         /\ misnumbered' = TRUE
    ELSE Done(t) /\ UNCHANGED misnumbered

OpenFile(t) ==
  /\ InCall(t)
  /\ Open(t, Request(job[t]))
  /\ UNCHANGED data

OpenFails(t) ==
  /\ InCall(t) /\ call[t].pc = "idle"
  /\ Fault
  /\ GoesOn(t)
  /\ UNCHANGED <<vars, file>>

LockFile(t) == Lock(t) /\ UNCHANGED data

\* set_file_lock reports a failure to nobody ...
LockIgnored(t) ==
  /\ job[t].step \notin {"read", "write"}
  /\ GoOnUnlocked(t)
  /\ Fault
  /\ UNCHANGED <<file, job, misnumbered>>

\* ... but read_record and update_record close the file and return if
\* set_record_lock does.
LockFails(t) ==
  /\ job[t].step \in {"read", "write"} /\ call[t].pc = "open"
  /\ Close(t)
  /\ Fault
  /\ GoesOn(t)
  /\ UNCHANGED file

CloseFile(t) == call[t].pc = "unlocked" /\ Close(t) /\ UNCHANGED data

\* The session is in the locked part of the call of this step.
Holds(t, step) == job[t].step = step /\ call[t].pc = "locked"

\* The read or write itself fails; the call unlocks and closes as usual.
AccessFails(t) ==
  /\ call[t].pc = "locked"
  /\ Fault
  /\ GoesOn(t)
  /\ Unlock(t)
  /\ UNCHANGED file

\* Variant: the id of the last record.
LastFeedbackId == IF file = <<>> THEN 1 ELSE file[Len(file)].feedbackId

GetNextFeedbackId == IF file = <<>> THEN 1 ELSE file[Len(file)].feedbackId + 1

ReadId(t) ==
  /\ Holds(t, "nextId")
  /\ job' = [job EXCEPT ![t].step = "append", ![t].id = GetNextFeedbackId]
  /\ Unlock(t)
  /\ UNCHANGED <<file, misnumbered, faults>>

AppendRecord(t) ==
  /\ Holds(t, "append")
  /\ Len(file) < MaxRecords
  /\ file' = Append(file, New(job[t].id, t))
  /\ misnumbered' = (misnumbered \/ Overlap(t))
  /\ Done(t)
  /\ Unlock(t)
  /\ UNCHANGED faults

ListUnreviewed(t) ==
  /\ Holds(t, "list")
  /\ IF \E r \in DOMAIN file : ~file[r].isReviewed THEN To(t, "ask") ELSE Done(t)
  /\ Unlock(t)
  /\ UNCHANGED <<file, misnumbered, faults>>

\* find_feedback_record: the first record with the id.
Found(id, r) ==
  /\ r \in DOMAIN file /\ file[r].feedbackId = id
  /\ \A q \in 1..(r - 1) : file[q].feedbackId # id

\* The search ends, and releases the file, at the record ...
FindRecord(t, step, next) ==
  /\ Holds(t, step)
  /\ \E r \in Rows :
       Found(job[t].id, r) /\ job' = [job EXCEPT ![t].step = next, ![t].row = r]
  /\ Unlock(t)
  /\ UNCHANGED <<file, misnumbered, faults>>

Find(t)      == FindRecord(t, "find", "read")
FindAgain(t) == FindRecord(t, "findAgain", "write")

\* Variant: a search that finds nothing returns at once.
NotFoundAtOnce(t) ==
  /\ Holds(t, "find") \/ Holds(t, "findAgain")
  /\ \A r \in Rows : ~Found(job[t].id, r)
  /\ Done(t)
  /\ Goto(t, "idle")
  /\ UNCHANGED <<lock, file, misnumbered, faults>>

\* ... or at the end of the file.
NotFound(t) ==
  /\ Holds(t, "find") \/ Holds(t, "findAgain")
  /\ \A r \in Rows : ~Found(job[t].id, r)
  /\ Done(t)
  /\ Unlock(t)
  /\ UNCHANGED <<file, misnumbered, faults>>

ReadRecord(t) ==
  /\ Holds(t, "read")
  /\ IF file[job[t].row].isReviewed
       THEN Done(t)
       ELSE job' = [job EXCEPT ![t].step = "findAgain", ![t].copy = file[job[t].row]]
  /\ Unlock(t)
  /\ UNCHANGED <<file, misnumbered, faults>>

\* Variant: record numbers are counted from one.
WriteNextRecord(t) ==
  /\ Holds(t, "write")
  /\ Done(t)
  /\ Unlock(t)
  /\ file' = [file EXCEPT ![job[t].row + 1] = [job[t].copy EXCEPT !.isReviewed = TRUE]]
  /\ UNCHANGED <<misnumbered, faults>>

\* The whole copy goes back, marked.
WriteRecord(t) ==
  /\ Holds(t, "write")
  /\ Done(t)
  /\ Unlock(t)
  /\ file' = [file EXCEPT ![job[t].row] = [job[t].copy EXCEPT !.isReviewed = TRUE]]
  /\ UNCHANGED <<misnumbered, faults>>

-----------------------------------------------------------------------------

FeedbackNext ==
  \E t \in Threads :
    \/ Choose(t) \/ TypeId(t) \/ Cancel(t)
    \/ OpenFile(t) \/ OpenFails(t) \/ LockFile(t) \/ LockIgnored(t) \/ LockFails(t)
    \/ AccessFails(t) \/ CloseFile(t)
    \/ ReadId(t) \/ AppendRecord(t) \/ ListUnreviewed(t)
    \/ Find(t) \/ FindAgain(t) \/ NotFound(t) \/ ReadRecord(t) \/ WriteRecord(t)

FeedbackSpec == FeedbackInit /\ [][FeedbackNext]_feedbackVars

-----------------------------------------------------------------------------
(* Properties; NoLockLeft is module FileLocks' *)

\* Types of the file, of the locks and of the handlers' local variables.
FeedbackTypeOK ==
  /\ TypeOK
  /\ file \in Seq(Feedback)
  /\ job \in [Threads -> [step : {"menu", "nextId", "append", "list", "ask", "find",
                                  "read", "findAgain", "write"},
                          id : 1..(MaxRecords + 1), row : Rows, copy : Feedback]]
  /\ misnumbered \in BOOLEAN /\ faults \in 0..MaxFaults

\* Ids are the positions in the file until two addFeedback overlap or one of
\* them cannot read the last id; a review then still reaches every record.
\* Afterwards a record may have the id of an earlier one and can never be marked.
IdsUntilOverlap == ~misnumbered => \A r \in DOMAIN file : file[r].feedbackId = r

\* Records are only added and marked: a review that writes back an old copy
\* takes no mark away and changes no other record, whatever runs beside it.
OnlyMarks ==
  [][\A r \in DOMAIN file :
       /\ r \in DOMAIN file'
       /\ file'[r] \in {file[r], [file[r] EXCEPT !.isReviewed = TRUE]}]_feedbackVars
=============================================================================
