------------------------------ MODULE FileLocks ------------------------------
(***************************************************************************)
(* The fcntl record locks that the data-access layer puts around every     *)
(* read and write of one data file (data_access.c).  The kernel keeps them *)
(* per process and file, not per thread or descriptor: a request conflicts *)
(* only with locks of other processes, a second lock of the same process   *)
(* replaces the first, and closing any descriptor of the file releases all *)
(* that the process holds on it.  All sessions are threads of one process, *)
(* and no other program takes a lock (admin_util.c opens the files without *)
(* one), so F_SETLKW never waits here.                                     *)
(***************************************************************************)
EXTENDS Integers

CONSTANTS
  Threads,    \* threads that call the data-access layer
  Records     \* record numbers of one data file

LockTypes == {"F_UNLCK", "F_RDLCK", "F_WRLCK"}

VARIABLES
  lock,   \* lock[r]: what the server process holds on record r
  call    \* the call each thread is in

vars == <<lock, call>>

\* read_record and update_record lock one record; the find_ functions,
\* get_next_id_from_file and the listings lock the whole file to read it,
\* append_record to write it.
Requests ==
  [type : {"F_RDLCK", "F_WRLCK"}, range : {Records} \cup {{r} : r \in Records}]

\* A thread has a descriptor of the file open unless it is idle.
Calls == [pc : {"idle", "open", "locked", "unlocked"}, req : Requests]

NoRequest == [type |-> "F_RDLCK", range |-> Records]
NoCall    == [pc |-> "idle", req |-> NoRequest]

Init ==
  /\ lock = [r \in Records |-> "F_UNLCK"]
  /\ call = [t \in Threads |-> NoCall]

\* Variant: the locks of the process outside the range are forgotten.
SetLockOnRange(type, range) ==
  lock' = [r \in range |-> type]

\* What the process has locked after one of its threads sets type on a range.
SetLock(type, range) ==
  lock' = [r \in Records |-> IF r \in range THEN type ELSE lock[r]]

Goto(t, pc) == call' = [call EXCEPT ![t].pc = pc]

\* The request is over.
Leave(t, pc) == call' = [call EXCEPT ![t] = [NoCall EXCEPT !.pc = pc]]

Open(t, req) ==
  /\ call[t].pc = "idle"
  /\ call' = [call EXCEPT ![t] = [pc |-> "open", req |-> req]]
  /\ UNCHANGED lock

Lock(t) ==
  /\ call[t].pc = "open"
  /\ SetLock(call[t].req.type, call[t].req.range)
  /\ Goto(t, "locked")

\* fcntl fails in a call that does not look at the result: it goes on.
GoOnUnlocked(t) ==
  /\ call[t].pc = "open"
  /\ Goto(t, "locked")
  /\ UNCHANGED lock

\* The reads and writes happen while pc is "locked".
Unlock(t) ==
  /\ call[t].pc = "locked"
  /\ SetLock("F_UNLCK", call[t].req.range)
  /\ Leave(t, "unlocked")

\* After the access, or after a lock that failed.
Close(t) ==
  /\ call[t].pc \in {"open", "unlocked"}
  /\ SetLock("F_UNLCK", Records)
  /\ Leave(t, "idle")

-----------------------------------------------------------------------------

TypeOK ==
  /\ lock \in [Records -> LockTypes]
  /\ call \in [Threads -> Calls]

\* While no thread is between lock and unlock of a call the process has nothing
\* locked: none of the exits of data_access.c (record found or not, failed open,
\* lock or access) returns with a lock, although the locks belong to the process
\* and the close in one thread drops those of all others.
NoLockLeft ==
  (\A t \in Threads : call[t].pc # "locked") => \A r \in Records : lock[r] = "F_UNLCK"
=============================================================================
