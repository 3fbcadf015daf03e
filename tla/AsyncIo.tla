------------------------------- MODULE AsyncIo -------------------------------
(***************************************************************************)
(* The asynchronous file writer of src/src/base/aio.cpp: loggers put bytes  *)
(* into a ring buffer that grows, a thread copies them out and writes them  *)
(* to the file, and the program closes, waits for and frees the writer.     *)
(* A byte is its position in the order in which the bytes were accepted.    *)
(* Each section between aio->lock.lock() and unlock() is one step, except   *)
(* the one a logger keeps open from aio_lock to aio_unlock.                 *)
(***************************************************************************)
EXTENDS Naturals, Sequences

CONSTANTS
  Loggers,    \* the threads that log
  Sizes,      \* ASYNC_BUFSIZE and its doublings
  BufSize,    \* ASYNC_BUFSIZE
  LocalSize,  \* ASYNC_LOCAL_BUFSIZE
  MaxWrite,   \* bound: bytes of one aio_write_unlocked
  MaxBytes,   \* bound: bytes of all of them
  Nobody      \* the lock is free

ASSUME AsyncIoAssumption ==
  /\ Sizes \subseteq Nat \ {0} /\ BufSize \in Sizes
  /\ LocalSize \in Nat \ {0} /\ MaxWrite \in Nat /\ MaxBytes \in Nat
  /\ Nobody \notin Loggers

VARIABLES
  buffer, size,          \* buffer, buffer_size
  readPos, writePos,     \* read_pos, write_pos
  finish,                \* "running", "close" or "exit"
  refcount,              \* the struct is deleted when it is 0
  error,                 \* error: the last io_error
  sem,                   \* the semaphore
  owner,                 \* the logger inside aio_lock ... aio_unlock
  logger,                \* where each logger is: "idle", "locked", "wrote", "signal"
  program,               \* where the program is with aio_close, aio_wait, aio_free
  thread,                \* aio_thread: pc, local_buffer, result_io_error
  file, failed,          \* what is in the file, and its sticky error flag
  accepted,              \* history: bytes written to the buffer
  mark                   \* history: bytes accepted when finish was set

ring == <<buffer, size, readPos, writePos>>
disk == <<file, failed>>
vars == <<ring, finish, refcount, error, sem, owner, logger, program, thread, disk, accepted, mark>>

TypeOK ==
  /\ size \in Sizes
  /\ buffer \in [0..(size - 1) -> Nat]
  /\ readPos \in 0..(size - 1) /\ writePos \in 0..(size - 1)
  /\ finish \in {"running", "close", "exit"}
  /\ refcount \in 0..2
  /\ error \in BOOLEAN /\ failed \in BOOLEAN
  /\ sem \in Nat /\ accepted \in Nat /\ mark \in Nat
  /\ owner \in Loggers \cup {Nobody}
  /\ logger \in [Loggers -> {"idle", "locked", "wrote", "signal"}]
  /\ program \in {"open", "closing", "closed", "waiting", "joining", "waited", "freed"}
  /\ thread \in [pc : {"top", "sleep", "write", "gone"}, local : Seq(Nat), result : BOOLEAN]
  /\ file \in Seq(Nat)

Init ==
  /\ size = BufSize
  /\ buffer = [i \in 0..(BufSize - 1) |-> 0]
  /\ readPos = 0 /\ writePos = 0
  /\ finish = "running"
  /\ refcount = 2
  /\ error = FALSE /\ failed = FALSE
  /\ sem = 0 /\ accepted = 0 /\ mark = 0
  /\ owner = Nobody
  /\ logger = [l \in Loggers |-> "idle"]
  /\ program = "open"
  /\ thread = [pc |-> "top", local |-> <<>>, result |-> FALSE]
  /\ file = <<>>

-----------------------------------------------------------------------------
(* The ring. *)

Smaller(m, n) == IF m <= n THEN m ELSE n

\* pos % buffer_size, for a position less than a lap past the end
Wrapped(pos) == IF pos < size THEN pos ELSE pos - size

BufferLen == IF writePos >= readPos THEN writePos - readPos ELSE size + writePos - readPos

\* buffer_ptrs: the first piece, and the second that starts again at 0
Len1 == IF readPos <= writePos THEN writePos - readPos ELSE size - readPos
Len2 == IF readPos <= writePos THEN 0 ELSE writePos

\* what aio_write_unlocked copies: the next n bytes
Byte(k) == accepted + k

\* the two copies, up to the end of the buffer and from its start
Offset(i) == IF i >= writePos THEN i - writePos ELSE i + size - writePos
Stored(n) ==
  [i \in 0..(size - 1) |-> IF Offset(i) < n THEN Byte(Offset(i) + 1) ELSE buffer[i]]

\* next_buffer_size: doubled until it is large enough
IsNextSize(s, need) == need <= s /\ \A t \in Sizes : need <= t => s <= t

\* the old bytes, both pieces in order, and behind them the new ones
Grown(s, n) ==
  [i \in 0..(s - 1) |->
     IF i < Len1 THEN buffer[readPos + i]
     ELSE IF i < Len1 + Len2 THEN buffer[i - Len1]
     ELSE IF i < Len1 + Len2 + n THEN Byte(i - Len1 - Len2 + 1)
     ELSE 0]

\* variant: the buffer may become completely full
FitsExactly(n) == n <= size - BufferLen

\* one byte stays free, so that a full buffer is not taken for an empty one
Fits(n) == n < size - BufferLen

-----------------------------------------------------------------------------
(* A logger. *)

\* aio_lock
Lock(l) ==
  /\ logger[l] = "idle"
  /\ program # "freed"
  /\ owner = Nobody
  /\ accepted < MaxBytes
  /\ owner' = l
  /\ logger' = [logger EXCEPT ![l] = "locked"]
  /\ UNCHANGED <<ring, finish, refcount, error, sem, program, thread, disk, accepted, mark>>

\* aio_write_unlocked of n bytes, into the buffer there is or a larger one
WriteUnlocked(l, n) ==
  /\ logger[l] \in {"locked", "wrote"}
  /\ accepted + n <= MaxBytes
  /\ IF Fits(n)
       THEN /\ buffer' = Stored(n)
            /\ writePos' = Wrapped(writePos + n)
            /\ UNCHANGED <<size, readPos>>
       ELSE \E s \in Sizes :
              /\ IsNextSize(s, BufferLen + n + 1)
              /\ buffer' = Grown(s, n)
              /\ size' = s
              /\ readPos' = 0
              /\ writePos' = BufferLen + n
  /\ accepted' = accepted + n
  /\ logger' = [logger EXCEPT ![l] = "wrote"]
  /\ UNCHANGED <<finish, refcount, error, sem, owner, program, thread, disk,
                 mark>>

\* aio_unlock releases the lock ...
Unlock(l) ==
  /\ logger[l] = "wrote"
  /\ owner' = Nobody
  /\ logger' = [logger EXCEPT ![l] = "signal"]
  /\ UNCHANGED <<ring, finish, refcount, error, sem, program, thread, disk, accepted, mark>>

\* ... and then signals
Signal(l) ==
  /\ logger[l] = "signal"
  /\ sem' = sem + 1
  /\ logger' = [logger EXCEPT ![l] = "idle"]
  /\ UNCHANGED <<ring, finish, refcount, error, owner, program, thread, disk, accepted, mark>>

-----------------------------------------------------------------------------
(* The program. *)

Finish(f) ==
  /\ finish' = f
  /\ mark' = IF finish = "running" THEN accepted ELSE mark

\* aio_close, up to its signal
Close ==
  /\ program = "open"
  /\ owner = Nobody
  /\ Finish("close")
  /\ program' = "closing"
  /\ UNCHANGED <<ring, refcount, error, sem, owner, logger, thread, disk, accepted>>

\* aio_wait, up to its signal
Wait ==
  /\ program \in {"open", "closed"}
  /\ owner = Nobody
  /\ Finish(IF finish = "running" THEN "exit" ELSE finish)
  /\ program' = "waiting"
  /\ UNCHANGED <<ring, refcount, error, sem, owner, logger, thread, disk, accepted>>

\* variant: the thread is not woken
ProgramSignalForgotten ==
  /\ program \in {"closing", "waiting"}
  /\ program' = IF program = "closing" THEN "closed" ELSE "joining"
  /\ UNCHANGED <<ring, finish, refcount, error, sem, owner, logger, thread, disk, accepted, mark>>

\* the signal of either
ProgramSignal ==
  /\ program \in {"closing", "waiting"}
  /\ sem' = sem + 1
  /\ program' = IF program = "closing" THEN "closed" ELSE "joining"
  /\ UNCHANGED <<ring, finish, refcount, error, owner, logger, thread, disk, accepted, mark>>

\* thread_wait returns
Join ==
  /\ program = "joining"
  /\ thread.pc = "gone"
  /\ program' = "waited"
  /\ UNCHANGED <<ring, finish, refcount, error, sem, owner, logger, thread, disk, accepted, mark>>

\* variant: the struct is deleted with the thread still at it
FreeAtOnce ==
  /\ program \in {"closed", "waited"}
  /\ owner = Nobody
  /\ \A l \in Loggers : logger[l] = "idle"
  /\ refcount' = 0
  /\ program' = "freed"
  /\ UNCHANGED <<ring, finish, error, sem, owner, logger, thread, disk, accepted, mark>>

\* aio_free, when no logger uses the writer any more: with the thread joined, or
\* detached while it still writes
Free ==
  /\ program \in {"closed", "waited"}
  /\ owner = Nobody
  /\ \A l \in Loggers : logger[l] = "idle"
  /\ refcount' = refcount - 1
  /\ program' = "freed"
  /\ UNCHANGED <<ring, finish, error, sem, owner, logger, thread, disk, accepted, mark>>

-----------------------------------------------------------------------------
(* aio_thread. *)

Empty == readPos = writePos

Cut1 == Smaller(Len1, LocalSize)
Cut2 == Smaller(Len2, LocalSize - Cut1)

\* the two pieces, as far as they fit into local_buffer
Taken ==
  [i \in 1..(Cut1 + Cut2) |->
     IF i <= Cut1 THEN buffer[readPos + i - 1] ELSE buffer[i - Cut1 - 1]]

\* variant: the error of the last write is not kept
ThreadEndsUnchecked ==
  /\ thread.pc = "top"
  /\ owner = Nobody
  /\ Empty /\ finish # "running"
  /\ thread' = [thread EXCEPT !.pc = "gone"]
  /\ refcount' = refcount - 1
  /\ UNCHANGED <<ring, finish, error, sem, owner, logger, program, disk, accepted, mark>>

\* all written and the end asked for
ThreadEnds ==
  /\ thread.pc = "top"
  /\ owner = Nobody
  /\ Empty /\ finish # "running"
  /\ thread' = [thread EXCEPT !.pc = "gone"]
  /\ error' = thread.result
  /\ refcount' = refcount - 1
  /\ UNCHANGED <<ring, finish, sem, owner, logger, program, disk, accepted, mark>>

\* all written: wait for the semaphore
ThreadSleeps ==
  /\ thread.pc = "top"
  /\ owner = Nobody
  /\ Empty /\ finish = "running"
  /\ thread' = [thread EXCEPT !.pc = "sleep"]
  /\ error' = thread.result
  /\ UNCHANGED <<ring, finish, refcount, sem, owner, logger, program, disk, accepted, mark>>

ThreadWakes ==
  /\ thread.pc = "sleep"
  /\ sem > 0
  /\ sem' = sem - 1
  /\ thread' = [thread EXCEPT !.pc = "top"]
  /\ UNCHANGED <<ring, finish, refcount, error, owner, logger, program, disk, accepted, mark>>

ThreadTakes ==
  /\ thread.pc = "top"
  /\ owner = Nobody
  /\ ~Empty
  /\ thread' = [thread EXCEPT !.pc = "write", !.local = Taken]
  /\ readPos' = Wrapped(readPos + Cut1 + Cut2)
  /\ error' = thread.result
  /\ UNCHANGED <<buffer, size, writePos, finish, refcount, sem, owner, logger, program, disk,
                 accepted, mark>>

\* io_write, io_flush and io_error, without the lock; the error flag of a file stays
\* set, and what such a file holds is left out
ThreadWrites ==
  /\ thread.pc = "write"
  /\ failed' \in {failed, TRUE}
  /\ file' = IF failed' THEN <<>> ELSE file \o thread.local
  /\ thread' = [pc |-> "top", local |-> <<>>, result |-> failed']
  /\ UNCHANGED <<ring, finish, refcount, error, sem, owner, logger, program, accepted, mark>>

Thread == ThreadEnds \/ ThreadSleeps \/ ThreadWakes \/ ThreadTakes \/ ThreadWrites

Next ==
  \/ \E l \in Loggers :
       \/ Lock(l) \/ Unlock(l) \/ Signal(l)
       \/ \E n \in 1..MaxWrite : WriteUnlocked(l, n)
  \/ Close \/ Wait \/ ProgramSignal \/ Join \/ Free
  \/ Thread

Spec == Init /\ [][Next]_vars

(* The operating system runs the thread and lets the program out of its waits; a
   logger that has the lock gives it back. *)
Fairness ==
  /\ WF_vars(Thread)
  /\ WF_vars(ProgramSignal \/ Join)
  /\ \A l \in Loggers :
       WF_vars(Unlock(l) \/ Signal(l) \/ \E n \in 1..MaxWrite : WriteUnlocked(l, n))

FairSpec == Spec /\ Fairness

-----------------------------------------------------------------------------
(* Properties. *)

(* What was accepted is in the file, in the hands of the thread or in the ring,
   each byte once and in order, while the ring wraps and grows under a thread that
   takes it in pieces. *)
NothingIsLost ==
  /\ BufferLen <= accepted
  /\ \A k \in 1..BufferLen : buffer[Wrapped(readPos + k - 1)] = accepted - BufferLen + k
  /\ ~failed =>
       /\ Len(file) + Len(thread.local) + BufferLen = accepted
       /\ \A i \in DOMAIN file : file[i] = i
       /\ \A i \in DOMAIN thread.local : thread.local[i] = Len(file) + i

(* "loggers are supposed to finish writing the log messages they have received so
   far" (logger.h), and "Call this function after aio_wait to see if the process of
   writing to the file succeeded" (aio.h): when aio_wait has returned, every byte
   accepted before the end was asked for is in the file, or aio_error tells. *)
WaitedIsWritten ==
  program = "waited" =>
    /\ thread.pc = "gone"
    /\ error = failed
    /\ failed \/ Len(file) >= mark

(* The struct is deleted by the last of its two users, and only then. *)
FreedLast ==
  refcount = 0 <=> thread.pc = "gone" /\ program = "freed"

(* No wakeup is lost: while the thread lives, what was accepted gets to the file, or the file
   is in error; once the end is asked for the thread ends, and a program that waits for it is
   let go, whatever the loggers still do. *)
NothingWaits ==
  /\ <>[](failed \/ thread.pc = "gone" \/ Len(file) = accepted)
  /\ <>[](finish # "running" => thread.pc = "gone" /\ program \notin {"waiting", "joining"})
=============================================================================
