------------------------------ MODULE JobPool ------------------------------
(***************************************************************************)
(* The job pool of src/src/engine/shared/jobs.cpp: worker threads take     *)
(* jobs from a queue guarded by m_Lock and counted by m_Semaphore, the     *)
(* running ones are listed in m_RunningJobs under m_LockRunning, and the   *)
(* main thread adds jobs, aborts them and shuts the pool down.  A step is  *)
(* a critical section or one operation on an atomic.                       *)
(***************************************************************************)
EXTENDS Naturals, Sequences, FiniteSets

CONSTANTS
  Workers,        \* the threads of m_vpThreads
  Jobs,           \* the jobs the program ever creates
  AbortableJobs,  \* the jobs whose constructor calls Abortable(true)
  NoJob           \* no job held by a worker

ASSUME WorkersAssumption == IsFiniteSet(Workers) /\ Workers # {}
ASSUME JobsAssumption == AbortableJobs \subseteq Jobs /\ NoJob \notin Jobs

VARIABLES
  jobState,  \* IJob::m_State
  added,     \* jobs handed to CJobPool::Add
  queue,     \* m_pFirstJob .. m_pLastJob
  sem,       \* m_Semaphore
  shutdown,  \* m_Shutdown
  running,   \* m_RunningJobs
  pc,        \* where each worker is in RunLoop
  cur,       \* pJob of each worker
  main       \* where the main thread is, with the signals it still owes

vars == <<jobState, added, queue, sem, shutdown, running, pc, cur, main>>

JobStates == {"queued", "running", "done", "aborted"}
WorkerPcs == {"wait", "fetch", "check", "claim", "register", "run",
              "unregister", "finish", "exited"}
MainAt == {"down", "idle", "addSignal", "lockQueue", "abortQueued", "abortRunning",
           "signal", "join"}

TypeOK ==
  /\ jobState \in [Jobs -> JobStates]
  /\ added \subseteq Jobs
  /\ queue \in Seq(Jobs)
  /\ sem \in Nat
  /\ shutdown \in BOOLEAN
  /\ running \subseteq Jobs
  /\ pc \in [Workers -> WorkerPcs]
  /\ cur \in [Workers -> Jobs \cup {NoJob}]
  /\ main \in [at : MainAt, owed : Nat]

(***************************************************************************)
(* CJobPool::CJobPool leaves the pool down; no thread exists yet.          *)
(***************************************************************************)
Init ==
  /\ jobState = [j \in Jobs |-> "queued"]
  /\ added = {}
  /\ queue = <<>>
  /\ sem = 0
  /\ shutdown = TRUE
  /\ running = {}
  /\ pc = [w \in Workers |-> "exited"]
  /\ cur = [w \in Workers |-> NoJob]
  /\ main = [at |-> "down", owed |-> 0]

At(m) == [at |-> m, owed |-> 0]

-----------------------------------------------------------------------------
(* Worker threads: CJobPool::RunLoop.                                       *)

\* Shutdown holds m_Lock over its whole walk of the queue; every other critical
\* section is one step
LockFree == main.at # "abortQueued"

Goto(w, p) == pc' = [pc EXCEPT ![w] = p]

\* sphore_wait(&m_Semaphore)
Wait(w) ==
  /\ pc[w] = "wait"
  /\ sem > 0
  /\ sem' = sem - 1
  /\ Goto(w, "fetch")
  /\ UNCHANGED <<jobState, added, queue, shutdown, running, cur, main>>

\* fetch a job from the queue, under m_Lock
Fetch(w) ==
  /\ pc[w] = "fetch"
  /\ LockFree
  /\ queue # <<>>
  /\ cur' = [cur EXCEPT ![w] = Head(queue)]
  /\ queue' = Tail(queue)
  /\ Goto(w, "claim")
  /\ UNCHANGED <<jobState, added, sem, shutdown, running, main>>

\* variant: m_Shutdown is looked at before the queue is drained
FetchSkipped(w) ==
  /\ pc[w] = "fetch"
  /\ LockFree
  /\ Goto(w, "check")
  /\ UNCHANGED <<jobState, added, queue, sem, shutdown, running, cur, main>>

\* the queue is empty: the worker goes on to read m_Shutdown
FetchNothing(w) ==
  /\ pc[w] = "fetch"
  /\ LockFree
  /\ queue = <<>>
  /\ Goto(w, "check")
  /\ UNCHANGED <<jobState, added, queue, sem, shutdown, running, cur, main>>

\* else if(m_Shutdown) break
CheckShutdown(w) ==
  /\ pc[w] = "check"
  /\ Goto(w, IF shutdown THEN "exited" ELSE "wait")
  /\ UNCHANGED <<jobState, added, queue, sem, shutdown, running, cur, main>>

\* variant: a plain store instead of the exchange
ClaimStores(w) ==
  /\ pc[w] = "claim"
  /\ jobState' = [jobState EXCEPT ![cur[w]] = "running"]
  /\ Goto(w, "register")
  /\ UNCHANGED <<added, queue, sem, shutdown, running, cur, main>>

\* compare_exchange_strong(QUEUED, RUNNING) on the job's state
Claim(w) ==
  /\ pc[w] = "claim"
  /\ jobState[cur[w]] = "queued"
  /\ jobState' = [jobState EXCEPT ![cur[w]] = "running"]
  /\ Goto(w, "register")
  /\ UNCHANGED <<added, queue, sem, shutdown, running, cur, main>>

\* the exchange fails: the job was aborted before it was started
ClaimAborted(w) ==
  /\ pc[w] = "claim"
  /\ jobState[cur[w]] = "aborted"
  /\ cur' = [cur EXCEPT ![w] = NoJob]
  /\ Goto(w, "wait")
  /\ UNCHANGED <<jobState, added, queue, sem, shutdown, running, main>>

\* remember the running job so that Shutdown can abort it, under m_LockRunning
Register(w) ==
  /\ pc[w] = "register"
  /\ running' = running \cup {cur[w]}
  /\ Goto(w, "run")
  /\ UNCHANGED <<jobState, added, queue, sem, shutdown, cur, main>>

\* pJob->Run() returns
RunReturns(w) ==
  /\ pc[w] = "run"
  /\ Goto(w, "unregister")
  /\ UNCHANGED <<jobState, added, queue, sem, shutdown, running, cur, main>>

Unregister(w) ==
  /\ pc[w] = "unregister"
  /\ running' = running \ {cur[w]}
  /\ Goto(w, "finish")
  /\ UNCHANGED <<jobState, added, queue, sem, shutdown, cur, main>>

\* compare_exchange_strong(RUNNING, DONE); an aborted job stays aborted
Finish(w) ==
  /\ pc[w] = "finish"
  /\ jobState' = [jobState EXCEPT ![cur[w]] = IF @ = "running" THEN "done" ELSE @]
  /\ cur' = [cur EXCEPT ![w] = NoJob]
  /\ Goto(w, "wait")
  /\ UNCHANGED <<added, queue, sem, shutdown, running, main>>

Worker(w) ==
  \/ Wait(w) \/ Fetch(w) \/ FetchNothing(w) \/ CheckShutdown(w)
  \/ Claim(w) \/ ClaimAborted(w) \/ Register(w) \/ RunReturns(w)
  \/ Unregister(w) \/ Finish(w)

-----------------------------------------------------------------------------
(* The main thread: Init, Add, Abort and Shutdown.                          *)

\* IJob::Abort stores ABORTED in whatever state an abortable job is
Aborted(j) == IF j \in AbortableJobs THEN "aborted" ELSE jobState[j]

\* pPrev->m_pNext = pNext
Unlinked(q, i) == SubSeq(q, 1, i - 1) \o SubSeq(q, i + 1, Len(q))

\* CJobPool::Init, possibly after an earlier Shutdown
InitPool ==
  /\ main.at = "down"
  /\ shutdown' = FALSE
  /\ sem' = 0
  /\ queue' = <<>>
  /\ pc' = [w \in Workers |-> "wait"]
  /\ main' = At("idle")
  /\ UNCHANGED <<jobState, added, running, cur>>

\* CJobPool::Add while the pool runs: the job is linked in under m_Lock and
\* the semaphore is signalled after the lock is released
Add(j) ==
  /\ main.at = "idle"
  /\ j \notin added
  /\ ~shutdown
  /\ added' = added \cup {j}
  /\ queue' = Append(queue, j)
  /\ main' = [at |-> "addSignal", owed |-> 1]
  /\ UNCHANGED <<jobState, sem, shutdown, running, pc, cur>>

AddSignal ==
  /\ main.at = "addSignal"
  /\ sem' = sem + 1
  /\ main' = At("idle")
  /\ UNCHANGED <<jobState, added, queue, shutdown, running, pc, cur>>

\* CJobPool::Add when the pool is down: the job is aborted and dropped
AddRejected(j) ==
  /\ main.at = "down"
  /\ shutdown
  /\ j \notin added
  /\ jobState[j] # Aborted(j)
  /\ jobState' = [jobState EXCEPT ![j] = Aborted(j)]
  /\ UNCHANGED <<added, queue, sem, shutdown, running, pc, cur, main>>

\* IJob::Abort called by the owner of the job: from any thread, at any time
Abort(j) ==
  /\ j \in AbortableJobs
  /\ jobState[j] # "aborted"
  /\ jobState' = [jobState EXCEPT ![j] = "aborted"]
  /\ UNCHANGED <<added, queue, sem, shutdown, running, pc, cur, main>>

\* CJobPool::Shutdown sets m_Shutdown ...
ShutdownStart ==
  /\ main.at = "idle"
  /\ shutdown' = TRUE
  /\ main' = At("lockQueue")
  /\ UNCHANGED <<jobState, added, queue, sem, running, pc, cur>>

\* ... takes m_Lock ...
ShutdownLock ==
  /\ main.at = "lockQueue"
  /\ main' = At("abortQueued")
  /\ UNCHANGED <<jobState, added, queue, sem, shutdown, running, pc, cur>>

\* variant: the walk unlinks abortable jobs without aborting them
ShutdownUnlinkOnly ==
  /\ main.at = "abortQueued"
  /\ \E i \in DOMAIN queue : queue[i] \in AbortableJobs /\ queue' = Unlinked(queue, i)
  /\ UNCHANGED <<jobState, added, sem, shutdown, running, pc, cur, main>>

\* ... walks the queue, aborting and unlinking the jobs that accept it ...
ShutdownUnlink ==
  /\ main.at = "abortQueued"
  /\ \E i \in DOMAIN queue :
       /\ queue[i] \in AbortableJobs
       /\ \A k \in 1..(i - 1) : queue[k] \notin AbortableJobs
       /\ jobState' = [jobState EXCEPT ![queue[i]] = "aborted"]
       /\ queue' = Unlinked(queue, i)
  /\ UNCHANGED <<added, sem, shutdown, running, pc, cur, main>>

\* ... releases m_Lock at the end of the walk ...
ShutdownUnlock ==
  /\ main.at = "abortQueued"
  /\ \A i \in DOMAIN queue : queue[i] \notin AbortableJobs
  /\ main' = At("abortRunning")
  /\ UNCHANGED <<jobState, added, queue, sem, shutdown, running, pc, cur>>

\* ... aborts the jobs listed as running, under m_LockRunning ...
ShutdownAbortRunning ==
  /\ main.at = "abortRunning"
  /\ jobState' = [j \in Jobs |-> IF j \in running THEN Aborted(j) ELSE jobState[j]]
  /\ main' = [at |-> "signal", owed |-> Cardinality(Workers)]
  /\ UNCHANGED <<added, queue, sem, shutdown, running, pc, cur>>

\* variant: one signal for all threads
ShutdownSignalOnce ==
  /\ main.at = "signal"
  /\ sem' = sem + 1
  /\ main' = At("join")
  /\ UNCHANGED <<jobState, added, queue, shutdown, running, pc, cur>>

\* ... signals the semaphore once per thread ...
ShutdownSignal ==
  /\ main.at = "signal"
  /\ main.owed > 0
  /\ sem' = sem + 1
  /\ main' = IF main.owed = 1 THEN At("join") ELSE [main EXCEPT !.owed = @ - 1]
  /\ UNCHANGED <<jobState, added, queue, shutdown, running, pc, cur>>

\* ... and joins the threads
ShutdownJoin ==
  /\ main.at = "join"
  /\ \A w \in Workers : pc[w] = "exited"
  /\ main' = At("down")
  /\ UNCHANGED <<jobState, added, queue, sem, shutdown, running, pc, cur>>

\* The steps Shutdown and Add take once they were called
MainGoesOn ==
  \/ AddSignal \/ ShutdownLock \/ ShutdownUnlink \/ ShutdownUnlock
  \/ ShutdownAbortRunning \/ ShutdownSignal \/ ShutdownJoin

Main ==
  \/ InitPool \/ ShutdownStart \/ MainGoesOn
  \/ \E j \in Jobs : Add(j) \/ AddRejected(j) \/ Abort(j)

Next == Main \/ \E w \in Workers : Worker(w)

Spec == Init /\ [][Next]_vars

(***************************************************************************)
(* Threads are scheduled, a call the main thread has entered goes on, and  *)
(* Run returns: every job of the program ends, aborted or not.             *)
(***************************************************************************)
Fairness ==
  /\ WF_vars(MainGoesOn)
  /\ \A w \in Workers : WF_vars(Worker(w))

FairSpec == Spec /\ Fairness

-----------------------------------------------------------------------------
(* Properties.                                                              *)

(* jobs.h: "Scheduled jobs which are not abortable are guaranteed to fully
   complete before the job pool is shut down."  When Shutdown has returned,
   every job that was added and cannot be aborted is done, however the
   workers, the aborts and the joins interleaved. *)
NonAbortableComplete ==
  main.at = "down" => \A j \in added \ AbortableJobs : jobState[j] = "done"

(* When Shutdown has returned nothing is left behind: no job is queued, none is
   running, and every job that was added has reached a final state. *)
NothingLeftBehind ==
  main.at = "down" =>
    /\ queue = <<>>
    /\ running = {}
    /\ \A j \in added : jobState[j] \in {"done", "aborted"}

(* A job is in one place only: queued once, or held by one worker.  Two
   workers never run the same job, whatever the order of pops and aborts. *)
OneHolder ==
  /\ \A v, w \in Workers : cur[v] = cur[w] /\ cur[v] # NoJob => v = w
  /\ \A i, k \in DOMAIN queue : queue[i] = queue[k] => i = k
  /\ \A w \in Workers, i \in DOMAIN queue : cur[w] # queue[i]

(* No wake-up is lost: the semaphore, the workers it has already released and
   the signal the main thread still owes cover every queued job. *)
Fetching == {w \in Workers : pc[w] = "fetch"}
NoLostWakeup == Len(queue) <= sem + Cardinality(Fetching) + main.owed

(* The pool executes no job twice and none that was aborted while it waited: a
   job whose Run is about to be called was queued up to that step, and when Run
   is entered it is neither listed as running nor done. *)
StartsOnce ==
  [][\A w \in Workers :
       /\ pc[w] # "register" /\ pc'[w] = "register" => jobState[cur[w]] = "queued"
       /\ pc[w] # "run" /\ pc'[w] = "run" =>
            cur[w] \notin running /\ jobState[cur[w]] # "done"]_vars

(* A job that ended stays ended: only an Abort may still relabel a done job as
   aborted, no worker or Shutdown step resurrects one. *)
FinalStays ==
  [][\A j \in Jobs :
       /\ jobState[j] = "aborted" => jobState'[j] = "aborted"
       /\ jobState[j] = "done" => jobState'[j] \in {"done", "aborted"}]_vars

(* Every Shutdown that was called returns: the workers' semaphore tokens
   suffice for each of them to drain the queue and leave. *)
ShutdownReturns == main.at = "lockQueue" ~> main.at = "down"

(* A job that was added while the pool runs is executed or aborted. *)
AddedEnds == \A j \in Jobs : j \in added ~> jobState[j] \in {"done", "aborted"}

-----------------------------------------------------------------------------
(* The inductive invariant behind NonAbortableComplete, NothingLeftBehind,    *)
(* OneHolder and NoLostWakeup.                                              *)

Busy == {"claim", "register", "run", "unregister", "finish"}

\* a worker holds a job exactly while it works on it, and only added jobs move
HoldsOK ==
  /\ \A w \in Workers : cur[w] # NoJob <=> pc[w] \in Busy
  /\ \A w \in Workers : cur[w] # NoJob => cur[w] \in added
  /\ \A i \in DOMAIN queue : queue[i] \in added
  /\ running = {cur[w] : w \in {v \in Workers : pc[v] \in {"run", "unregister"}}}

\* the state of a job follows its place
StatesOK ==
  /\ \A j \in Jobs \ AbortableJobs : jobState[j] # "aborted"
  /\ \A j \in Jobs \ added : jobState[j] \in {"queued", "aborted"}
  /\ \A i \in DOMAIN queue : jobState[queue[i]] \in {"queued", "aborted"}
  /\ \A w \in Workers : pc[w] = "claim" => jobState[cur[w]] \in {"queued", "aborted"}
  /\ \A w \in Workers : pc[w] \in Busy \ {"claim"} => jobState[cur[w]] \in {"running", "aborted"}

\* an added job is queued, held, or over
NotLost ==
  \A j \in added :
    \/ jobState[j] \in {"done", "aborted"}
    \/ \E i \in DOMAIN queue : queue[i] = j
    \/ \E w \in Workers : cur[w] = j

\* while jobs may still be added or unlinked, tokens and queued jobs match
\* exactly: no worker can find the queue empty and leave early
Accepting == {"idle", "addSignal", "lockQueue"}

TokensOK ==
  /\ main.at \in Accepting => Len(queue) = sem + Cardinality(Fetching) + main.owed
  /\ NoLostWakeup

MainOK ==
  /\ shutdown <=> main.at \notin {"idle", "addSignal"}
  /\ main.at = "addSignal" => main.owed = 1
  /\ main.at \notin {"addSignal", "signal"} => main.owed = 0
  /\ main.at = "down" => \A w \in Workers : pc[w] = "exited"

\* a worker that saw the queue empty is right forever
LeavingOK ==
  \A w \in Workers : pc[w] \in {"check", "exited"} =>
    main.at \notin Accepting \cup {"abortQueued"} /\ queue = <<>>

(* The invariant the proofs rest on: every part above, for every interleaving
   of RunLoop with Init, Add, Abort and Shutdown. *)
IInv ==
  /\ TypeOK /\ HoldsOK /\ OneHolder /\ StatesOK /\ NotLost /\ TokensOK
  /\ MainOK /\ LeavingOK
=============================================================================
