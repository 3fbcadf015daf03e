----------------------------- MODULE PoolProofs -----------------------------
(***************************************************************************)
(* Proofs about the two pools of the engine.                               *)
(*                                                                         *)
(* JobPool, for any finite, non-empty set of worker threads and any set of *)
(* jobs.  IInv is inductive: one lemma per action below, combined by       *)
(* Invariance.                                                             *)
(*                                                                         *)
(* SnapIdPool, for any number of ids, any width of int, any rest and any   *)
(* clock.  PoolIInv is inductive: it names the order of the two lists that *)
(* share one array of links.                                               *)
(***************************************************************************)
EXTENDS JobPool, SnapIdPool, FiniteSetTheorems, SequenceTheorems, NaturalsInduction,
        WellFoundedInduction, TLAPS

(* How moving one worker changes the number of workers between the semaphore
   and the queue. *)

(* The workers between the semaphore and the queue are finitely many. *)
LEMMA FetchingType ==
  ASSUME TypeOK
  PROVE  IsFiniteSet(Fetching) /\ Cardinality(Fetching) \in Nat
<1>1. Fetching \subseteq Workers
  BY DEF Fetching
<1>2. IsFiniteSet(Fetching)
  BY <1>1, FS_Subset, WorkersAssumption
<1> QED
  BY <1>2, FS_CardinalityType

(* A worker that leaves sphore_wait adds one to them. *)
LEMMA FetchingEnter ==
  ASSUME TypeOK, NEW w \in Workers, pc[w] # "fetch", Goto(w, "fetch")
  PROVE  Cardinality(Fetching') = Cardinality(Fetching) + 1
<1>1. Fetching' = Fetching \cup {w}
  BY DEF TypeOK, Goto, Fetching
<1>2. w \notin Fetching
  BY DEF Fetching
<1> QED
  BY <1>1, <1>2, FetchingType, FS_AddElement

(* A worker that has looked at the queue leaves them. *)
LEMMA FetchingLeave ==
  ASSUME TypeOK, NEW w \in Workers, NEW p, p # "fetch", pc[w] = "fetch", Goto(w, p)
  PROVE  Cardinality(Fetching') = Cardinality(Fetching) - 1
<1>1. Fetching' = Fetching \ {w}
  BY DEF TypeOK, Goto, Fetching
<1>2. w \in Fetching
  BY DEF Fetching
<1> QED
  BY <1>1, <1>2, FetchingType, FS_RemoveElement

(* While a worker is among them their number is positive. *)
LEMMA FetchingPositive ==
  ASSUME TypeOK, NEW w \in Workers, pc[w] = "fetch"
  PROVE  Cardinality(Fetching) >= 1
<1>1. w \in Fetching
  BY DEF Fetching
<1> QED
  BY <1>1, FetchingType, FS_EmptySet

(* A worker that moves between two other places does not change them. *)
LEMMA FetchingSame ==
  ASSUME TypeOK, NEW w \in Workers, NEW p, p # "fetch", pc[w] # "fetch", Goto(w, p)
  PROVE  Fetching' = Fetching
BY DEF TypeOK, Goto, Fetching

(* Unlinking a job from the queue keeps the others, in order. *)
LEMMA UnlinkedProperties ==
  ASSUME NEW S, NEW q \in Seq(S), NEW i \in DOMAIN q
  PROVE  /\ Unlinked(q, i) \in Seq(S)
         /\ Len(Unlinked(q, i)) = Len(q) - 1
         /\ \A k \in 1..(Len(q) - 1) :
              Unlinked(q, i)[k] = IF k < i THEN q[k] ELSE q[k + 1]
<1>1. i \in 1..Len(q) /\ Len(q) \in Nat
  BY LenProperties
<1> DEFINE a == SubSeq(q, 1, i - 1)
           b == SubSeq(q, i + 1, Len(q))
<1>2. a \in Seq(S) /\ Len(a) = i - 1 /\ \A k \in 1..(i - 1) : a[k] = q[k]
  <2>1. \A k \in 1..(i - 1) : q[k] \in S
    BY <1>1, ElementOfSeq
  <2>2. i - 1 \in Int /\ 1 \in Int
    BY <1>1
  <2> QED
    BY <1>1, <2>1, <2>2, SubSeqProperties
<1>3. b \in Seq(S) /\ Len(b) = Len(q) - i /\ \A k \in 1..(Len(q) - i) : b[k] = q[i + k]
  <2>1. \A k \in (i + 1)..Len(q) : q[k] \in S
    BY <1>1, ElementOfSeq
  <2>2. i + 1 \in Int /\ Len(q) \in Int
    BY <1>1
  <2> QED
    BY <1>1, <2>1, <2>2, SubSeqProperties
<1> HIDE DEF a, b
<1>4. /\ a \o b \in Seq(S)
      /\ Len(a \o b) = Len(a) + Len(b)
      /\ \A k \in 1..(Len(a) + Len(b)) :
           (a \o b)[k] = IF k <= Len(a) THEN a[k] ELSE b[k - Len(a)]
  BY <1>2, <1>3, ConcatProperties
<1>5. Len(a) + Len(b) = Len(q) - 1
  BY <1>1, <1>2, <1>3
<1>6. ASSUME NEW k \in 1..(Len(q) - 1)
      PROVE  (a \o b)[k] = IF k < i THEN q[k] ELSE q[k + 1]
  <2>1. (a \o b)[k] = IF k <= i - 1 THEN a[k] ELSE b[k - (i - 1)]
    BY <1>2, <1>4, <1>5
  <2>2. CASE k < i
    BY <1>1, <1>2, <2>1, <2>2
  <2>3. CASE ~(k < i)
    <3>1. k - (i - 1) \in 1..(Len(q) - i) /\ i + (k - (i - 1)) = k + 1
      BY <1>1, <2>3
    <3>2. b[k - (i - 1)] = q[k + 1]
      BY <1>3, <3>1
    <3> QED
      BY <1>1, <2>1, <2>3, <3>2
  <2> QED
    BY <2>2, <2>3
<1> QED
  BY <1>4, <1>5, <1>6 DEF Unlinked, a, b

-----------------------------------------------------------------------------
(* Initial states. *)

(* The pool that CJobPool::CJobPool leaves satisfies the invariant. *)
LEMMA InitInv == Init => IInv
<1> SUFFICES ASSUME Init PROVE IInv
  OBVIOUS
<1>1. Fetching = {}
  BY DEF Init, Fetching
<1>2. Cardinality(Fetching) = 0
  BY <1>1, FS_EmptySet
<1>3. Len(queue) = 0 /\ DOMAIN queue = {}
  BY DEF Init
<1>4. TypeOK
  BY DEF Init, TypeOK, At, MainAt, JobStates, WorkerPcs
<1> QED
  BY <1>2, <1>3, <1>4, JobsAssumption
  DEF Init, IInv, HoldsOK, OneHolder, StatesOK, NotLost, TokensOK, NoLostWakeup, MainOK,
      LeavingOK, Accepting, Busy, At
-----------------------------------------------------------------------------
(* Worker steps: RunLoop. *)

(* A worker that gets a token moves it from the semaphore to Fetching. *)
LEMMA WaitInv == ASSUME IInv, NEW w \in Workers, Wait(w) PROVE IInv'
<1>1. TypeOK'
  BY DEF IInv, TypeOK, Wait, Goto, WorkerPcs, JobStates
<1>2. HoldsOK'
  BY JobsAssumption DEF IInv, TypeOK, HoldsOK, OneHolder, Wait, Goto, Busy
<1>3. OneHolder'
  BY JobsAssumption DEF IInv, TypeOK, OneHolder, HoldsOK, Wait, Goto, Busy
<1>4. StatesOK'
  BY JobsAssumption DEF IInv, TypeOK, StatesOK, HoldsOK, OneHolder, Wait, Goto, Busy
<1>5. NotLost'
  BY JobsAssumption DEF IInv, TypeOK, NotLost, HoldsOK, StatesOK, Wait, Goto, Busy
<1>6. TokensOK'
  <2>1. Cardinality(Fetching') = Cardinality(Fetching) + 1
    BY FetchingEnter DEF IInv, Wait
  <2>2. Len(queue) \in Nat /\ sem \in Nat /\ main.owed \in Nat
    BY LenProperties DEF IInv, TypeOK
  <2> QED
    BY <2>1, <2>2, FetchingType, FetchingPositive
    DEF IInv, TokensOK, NoLostWakeup, Wait, Accepting
<1>7. MainOK' /\ LeavingOK'
  BY FetchingType DEF IInv, TypeOK, MainOK, LeavingOK, TokensOK, Wait, Goto, LockFree, Accepting
<1> QED
  BY <1>1, <1>2, <1>3, <1>4, <1>5, <1>6, <1>7 DEF IInv

(* A worker that unlinks the first job takes it, and its token, out of the queue. *)
LEMMA FetchInv == ASSUME IInv, NEW w \in Workers, Fetch(w) PROVE IInv'
<1>1. /\ Head(queue) = queue[1] /\ 1 \in DOMAIN queue /\ Head(queue) \in Jobs
      /\ Tail(queue) \in Seq(Jobs) /\ Len(Tail(queue)) = Len(queue) - 1
      /\ DOMAIN Tail(queue) = 1..(Len(queue) - 1) /\ DOMAIN queue = 1..Len(queue)
      /\ Len(queue) \in Nat
      /\ \A i \in 1..(Len(queue) - 1) : Tail(queue)[i] = queue[i + 1]
  BY HeadTailProperties, LenProperties DEF IInv, TypeOK, Fetch
<1>2. ASSUME NEW i \in DOMAIN queue, i # 1
      PROVE  i - 1 \in DOMAIN queue' /\ queue'[i - 1] = queue[i]
  <2>1. queue' = Tail(queue) /\ i - 1 \in 1..(Len(queue) - 1) /\ (i - 1) + 1 = i
    BY <1>1, <1>2 DEF Fetch
  <2> QED
    BY <1>1, <2>1
<1>3. TypeOK'
  BY <1>1 DEF IInv, TypeOK, Fetch, Goto, WorkerPcs
<1>4. HoldsOK'
  <2>1. /\ pc' = [pc EXCEPT ![w] = "claim"] /\ cur' = [cur EXCEPT ![w] = queue[1]]
        /\ pc[w] = "fetch" /\ queue[1] \in added /\ queue[1] # NoJob
        /\ running' = running /\ added' = added
    BY <1>1, JobsAssumption DEF IInv, TypeOK, HoldsOK, Fetch, Goto
  <2>2. \A v \in Workers : (cur'[v] # NoJob <=> pc'[v] \in Busy) /\ (cur'[v] # NoJob => cur'[v] \in added')
    BY <2>1 DEF IInv, TypeOK, HoldsOK, Busy
  <2>3. \A i \in DOMAIN queue' : queue'[i] \in added'
    BY <1>1, <2>1 DEF IInv, TypeOK, HoldsOK, Fetch
  <2>4. {cur'[v] : v \in {u \in Workers : pc'[u] \in {"run", "unregister"}}}
          = {cur[v] : v \in {u \in Workers : pc[u] \in {"run", "unregister"}}}
    <3>1. \A v \in Workers : pc'[v] \in {"run", "unregister"} <=> pc[v] \in {"run", "unregister"}
      BY <2>1 DEF IInv, TypeOK
    <3>2. \A v \in Workers : pc[v] \in {"run", "unregister"} => cur'[v] = cur[v]
      BY <2>1 DEF IInv, TypeOK
    <3> QED
      BY <3>1, <3>2
  <2> QED
    BY <2>1, <2>2, <2>3, <2>4 DEF IInv, HoldsOK
<1>5. OneHolder'
  BY <1>1, JobsAssumption DEF IInv, TypeOK, OneHolder, HoldsOK, Fetch, Goto, Busy
<1>6. StatesOK'
  BY <1>1, JobsAssumption DEF IInv, TypeOK, StatesOK, HoldsOK, Fetch, Goto, Busy
<1>7. NotLost'
  <2> SUFFICES ASSUME NEW j \in added, jobState[j] \notin {"done", "aborted"}
               PROVE  \/ \E i \in DOMAIN queue' : queue'[i] = j
                      \/ \E v \in Workers : cur'[v] = j
    BY DEF NotLost, Fetch
  <2>1. CASE \E i \in DOMAIN queue : queue[i] = j
    <3>1. PICK i \in DOMAIN queue : queue[i] = j
      BY <2>1
    <3>2. CASE i = 1
      BY <1>1, <3>1, <3>2 DEF Fetch, IInv, TypeOK
    <3>3. CASE i # 1
      BY <1>2, <3>1, <3>3
    <3> QED
      BY <3>2, <3>3
  <2>2. CASE \E v \in Workers : cur[v] = j
    BY <2>2, JobsAssumption DEF Fetch, IInv, TypeOK, HoldsOK, Busy
  <2> QED
    BY <2>1, <2>2 DEF IInv, NotLost
<1>8. TokensOK'
  <2>1. Cardinality(Fetching') = Cardinality(Fetching) - 1
    BY FetchingLeave DEF IInv, Fetch
  <2>2. Len(queue') = Len(queue) - 1 /\ sem \in Nat /\ main.owed \in Nat
    BY <1>1 DEF IInv, TypeOK, Fetch
  <2>3. Cardinality(Fetching) \in Nat /\ sem' = sem /\ main' = main
    BY FetchingType DEF IInv, Fetch
  <2> QED
    BY <1>1, <2>1, <2>2, <2>3 DEF IInv, TokensOK, NoLostWakeup
<1>9. MainOK' /\ LeavingOK'
  BY <1>1 DEF IInv, TypeOK, MainOK, LeavingOK, Fetch, Goto
<1> QED
  BY <1>3, <1>4, <1>5, <1>6, <1>7, <1>8, <1>9 DEF IInv

(* A worker finds the queue empty only when Shutdown is past its walk: while
   jobs are accepted its token stands for a queued job. *)
LEMMA FetchNothingInv == ASSUME IInv, NEW w \in Workers, FetchNothing(w) PROVE IInv'
<1>1. TypeOK'
  BY DEF IInv, TypeOK, FetchNothing, Goto, WorkerPcs, JobStates
<1>2. HoldsOK'
  BY JobsAssumption DEF IInv, TypeOK, HoldsOK, OneHolder, FetchNothing, Goto, Busy
<1>3. OneHolder'
  BY JobsAssumption DEF IInv, TypeOK, OneHolder, HoldsOK, FetchNothing, Goto, Busy
<1>4. StatesOK'
  BY JobsAssumption DEF IInv, TypeOK, StatesOK, HoldsOK, OneHolder, FetchNothing, Goto, Busy
<1>5. NotLost'
  BY JobsAssumption DEF IInv, TypeOK, NotLost, HoldsOK, StatesOK, FetchNothing, Goto, Busy
<1>6. main.at \notin Accepting
  <2>1. Len(queue) = 0 /\ sem \in Nat /\ main.owed \in Nat
    BY DEF IInv, TypeOK, FetchNothing
  <2> QED
    BY <2>1, FetchingType, FetchingPositive DEF IInv, TokensOK, FetchNothing
<1>7. TokensOK'
  <2>1. Cardinality(Fetching') = Cardinality(Fetching) - 1
    BY FetchingLeave DEF IInv, FetchNothing
  <2>2. Len(queue') = 0 /\ sem' \in Nat /\ main'.owed \in Nat
    BY <1>1, LenProperties DEF IInv, TypeOK, FetchNothing
  <2>3. main'.at \notin Accepting
    BY <1>6 DEF FetchNothing
  <2>4. Cardinality(Fetching') \in Nat
    BY <2>1, FetchingType, FetchingPositive DEF IInv, FetchNothing
  <2> QED
    BY <2>2, <2>3, <2>4 DEF TokensOK, NoLostWakeup
<1>8. MainOK' /\ LeavingOK'
  BY <1>6 DEF IInv, TypeOK, MainOK, LeavingOK, FetchNothing, Goto, LockFree, Accepting
<1> QED
  BY <1>1, <1>2, <1>3, <1>4, <1>5, <1>6, <1>7, <1>8 DEF IInv

(* A worker that saw the queue empty sees m_Shutdown set, and leaves. *)
LEMMA CheckShutdownInv == ASSUME IInv, NEW w \in Workers, CheckShutdown(w) PROVE IInv'
<1>1. TypeOK'
  BY DEF IInv, TypeOK, CheckShutdown, Goto, WorkerPcs, JobStates
<1>2. HoldsOK'
  BY JobsAssumption DEF IInv, TypeOK, HoldsOK, OneHolder, CheckShutdown, Goto, Busy
<1>3. OneHolder'
  BY JobsAssumption DEF IInv, TypeOK, OneHolder, HoldsOK, CheckShutdown, Goto, Busy
<1>4. StatesOK'
  BY JobsAssumption DEF IInv, TypeOK, StatesOK, HoldsOK, OneHolder, CheckShutdown, Goto, Busy
<1>5. NotLost'
  BY JobsAssumption DEF IInv, TypeOK, NotLost, HoldsOK, StatesOK, CheckShutdown, Goto, Busy
<1>6. TokensOK'
  BY FetchingSame, FetchingType DEF IInv, TypeOK, TokensOK, NoLostWakeup, CheckShutdown, Accepting, Goto
<1>7. MainOK' /\ LeavingOK'
  BY FetchingType DEF IInv, TypeOK, MainOK, LeavingOK, TokensOK, CheckShutdown, Goto, LockFree, Accepting
<1> QED
  BY <1>1, <1>2, <1>3, <1>4, <1>5, <1>6, <1>7 DEF IInv

(* The exchange from QUEUED to RUNNING keeps the invariant. *)
LEMMA ClaimInv == ASSUME IInv, NEW w \in Workers, Claim(w) PROVE IInv'
<1>1. TypeOK'
  BY DEF IInv, TypeOK, Claim, Goto, WorkerPcs, JobStates
<1>2. HoldsOK'
  BY JobsAssumption DEF IInv, TypeOK, HoldsOK, OneHolder, Claim, Goto, Busy
<1>3. OneHolder'
  BY JobsAssumption DEF IInv, TypeOK, OneHolder, HoldsOK, Claim, Goto, Busy
<1>4. StatesOK'
  BY JobsAssumption DEF IInv, TypeOK, StatesOK, HoldsOK, OneHolder, Claim, Goto, Busy
<1>5. NotLost'
  BY JobsAssumption DEF IInv, TypeOK, NotLost, HoldsOK, StatesOK, Claim, Goto, Busy
<1>6. TokensOK'
  BY FetchingSame, FetchingType DEF IInv, TypeOK, TokensOK, NoLostWakeup, Claim, Accepting, Goto
<1>7. MainOK' /\ LeavingOK'
  BY FetchingType DEF IInv, TypeOK, MainOK, LeavingOK, TokensOK, Claim, Goto, LockFree, Accepting
<1> QED
  BY <1>1, <1>2, <1>3, <1>4, <1>5, <1>6, <1>7 DEF IInv

(* A job that was aborted in the queue is over when its worker lets it go. *)
LEMMA ClaimAbortedInv == ASSUME IInv, NEW w \in Workers, ClaimAborted(w) PROVE IInv'
<1>1. TypeOK'
  BY DEF IInv, TypeOK, ClaimAborted, Goto, WorkerPcs, JobStates
<1>2. HoldsOK'
  BY JobsAssumption DEF IInv, TypeOK, HoldsOK, OneHolder, ClaimAborted, Goto, Busy
<1>3. OneHolder'
  BY JobsAssumption DEF IInv, TypeOK, OneHolder, HoldsOK, ClaimAborted, Goto, Busy
<1>4. StatesOK'
  BY JobsAssumption DEF IInv, TypeOK, StatesOK, HoldsOK, OneHolder, ClaimAborted, Goto, Busy
<1>5. NotLost'
  BY JobsAssumption DEF IInv, TypeOK, NotLost, HoldsOK, StatesOK, ClaimAborted, Goto, Busy
<1>6. TokensOK'
  BY FetchingSame, FetchingType DEF IInv, TypeOK, TokensOK, NoLostWakeup, ClaimAborted, Accepting, Goto
<1>7. MainOK' /\ LeavingOK'
  BY FetchingType DEF IInv, TypeOK, MainOK, LeavingOK, TokensOK, ClaimAborted, Goto, LockFree, Accepting
<1> QED
  BY <1>1, <1>2, <1>3, <1>4, <1>5, <1>6, <1>7 DEF IInv

(* Listing a job in m_RunningJobs keeps the invariant. *)
LEMMA RegisterInv == ASSUME IInv, NEW w \in Workers, Register(w) PROVE IInv'
<1>1. TypeOK'
  BY DEF IInv, TypeOK, HoldsOK, Busy, Register, Goto, WorkerPcs, JobStates
<1>2. HoldsOK'
  BY JobsAssumption DEF IInv, TypeOK, HoldsOK, OneHolder, Register, Goto, Busy
<1>3. OneHolder'
  BY JobsAssumption DEF IInv, TypeOK, OneHolder, HoldsOK, Register, Goto, Busy
<1>4. StatesOK'
  BY JobsAssumption DEF IInv, TypeOK, StatesOK, HoldsOK, OneHolder, Register, Goto, Busy
<1>5. NotLost'
  BY JobsAssumption DEF IInv, TypeOK, NotLost, HoldsOK, StatesOK, Register, Goto, Busy
<1>6. TokensOK'
  BY FetchingSame, FetchingType DEF IInv, TypeOK, TokensOK, NoLostWakeup, Register, Accepting, Goto
<1>7. MainOK' /\ LeavingOK'
  BY FetchingType DEF IInv, TypeOK, MainOK, LeavingOK, TokensOK, Register, Goto, LockFree, Accepting
<1> QED
  BY <1>1, <1>2, <1>3, <1>4, <1>5, <1>6, <1>7 DEF IInv

(* The end of Run changes only the place of the worker. *)
LEMMA RunReturnsInv == ASSUME IInv, NEW w \in Workers, RunReturns(w) PROVE IInv'
<1>1. TypeOK'
  BY DEF IInv, TypeOK, RunReturns, Goto, WorkerPcs, JobStates
<1>2. HoldsOK'
  BY JobsAssumption DEF IInv, TypeOK, HoldsOK, OneHolder, RunReturns, Goto, Busy
<1>3. OneHolder'
  BY JobsAssumption DEF IInv, TypeOK, OneHolder, HoldsOK, RunReturns, Goto, Busy
<1>4. StatesOK'
  BY JobsAssumption DEF IInv, TypeOK, StatesOK, HoldsOK, OneHolder, RunReturns, Goto, Busy
<1>5. NotLost'
  BY JobsAssumption DEF IInv, TypeOK, NotLost, HoldsOK, StatesOK, RunReturns, Goto, Busy
<1>6. TokensOK'
  BY FetchingSame, FetchingType DEF IInv, TypeOK, TokensOK, NoLostWakeup, RunReturns, Accepting, Goto
<1>7. MainOK' /\ LeavingOK'
  BY FetchingType DEF IInv, TypeOK, MainOK, LeavingOK, TokensOK, RunReturns, Goto, LockFree, Accepting
<1> QED
  BY <1>1, <1>2, <1>3, <1>4, <1>5, <1>6, <1>7 DEF IInv

(* No other worker holds the job that is taken off m_RunningJobs. *)
LEMMA UnregisterInv == ASSUME IInv, NEW w \in Workers, Unregister(w) PROVE IInv'
<1>1. TypeOK'
  BY DEF IInv, TypeOK, Unregister, Goto, WorkerPcs, JobStates
<1>2. HoldsOK'
  BY JobsAssumption DEF IInv, TypeOK, HoldsOK, OneHolder, Unregister, Goto, Busy
<1>3. OneHolder'
  BY JobsAssumption DEF IInv, TypeOK, OneHolder, HoldsOK, Unregister, Goto, Busy
<1>4. StatesOK'
  BY JobsAssumption DEF IInv, TypeOK, StatesOK, HoldsOK, OneHolder, Unregister, Goto, Busy
<1>5. NotLost'
  BY JobsAssumption DEF IInv, TypeOK, NotLost, HoldsOK, StatesOK, Unregister, Goto, Busy
<1>6. TokensOK'
  BY FetchingSame, FetchingType DEF IInv, TypeOK, TokensOK, NoLostWakeup, Unregister, Accepting, Goto
<1>7. MainOK' /\ LeavingOK'
  BY FetchingType DEF IInv, TypeOK, MainOK, LeavingOK, TokensOK, Unregister, Goto, LockFree, Accepting
<1> QED
  BY <1>1, <1>2, <1>3, <1>4, <1>5, <1>6, <1>7 DEF IInv

(* A worker lets its job go done or aborted. *)
LEMMA FinishInv == ASSUME IInv, NEW w \in Workers, Finish(w) PROVE IInv'
<1>1. TypeOK'
  BY DEF IInv, TypeOK, Finish, Goto, WorkerPcs, JobStates
<1>2. HoldsOK'
  BY JobsAssumption DEF IInv, TypeOK, HoldsOK, OneHolder, Finish, Goto, Busy
<1>3. OneHolder'
  BY JobsAssumption DEF IInv, TypeOK, OneHolder, HoldsOK, Finish, Goto, Busy
<1>4. StatesOK'
  BY JobsAssumption DEF IInv, TypeOK, StatesOK, HoldsOK, OneHolder, Finish, Goto, Busy
<1>5. NotLost'
  BY JobsAssumption DEF IInv, TypeOK, NotLost, HoldsOK, StatesOK, Finish, Goto, Busy
<1>6. TokensOK'
  BY FetchingSame, FetchingType DEF IInv, TypeOK, TokensOK, NoLostWakeup, Finish, Accepting, Goto
<1>7. MainOK' /\ LeavingOK'
  BY FetchingType DEF IInv, TypeOK, MainOK, LeavingOK, TokensOK, Finish, Goto, LockFree, Accepting
<1> QED
  BY <1>1, <1>2, <1>3, <1>4, <1>5, <1>6, <1>7 DEF IInv


-----------------------------------------------------------------------------
(* Steps of the main thread: Init, Add, Abort and Shutdown. *)

(* Init starts from a pool that is down, so that no job and no worker is left. *)
LEMMA InitPoolInv == IInv /\ InitPool => IInv'
<1> SUFFICES ASSUME IInv, InitPool PROVE IInv'
  OBVIOUS
<1>1. Fetching' = {}
  BY DEF InitPool, Fetching
<1>2. Cardinality(Fetching') = 0 /\ Len(queue') = 0 /\ DOMAIN queue' = {}
  BY <1>1, FS_EmptySet DEF InitPool
<1>3. \A w \in Workers : cur[w] = NoJob
  BY DEF IInv, TypeOK, HoldsOK, MainOK, InitPool, Busy
<1>4. queue = <<>> /\ running = {}
  BY WorkersAssumption DEF IInv, HoldsOK, MainOK, LeavingOK, InitPool
<1>5. TypeOK' /\ MainOK' /\ LeavingOK'
  <2>1. TypeOK'
    <3>1. main' \in [at : MainAt, owed : Nat]
      BY DEF InitPool, At, MainAt
    <3>2. pc' \in [Workers -> WorkerPcs]
      BY DEF InitPool, WorkerPcs
    <3>3. queue' \in Seq(Jobs) /\ sem' \in Nat
      BY EmptySeq DEF InitPool
    <3>4. shutdown' \in BOOLEAN
      BY Zenon DEF InitPool
    <3> QED
      BY <3>1, <3>2, <3>3, <3>4 DEF IInv, TypeOK, InitPool
  <2>2. main'.at = "idle" /\ main'.owed = 0 /\ shutdown' = FALSE
    BY DEF InitPool, At
  <2>3. \A w \in Workers : pc'[w] = "wait"
    BY DEF InitPool
  <2> QED
    BY <2>1, <2>2, <2>3 DEF MainOK, LeavingOK
<1>6. HoldsOK' /\ OneHolder' /\ StatesOK' /\ NotLost'
  BY <1>2, <1>3, <1>4 DEF IInv, HoldsOK, OneHolder, StatesOK, NotLost, InitPool, Busy
<1>7. TokensOK'
  BY <1>2 DEF TokensOK, NoLostWakeup, InitPool, At
<1> QED
  BY <1>5, <1>6, <1>7 DEF IInv

(* Add links in a job that is nowhere yet, and owes a signal for it. *)
LEMMA AddInv == ASSUME IInv, NEW j \in Jobs, Add(j) PROVE IInv'
<1>1. /\ queue' \in Seq(Jobs) /\ Len(queue') = Len(queue) + 1 /\ Len(queue) \in Nat
      /\ DOMAIN queue' = 1..(Len(queue) + 1) /\ DOMAIN queue = 1..Len(queue)
      /\ queue'[Len(queue) + 1] = j
      /\ \A i \in 1..Len(queue) : queue'[i] = queue[i]
  BY AppendProperties, LenProperties DEF IInv, TypeOK, Add
<1>2. \A i \in DOMAIN queue' :
        \/ queue'[i] = j /\ i = Len(queue) + 1
        \/ i \in DOMAIN queue /\ queue'[i] = queue[i]
  <2> SUFFICES ASSUME NEW i \in 1..(Len(queue) + 1)
               PROVE  \/ queue'[i] = j /\ i = Len(queue) + 1
                      \/ i \in 1..Len(queue) /\ queue'[i] = queue[i]
    BY <1>1
  <2> QED
    BY <1>1
<1>3. \A i \in DOMAIN queue : i \in DOMAIN queue' /\ queue'[i] = queue[i]
  BY <1>1
<1>4. TypeOK'
  BY <1>1 DEF IInv, TypeOK, Add, MainAt
<1>5. HoldsOK'
  BY <1>2 DEF IInv, TypeOK, HoldsOK, Add
<1>6. OneHolder'
  BY <1>2, JobsAssumption DEF IInv, TypeOK, OneHolder, HoldsOK, Add
<1>7. StatesOK'
  BY <1>2 DEF IInv, TypeOK, StatesOK, Add
<1>8. NotLost'
  <2>1. \E i \in DOMAIN queue' : queue'[i] = j
    BY <1>1
  <2> QED
    BY <1>3, <2>1 DEF IInv, TypeOK, NotLost, Add
<1>9. TokensOK'
  <2>1. Fetching' = Fetching
    BY DEF Fetching, Add
  <2>2. sem \in Nat /\ main.owed = 0 /\ main'.owed = 1 /\ main.at \in Accepting
    BY DEF IInv, TypeOK, MainOK, Add, Accepting
  <2> QED
    BY <1>1, <2>1, <2>2, FetchingType DEF IInv, TokensOK, NoLostWakeup, Add
<1>10. MainOK' /\ LeavingOK'
  BY DEF IInv, TypeOK, MainOK, LeavingOK, Add, Accepting
<1> QED
  BY <1>4, <1>5, <1>6, <1>7, <1>8, <1>9, <1>10 DEF IInv

(* A job that Shutdown unlinks is aborted, and the others keep their order. *)
LEMMA ShutdownUnlinkInv == IInv /\ ShutdownUnlink => IInv'
<1> SUFFICES ASSUME IInv, ShutdownUnlink PROVE IInv'
  OBVIOUS
<1>1. PICK i \in DOMAIN queue :
        /\ queue[i] \in AbortableJobs
        /\ jobState' = [jobState EXCEPT ![queue[i]] = "aborted"]
        /\ queue' = Unlinked(queue, i)
  BY DEF ShutdownUnlink
<1>2. /\ queue' \in Seq(Jobs) /\ Len(queue') = Len(queue) - 1 /\ Len(queue) \in Nat
      /\ DOMAIN queue' = 1..(Len(queue) - 1) /\ DOMAIN queue = 1..Len(queue)
      /\ \A k \in 1..(Len(queue) - 1) : queue'[k] = IF k < i THEN queue[k] ELSE queue[k + 1]
  BY <1>1, UnlinkedProperties, LenProperties DEF IInv, TypeOK
<1>3. \A k \in DOMAIN queue' :
        \E l \in DOMAIN queue : l = (IF k < i THEN k ELSE k + 1) /\ queue'[k] = queue[l]
  BY <1>1, <1>2
<1>4. \A l \in DOMAIN queue : l = i \/ \E k \in DOMAIN queue' : queue'[k] = queue[l]
  <2> SUFFICES ASSUME NEW l \in DOMAIN queue, l # i
               PROVE  \E k \in DOMAIN queue' : queue'[k] = queue[l]
    OBVIOUS
  <2>1. CASE l < i
    BY <1>1, <1>2, <2>1
  <2>2. CASE l > i
    <3>1. l - 1 \in DOMAIN queue' /\ queue'[l - 1] = queue[l]
      BY <1>1, <1>2, <2>2
    <3> QED
      BY <3>1
  <2> QED
    BY <1>1, <1>2, <2>1, <2>2
<1>5. queue[i] \in Jobs
  BY <1>1, JobsAssumption
<1>6. TypeOK'
  BY <1>1, <1>2, <1>5 DEF IInv, TypeOK, ShutdownUnlink, JobStates
<1>7. HoldsOK'
  BY <1>3 DEF IInv, TypeOK, HoldsOK, ShutdownUnlink
<1>8. OneHolder'
  <2>1. \A k, l \in DOMAIN queue' : queue'[k] = queue'[l] => k = l
    <3> SUFFICES ASSUME NEW k \in DOMAIN queue', NEW l \in DOMAIN queue', queue'[k] = queue'[l]
                 PROVE  k = l
      OBVIOUS
    <3>1. PICK m \in DOMAIN queue : m = (IF k < i THEN k ELSE k + 1) /\ queue'[k] = queue[m]
      BY <1>3
    <3>2. PICK n \in DOMAIN queue : n = (IF l < i THEN l ELSE l + 1) /\ queue'[l] = queue[n]
      BY <1>3
    <3>3. m = n
      BY <3>1, <3>2 DEF IInv, OneHolder
    <3> QED
      BY <1>1, <1>2, <3>1, <3>2, <3>3
  <2> QED
    BY <1>3, <2>1 DEF IInv, OneHolder, ShutdownUnlink
<1>9. StatesOK'
  BY <1>1, <1>3, <1>5 DEF IInv, TypeOK, StatesOK, HoldsOK, OneHolder, ShutdownUnlink
<1>10. NotLost'
  BY <1>1, <1>4, <1>5 DEF IInv, TypeOK, NotLost, ShutdownUnlink
<1>11. TokensOK'
  <2>1. Fetching' = Fetching
    BY DEF Fetching, ShutdownUnlink
  <2>2. sem \in Nat /\ main.owed \in Nat
    BY DEF IInv, TypeOK
  <2> QED
    BY <1>2, <2>1, <2>2, FetchingType
    DEF IInv, TokensOK, NoLostWakeup, ShutdownUnlink, Accepting
<1>12. MainOK' /\ LeavingOK'
  BY <1>1, <1>2 DEF IInv, TypeOK, MainOK, LeavingOK, ShutdownUnlink
<1> QED
  BY <1>6, <1>7, <1>8, <1>9, <1>10, <1>11, <1>12 DEF IInv

(* The signal that Add owes becomes a token. *)
LEMMA AddSignalInv == IInv /\ AddSignal => IInv'
<1> SUFFICES ASSUME IInv, AddSignal PROVE IInv'
  OBVIOUS
<1>1. TypeOK' /\ MainOK' /\ LeavingOK'
  BY WorkersAssumption DEF IInv, TypeOK, MainOK, LeavingOK, AddSignal, At, MainAt, Accepting
<1>2. HoldsOK' /\ OneHolder' /\ StatesOK' /\ NotLost'
  BY DEF IInv, HoldsOK, OneHolder, StatesOK, NotLost, AddSignal
<1>3. TokensOK'
  <2>1. Fetching' = Fetching
    BY DEF Fetching, AddSignal
  <2>2. Len(queue) \in Nat /\ sem \in Nat /\ main.owed \in Nat
    BY LenProperties DEF IInv, TypeOK
  <2> QED
    BY <2>1, <2>2, FetchingType
    DEF IInv, TypeOK, TokensOK, NoLostWakeup, MainOK, AddSignal, At, Accepting
<1> QED
  BY <1>1, <1>2, <1>3 DEF IInv

(* Setting m_Shutdown keeps the invariant. *)
LEMMA ShutdownStartInv == IInv /\ ShutdownStart => IInv'
<1> SUFFICES ASSUME IInv, ShutdownStart PROVE IInv'
  OBVIOUS
<1>1. TypeOK' /\ MainOK' /\ LeavingOK'
  BY WorkersAssumption DEF IInv, TypeOK, MainOK, LeavingOK, ShutdownStart, At, MainAt, Accepting
<1>2. HoldsOK' /\ OneHolder' /\ StatesOK' /\ NotLost'
  BY DEF IInv, HoldsOK, OneHolder, StatesOK, NotLost, ShutdownStart
<1>3. TokensOK'
  <2>1. Fetching' = Fetching
    BY DEF Fetching, ShutdownStart
  <2>2. Len(queue) \in Nat /\ sem \in Nat /\ main.owed \in Nat
    BY LenProperties DEF IInv, TypeOK
  <2> QED
    BY <2>1, <2>2, FetchingType
    DEF IInv, TypeOK, TokensOK, NoLostWakeup, MainOK, ShutdownStart, At, Accepting
<1> QED
  BY <1>1, <1>2, <1>3 DEF IInv

(* Taking m_Lock for the walk keeps the invariant. *)
LEMMA ShutdownLockInv == IInv /\ ShutdownLock => IInv'
<1> SUFFICES ASSUME IInv, ShutdownLock PROVE IInv'
  OBVIOUS
<1>1. TypeOK' /\ MainOK' /\ LeavingOK'
  BY WorkersAssumption DEF IInv, TypeOK, MainOK, LeavingOK, ShutdownLock, At, MainAt, Accepting
<1>2. HoldsOK' /\ OneHolder' /\ StatesOK' /\ NotLost'
  BY DEF IInv, HoldsOK, OneHolder, StatesOK, NotLost, ShutdownLock
<1>3. TokensOK'
  <2>1. Fetching' = Fetching
    BY DEF Fetching, ShutdownLock
  <2>2. Len(queue) \in Nat /\ sem \in Nat /\ main.owed \in Nat
    BY LenProperties DEF IInv, TypeOK
  <2> QED
    BY <2>1, <2>2, FetchingType
    DEF IInv, TypeOK, TokensOK, NoLostWakeup, MainOK, ShutdownLock, At, Accepting
<1> QED
  BY <1>1, <1>2, <1>3 DEF IInv

(* After the walk jobs and tokens need not match any more: no job is added. *)
LEMMA ShutdownUnlockInv == IInv /\ ShutdownUnlock => IInv'
<1> SUFFICES ASSUME IInv, ShutdownUnlock PROVE IInv'
  OBVIOUS
<1>1. TypeOK' /\ MainOK' /\ LeavingOK'
  BY WorkersAssumption DEF IInv, TypeOK, MainOK, LeavingOK, ShutdownUnlock, At, MainAt, Accepting
<1>2. HoldsOK' /\ OneHolder' /\ StatesOK' /\ NotLost'
  BY DEF IInv, HoldsOK, OneHolder, StatesOK, NotLost, ShutdownUnlock
<1>3. TokensOK'
  <2>1. Fetching' = Fetching
    BY DEF Fetching, ShutdownUnlock
  <2>2. Len(queue) \in Nat /\ sem \in Nat /\ main.owed \in Nat
    BY LenProperties DEF IInv, TypeOK
  <2> QED
    BY <2>1, <2>2, FetchingType
    DEF IInv, TypeOK, TokensOK, NoLostWakeup, MainOK, ShutdownUnlock, At, Accepting
<1> QED
  BY <1>1, <1>2, <1>3 DEF IInv

(* Each signal of Shutdown becomes a token. *)
LEMMA ShutdownSignalInv == IInv /\ ShutdownSignal => IInv'
<1> SUFFICES ASSUME IInv, ShutdownSignal PROVE IInv'
  OBVIOUS
<1>1. TypeOK' /\ MainOK' /\ LeavingOK'
  BY WorkersAssumption DEF IInv, TypeOK, MainOK, LeavingOK, ShutdownSignal, At, MainAt, Accepting
<1>2. HoldsOK' /\ OneHolder' /\ StatesOK' /\ NotLost'
  BY DEF IInv, HoldsOK, OneHolder, StatesOK, NotLost, ShutdownSignal
<1>3. TokensOK'
  <2>1. Fetching' = Fetching
    BY DEF Fetching, ShutdownSignal
  <2>2. Len(queue) \in Nat /\ sem \in Nat /\ main.owed \in Nat
    BY LenProperties DEF IInv, TypeOK
  <2> QED
    BY <2>1, <2>2, FetchingType
    DEF IInv, TypeOK, TokensOK, NoLostWakeup, MainOK, ShutdownSignal, At, Accepting
<1> QED
  BY <1>1, <1>2, <1>3 DEF IInv

(* Shutdown returns when every worker has left. *)
LEMMA ShutdownJoinInv == IInv /\ ShutdownJoin => IInv'
<1> SUFFICES ASSUME IInv, ShutdownJoin PROVE IInv'
  OBVIOUS
<1>1. TypeOK' /\ MainOK' /\ LeavingOK'
  BY WorkersAssumption DEF IInv, TypeOK, MainOK, LeavingOK, ShutdownJoin, At, MainAt, Accepting
<1>2. HoldsOK' /\ OneHolder' /\ StatesOK' /\ NotLost'
  BY DEF IInv, HoldsOK, OneHolder, StatesOK, NotLost, ShutdownJoin
<1>3. TokensOK'
  <2>1. Fetching' = Fetching
    BY DEF Fetching, ShutdownJoin
  <2>2. Len(queue) \in Nat /\ sem \in Nat /\ main.owed \in Nat
    BY LenProperties DEF IInv, TypeOK
  <2> QED
    BY <2>1, <2>2, FetchingType
    DEF IInv, TypeOK, TokensOK, NoLostWakeup, MainOK, ShutdownJoin, At, Accepting
<1> QED
  BY <1>1, <1>2, <1>3 DEF IInv

(* Aborting the listed jobs leaves those that cannot be aborted alone. *)
LEMMA ShutdownAbortRunningInv == IInv /\ ShutdownAbortRunning => IInv'
<1> SUFFICES ASSUME IInv, ShutdownAbortRunning PROVE IInv'
  OBVIOUS
<1>1. Cardinality(Workers) \in Nat
  BY FS_CardinalityType, WorkersAssumption
<1>2. TypeOK' /\ MainOK' /\ LeavingOK'
  BY <1>1 DEF IInv, TypeOK, MainOK, LeavingOK, ShutdownAbortRunning, Aborted, MainAt, JobStates,
              Accepting
<1>3. HoldsOK' /\ OneHolder' /\ NotLost'
  BY DEF IInv, TypeOK, HoldsOK, OneHolder, NotLost, ShutdownAbortRunning, Aborted
<1>4. StatesOK'
  BY DEF IInv, TypeOK, StatesOK, HoldsOK, OneHolder, ShutdownAbortRunning, Aborted, Busy
<1>5. TokensOK'
  <2>1. Fetching' = Fetching
    BY DEF Fetching, ShutdownAbortRunning
  <2>2. Len(queue) \in Nat /\ sem \in Nat /\ main.owed \in Nat
    BY LenProperties DEF IInv, TypeOK
  <2> QED
    BY <1>1, <2>1, <2>2, FetchingType
    DEF IInv, TokensOK, NoLostWakeup, MainOK, ShutdownAbortRunning, Accepting
<1> QED
  BY <1>2, <1>3, <1>4, <1>5 DEF IInv

(* An owner may abort its job in whatever place it is. *)
LEMMA AbortInv == ASSUME IInv, NEW j \in Jobs, Abort(j) PROVE IInv'
<1>1. TypeOK' /\ MainOK' /\ LeavingOK' /\ HoldsOK' /\ OneHolder'
  BY DEF IInv, TypeOK, MainOK, LeavingOK, HoldsOK, OneHolder, Abort, Aborted, JobStates
<1>2. StatesOK' /\ NotLost'
  BY DEF IInv, TypeOK, StatesOK, NotLost, HoldsOK, Abort, Aborted, Busy
<1>3. TokensOK'
  BY DEF IInv, TokensOK, NoLostWakeup, Fetching, Abort
<1> QED
  BY <1>1, <1>2, <1>3 DEF IInv

(* A job handed to a pool that is down is aborted and enters no list. *)
LEMMA AddRejectedInv == ASSUME IInv, NEW j \in Jobs, AddRejected(j) PROVE IInv'
<1>1. TypeOK' /\ MainOK' /\ LeavingOK' /\ HoldsOK' /\ OneHolder'
  BY DEF IInv, TypeOK, MainOK, LeavingOK, HoldsOK, OneHolder, AddRejected, Aborted, JobStates
<1>2. StatesOK' /\ NotLost'
  BY DEF IInv, TypeOK, StatesOK, NotLost, HoldsOK, AddRejected, Aborted, Busy
<1>3. TokensOK'
  BY DEF IInv, TokensOK, NoLostWakeup, Fetching, AddRejected
<1> QED
  BY <1>1, <1>2, <1>3 DEF IInv

-----------------------------------------------------------------------------
(* The invariant, for every behaviour of the pool. *)

(* Every step of the pool keeps the invariant. *)
LEMMA NextInv == IInv /\ [Next]_vars => IInv'
<1> SUFFICES ASSUME IInv, [Next]_vars PROVE IInv'
  OBVIOUS
<1>1. CASE Main
  <2>1. CASE \E j \in Jobs : Add(j) \/ AddRejected(j) \/ Abort(j)
    BY <2>1, AddInv, AddRejectedInv, AbortInv
  <2>2. CASE MainGoesOn
    BY <2>2, AddSignalInv, ShutdownLockInv, ShutdownUnlinkInv, ShutdownUnlockInv,
       ShutdownAbortRunningInv, ShutdownSignalInv, ShutdownJoinInv DEF MainGoesOn
  <2> QED
    BY <1>1, <2>1, <2>2, InitPoolInv, ShutdownStartInv DEF Main
<1>2. CASE \E w \in Workers : Worker(w)
  BY <1>2, WaitInv, FetchInv, FetchNothingInv, CheckShutdownInv, ClaimInv, ClaimAbortedInv,
     RegisterInv, RunReturnsInv, UnregisterInv, FinishInv DEF Worker
<1>3. CASE UNCHANGED vars
  <2>1. TypeOK' /\ HoldsOK' /\ OneHolder' /\ StatesOK' /\ NotLost' /\ MainOK' /\ LeavingOK'
    BY <1>3 DEF vars, IInv, TypeOK, HoldsOK, OneHolder, StatesOK, NotLost, MainOK, LeavingOK
  <2>2. TokensOK'
    BY <1>3 DEF vars, IInv, TokensOK, NoLostWakeup, Fetching
  <2> QED
    BY <2>1, <2>2 DEF IInv
<1> QED
  BY <1>1, <1>2, <1>3 DEF Next

(* The invariant holds in every state of the pool, for any number of workers
   and jobs. *)
THEOREM Invariance == Spec => []IInv
<1> QED
  BY InitInv, NextInv, PTL DEF Spec

(* Every reachable state of the pool is well typed, for any number of workers
   and jobs. *)
THEOREM TypeCorrect == Spec => []TypeOK
<1>1. IInv => TypeOK
  BY DEF IInv
<1> QED
  BY <1>1, Invariance, PTL

(* jobs.h: jobs that are not abortable complete before the pool is shut down.
   NotLost says an added job is over, queued or held; at the end of Shutdown
   every worker has left, so none is held, and none left with a queued job. *)
THEOREM NonAbortableCompletes == Spec => []NonAbortableComplete
<1>1. IInv => NonAbortableComplete
  <2> SUFFICES ASSUME IInv, main.at = "down", NEW j \in added \ AbortableJobs
               PROVE  jobState[j] = "done"
    BY DEF NonAbortableComplete
  <2>1. \A w \in Workers : cur[w] = NoJob
    BY DEF IInv, TypeOK, HoldsOK, MainOK, Busy
  <2>2. queue = <<>>
    BY WorkersAssumption DEF IInv, MainOK, LeavingOK
  <2>3. j \in Jobs /\ j # NoJob
    BY JobsAssumption DEF IInv, TypeOK
  <2>4. DOMAIN queue = {}
    BY <2>2
  <2> QED
    BY <2>1, <2>3, <2>4 DEF IInv, NotLost, StatesOK
<1> QED
  BY <1>1, Invariance, PTL

(* Shutdown leaves no queued, running or undecided job behind. *)
THEOREM NothingIsLeftBehind == Spec => []NothingLeftBehind
<1>1. IInv => NothingLeftBehind
  <2> SUFFICES ASSUME IInv, main.at = "down"
               PROVE  queue = <<>> /\ running = {} /\ \A j \in added : jobState[j] \in {"done", "aborted"}
    BY DEF NothingLeftBehind
  <2>1. \A w \in Workers : pc[w] = "exited" /\ cur[w] = NoJob
    BY DEF IInv, TypeOK, HoldsOK, MainOK, Busy
  <2>2. queue = <<>>
    BY WorkersAssumption DEF IInv, MainOK, LeavingOK
  <2>3. running = {}
    BY <2>1 DEF IInv, HoldsOK
  <2>4. DOMAIN queue = {}
    BY <2>2
  <2>5. ASSUME NEW j \in added PROVE jobState[j] \in {"done", "aborted"}
    <3>1. j # NoJob
      BY JobsAssumption DEF IInv, TypeOK
    <3> QED
      BY <2>1, <2>4, <3>1 DEF IInv, NotLost
  <2> QED
    BY <2>2, <2>3, <2>5
<1> QED
  BY <1>1, Invariance, PTL

(* No two workers ever hold the same job, and no held job is still queued. *)
THEOREM HoldersAreUnique == Spec => []OneHolder
<1>1. IInv => OneHolder
  BY DEF IInv
<1> QED
  BY <1>1, Invariance, PTL

(* Every queued job is covered by a semaphore token, a released worker or a
   signal still owed. *)
THEOREM WakeupsAreKept == Spec => []NoLostWakeup
<1>1. IInv => NoLostWakeup
  BY DEF IInv, TokensOK
<1> QED
  BY <1>1, Invariance, PTL

(* A job starts at most once and never after an abort reached it in the queue:
   the exchange of Claim needs it queued, and the worker that enters Run is the
   only one that holds it. *)
THEOREM JobsStartOnce == Spec => StartsOnce
<1> DEFINE A(w) == /\ pc[w] # "register" /\ pc'[w] = "register" => jobState[cur[w]] = "queued"
                   /\ pc[w] # "run" /\ pc'[w] = "run" =>
                        cur[w] \notin running /\ jobState[cur[w]] # "done"
<1>1. ASSUME IInv, Next, NEW w \in Workers PROVE A(w)
  <2>1. CASE Main
    <3>1. pc' = pc \/ pc' = [v \in Workers |-> "wait"]
      BY <2>1 DEF Main, MainGoesOn, InitPool, ShutdownStart, AddSignal, ShutdownLock,
         ShutdownUnlink, ShutdownUnlock, ShutdownAbortRunning, ShutdownSignal, ShutdownJoin,
         Add, AddRejected, Abort
    <3> QED
      BY <3>1
  <2>2. ASSUME NEW v \in Workers, Worker(v) PROVE A(w)
    <3>1. CASE Claim(v)
      BY <1>1, <3>1 DEF Claim, Goto, IInv, TypeOK
    <3>2. CASE Register(v)
      <4>1. pc[v] = "register" /\ pc' = [pc EXCEPT ![v] = "run"]
        BY <3>2 DEF Register, Goto
      <4>2. CASE v = w
        BY <1>1, <4>1, <4>2 DEF IInv, TypeOK, HoldsOK, OneHolder, StatesOK, Busy
      <4>3. CASE v # w
        BY <1>1, <4>1, <4>3 DEF IInv, TypeOK
      <4> QED
        BY <4>2, <4>3
    <3>3. CASE Wait(v) \/ Fetch(v) \/ FetchNothing(v) \/ CheckShutdown(v)
      BY <1>1, <3>3 DEF Wait, Fetch, FetchNothing, CheckShutdown, Goto, IInv, TypeOK
    <3>4. CASE ClaimAborted(v) \/ RunReturns(v) \/ Unregister(v) \/ Finish(v)
      BY <1>1, <3>4 DEF ClaimAborted, RunReturns, Unregister, Finish, Goto, IInv, TypeOK
    <3> QED
      BY <2>2, <3>1, <3>2, <3>3, <3>4 DEF Worker
  <2> QED
    BY <1>1, <2>1, <2>2 DEF Next
<1>2. IInv /\ [Next]_vars => [\A w \in Workers : A(w)]_vars
  BY <1>1
<1> QED
  BY <1>2, Invariance, PTL DEF Spec, StartsOnce

(* A job that is over stays over; only an abort may still relabel a done one. *)
THEOREM FinalStatesStay == Spec => FinalStays
<1> DEFINE A == \A j \in Jobs :
                  /\ jobState[j] = "aborted" => jobState'[j] = "aborted"
                  /\ jobState[j] = "done" => jobState'[j] \in {"done", "aborted"}
<1>1. ASSUME IInv, Next PROVE A
  <2>1. CASE \E j \in Jobs : Add(j) \/ AddRejected(j) \/ Abort(j)
    BY <1>1, <2>1 DEF Add, AddRejected, Abort, Aborted, IInv, TypeOK
  <2>2. CASE InitPool \/ ShutdownStart \/ MainGoesOn
    BY <1>1, <2>2 DEF InitPool, ShutdownStart, MainGoesOn, AddSignal, ShutdownLock, ShutdownUnlink,
       ShutdownUnlock, ShutdownAbortRunning, ShutdownSignal, ShutdownJoin, Aborted, IInv, TypeOK
  <2>3. CASE \E w \in Workers : Worker(w)
    BY <1>1, <2>3 DEF Worker, Wait, Fetch, FetchNothing, CheckShutdown, Claim, ClaimAborted,
       Register, RunReturns, Unregister, Finish, IInv, TypeOK
  <2> QED
    BY <1>1, <2>1, <2>2, <2>3 DEF Next, Main
<1>2. IInv /\ [Next]_vars => [A]_vars
  BY <1>1
<1> QED
  BY <1>2, Invariance, PTL DEF Spec, FinalStays

-----------------------------------------------------------------------------
(* The pool of snapshot ids: SnapIdPool. *)

Pools ==
  [next : [Ids -> Ids \cup {-1}], state : [Ids -> {"free", "allocated", "timed"}],
   timeout : [Ids -> (-HalfInt)..(HalfInt - 1)],
   firstFree : Ids \cup {-1}, firstTimed : Ids \cup {-1}, lastTimed : Ids \cup {-1},
   usage : Int, inUsage : Int]

\* the ids of p in state s
Those(p, s) == {i \in Ids : p.state[i] = s}

\* f lists the n ids of S, in the order of the links from first on
Lists(next, S, first, n, f) ==
  /\ \A i, j \in 1..n : f[i] = f[j] => i = j
  /\ S = {f[i] : i \in 1..n}
  /\ first = IF n = 0 THEN -1 ELSE f[1]
  /\ \A i \in 1..n : next[f[i]] = IF i = n THEN -1 ELSE f[i + 1]

\* f lists the free ids of p, and t those that rest
Shape(p, m, f, n, t) ==
  /\ Lists(p.next, Those(p, "free"), p.firstFree, m, f)
  /\ Lists(p.next, Those(p, "timed"), p.firstTimed, n, t)
  /\ p.lastTimed = IF n = 0 THEN -1 ELSE t[n]
  /\ p.inUsage = Cardinality(Those(p, "allocated"))
  /\ p.usage = Cardinality(Those(p, "allocated") \cup Those(p, "timed"))

\* the n ids of t were given back in this order
Rising(n, t) == \A i, j \in 1..n : i <= j => freedAt[t[i]] <= freedAt[t[j]]

\* p is a pool, and its lists and counters say the same as its states
Shaped(p) ==
  /\ p \in Pools
  /\ \E m, n \in Nat : \E f \in [1..m -> Ids], t \in [1..n -> Ids] :
       Shape(p, m, f, n, t) /\ Rising(n, t)

(* The inductive invariant. *)
PoolIInv ==
  /\ Shaped(pool)
  /\ now \in 0..MaxTime /\ freedAt \in [Ids -> 0..MaxTime] /\ \A i \in Ids : freedAt[i] <= now

-----------------------------------------------------------------------------
(* Lists linked by next. *)

\* x before, the rest of, and x after the n ids of f
Before(x, n, f) == [i \in 1..(n + 1) |-> IF i = 1 THEN x ELSE f[i - 1]]
Rest(n, f) == [i \in 1..(n - 1) |-> f[i + 1]]
After(n, f, x) == [i \in 1..(n + 1) |-> IF i = n + 1 THEN x ELSE f[i]]

(* An id linked before the first of a list makes a list of one more. *)
LEMMA BeforeLists ==
  ASSUME NEW next \in [Ids -> Ids \cup {-1}], NEW S, NEW first \in Ids \cup {-1},
         NEW n \in Nat, NEW f \in [1..n -> Ids], NEW x \in Ids \ S,
         Lists(next, S, first, n, f)
  PROVE  /\ Before(x, n, f) \in [1..(n + 1) -> Ids]
         /\ Lists([next EXCEPT ![x] = first], S \cup {x}, x, n + 1, Before(x, n, f))
<1> DEFINE h == Before(x, n, f)
           new == [next EXCEPT ![x] = first]
<1>1. /\ h[1] = x
      /\ \A i \in 1..n : h[i + 1] = f[i] /\ f[i] \in S /\ f[i] # x
      /\ \A i \in 1..(n + 1) : i = 1 \/ i - 1 \in 1..n
      /\ \A i \in 1..(n + 1) : i # 1 => h[i] = f[i - 1]
  BY DEF Before, Lists
<1>2. h \in [1..(n + 1) -> Ids]
  BY DEF Before
<1> HIDE DEF h
<1>3. \A i, j \in 1..(n + 1) : h[i] = h[j] => i = j
  <2> SUFFICES ASSUME NEW i \in 1..(n + 1), NEW j \in 1..(n + 1), h[i] = h[j] PROVE i = j
    OBVIOUS
  <2>1. CASE i = 1 \/ j = 1
    BY <1>1, <2>1
  <2>2. CASE i # 1 /\ j # 1
    <3>1. i - 1 \in 1..n /\ j - 1 \in 1..n /\ f[i - 1] = f[j - 1]
      BY <1>1, <2>2
    <3>2. i - 1 = j - 1
      BY <3>1 DEF Lists
    <3> QED
      BY <3>2
  <2> QED
    BY <2>1, <2>2
<1>4. S \cup {x} = {h[i] : i \in 1..(n + 1)}
  <2>1. \A y \in S \cup {x} : \E i \in 1..(n + 1) : y = h[i]
    <3> SUFFICES ASSUME NEW y \in S PROVE \E i \in 1..(n + 1) : y = h[i]
      BY <1>1
    <3>1. PICK i \in 1..n : y = f[i]
      BY DEF Lists
    <3> QED
      BY <1>1, <3>1
  <2>2. \A i \in 1..(n + 1) : h[i] \in S \cup {x}
    BY <1>1
  <2> QED
    BY <2>1, <2>2
<1>5. \A i \in 1..(n + 1) : new[h[i]] = IF i = n + 1 THEN -1 ELSE h[i + 1]
  <2> SUFFICES ASSUME NEW i \in 1..(n + 1)
               PROVE  new[h[i]] = IF i = n + 1 THEN -1 ELSE h[i + 1]
    OBVIOUS
  <2>1. CASE i = 1
    <3>1. new[h[1]] = first
      BY <1>1
    <3>2. first = IF n = 0 THEN -1 ELSE f[1]
      BY DEF Lists
    <3> QED
      BY <1>1, <2>1, <3>1, <3>2
  <2>2. CASE i # 1
    <3>1. i - 1 \in 1..n /\ h[i] = f[i - 1] /\ f[i - 1] # x /\ f[i - 1] \in Ids
      BY <1>1, <2>2
    <3>2. new[h[i]] = next[f[i - 1]]
      BY <3>1
    <3>3. next[f[i - 1]] = IF i - 1 = n THEN -1 ELSE f[(i - 1) + 1]
      BY <3>1 DEF Lists
    <3>4. i # n + 1 => h[i + 1] = f[i]
      BY <1>1, <2>2
    <3> QED
      BY <3>2, <3>3, <3>4
  <2> QED
    BY <2>1, <2>2
<1>6. x = IF n + 1 = 0 THEN -1 ELSE h[1]
  BY <1>1
<1>7. Lists(new, S \cup {x}, x, n + 1, h)
  <2> HIDE DEF new
  <2> QED
    BY <1>3, <1>4, <1>5, <1>6 DEF Lists
<1> QED
  BY <1>2, <1>7 DEF h

(* Without its first id, a list goes on at the link of that id. *)
LEMMA RestLists ==
  ASSUME NEW next \in [Ids -> Ids \cup {-1}], NEW S, NEW first,
         NEW n \in Nat \ {0}, NEW f \in [1..n -> Ids], Lists(next, S, first, n, f)
  PROVE  /\ Rest(n, f) \in [1..(n - 1) -> Ids]
         /\ Lists(next, S \ {f[1]}, next[f[1]], n - 1, Rest(n, f))
<1> DEFINE h == Rest(n, f)
<1>1. \A i \in 1..(n - 1) : h[i] = f[i + 1] /\ i + 1 \in 1..n /\ f[i + 1] # f[1]
  BY DEF Rest, Lists
<1>2. h \in [1..(n - 1) -> Ids]
  BY DEF Rest
<1> HIDE DEF h
<1>3. \A i, j \in 1..(n - 1) : h[i] = h[j] => i = j
  <2> SUFFICES ASSUME NEW i \in 1..(n - 1), NEW j \in 1..(n - 1), h[i] = h[j] PROVE i = j
    OBVIOUS
  <2>1. i + 1 = j + 1
    BY <1>1 DEF Lists
  <2> QED
    BY <2>1
<1>4. S \ {f[1]} = {h[i] : i \in 1..(n - 1)}
  <2>1. \A y \in S \ {f[1]} : \E i \in 1..(n - 1) : y = h[i]
    <3> SUFFICES ASSUME NEW y \in S \ {f[1]} PROVE \E i \in 1..(n - 1) : y = h[i]
      OBVIOUS
    <3>1. PICK i \in 1..n : y = f[i]
      BY DEF Lists
    <3>2. i - 1 \in 1..(n - 1) /\ (i - 1) + 1 = i
      BY <3>1
    <3> QED
      BY <1>1, <3>1, <3>2
  <2>2. \A i \in 1..(n - 1) : h[i] \in S \ {f[1]}
    BY <1>1 DEF Lists
  <2> QED
    BY <2>1, <2>2
<1>5. next[f[1]] = IF n - 1 = 0 THEN -1 ELSE h[1]
  <2>1. next[f[1]] = IF 1 = n THEN -1 ELSE f[1 + 1]
    BY DEF Lists
  <2> QED
    BY <1>1, <2>1
<1>6. \A i \in 1..(n - 1) : next[h[i]] = IF i = n - 1 THEN -1 ELSE h[i + 1]
  <2> SUFFICES ASSUME NEW i \in 1..(n - 1)
               PROVE  next[h[i]] = IF i = n - 1 THEN -1 ELSE h[i + 1]
    OBVIOUS
  <2>1. next[f[i + 1]] = IF i + 1 = n THEN -1 ELSE f[(i + 1) + 1]
    BY <1>1 DEF Lists
  <2>2. i # n - 1 => h[i + 1] = f[(i + 1) + 1]
    BY <1>1
  <2> QED
    BY <1>1, <2>1, <2>2
<1> QED
  BY <1>2, <1>3, <1>4, <1>5, <1>6 DEF Lists, h

(* FreeId links an id behind the last of those that rest. *)
LEMMA AfterLists ==
  ASSUME NEW next \in [Ids -> Ids \cup {-1}], NEW S, NEW first,
         NEW n \in Nat \ {0}, NEW f \in [1..n -> Ids], NEW x \in Ids \ S,
         Lists(next, S, first, n, f)
  PROVE  /\ After(n, f, x) \in [1..(n + 1) -> Ids]
         /\ Lists([[next EXCEPT ![x] = -1] EXCEPT ![f[n]] = x],
                  S \cup {x}, first, n + 1, After(n, f, x))
<1> DEFINE h == After(n, f, x)
           new == [[next EXCEPT ![x] = -1] EXCEPT ![f[n]] = x]
<1>1. /\ h[n + 1] = x
      /\ \A i \in 1..n : h[i] = f[i] /\ f[i] \in S /\ f[i] # x /\ f[i] \in Ids
      /\ n \in 1..n /\ n + 1 \in 1..(n + 1) /\ 1 \in 1..n
      /\ \A i \in 1..(n + 1) : i = n + 1 \/ i \in 1..n
  BY DEF After, Lists
<1>2. h \in [1..(n + 1) -> Ids]
  BY DEF After
<1>3. \A y \in Ids : new[y] = IF y = f[n] THEN x ELSE IF y = x THEN -1 ELSE next[y]
  BY <1>1
<1> HIDE DEF h, new
<1>4. \A i, j \in 1..(n + 1) : h[i] = h[j] => i = j
  <2> SUFFICES ASSUME NEW i \in 1..(n + 1), NEW j \in 1..(n + 1), h[i] = h[j] PROVE i = j
    OBVIOUS
  <2>1. CASE i = n + 1 \/ j = n + 1
    BY <1>1, <2>1
  <2>2. CASE i # n + 1 /\ j # n + 1
    BY <1>1, <2>2 DEF Lists
  <2> QED
    BY <2>1, <2>2
<1>5. S \cup {x} = {h[i] : i \in 1..(n + 1)}
  <2>1. \A y \in S \cup {x} : \E i \in 1..(n + 1) : y = h[i]
    <3> SUFFICES ASSUME NEW y \in S PROVE \E i \in 1..(n + 1) : y = h[i]
      BY <1>1
    <3>1. PICK i \in 1..n : y = f[i]
      BY DEF Lists
    <3>2. i \in 1..(n + 1) /\ h[i] = f[i]
      BY <1>1
    <3> QED
      BY <3>1, <3>2
  <2>2. \A i \in 1..(n + 1) : h[i] \in S \cup {x}
    BY <1>1
  <2> QED
    BY <2>1, <2>2
<1>6. first = IF n + 1 = 0 THEN -1 ELSE h[1]
  BY <1>1 DEF Lists
<1>7. \A i \in 1..(n + 1) : new[h[i]] = IF i = n + 1 THEN -1 ELSE h[i + 1]
  <2> SUFFICES ASSUME NEW i \in 1..(n + 1)
               PROVE  new[h[i]] = IF i = n + 1 THEN -1 ELSE h[i + 1]
    OBVIOUS
  <2>1. CASE i = n + 1
    BY <1>1, <1>3, <2>1
  <2>2. CASE i = n
    BY <1>1, <1>3, <2>2
  <2>3. CASE i # n /\ i # n + 1
    <3>1. i \in 1..n /\ i + 1 \in 1..n
      BY <2>3
    <3>2. f[i] # f[n] /\ f[i] # x /\ f[i] \in Ids
      BY <1>1, <2>3, <3>1 DEF Lists
    <3>3. next[f[i]] = f[i + 1]
      BY <2>3, <3>1 DEF Lists
    <3> QED
      BY <1>1, <1>3, <2>3, <3>1, <3>2, <3>3
  <2> QED
    BY <2>1, <2>2, <2>3
<1> QED
  BY <1>2, <1>4, <1>5, <1>6, <1>7 DEF Lists, h, new

(* With none that rests, FreeId makes a list of one. *)
LEMMA AloneLists ==
  ASSUME NEW next \in [Ids -> Ids \cup {-1}], NEW x \in Ids, NEW f \in [1..0 -> Ids]
  PROVE  /\ After(0, f, x) \in [1..1 -> Ids]
         /\ Lists([next EXCEPT ![x] = -1], {x}, x, 1, After(0, f, x))
<1> DEFINE h == After(0, f, x)
<1>1. h \in [1..1 -> Ids] /\ h[1] = x /\ \A i \in 1..1 : i = 1
  BY DEF After
<1> HIDE DEF h
<1>2. Lists([next EXCEPT ![x] = -1], {x}, x, 1, h)
  BY <1>1 DEF Lists
<1> QED
  BY <1>1, <1>2 DEF h

(* The links of other ids do not matter to a list. *)
LEMMA OtherLists ==
  ASSUME NEW next \in [Ids -> Ids \cup {-1}], NEW new \in [Ids -> Ids \cup {-1}],
         NEW S, NEW first, NEW n \in Nat, NEW f \in [1..n -> Ids],
         Lists(next, S, first, n, f), \A y \in S : new[y] = next[y]
  PROVE  Lists(new, S, first, n, f)
BY DEF Lists

(* A list has as many entries as its set has ids, and no end when it is empty. *)
LEMMA ListsSize ==
  ASSUME NEW next, NEW S, NEW first, NEW n \in Nat, NEW f \in [1..n -> Ids],
         Lists(next, S, first, n, f)
  PROVE  /\ n = Cardinality(S) /\ n <= MaxIds /\ S \subseteq Ids /\ IsFiniteSet(S)
         /\ n = 0 <=> S = {}
         /\ n = 0 <=> first = -1
         /\ n # 0 => 1 \in 1..n /\ f[1] \in S /\ first = f[1]
<1>1. IsFiniteSet(1..n) /\ Cardinality(1..n) = n
  BY FS_Interval
<1>2. f \in Bijection(1..n, S)
  BY DEF Lists, Bijection, Injection, Surjection, IsInjective
<1>3. IsFiniteSet(S) /\ Cardinality(S) = n
  BY <1>1, <1>2, FS_Bijection DEF ExistsBijection
<1>4. S \subseteq Ids
  BY DEF Lists
<1>5. IsFiniteSet(Ids) /\ Cardinality(Ids) = MaxIds
  BY FS_Interval, PoolAssumption DEF Ids
<1>6. n <= MaxIds
  BY <1>3, <1>4, <1>5, FS_Subset
<1>7. n # 0 => 1 \in 1..n /\ f[1] \in S /\ first = f[1] /\ f[1] # -1
  <2>1. n # 0 => 1 \in 1..n
    OBVIOUS
  <2>2. -1 \notin Ids
    BY PoolAssumption DEF Ids
  <2> QED
    BY <2>1, <2>2 DEF Lists
<1>8. n = 0 => S = {} /\ first = -1
  BY DEF Lists
<1> QED
  BY <1>3, <1>4, <1>6, <1>7, <1>8
-----------------------------------------------------------------------------
(* Numbers and recursive functions. *)

(* The natural numbers are well founded. *)
LEMMA LessIsWellFounded == IsWellFoundedOn({p \in Nat \X Nat : p[1] < p[2]}, Nat)
BY NatLessThanWellFounded DEF OpToRel

(* A set of numbers has a least one. *)
LEMMA LeastExists ==
  ASSUME NEW S \in SUBSET Nat, S # {}
  PROVE  \E m \in S : \A k \in S : m <= k
<1> DEFINE R == {p \in Nat \X Nat : p[1] < p[2]}
<1>1. PICK m \in S : \A k \in S : ~(<<k, m>> \in R)
  BY LessIsWellFounded, WFMin
<1>2. ASSUME NEW k \in S PROVE m <= k
  <2>1. k \in Nat /\ m \in Nat
    OBVIOUS
  <2>2. CASE k < m
    <3>1. <<k, m>> \in Nat \X Nat /\ <<k, m>>[1] < <<k, m>>[2]
      BY <2>1, <2>2
    <3>2. <<k, m>> \in R
      BY <3>1
    <3> QED
      BY <1>1, <3>2
  <2> QED
    BY <2>1, <2>2
<1> QED
  BY <1>2

(* The recursive functions of the model: H makes each value from the one before. *)
Runs(g, n, a, H) == g[0] = a /\ \A k \in 1..n : g[k] = H[<<g[k - 1], k>>]

(* There is a function that makes each value from the one before. *)
LEMMA RunExists ==
  ASSUME NEW S, NEW a \in S, NEW L \in Nat, NEW H \in [S \X (1..L) -> S]
  PROVE  \E g \in [0..L -> S] : Runs(g, L, a, H)
<1> DEFINE Good(n) == \E g \in [0..n -> S] : Runs(g, n, a, H)
           Bad == {n \in 0..L : ~Good(n)}
<1>1. SUFFICES ASSUME Bad # {} PROVE FALSE
  <2>1. L \in 0..L
    OBVIOUS
  <2>2. CASE Bad = {}
    BY <2>1, <2>2
  <2> QED
    BY <2>2
<1>2. PICK m \in Bad : \A n \in Bad : m <= n
  <2>1. Bad \in SUBSET Nat
    OBVIOUS
  <2> HIDE DEF Bad
  <2> QED
    BY <1>1, <2>1, LeastExists
<1>3. m \in 0..L /\ ~Good(m)
  OBVIOUS
<1>4. m # 0
  <2> DEFINE z == [k \in 0..0 |-> a]
  <2>1. z \in [0..0 -> S]
    OBVIOUS
  <2>2. z[0] = a /\ 1..0 = {}
    OBVIOUS
  <2>3. Runs(z, 0, a, H)
    BY <2>2 DEF Runs
  <2>4. Good(0)
    BY <2>1, <2>3
  <2> QED
    BY <1>3, <2>4
<1>5. m \in 1..L /\ m - 1 \in 0..L /\ ~(m <= m - 1)
  BY <1>3, <1>4
<1>6. Good(m - 1)
  <2>1. m - 1 \notin Bad
    <3> HIDE DEF Bad
    <3> QED
      BY <1>2, <1>5
  <2> HIDE DEF Good
  <2> QED
    BY <1>5, <2>1
<1>7. PICK g \in [0..(m - 1) -> S] : Runs(g, m - 1, a, H)
  BY <1>6
<1> DEFINE h == [k \in 0..m |-> IF k = m THEN H[<<g[m - 1], m>>] ELSE g[k]]
<1>8. h \in [0..m -> S]
  <2>1. <<g[m - 1], m>> \in S \X (1..L)
    BY <1>5, <1>7
  <2> QED
    BY <1>5, <1>7, <2>1
<1>9. Runs(h, m, a, H)
  <2>1. h[0] = a
    BY <1>5, <1>7 DEF Runs
  <2>2. ASSUME NEW k \in 1..m PROVE h[k] = H[<<h[k - 1], k>>]
    <3>1. k \in 0..m /\ k - 1 \in 0..m /\ k - 1 # m
      BY <1>5
    <3>2. h[k - 1] = g[k - 1]
      BY <3>1
    <3>3. CASE k = m
      BY <3>1, <3>2, <3>3
    <3>4. CASE k # m
      <4>1. k \in 1..(m - 1)
        BY <1>5, <3>4
      <4>2. g[k] = H[<<g[k - 1], k>>]
        BY <4>1, <1>7 DEF Runs
      <4>3. h[k] = g[k]
        BY <3>1, <3>4
      <4> QED
        BY <4>2, <4>3, <3>2
    <3> QED
      BY <3>3, <3>4
  <2> HIDE DEF h
  <2> QED
    BY <2>1, <2>2 DEF Runs
<1>10. Good(m)
  <2> HIDE DEF h
  <2> QED
    BY <1>8, <1>9
<1> QED
  BY <1>10, <1>3

(* Induction up to L, for a set of numbers. *)
LEMMA Induction ==
  ASSUME NEW L \in Nat, NEW G, 0 \in G, \A n \in 1..L : n - 1 \in G => n \in G
  PROVE  \A n \in 0..L : n \in G
<1> DEFINE Bad == {n \in 0..L : n \notin G}
<1>1. SUFFICES ASSUME Bad # {} PROVE FALSE
  OBVIOUS
<1>2. PICK m \in Bad : \A n \in Bad : m <= n
  <2>1. Bad \in SUBSET Nat
    OBVIOUS
  <2> HIDE DEF Bad
  <2> QED
    BY <1>1, <2>1, LeastExists
<1>3. m \in 1..L /\ m - 1 \in 0..L /\ ~(m <= m - 1)
  OBVIOUS
<1>4. m - 1 \in G
  <2>1. m - 1 \notin Bad
    <3> HIDE DEF Bad
    <3> QED
      BY <1>2, <1>3
  <2> QED
    BY <1>3, <2>1
<1> QED
  BY <1>3, <1>4

-----------------------------------------------------------------------------
(* The end of a rest. *)

(* The ids are finitely many, and -1 is none. *)
LEMMA IdsFacts ==
  /\ IsFiniteSet(Ids) /\ -1 \notin Ids /\ 0 \in Ids
  /\ \A S \in SUBSET Ids : IsFiniteSet(S) /\ Cardinality(S) \in Nat
<1>1. IsFiniteSet(Ids)
  BY FS_Interval, PoolAssumption DEF Ids
<1>2. \A S \in SUBSET Ids : IsFiniteSet(S) /\ Cardinality(S) \in Nat
  BY <1>1, FS_Subset, FS_CardinalityType
<1>3. -1 \notin Ids /\ 0 \in Ids
  BY PoolAssumption DEF Ids
<1> QED
  BY <1>1, <1>2, <1>3

(* RemoveFirstTimeout moves the first id that rests to the free ones. *)
LEMMA RemovalMoves ==
  ASSUME NEW p, Shaped(p), p.firstTimed # -1
  PROVE  /\ Shaped(RemoveFirstTimeout(p))
         /\ p.firstTimed \in Those(p, "timed")
         /\ Those(RemoveFirstTimeout(p), "timed") = Those(p, "timed") \ {p.firstTimed}
         /\ Those(RemoveFirstTimeout(p), "allocated") = Those(p, "allocated")
<1> DEFINE q == RemoveFirstTimeout(p)
           id == p.firstTimed
           F == Those(p, "free")
           T == Those(p, "timed")
           A == Those(p, "allocated")
<1>0. PICK m \in Nat, n \in Nat :
        \E f \in [1..m -> Ids], t \in [1..n -> Ids] : Shape(p, m, f, n, t) /\ Rising(n, t)
  BY DEF Shaped
<1>1. PICK f \in [1..m -> Ids], t \in [1..n -> Ids] : Shape(p, m, f, n, t) /\ Rising(n, t)
  BY <1>0
<1>2. /\ p \in Pools /\ Lists(p.next, F, p.firstFree, m, f)
      /\ Lists(p.next, T, p.firstTimed, n, t)
      /\ p.next \in [Ids -> Ids \cup {-1}] /\ p.firstFree \in Ids \cup {-1}
  BY <1>1 DEF Shape, Shaped, Pools
<1>3. n # 0 /\ 1 \in 1..n /\ id = t[1] /\ id \in T /\ id \in Ids
  BY <1>2, ListsSize DEF Those
<1>4. /\ q.next = [p.next EXCEPT ![id] = p.firstFree]
      /\ q.state = [p.state EXCEPT ![id] = "free"]
      /\ q.firstFree = id /\ q.firstTimed = p.next[id]
      /\ q.lastTimed = IF p.next[id] = -1 THEN -1 ELSE p.lastTimed
      /\ q.usage = p.usage - 1 /\ q.inUsage = p.inUsage /\ q.timeout = p.timeout
  BY <1>2 DEF RemoveFirstTimeout, Pools
<1>5. q \in Pools
  <2>1. [p.next EXCEPT ![id] = p.firstFree] \in [Ids -> Ids \cup {-1}]
    BY <1>2
  <2>2. [p.state EXCEPT ![id] = "free"] \in [Ids -> {"free", "allocated", "timed"}]
    BY <1>2 DEF Pools
  <2>3. p.next[id] \in Ids \cup {-1} /\ id \in Ids \cup {-1} /\ p.usage - 1 \in Int
    BY <1>2, <1>3 DEF Pools
  <2>4. (IF p.next[id] = -1 THEN -1 ELSE p.lastTimed) \in Ids \cup {-1}
    BY <1>2 DEF Pools
  <2> QED
    BY <1>2, <2>1, <2>2, <2>3, <2>4 DEF RemoveFirstTimeout, Pools
<1> HIDE DEF q
<1>6. Those(q, "free") = F \cup {id} /\ Those(q, "timed") = T \ {id} /\ Those(q, "allocated") = A
  BY <1>2, <1>3, <1>4 DEF Those, Pools
<1>7. /\ Before(id, m, f) \in [1..(m + 1) -> Ids]
      /\ Lists(q.next, F \cup {id}, id, m + 1, Before(id, m, f))
  <2>1. id \in Ids \ F
    BY <1>3 DEF Those
  <2> HIDE DEF id, F
  <2>2. Lists([p.next EXCEPT ![id] = p.firstFree], F \cup {id}, id, m + 1, Before(id, m, f))
    BY <1>2, <2>1, BeforeLists
  <2>3. Before(id, m, f) \in [1..(m + 1) -> Ids]
    BY <1>2, <2>1, BeforeLists
  <2> QED
    BY <1>4, <2>2, <2>3
<1>8. /\ Rest(n, t) \in [1..(n - 1) -> Ids]
      /\ Lists(p.next, T \ {id}, p.next[id], n - 1, Rest(n, t))
  <2> HIDE DEF T
  <2> QED
    BY <1>2, <1>3, RestLists
<1>9. Lists(q.next, T \ {id}, p.next[id], n - 1, Rest(n, t))
  <2>1. q.next \in [Ids -> Ids \cup {-1}]
    BY <1>5 DEF Pools
  <2>2. \A y \in T \ {id} : q.next[y] = p.next[y]
    BY <1>2, <1>4 DEF Those
  <2>3. n - 1 \in Nat
    BY <1>3
  <2> DEFINE S == T \ {id}
             k == n - 1
             h == Rest(n, t)
  <2>4. /\ Lists(p.next, S, p.next[id], k, h) /\ h \in [1..k -> Ids] /\ k \in Nat
        /\ \A y \in S : q.next[y] = p.next[y]
    BY <1>8, <2>2, <2>3
  <2> HIDE DEF S, k, h, id
  <2>5. Lists(q.next, S, p.next[id], k, h)
    BY <1>2, <2>1, <2>4, OtherLists
  <2> QED
    BY <2>5 DEF S, k, h
<1>10. q.lastTimed = IF n - 1 = 0 THEN -1 ELSE Rest(n, t)[n - 1]
  <2>1. n - 1 = 0 <=> p.next[id] = -1
    <3> HIDE DEF T, id
    <3> QED
      BY <1>3, <1>8, ListsSize
  <2>2. n - 1 # 0 => Rest(n, t)[n - 1] = t[n]
    BY <1>3 DEF Rest
  <2>3. p.lastTimed = t[n]
    BY <1>1, <1>3 DEF Shape
  <2> QED
    BY <1>4, <2>1, <2>2, <2>3
<1>11. q.inUsage = Cardinality(A)
  BY <1>1, <1>4 DEF Shape
<1>12. q.usage = Cardinality(A \cup (T \ {id}))
  <2>1. A \cup (T \ {id}) = (A \cup T) \ {id} /\ id \in A \cup T
    BY <1>3 DEF Those
  <2>2. A \cup T \in SUBSET Ids
    BY DEF Those
  <2>3. Cardinality((A \cup T) \ {id}) = Cardinality(A \cup T) - 1
    BY <2>1, <2>2, IdsFacts, FS_RemoveElement
  <2> QED
    BY <1>1, <1>4, <2>1, <2>3 DEF Shape
<1>13. Shape(q, m + 1, Before(id, m, f), n - 1, Rest(n, t))
  BY <1>4, <1>6, <1>7, <1>9, <1>10, <1>11, <1>12 DEF Shape
<1>14. Rising(n - 1, Rest(n, t))
  <2>1. \A i \in 1..(n - 1) : Rest(n, t)[i] = t[i + 1] /\ i + 1 \in 1..n
    BY DEF Rest
  <2> SUFFICES ASSUME NEW i \in 1..(n - 1), NEW j \in 1..(n - 1), i <= j
               PROVE  freedAt[Rest(n, t)[i]] <= freedAt[Rest(n, t)[j]]
    BY DEF Rising
  <2>2. i + 1 <= j + 1
    OBVIOUS
  <2> QED
    BY <1>1, <2>1, <2>2 DEF Rising
<1>15. Shaped(q)
  <2>1. m + 1 \in Nat /\ n - 1 \in Nat
    BY <1>3
  <2> HIDE DEF id
  <2> QED
    BY <1>5, <1>7, <1>8, <1>13, <1>14, <2>1 DEF Shaped
<1> QED
  BY <1>3, <1>6, <1>15 DEF q

(* The loops of NewId and TimeoutIds move ids that rest to the free ones; that of
   TimeoutIds, all. *)
LEMMA RemoveTimeoutsMove ==
  ASSUME Shaped(pool), NEW due \in SUBSET Ids
  PROVE  /\ Shaped(RemoveTimeouts(pool, due))
         /\ Those(RemoveTimeouts(pool, due), "allocated") = Those(pool, "allocated")
         /\ Those(RemoveTimeouts(pool, due), "timed") \subseteq Those(pool, "timed")
         /\ due = Ids => Those(RemoveTimeouts(pool, due), "timed") = {}
<1> DEFINE K == {p \in Pools : /\ Shaped(p) /\ Those(p, "allocated") = Those(pool, "allocated")
                               /\ Those(p, "timed") \subseteq Those(pool, "timed")}
           H == [x \in K \X (1..MaxIds) |-> Pass(x[1], due)]
           r[n \in 0..MaxIds] == IF n = 0 THEN pool ELSE Pass(r[n - 1], due)
           Left(k) == /\ r[k] \in K
                      /\ due = Ids => \/ r[k].firstTimed = -1
                                      \/ Cardinality(Those(r[k], "timed")) <= MaxIds - k
<1>1. pool \in K /\ MaxIds \in Nat
  BY PoolAssumption DEF Shaped
<1>2. \A p \in K : Pass(p, due) \in K
  <2> SUFFICES ASSUME NEW p \in K, p.firstTimed \in due PROVE RemoveFirstTimeout(p) \in K
    BY DEF Pass
  <2>1. p.firstTimed # -1
    BY IdsFacts
  <2> QED
    BY <2>1, RemovalMoves DEF Shaped
<1>3. RemoveTimeouts(pool, due) = r[MaxIds]
  BY DEF RemoveTimeouts
<1> HIDE DEF K
<1>4. H \in [K \X (1..MaxIds) -> K]
  BY <1>2
<1>5. PICK g \in [0..MaxIds -> K] : Runs(g, MaxIds, pool, H)
  <2> HIDE DEF H
  <2> QED
    BY <1>1, <1>4, RunExists
<1>6. g = [n \in 0..MaxIds |-> IF n = 0 THEN pool ELSE Pass(g[n - 1], due)]
  <2>1. \A n \in 0..MaxIds : g[n] = IF n = 0 THEN pool ELSE Pass(g[n - 1], due)
    <3> SUFFICES ASSUME NEW n \in 0..MaxIds, n # 0 PROVE g[n] = Pass(g[n - 1], due)
      BY <1>5 DEF Runs
    <3>1. n \in 1..MaxIds /\ n - 1 \in 0..MaxIds
      BY <1>1
    <3>2. g[n] = H[<<g[n - 1], n>>]
      BY <1>5, <3>1 DEF Runs
    <3>3. <<g[n - 1], n>> \in K \X (1..MaxIds)
      BY <1>5, <3>1
    <3> QED
      BY <3>2, <3>3
  <2> QED
    BY <2>1, <1>5
<1>7. r = [n \in 0..MaxIds |-> IF n = 0 THEN pool ELSE Pass(r[n - 1], due)]
  BY <1>6
<1> HIDE DEF r
<1>8. r[0] = pool /\ \A n \in 1..MaxIds : r[n] = Pass(r[n - 1], due)
  <2>1. \A n \in 1..MaxIds : n \in 0..MaxIds /\ n # 0
    OBVIOUS
  <2> QED
    BY <1>1, <1>7, <2>1
<1>9. Left(0)
  <2>1. Those(pool, "timed") \subseteq Ids /\ Cardinality(Ids) = MaxIds
    BY FS_Interval, PoolAssumption DEF Those, Ids
  <2>2. Cardinality(Those(pool, "timed")) <= MaxIds
    BY <2>1, IdsFacts, FS_Subset
  <2> QED
    BY <1>1, <1>8, <2>2
<1>10. ASSUME NEW n \in 1..MaxIds, Left(n - 1) PROVE Left(n)
  <2>1. r[n] = Pass(r[n - 1], due) /\ r[n - 1] \in K /\ r[n] \in K
    BY <1>2, <1>8, <1>10
  <2>2. CASE r[n - 1].firstTimed = -1
    <3>1. Pass(r[n - 1], due) = r[n - 1]
      BY <2>2, IdsFacts DEF Pass
    <3> QED
      BY <2>1, <2>2, <3>1
  <2>3. CASE due = Ids /\ r[n - 1].firstTimed # -1
    <3>1. Shaped(r[n - 1]) /\ r[n - 1].firstTimed \in Ids
      BY <2>1, <2>3 DEF K, Pools
    <3>2. r[n] = RemoveFirstTimeout(r[n - 1])
      BY <2>1, <2>3, <3>1 DEF Pass
    <3>3. /\ r[n - 1].firstTimed \in Those(r[n - 1], "timed")
          /\ Those(r[n], "timed") = Those(r[n - 1], "timed") \ {r[n - 1].firstTimed}
      BY <2>3, <3>1, <3>2, RemovalMoves
    <3>4. Those(r[n - 1], "timed") \in SUBSET Ids
      BY DEF Those
    <3>5. Cardinality(Those(r[n], "timed")) = Cardinality(Those(r[n - 1], "timed")) - 1
      BY <3>3, <3>4, IdsFacts, FS_RemoveElement
    <3>6. Cardinality(Those(r[n - 1], "timed")) <= MaxIds - (n - 1)
      BY <1>10, <2>3
    <3>7. Cardinality(Those(r[n - 1], "timed")) \in Nat
      BY <3>4, IdsFacts
    <3>8. Cardinality(Those(r[n], "timed")) <= MaxIds - n
      BY <1>1, <3>5, <3>6, <3>7
    <3> QED
      BY <2>1, <3>8
  <2>4. CASE due # Ids
    BY <2>1, <2>4
  <2> QED
    BY <2>2, <2>3, <2>4
<1> HIDE DEF Left
<1>11. Left(MaxIds)
  <2>1. 0 \in {k \in 0..MaxIds : Left(k)}
    BY <1>1, <1>9
  <2>2. \A n \in 1..MaxIds : n - 1 \in {k \in 0..MaxIds : Left(k)}
                               => n \in {k \in 0..MaxIds : Left(k)}
    BY <1>10
  <2>3. \A n \in 0..MaxIds : n \in {k \in 0..MaxIds : Left(k)}
    BY <1>1, <2>1, <2>2, Induction
  <2> QED
    BY <1>1, <2>3
<1>12. r[MaxIds] \in K
  BY <1>11 DEF Left
<1>13. due = Ids => Those(r[MaxIds], "timed") = {}
  <2> SUFFICES ASSUME due = Ids PROVE Those(r[MaxIds], "timed") = {}
    OBVIOUS
  <2>1. CASE r[MaxIds].firstTimed = -1
    <3>0. PICK m \in Nat, n \in Nat : \E f \in [1..m -> Ids], t \in [1..n -> Ids] :
            Shape(r[MaxIds], m, f, n, t)
      BY <1>12 DEF K, Shaped
    <3>1. PICK f \in [1..m -> Ids], t \in [1..n -> Ids] : Shape(r[MaxIds], m, f, n, t)
      BY <3>0
    <3>2. Lists(r[MaxIds].next, Those(r[MaxIds], "timed"), r[MaxIds].firstTimed, n, t)
      BY <3>1 DEF Shape
    <3> QED
      BY <2>1, <3>2, ListsSize
  <2>2. CASE Cardinality(Those(r[MaxIds], "timed")) <= MaxIds - MaxIds
    <3>1. Those(r[MaxIds], "timed") \in SUBSET Ids
      BY DEF Those
    <3>2. Cardinality(Those(r[MaxIds], "timed")) = 0
      BY <1>1, <2>2, <3>1, IdsFacts
    <3> QED
      BY <3>1, <3>2, IdsFacts, FS_EmptySet
  <2> QED
    BY <1>11, <2>1, <2>2 DEF Left
<1> QED
  BY <1>3, <1>12, <1>13 DEF K

-----------------------------------------------------------------------------
(* The steps. *)

(* Reset links all ids into the list of free ones. *)
LEMMA InitShaped == PoolInit => PoolIInv
<1> SUFFICES ASSUME PoolInit PROVE PoolIInv
  OBVIOUS
<1> DEFINE f == [i \in 1..MaxIds |-> i - 1]
           t == [i \in 1..0 |-> 0]
<1>1. MaxIds \in Nat /\ MaxIds # 0 /\ HalfInt \in Nat /\ HalfInt # 0 /\ MaxTime \in Nat
  BY PoolAssumption
<1>2. pool = Reset /\ pool.state = [i \in Ids |-> "free"]
      /\ pool.next = [i \in Ids |-> IF i = MaxIds - 1 THEN -1 ELSE i + 1]
  BY DEF PoolInit, Reset
<1>3. pool \in Pools
  <2>1. pool.next \in [Ids -> Ids \cup {-1}]
    BY <1>1, <1>2 DEF Ids
  <2>2. pool.timeout \in [Ids -> (-HalfInt)..(HalfInt - 1)]
    BY <1>1, <1>2 DEF Reset
  <2>3. pool.state \in [Ids -> {"free", "allocated", "timed"}]
    BY <1>2
  <2> QED
    BY <1>2, <2>1, <2>2, <2>3, IdsFacts DEF Pools, Reset
<1>4. Those(pool, "free") = Ids /\ Those(pool, "allocated") = {} /\ Those(pool, "timed") = {}
  BY <1>2 DEF Those
<1>5. f \in [1..MaxIds -> Ids] /\ \A i \in 1..MaxIds : f[i] = i - 1
  BY <1>1 DEF Ids
<1>6. t \in [1..0 -> Ids] /\ 1..0 = {}
  OBVIOUS
<1> HIDE DEF f, t
<1>7. Lists(pool.next, Ids, pool.firstFree, MaxIds, f)
  <2>1. \A i, j \in 1..MaxIds : f[i] = f[j] => i = j
    BY <1>5
  <2>2. Ids = {f[i] : i \in 1..MaxIds}
    <3>1. \A y \in Ids : y + 1 \in 1..MaxIds /\ f[y + 1] = y
      BY <1>1, <1>5 DEF Ids
    <3> QED
      BY <1>5, <3>1
  <2>3. pool.firstFree = f[1]
    BY <1>1, <1>2, <1>5 DEF Reset
  <2>4. \A i \in 1..MaxIds : pool.next[f[i]] = IF i = MaxIds THEN -1 ELSE f[i + 1]
    <3> SUFFICES ASSUME NEW i \in 1..MaxIds
                 PROVE  pool.next[f[i]] = IF i = MaxIds THEN -1 ELSE f[i + 1]
      OBVIOUS
    <3>1. f[i] = i - 1 /\ i - 1 \in Ids
      BY <1>5
    <3>3. i - 1 = MaxIds - 1 <=> i = MaxIds
      BY <1>1
    <3>2. i # MaxIds => i + 1 \in 1..MaxIds /\ f[i + 1] = (i - 1) + 1
      BY <1>1, <1>5
    <3> QED
      BY <1>2, <3>1, <3>2, <3>3
  <2> QED
    BY <1>1, <2>1, <2>2, <2>3, <2>4 DEF Lists
<1>8. Lists(pool.next, {}, pool.firstTimed, 0, t)
  BY <1>2, <1>6 DEF Lists, Reset
<1>9. Shape(pool, MaxIds, f, 0, t) /\ Rising(0, t)
  <2>1. {} \cup {} = {}
    OBVIOUS
  <2> QED
    BY <1>2, <1>4, <1>6, <1>7, <1>8, <2>1, FS_EmptySet DEF Shape, Rising, Reset
<1>10. Shaped(pool)
  BY <1>1, <1>3, <1>5, <1>6, <1>9 DEF Shaped
<1>11. now = 0 /\ freedAt = [i \in Ids |-> 0] /\ 0 \in 0..MaxTime
  BY <1>1 DEF PoolInit
<1> QED
  BY <1>10, <1>11 DEF PoolIInv

(* NewId moves the first free id to those in use. *)
LEMMA TakeMoves ==
  ASSUME NEW p, Shaped(p), p.firstFree # -1
  PROVE  LET id == p.firstFree
             q == [p EXCEPT !.firstFree = p.next[id], !.state[id] = "allocated",
                            !.usage = @ + 1, !.inUsage = @ + 1]
         IN  /\ Shaped(q) /\ id \in Those(p, "free")
             /\ Those(q, "allocated") = Those(p, "allocated") \cup {id}
             /\ Those(q, "timed") = Those(p, "timed")
<1> DEFINE id == p.firstFree
           q == [p EXCEPT !.firstFree = p.next[id], !.state[id] = "allocated",
                          !.usage = @ + 1, !.inUsage = @ + 1]
           F == Those(p, "free")
           T == Those(p, "timed")
           A == Those(p, "allocated")
<1>1. PICK m \in Nat, n \in Nat :
        \E f \in [1..m -> Ids], t \in [1..n -> Ids] : Shape(p, m, f, n, t) /\ Rising(n, t)
  BY DEF Shaped
<1>2. PICK f \in [1..m -> Ids], t \in [1..n -> Ids] : Shape(p, m, f, n, t) /\ Rising(n, t)
  BY <1>1
<1>3. /\ p \in Pools /\ Lists(p.next, F, p.firstFree, m, f)
      /\ Lists(p.next, T, p.firstTimed, n, t)
      /\ p.next \in [Ids -> Ids \cup {-1}]
  BY <1>2 DEF Shape, Shaped, Pools
<1>4. m # 0 /\ 1 \in 1..m /\ id = f[1] /\ id \in F /\ id \in Ids
  BY <1>3, ListsSize DEF Those
<1>5. /\ q.next = p.next /\ q.state = [p.state EXCEPT ![id] = "allocated"]
      /\ q.firstFree = p.next[id] /\ q.firstTimed = p.firstTimed /\ q.lastTimed = p.lastTimed
      /\ q.usage = p.usage + 1 /\ q.inUsage = p.inUsage + 1
  BY <1>3 DEF Pools
<1>6. q \in Pools
  <2>1. [p.state EXCEPT ![id] = "allocated"] \in [Ids -> {"free", "allocated", "timed"}]
    BY <1>3 DEF Pools
  <2>2. p.next[id] \in Ids \cup {-1} /\ p.usage + 1 \in Int /\ p.inUsage + 1 \in Int
    BY <1>3, <1>4 DEF Pools
  <2> QED
    BY <1>3, <2>1, <2>2 DEF Pools
<1> HIDE DEF q
<1>7. Those(q, "free") = F \ {id} /\ Those(q, "allocated") = A \cup {id} /\ Those(q, "timed") = T
  BY <1>3, <1>4, <1>5 DEF Those, Pools
<1>8. /\ Rest(m, f) \in [1..(m - 1) -> Ids]
      /\ Lists(p.next, F \ {id}, p.next[id], m - 1, Rest(m, f))
  <2> HIDE DEF F
  <2> QED
    BY <1>3, <1>4, RestLists
<1>9. q.inUsage = Cardinality(A \cup {id}) /\ q.usage = Cardinality((A \cup {id}) \cup T)
  <2>1. A \in SUBSET Ids /\ A \cup T \in SUBSET Ids /\ id \notin A /\ id \notin A \cup T
    BY <1>4 DEF Those
  <2>2. Cardinality(A \cup {id}) = Cardinality(A) + 1
    BY <2>1, IdsFacts, FS_AddElement
  <2>3. Cardinality((A \cup T) \cup {id}) = Cardinality(A \cup T) + 1
    BY <2>1, IdsFacts, FS_AddElement
  <2>4. (A \cup {id}) \cup T = (A \cup T) \cup {id}
    OBVIOUS
  <2> QED
    BY <1>2, <1>5, <2>2, <2>3, <2>4 DEF Shape
<1>10. Shape(q, m - 1, Rest(m, f), n, t)
  BY <1>2, <1>3, <1>5, <1>7, <1>8, <1>9 DEF Shape
<1>11. Shaped(q)
  <2>1. m - 1 \in Nat
    BY <1>4
  <2> QED
    BY <1>2, <1>6, <1>8, <1>10, <2>1 DEF Shaped
<1> QED
  BY <1>4, <1>7, <1>11 DEF q

(* FreeId moves an id in use to the end of those that rest. *)
LEMMA FreeIdMoves ==
  ASSUME PoolIInv, NEW id \in Ids, FreeId(id)
  PROVE  /\ Shaped(pool)'
         /\ id \in Those(pool, "allocated")
         /\ Those(pool', "allocated") = Those(pool, "allocated") \ {id}
         /\ Those(pool', "timed") = Those(pool, "timed") \cup {id}
<1> DEFINE F == Those(pool, "free")
           T == Those(pool, "timed")
           A == Those(pool, "allocated")
           end == AsInt(now + Quarantine)
           p == [pool EXCEPT !.inUsage = @ - 1, !.state[id] = "timed", !.next[id] = -1,
                             !.timeout[id] = end, !.lastTimed = id]
<1>1. PICK m \in Nat, n \in Nat :
        \E f \in [1..m -> Ids], t \in [1..n -> Ids] : Shape(pool, m, f, n, t) /\ Rising(n, t)
  BY DEF PoolIInv, Shaped
<1>2. PICK f \in [1..m -> Ids], t \in [1..n -> Ids] : Shape(pool, m, f, n, t) /\ Rising(n, t)
  BY <1>1
<1>3. /\ pool \in Pools /\ Lists(pool.next, F, pool.firstFree, m, f)
      /\ Lists(pool.next, T, pool.firstTimed, n, t)
      /\ pool.next \in [Ids -> Ids \cup {-1}] /\ pool.firstTimed \in Ids \cup {-1}
  BY <1>2 DEF Shape, PoolIInv, Shaped, Pools
<1>4. pool.state[id] = "allocated" /\ id \in A /\ id \notin F /\ id \notin T /\ id # -1
  BY IdsFacts DEF FreeId, Those
<1>5. end \in (-HalfInt)..(HalfInt - 1)
  <2>1. now \in Int /\ Quarantine \in Int /\ HalfInt \in Nat /\ HalfInt # 0
    BY PoolAssumption DEF PoolIInv
  <2>2. (now + Quarantine + HalfInt) % (2 * HalfInt) \in 0..(2 * HalfInt - 1)
    BY <2>1
  <2> QED
    BY <2>1, <2>2 DEF AsInt
<1> HIDE DEF end
<1>6. /\ p \in Pools
      /\ p.next = [pool.next EXCEPT ![id] = -1] /\ p.state = [pool.state EXCEPT ![id] = "timed"]
      /\ p.firstFree = pool.firstFree /\ p.firstTimed = pool.firstTimed /\ p.lastTimed = id
      /\ p.usage = pool.usage /\ p.inUsage = pool.inUsage - 1
  <2>1. [pool.next EXCEPT ![id] = -1] \in [Ids -> Ids \cup {-1}]
    BY <1>3
  <2>2. [pool.state EXCEPT ![id] = "timed"] \in [Ids -> {"free", "allocated", "timed"}]
    BY <1>3 DEF Pools
  <2>3. [pool.timeout EXCEPT ![id] = end] \in [Ids -> (-HalfInt)..(HalfInt - 1)]
    BY <1>3, <1>5 DEF Pools
  <2>4. pool.inUsage - 1 \in Int
    BY <1>3 DEF Pools
  <2> QED
    BY <1>3, <2>1, <2>2, <2>3, <2>4 DEF Pools
<1>7. pool' = IF pool.lastTimed # -1 THEN [p EXCEPT !.next[pool.lastTimed] = id]
                                     ELSE [p EXCEPT !.firstTimed = id]
  BY DEF FreeId, end
<1> HIDE DEF p
<1>8. pool.lastTimed = IF n = 0 THEN -1 ELSE t[n]
  BY <1>2 DEF Shape
<1> DEFINE h == After(n, t, id)
<1>9. /\ pool' \in Pools
      /\ h \in [1..(n + 1) -> Ids]
      /\ Lists(pool'.next, T \cup {id}, pool'.firstTimed, n + 1, h)
      /\ \A y \in F : pool'.next[y] = pool.next[y]
      /\ pool'.state = p.state /\ pool'.firstFree = p.firstFree /\ pool'.lastTimed = id
      /\ pool'.usage = p.usage /\ pool'.inUsage = p.inUsage
  <2>1. CASE n = 0
    <3>1. pool' = [p EXCEPT !.firstTimed = id]
      BY <1>7, <1>8, <2>1
    <3>2. /\ pool' \in Pools /\ pool'.next = p.next /\ pool'.firstTimed = id
          /\ pool'.state = p.state /\ pool'.firstFree = p.firstFree /\ pool'.lastTimed = id
          /\ pool'.usage = p.usage /\ pool'.inUsage = p.inUsage
      BY <1>6, <3>1 DEF Pools
    <3>3. T = {}
      <4> HIDE DEF T
      <4> QED
        BY <1>3, <2>1, ListsSize
    <3>4. t \in [1..0 -> Ids]
      BY <2>1
    <3>5. h \in [1..1 -> Ids] /\ Lists(p.next, {id}, id, 1, h)
      <4>1. h = After(0, t, id)
        BY <2>1
      <4>2. /\ After(0, t, id) \in [1..1 -> Ids]
            /\ Lists([pool.next EXCEPT ![id] = -1], {id}, id, 1, After(0, t, id))
        BY <1>3, <3>4, AloneLists
      <4> HIDE DEF h
      <4> QED
        BY <1>6, <4>1, <4>2
    <3>6. n + 1 = 1 /\ T \cup {id} = {id}
      BY <2>1, <3>3
    <3>7. Lists(pool'.next, T \cup {id}, pool'.firstTimed, n + 1, h)
      BY <3>2, <3>5, <3>6
    <3>8. h \in [1..(n + 1) -> Ids]
      BY <3>5, <3>6
    <3>9. \A y \in F : pool'.next[y] = pool.next[y]
      BY <1>3, <1>4, <1>6, <3>2 DEF Those
    <3> QED
      BY <3>2, <3>7, <3>8, <3>9
  <2>2. CASE n # 0
    <3>1. n \in 1..n /\ t[n] \in Ids /\ t[n] \in T /\ t[n] \notin F /\ t[n] # -1
      BY <1>3, <2>2, IdsFacts DEF Lists, Those
    <3>2. pool' = [p EXCEPT !.next[t[n]] = id]
      BY <1>7, <1>8, <2>2, <3>1
    <3>3. [p.next EXCEPT ![t[n]] = id] \in [Ids -> Ids \cup {-1}]
      BY <1>6, <3>1 DEF Pools
    <3>4. /\ pool' \in Pools /\ pool'.next = [p.next EXCEPT ![t[n]] = id]
          /\ pool'.firstTimed = pool.firstTimed
          /\ pool'.state = p.state /\ pool'.firstFree = p.firstFree /\ pool'.lastTimed = id
          /\ pool'.usage = p.usage /\ pool'.inUsage = p.inUsage
      BY <1>6, <3>2, <3>3 DEF Pools
    <3>5. n \in Nat \ {0} /\ id \in Ids \ T
      BY <1>4, <2>2
    <3>6. /\ h \in [1..(n + 1) -> Ids]
          /\ Lists([[pool.next EXCEPT ![id] = -1] EXCEPT ![t[n]] = id],
                   T \cup {id}, pool.firstTimed, n + 1, h)
      <4> HIDE DEF T
      <4> QED
        BY <1>3, <3>5, AfterLists
    <3>7. \A y \in F : pool'.next[y] = pool.next[y]
      BY <1>3, <1>4, <1>6, <3>1, <3>4 DEF Those
    <3> QED
      BY <1>6, <3>4, <3>6, <3>7
  <2> QED
    BY <2>1, <2>2
<1>10. /\ Those(pool', "free") = F /\ Those(pool', "timed") = T \cup {id}
       /\ Those(pool', "allocated") = A \ {id}
  <2>1. pool.state \in [Ids -> {"free", "allocated", "timed"}]
    BY <1>3 DEF Pools
  <2>2. \A i \in Ids : pool'.state[i] = IF i = id THEN "timed" ELSE pool.state[i]
    BY <1>6, <1>9, <2>1
  <2> QED
    BY <1>4, <2>2 DEF Those
<1>11. Lists(pool'.next, F, pool'.firstFree, m, f)
  <2>1. pool'.next \in [Ids -> Ids \cup {-1}]
    BY <1>9 DEF Pools
  <2>2. pool'.firstFree = pool.firstFree
    BY <1>6, <1>9
  <2> HIDE DEF F
  <2> QED
    BY <1>3, <1>9, <2>1, <2>2, OtherLists
<1>12. /\ pool'.inUsage = Cardinality(A \ {id})
       /\ pool'.usage = Cardinality((A \ {id}) \cup (T \cup {id}))
  <2>1. A \in SUBSET Ids
    BY DEF Those
  <2>2. Cardinality(A \ {id}) = Cardinality(A) - 1
    BY <1>4, <2>1, IdsFacts, FS_RemoveElement
  <2>3. (A \ {id}) \cup (T \cup {id}) = A \cup T
    BY <1>4
  <2> QED
    BY <1>2, <1>6, <1>9, <2>2, <2>3 DEF Shape
<1>13. pool'.lastTimed = h[n + 1]
  BY <1>9 DEF After
<1> DEFINE new == freedAt'
<1>14. \A i, j \in 1..(n + 1) : i <= j => new[h[i]] <= new[h[j]]
  <2>1. freedAt \in [Ids -> 0..MaxTime] /\ now \in 0..MaxTime /\ \A i \in Ids : freedAt[i] <= now
    BY DEF PoolIInv
  <2>2. new = [freedAt EXCEPT ![id] = now]
    BY DEF FreeId
  <2>3. \A i \in 1..n : h[i] = t[i] /\ t[i] \in Ids /\ t[i] # id
    BY <1>3, <1>4 DEF After, Lists
  <2>4. h[n + 1] = id
    BY DEF After
  <2>5. \A i \in 1..n : new[h[i]] = freedAt[t[i]] /\ freedAt[t[i]] <= now
    BY <2>1, <2>2, <2>3
  <2>6. new[h[n + 1]] = now /\ now <= now
    BY <2>1, <2>2, <2>4
  <2>7. \A i, j \in 1..n : i <= j => freedAt[t[i]] <= freedAt[t[j]]
    BY <1>2 DEF Rising
  <2> HIDE DEF new, h
  <2> SUFFICES ASSUME NEW i \in 1..(n + 1), NEW j \in 1..(n + 1), i <= j
               PROVE  new[h[i]] <= new[h[j]]
    OBVIOUS
  <2>8. CASE j = n + 1
    <3>1. i \in 1..n \/ i = n + 1
      OBVIOUS
    <3> QED
      BY <2>5, <2>6, <2>8, <3>1
  <2>9. CASE j # n + 1
    <3>1. i \in 1..n /\ j \in 1..n
      BY <2>9
    <3> QED
      BY <2>5, <2>7, <3>1
  <2> QED
    BY <2>8, <2>9
<1>15. Shaped(pool)'
  <2>1. Rising(n + 1, h)'
    BY <1>14 DEF Rising
  <2>2. n + 1 # 0 /\ n + 1 \in Nat
    OBVIOUS
  <2> HIDE DEF h
  <2>3. Shape(pool, m, f, n + 1, h)'
    BY <1>9, <1>10, <1>11, <1>12, <1>13, <2>2 DEF Shape
  <2>4. (pool \in Pools)'
    BY <1>9
  <2> QED
    BY <1>9, <2>1, <2>2, <2>3, <2>4 DEF Shaped
<1> QED
  BY <1>4, <1>10, <1>15

(* A pool that is shaped while the times given back stay. *)
LEMMA ShapedNext ==
  ASSUME NEW q, Shaped(q), pool' = q, UNCHANGED freedAt
  PROVE  Shaped(pool)'
BY DEF Shaped, Rising

(* NewId keeps the invariant, and is New or Fails of SnapIds. *)
LEMMA NewIdStep ==
  ASSUME PoolIInv, NewId
  PROVE  PoolIInv' /\ Promise!Next
<1> DEFINE p == RemoveTimeouts(pool, Due)
           id == p.firstFree
           q == [p EXCEPT !.firstFree = p.next[id], !.state[id] = "allocated",
                          !.usage = @ + 1, !.inUsage = @ + 1]
           rested == Those(pool, "timed") \ Those(p, "timed")
<1>1. /\ Shaped(p) /\ Those(p, "allocated") = Those(pool, "allocated")
      /\ Those(p, "timed") \subseteq Those(pool, "timed")
  <2>1. Due \in SUBSET Ids
    BY DEF Due
  <2> QED
    BY <2>1, RemoveTimeoutsMove DEF PoolIInv
<1>2. pool' = (IF id = -1 THEN p ELSE q) /\ UNCHANGED <<now, freedAt>>
  BY DEF NewId
<1> HIDE DEF p
<1>3. /\ rested \in SUBSET InState("timed") /\ InState("timed") \ rested = Those(p, "timed")
      /\ InState("allocated") = Those(p, "allocated")
  BY <1>1 DEF InState, Those
<1> HIDE DEF rested
<1>4. CASE id = -1
  <2>1. pool' = p
    BY <1>2, <1>4
  <2>2. Shaped(pool)'
    BY <1>1, <1>2, <2>1, ShapedNext
  <2>3. Those(p, "free") = {}
    <3>1. PICK m \in Nat, n \in Nat : \E f \in [1..m -> Ids], t \in [1..n -> Ids] :
            Shape(p, m, f, n, t)
      BY <1>1 DEF Shaped
    <3>2. PICK f \in [1..m -> Ids], t \in [1..n -> Ids] : Shape(p, m, f, n, t)
      BY <3>1
    <3>3. Lists(p.next, Those(p, "free"), id, m, f)
      BY <3>2 DEF Shape
    <3> HIDE DEF id
    <3> QED
      BY <1>4, <3>3, ListsSize
  <2>4. Those(p, "allocated") \cup Those(p, "timed") = Ids
    <3>1. \A i \in Ids : p.state[i] \in {"free", "allocated", "timed"}
      BY <1>1 DEF Shaped, Pools
    <3> QED
      BY <2>3, <3>1 DEF Those
  <2>5. InState("allocated")' = Those(p, "allocated") /\ InState("timed")' = Those(p, "timed")
    BY <2>1 DEF InState, Those
  <2>6. Promise!Fails(rested)
    BY <1>3, <2>4, <2>5 DEF Promise!Fails
  <2> QED
    BY <1>2, <1>3, <2>2, <2>6 DEF PoolIInv, Promise!Next
<1>5. CASE id # -1
  <2>1. pool' = q
    BY <1>2, <1>5
  <2>2. /\ Shaped(q) /\ id \in Those(p, "free")
        /\ Those(q, "allocated") = Those(p, "allocated") \cup {id}
        /\ Those(q, "timed") = Those(p, "timed")
    BY <1>1, <1>5, TakeMoves
  <2> HIDE DEF q
  <2>3. Shaped(pool)'
    BY <1>2, <2>1, <2>2, ShapedNext
  <2>4. InState("allocated")' = Those(q, "allocated") /\ InState("timed")' = Those(q, "timed")
    BY <2>1 DEF InState, Those
  <2>5. id \in Ids /\ id \notin Those(p, "allocated") \cup Those(p, "timed")
    BY <2>2 DEF Those
  <2>6. Promise!New(id, rested)
    BY <1>3, <2>2, <2>4, <2>5 DEF Promise!New
  <2> QED
    BY <1>2, <1>3, <2>3, <2>5, <2>6 DEF PoolIInv, Promise!Next
<1> QED
  BY <1>4, <1>5

(* TimeoutIds keeps the invariant, and empties the set of SnapIds that rests. *)
LEMMA TimeoutIdsStep ==
  ASSUME PoolIInv, TimeoutIds
  PROVE  PoolIInv' /\ Promise!Next
<1> DEFINE p == RemoveTimeouts(pool, Ids)
<1>1. Shaped(p) /\ Those(p, "allocated") = Those(pool, "allocated") /\ Those(p, "timed") = {}
  BY RemoveTimeoutsMove DEF PoolIInv
<1>2. pool' = p /\ UNCHANGED <<now, freedAt>>
  BY DEF TimeoutIds
<1> HIDE DEF p
<1>3. Shaped(pool)'
  BY <1>1, <1>2, ShapedNext
<1>4. InState("allocated")' = InState("allocated") /\ InState("timed")' = {}
  BY <1>1, <1>2 DEF InState, Those
<1> QED
  BY <1>2, <1>3, <1>4 DEF PoolIInv, Promise!Next

(* FreeId keeps the invariant, and is Free of SnapIds. *)
LEMMA FreeIdStep ==
  ASSUME PoolIInv, NEW id \in Ids, FreeId(id)
  PROVE  PoolIInv' /\ Promise!Next
<1>1. /\ Shaped(pool)' /\ id \in Those(pool, "allocated")
      /\ Those(pool', "allocated") = Those(pool, "allocated") \ {id}
      /\ Those(pool', "timed") = Those(pool, "timed") \cup {id}
  BY FreeIdMoves
<1>2. now' = now /\ freedAt' = [freedAt EXCEPT ![id] = now]
  BY DEF FreeId
<1>3. freedAt' \in [Ids -> 0..MaxTime] /\ \A i \in Ids : freedAt'[i] <= now
  BY <1>2 DEF PoolIInv
<1>4. PoolIInv'
  BY <1>1, <1>2, <1>3 DEF PoolIInv
<1>5. Promise!Free(id)
  BY <1>1 DEF Promise!Free, InState, Those
<1> QED
  BY <1>4, <1>5 DEF Promise!Next

(* The clock moves neither an id in use nor one that rests. *)
LEMMA TickStep ==
  ASSUME PoolIInv, Tick
  PROVE  PoolIInv' /\ UNCHANGED <<InState("allocated"), InState("timed")>>
<1>1. Shaped(pool)'
  BY ShapedNext DEF Tick, PoolIInv
<1>2. now' \in 0..MaxTime /\ \A i \in Ids : freedAt[i] <= now'
  <2>1. now \in 0..MaxTime /\ now' = now + 1 /\ now < MaxTime /\ MaxTime \in Nat
    BY PoolAssumption DEF Tick, PoolIInv
  <2>2. \A i \in Ids : freedAt[i] \in 0..MaxTime /\ freedAt[i] <= now
    BY DEF PoolIInv
  <2> QED
    BY <2>1, <2>2
<1> QED
  BY <1>1, <1>2 DEF Tick, PoolIInv, InState

(* Every step keeps the invariant, and is a step of SnapIds or none. *)
LEMMA PoolStep ==
  ASSUME PoolIInv, [PoolNext]_poolVars
  PROVE  PoolIInv' /\ [Promise!Next]_<<InState("allocated"), InState("timed")>>
<1>1. CASE NewId
  BY <1>1, NewIdStep
<1>2. CASE TimeoutIds
  BY <1>2, TimeoutIdsStep
<1>3. ASSUME NEW id \in Ids, FreeId(id)
      PROVE  PoolIInv' /\ [Promise!Next]_<<InState("allocated"), InState("timed")>>
  BY <1>3, FreeIdStep
<1>4. CASE Tick
  BY <1>4, TickStep
<1>5. CASE UNCHANGED poolVars
  <2>1. Shaped(pool)'
    BY <1>5, ShapedNext DEF poolVars, PoolIInv
  <2> QED
    BY <1>5, <2>1 DEF poolVars, PoolIInv, InState
<1> QED
  BY <1>1, <1>2, <1>3, <1>4, <1>5 DEF PoolNext

-----------------------------------------------------------------------------
(* The properties. *)

(* Chain follows the links of a list to its end. *)
LEMMA ChainIs ==
  ASSUME NEW S, NEW first, NEW n \in Nat, NEW f \in [1..n -> Ids],
         Lists(pool.next, S, first, n, f)
  PROVE  /\ DOMAIN Chain(first) = 0..(n - 1)
         /\ \A k \in 0..(n - 1) : k + 1 \in 1..n /\ Chain(first)[k] = f[k + 1]
<1> DEFINE g == [k \in 0..MaxIds |-> IF k < n THEN f[k + 1] ELSE -1]
           at[k \in 0..MaxIds] ==
             IF k = 0 THEN first ELSE IF at[k - 1] = -1 THEN -1 ELSE pool.next[at[k - 1]]
<1>1. MaxIds \in Nat /\ n <= MaxIds /\ \A k \in 0..(n - 1) : k \in 0..MaxIds /\ k + 1 \in 1..n
  BY PoolAssumption, ListsSize
<1>2. \A k \in 0..MaxIds : g[k] = IF k < n THEN f[k + 1] ELSE -1
  OBVIOUS
<1>3. \A k \in 0..MaxIds : k < n => g[k] \in Ids /\ g[k] # -1
  BY <1>1, <1>2, IdsFacts
<1> HIDE DEF g
<1>4. g[0] = first
  BY <1>1, <1>2 DEF Lists
<1>5. \A k \in 1..MaxIds : g[k] = IF g[k - 1] = -1 THEN -1 ELSE pool.next[g[k - 1]]
  <2> SUFFICES ASSUME NEW k \in 1..MaxIds
               PROVE  g[k] = IF g[k - 1] = -1 THEN -1 ELSE pool.next[g[k - 1]]
    OBVIOUS
  <2>1. k \in 0..MaxIds /\ k - 1 \in 0..MaxIds
    BY <1>1
  <2>2. CASE k - 1 < n
    <3>1. g[k - 1] = f[k] /\ g[k - 1] # -1 /\ k \in 1..n
      BY <1>2, <1>3, <2>1, <2>2
    <3>2. pool.next[f[k]] = IF k = n THEN -1 ELSE f[k + 1]
      BY <3>1 DEF Lists
    <3>3. g[k] = IF k < n THEN f[k + 1] ELSE -1
      BY <1>2, <2>1
    <3> QED
      BY <3>1, <3>2, <3>3
  <2>3. CASE ~(k - 1 < n)
    BY <1>2, <2>1, <2>3
  <2> QED
    BY <2>2, <2>3
<1>6. g = [k \in 0..MaxIds |-> IF k = 0 THEN first
                               ELSE IF g[k - 1] = -1 THEN -1 ELSE pool.next[g[k - 1]]]
  <2>1. \A k \in 0..MaxIds :
          g[k] = IF k = 0 THEN first ELSE IF g[k - 1] = -1 THEN -1 ELSE pool.next[g[k - 1]]
    <3>1. \A k \in 0..MaxIds : k = 0 \/ k \in 1..MaxIds
      OBVIOUS
    <3> QED
      BY <1>4, <1>5, <3>1
  <2> QED
    BY <2>1 DEF g
<1>7. at = [k \in 0..MaxIds |-> IF k = 0 THEN first
                                ELSE IF at[k - 1] = -1 THEN -1 ELSE pool.next[at[k - 1]]]
  BY <1>6
<1>8. Chain(first) = [k \in {k \in 0..MaxIds : at[k] # -1} |-> at[k]]
  BY DEF Chain
<1> HIDE DEF at
<1>9. \A k \in 0..MaxIds : k \in {i \in 0..MaxIds : at[i] = g[i]}
  <2>1. 0 \in {i \in 0..MaxIds : at[i] = g[i]}
    BY <1>1, <1>4, <1>7
  <2>2. ASSUME NEW k \in 1..MaxIds, k - 1 \in {i \in 0..MaxIds : at[i] = g[i]}
        PROVE  k \in {i \in 0..MaxIds : at[i] = g[i]}
    <3>1. k \in 0..MaxIds /\ k # 0
      OBVIOUS
    <3>2. at[k] = IF at[k - 1] = -1 THEN -1 ELSE pool.next[at[k - 1]]
      BY <1>7, <3>1
    <3> QED
      BY <1>5, <2>2, <3>1, <3>2
  <2> QED
    BY <1>1, <2>1, <2>2, Induction
<1>10. {k \in 0..MaxIds : at[k] # -1} = 0..(n - 1)
  <2>1. \A k \in 0..MaxIds : at[k] # -1 <=> k < n
    BY <1>2, <1>3, <1>9
  <2> QED
    BY <1>1, <2>1
<1>11. \A k \in 0..(n - 1) : Chain(first)[k] = f[k + 1]
  <2>1. \A k \in 0..(n - 1) : k \in 0..MaxIds /\ k < n
    BY <1>1
  <2> QED
    BY <1>2, <1>8, <1>9, <1>10, <2>1
<1> QED
  BY <1>1, <1>8, <1>10, <1>11

(* It meets each id of the list once. *)
LEMMA ChainCovers ==
  ASSUME NEW S, NEW first, NEW n \in Nat, NEW f \in [1..n -> Ids],
         Lists(pool.next, S, first, n, f)
  PROVE  Range(Chain(first)) = S /\ Cardinality(DOMAIN Chain(first)) = Cardinality(S)
<1> DEFINE c == Chain(first)
<1>0. DOMAIN c = 0..(n - 1) /\ \A k \in 0..(n - 1) : k + 1 \in 1..n /\ c[k] = f[k + 1]
  BY ChainIs
<1> HIDE DEF c
<1>1. \A y \in S : \E k \in 0..(n - 1) : y = c[k]
  <2> SUFFICES ASSUME NEW y \in S PROVE \E k \in 0..(n - 1) : y = c[k]
    OBVIOUS
  <2>1. PICK i \in 1..n : y = f[i]
    BY DEF Lists
  <2>2. i - 1 \in 0..(n - 1) /\ (i - 1) + 1 = i
    BY <2>1
  <2> QED
    BY <1>0, <2>1, <2>2
<1>2. \A k \in 0..(n - 1) : c[k] \in S
  BY <1>0 DEF Lists
<1>3. Cardinality(0..(n - 1)) = n
  BY FS_Interval
<1>4. Range(c) = S
  BY <1>0, <1>1, <1>2 DEF Range
<1>5. n = Cardinality(S)
  BY ListsSize
<1> QED
  BY <1>0, <1>3, <1>4, <1>5 DEF c

(* The lists of the invariant are the chains of the properties. *)
LEMMA PoolIInvImpliesInv == PoolIInv => Inv
<1> SUFFICES ASSUME PoolIInv PROVE Inv
  OBVIOUS
<1> DEFINE F == Those(pool, "free")
           T == Those(pool, "timed")
           A == Those(pool, "allocated")
<1>1. PICK m \in Nat, n \in Nat :
        \E f \in [1..m -> Ids], t \in [1..n -> Ids] : Shape(pool, m, f, n, t) /\ Rising(n, t)
  BY DEF PoolIInv, Shaped
<1>2. PICK f \in [1..m -> Ids], t \in [1..n -> Ids] : Shape(pool, m, f, n, t) /\ Rising(n, t)
  BY <1>1
<1>3. /\ pool \in Pools /\ Lists(pool.next, F, pool.firstFree, m, f)
      /\ Lists(pool.next, T, pool.firstTimed, n, t)
  BY <1>2 DEF Shape, PoolIInv, Shaped
<1>4. InState("free") = F /\ InState("timed") = T /\ InState("allocated") = A
  BY DEF InState, Those
<1>5. CountersAreRight
  BY <1>2, <1>4 DEF CountersAreRight, Shape
<1>6. PoolTypeOK
  <2>1. A \subseteq Ids /\ A \cup T \subseteq Ids
    BY DEF Those
  <2>2. MaxIds \in Nat /\ Cardinality(Ids) = MaxIds
    BY FS_Interval, PoolAssumption DEF Ids
  <2>3. Cardinality(A) \in 0..MaxIds /\ Cardinality(A \cup T) \in 0..MaxIds
    <3>1. \A S \in SUBSET Ids : Cardinality(S) \in Nat /\ Cardinality(S) <= MaxIds
      BY <2>2, IdsFacts, FS_Subset
    <3>2. \A S \in SUBSET Ids : Cardinality(S) \in 0..MaxIds
      BY <2>2, <3>1
    <3> QED
      BY <2>1, <3>2
  <2>4. pool.usage \in 0..MaxIds /\ pool.inUsage \in 0..MaxIds
    BY <1>2, <2>3 DEF Shape
  <2> QED
    BY <1>3, <2>4 DEF PoolTypeOK, Pools, PoolIInv
<1>7. ListsArePartition
  <2>1. Range(Chain(pool.firstFree)) = F
        /\ Cardinality(DOMAIN Chain(pool.firstFree)) = Cardinality(F)
    <3> HIDE DEF F
    <3> QED
      BY <1>3, ChainCovers
  <2>2. Range(Chain(pool.firstTimed)) = T
        /\ Cardinality(DOMAIN Chain(pool.firstTimed)) = Cardinality(T)
    <3> HIDE DEF T
    <3> QED
      BY <1>3, ChainCovers
  <2>3. pool.lastTimed = -1 <=> T = {}
    <3>1. n = 0 <=> T = {}
      <4> HIDE DEF T
      <4> QED
        BY <1>3, ListsSize
    <3>2. n # 0 => n \in 1..n /\ t[n] # -1
      BY IdsFacts
    <3> QED
      BY <1>2, <3>1, <3>2 DEF Shape
  <2>4. pool.lastTimed # -1 =>
          pool.state[pool.lastTimed] = "timed" /\ pool.next[pool.lastTimed] = -1
    <3> SUFFICES ASSUME n # 0 PROVE pool.state[t[n]] = "timed" /\ pool.next[t[n]] = -1
      BY <1>2 DEF Shape
    <3>1. n \in 1..n
      OBVIOUS
    <3>2. t[n] \in T
      BY <1>3, <3>1 DEF Lists
    <3> QED
      BY <1>3, <3>1, <3>2 DEF Lists, Those
  <2> HIDE DEF F, T
  <2> QED
    BY <1>4, <2>1, <2>2, <2>3, <2>4 DEF ListsArePartition
<1>8. OldestRestsFirst
  <2> DEFINE c == Chain(pool.firstTimed)
  <2>1. DOMAIN c = 0..(n - 1) /\ \A k \in 0..(n - 1) : k + 1 \in 1..n /\ c[k] = t[k + 1]
    <3> HIDE DEF T
    <3>1. Lists(pool.next, T, pool.firstTimed, n, t)
      BY <1>3
    <3>2. DOMAIN Chain(pool.firstTimed) = 0..(n - 1)
      BY <3>1, ChainIs
    <3>3. \A k \in 0..(n - 1) : Chain(pool.firstTimed)[k] = t[k + 1]
      BY <3>1, ChainIs
    <3>4. \A k \in 0..(n - 1) : k + 1 \in 1..n
      OBVIOUS
    <3> QED
      BY <3>2, <3>3, <3>4
  <2> HIDE DEF c
  <2>3. OldestRestsFirst <=> \A j, k \in DOMAIN c : j <= k => freedAt[c[j]] <= freedAt[c[k]]
    BY DEF OldestRestsFirst, c
  <2> SUFFICES ASSUME NEW j \in 0..(n - 1), NEW k \in 0..(n - 1), j <= k
               PROVE  freedAt[t[j + 1]] <= freedAt[t[k + 1]]
    BY <2>1, <2>3
  <2>2. j + 1 <= k + 1 /\ j + 1 \in 1..n /\ k + 1 \in 1..n
    OBVIOUS
  <2> QED
    BY <1>2, <2>2 DEF Rising
<1> QED
  BY <1>5, <1>6, <1>7, <1>8 DEF Inv

\* The free ids and those that rest are two proper lists in one array, whatever
\* is taken, given back and reset: RemoveFirstTimeout, NewId, TimeoutIds, FreeId.
THEOREM PoolIsRight == PoolSpec => []Inv
<1>1. PoolIInv /\ [PoolNext]_poolVars => PoolIInv'
  BY PoolStep
<1> QED
  BY <1>1, InitShaped, PoolIInvImpliesInv, PTL DEF PoolSpec

\* CSnapIdPool implements SnapIds: an id has one owner, NewId fails only when
\* every id is in use or rests, and TimeoutIds leaves none that rests.
THEOREM PoolImplements == PoolSpec => Implements
<1>1. PoolIInv /\ [PoolNext]_poolVars => PoolIInv'
  BY PoolStep
<1>2. PoolIInv /\ [PoolNext]_poolVars =>
        [Promise!Next]_<<InState("allocated"), InState("timed")>>
  BY PoolStep
<1>3. PoolInit => Promise!Init
  BY DEF PoolInit, Reset, Promise!Init, InState
<1> QED
  BY <1>1, <1>2, <1>3, InitShaped, PTL DEF PoolSpec, Implements, Promise!Spec
=============================================================================
