-------------------------------- MODULE Http --------------------------------
(***************************************************************************)
(* The HTTP client of src/src/engine/shared/http.cpp: callers hand requests *)
(* to CHttp::Run, one thread runs them with curl (RunLoop), and each ends   *)
(* with OnCompletionInternal as DONE, ERROR or ABORTED.  curl and the file  *)
(* system decide how a transfer, a close or a rename ends.  A file is       *)
(* downloaded next to its destination and moved there at the end.  Each     *)
(* request has a destination of its own.                                    *)
(***************************************************************************)
EXTENDS Naturals, Sequences, FiniteSets, SequencesExt

CONSTANTS
  Requests,
  Files,      \* m_WriteToFile
  Validated,  \* m_ValidateBeforeOverwrite is set before Run
  Hashed,     \* m_ExpectedSha256
  None

Ended == {"DONE", "ERROR", "ABORTED"}

(* Only files are validated or compared with what is there, and no caller asks for
   both at once; None is neither a request nor an end. *)
ASSUME HttpAssumption ==
  /\ Validated \subseteq Files /\ Hashed \subseteq Files /\ Files \subseteq Requests
  /\ Validated \cap Hashed = {}
  /\ None \notin Requests \cup Ended

VARIABLES
  state, shutdown,        \* CHttp::m_State, m_Shutdown
  deadline,               \* m_ShutdownTime: "none", "set" or "past"
  pending, running,       \* m_PendingRequests, m_RunningRequests
  fresh,                  \* NewRequests of RunLoop
  pc,                     \* where RunLoop is; it has m_Lock in "finish"
  scan,                   \* what a loop over m_RunningRequests has still to look at
  completing,             \* OnCompletion has run for this request, m_State is to follow
  woken,                  \* curl_multi_wakeup
  program,                \* the program: Init, Shutdown, ~CHttp
  reqState, result,       \* m_State, and the state OnCompletionInternal has decided on
  abort, validate,        \* m_Abort, m_ValidateBeforeOverwrite
  tmp, dest,              \* the file m_aDestAbsoluteTmp, and what is at m_aDestAbsolute
  user,                   \* the caller's hold on the request: "new", "held", "dropped"
  answers                 \* history: calls of OnCompletion

client == <<state, shutdown, deadline, woken, program>>
queues == <<pending, running, fresh, pc, scan>>
request == <<reqState, result, completing, validate, tmp, dest, answers>>
vars == <<client, queues, request, abort, user>>

TypeOK ==
  /\ state \in {"UNINITIALIZED", "RUNNING", "ERROR"}
  /\ shutdown \in BOOLEAN /\ woken \in BOOLEAN
  /\ deadline \in {"none", "set", "past"}
  /\ pending \in Seq(Requests) /\ fresh \in Seq(Requests)
  /\ running \subseteq Requests /\ scan \subseteq running
  /\ pc \in {"start", "poll", "perform", "complete", "aborts", "take", "new", "leave", "finish", "gone"}
  /\ completing \in Requests \cup {None}
  /\ program \in {"init", "up", "down", "joined"}
  /\ reqState \in [Requests -> {"QUEUED", "RUNNING"} \cup Ended]
  /\ result \in [Requests -> Ended \cup {None}]
  /\ abort \in [Requests -> BOOLEAN] /\ validate \in [Requests -> BOOLEAN]
  /\ tmp \in [Requests -> BOOLEAN]
  /\ dest \in [Requests -> {"old", "new"}]
  /\ user \in [Requests -> {"new", "held", "dropped"}]
  /\ answers \in [Requests -> 0..1]

Init ==
  /\ state = "UNINITIALIZED"
  /\ shutdown = FALSE /\ deadline = "none" /\ woken = FALSE
  /\ pending = <<>> /\ fresh = <<>> /\ running = {} /\ scan = {}
  /\ pc = "start"
  /\ completing = None
  /\ program = "init"
  /\ reqState = [r \in Requests |-> "QUEUED"]
  /\ result = [r \in Requests |-> None]
  /\ abort = [r \in Requests |-> FALSE]
  /\ validate = [r \in Requests |-> r \in Validated]
  /\ tmp = [r \in Requests |-> FALSE]
  /\ dest = [r \in Requests |-> "old"]
  /\ user = [r \in Requests |-> "new"]
  /\ answers = [r \in Requests |-> 0]

LockFree == pc # "finish"

-----------------------------------------------------------------------------
(* The end of a request. *)

\* variant: the file is put in place before it is validated
FileOutcomesUnvalidated(r) ==
  {[state |-> "ERROR", tmp |-> FALSE, dest |-> dest[r]],
   [state |-> "DONE", tmp |-> FALSE, dest |-> dest[r]],
   [state |-> "DONE", tmp |-> FALSE, dest |-> "new"]}

\* a download curl has finished: the hash, the close or the rename may fail, the
\* server may answer 304, and else the file is moved or waits for its validation
FileOutcomes(r) ==
  {[state |-> "ERROR", tmp |-> FALSE, dest |-> dest[r]],
   [state |-> "DONE", tmp |-> FALSE, dest |-> dest[r]],
   IF validate[r] THEN [state |-> "DONE", tmp |-> TRUE, dest |-> dest[r]]
                  ELSE [state |-> "DONE", tmp |-> FALSE, dest |-> "new"]}

\* variant: the file of a request that fails stays
OutcomesUncleaned(r, code) ==
  IF code = "DONE" /\ r \in Files THEN FileOutcomes(r)
  ELSE {[state |-> code, tmp |-> tmp[r], dest |-> dest[r]]}

\* OnCompletionInternal by curl's result, up to the end of OnCompletion
Outcomes(r, code) ==
  IF code = "DONE" /\ r \in Files THEN FileOutcomes(r)
  ELSE {[state |-> code, tmp |-> FALSE, dest |-> dest[r]]}

\* the result of OnCompletion is decided, m_State still the old one
Completed(r, o) ==
  /\ result' = [result EXCEPT ![r] = o.state]
  /\ tmp' = [tmp EXCEPT ![r] = o.tmp]
  /\ dest' = [dest EXCEPT ![r] = o.dest]
  /\ answers' = [answers EXCEPT ![r] = @ + 1]

\* the thread is in OnCompletionInternal
Completes(r, code) ==
  /\ \E o \in Outcomes(r, code) : Completed(r, o)
  /\ completing' = r
  /\ UNCHANGED <<reqState, validate>>

\* ~CHttpRequest, when nobody holds the request any more: a file that was never
\* validated is removed
Destroyed(r, held) == tmp' = [tmp EXCEPT ![r] = @ /\ held]

\* m_State is set, the waiters are woken, and the thread lets the request go
Publish ==
  /\ completing # None
  /\ reqState' = [reqState EXCEPT ![completing] = result[completing]]
  /\ Destroyed(completing, user[completing] = "held")
  /\ completing' = None
  /\ UNCHANGED <<client, queues, result, validate, dest, answers, abort, user>>

-----------------------------------------------------------------------------
(* RunLoop.  A step of the thread waits for the end of OnCompletionInternal. *)

At(label) == pc = label /\ completing = None

\* curl_global_init and curl_multi_init
ThreadStarts ==
  /\ At("start")
  /\ \/ state' = "RUNNING" /\ pc' = "poll"
     \/ state' = "ERROR" /\ pc' = "gone"
  /\ UNCHANGED <<shutdown, deadline, woken, program, pending, running, fresh, scan, request,
                 abort, user>>

\* curl_multi_poll has returned: because it was woken, or after its timeout
PollReturns ==
  /\ At("poll")
  /\ woken \/ running # {} \/ deadline # "none"
  /\ woken' = FALSE

\* the shutdown ends the loop when nothing is left to do, or after its delay
PollLeaves ==
  /\ PollReturns
  /\ shutdown
  /\ (running = {} /\ pending = <<>>) \/ deadline = "past"
  /\ pc' = "leave"
  /\ UNCHANGED <<state, shutdown, deadline, program, pending, running, fresh, scan, request,
                 abort, user>>

\* or only sets the time
PollGoesOn ==
  /\ PollReturns
  /\ shutdown => ~(running = {} /\ pending = <<>>) /\ deadline # "past"
  /\ deadline' = IF shutdown /\ deadline = "none" THEN "set" ELSE deadline
  /\ \/ pc' = "perform" /\ UNCHANGED state
     \/ pc' = "finish" /\ state' = "ERROR"
  /\ UNCHANGED <<shutdown, program, pending, running, fresh, scan, request, abort, user>>

\* curl_multi_perform
Perform ==
  /\ At("perform")
  /\ \/ pc' = "complete" /\ scan' = running /\ UNCHANGED state
     \/ pc' = "finish" /\ state' = "ERROR" /\ UNCHANGED scan
  /\ UNCHANGED <<shutdown, deadline, woken, program, pending, running, fresh, request, abort,
                 user>>

\* curl_multi_info_read reports a transfer that has ended ...
TransferEnds(r) ==
  /\ At("complete")
  /\ r \in scan
  /\ \E code \in {"DONE", "ERROR"} \cup (IF abort[r] THEN {"ABORTED"} ELSE {}) :
       Completes(r, code)
  /\ running' = running \ {r}
  /\ scan' = scan \ {r}
  /\ UNCHANGED <<client, pending, fresh, pc, abort, user>>

\* ... and at last nothing
TransfersGoOn ==
  /\ At("complete")
  /\ pc' = "aborts"
  /\ scan' = running
  /\ UNCHANGED <<client, pending, running, fresh, request, abort, user>>

Advance(r) == scan' = scan \ {r}

\* the aborts among the running requests, one after the other
ScanAbort(r) ==
  /\ At("aborts")
  /\ r \in scan
  /\ Advance(r)
  /\ IF abort[r]
       THEN Completes(r, "ABORTED") /\ running' = running \ {r}
       ELSE UNCHANGED <<running, request>>
  /\ UNCHANGED <<client, pending, fresh, pc, abort, user>>

\* the new requests are taken under the lock
Take ==
  /\ At("aborts")
  /\ scan = {}
  /\ fresh' = pending
  /\ pending' = <<>>
  /\ pc' = "new"
  /\ UNCHANGED <<client, running, scan, request, abort, user>>

\* a request that was aborted meanwhile, is there already, cannot be configured, ...
NewEnds ==
  /\ At("new")
  /\ fresh # <<>>
  /\ LET r == Head(fresh) IN
       IF abort[r] THEN Completes(r, "ABORTED")
       ELSE \/ /\ r \in Hashed
               /\ Completed(r, [state |-> "DONE", tmp |-> FALSE, dest |-> dest[r]])
               /\ completing' = r
               /\ UNCHANGED <<reqState, validate>>
            \/ r \in Files /\ Completes(r, "ABORTED")
  /\ fresh' = Tail(fresh)
  /\ UNCHANGED <<client, pending, running, pc, scan, abort, user>>

\* ... or runs from now on, with its file open
NewRuns ==
  /\ At("new")
  /\ fresh # <<>>
  /\ LET r == Head(fresh) IN
       /\ ~abort[r]
       /\ reqState' = [reqState EXCEPT ![r] = "RUNNING"]
       /\ tmp' = [tmp EXCEPT ![r] = r \in Files]
       /\ running' = running \cup {r}
  /\ fresh' = Tail(fresh)
  /\ UNCHANGED <<client, pending, pc, scan, result, completing, validate, dest, answers,
                 abort, user>>

\* variant: the requests not yet started are forgotten
ForgetFresh == fresh' = <<>> /\ UNCHANGED pending

PutBack == fresh' = <<>> /\ pending' = pending \o fresh

\* curl has no handle for it, or cannot add the one configured, its file open: it
\* and those behind it go back to the queue
NewFails ==
  /\ At("new")
  /\ fresh # <<>>
  /\ LET r == Head(fresh) IN
       /\ ~abort[r]
       /\ tmp' \in {tmp, [tmp EXCEPT ![r] = r \in Files]}
  /\ state' = "ERROR"
  /\ PutBack
  /\ pc' = "finish"
  /\ UNCHANGED <<shutdown, deadline, woken, program, running, scan, reqState, result, completing,
                 validate, dest, answers, abort, user>>

NewDone ==
  /\ At("new")
  /\ fresh = <<>>
  /\ pc' = "poll"
  /\ UNCHANGED <<client, pending, running, fresh, scan, request, abort, user>>

\* the lock, at the end
LeaveLocks ==
  /\ At("leave")
  /\ pc' = "finish"
  /\ UNCHANGED <<client, pending, running, fresh, scan, request, abort, user>>

\* every request that is left is aborted, the pending ones first
FinishPending ==
  /\ At("finish")
  /\ pending # <<>>
  /\ Completes(Head(pending), "ABORTED")
  /\ pending' = Tail(pending)
  /\ UNCHANGED <<client, running, fresh, pc, scan, abort, user>>

FinishRunning(r) ==
  /\ At("finish")
  /\ pending = <<>>
  /\ r \in running
  /\ Completes(r, "ABORTED")
  /\ running' = running \ {r}
  /\ UNCHANGED <<client, pending, fresh, pc, scan, abort, user>>

ThreadEnds ==
  /\ At("finish")
  /\ pending = <<>> /\ running = {}
  /\ pc' = "gone"
  /\ UNCHANGED <<client, pending, running, fresh, scan, request, abort, user>>

Thread ==
  \/ Publish \/ ThreadStarts \/ PollLeaves \/ PollGoesOn \/ Perform
  \/ TransfersGoOn \/ Take \/ NewEnds \/ NewRuns \/ NewFails \/ NewDone
  \/ LeaveLocks \/ FinishPending \/ ThreadEnds
  \/ \E r \in Requests : TransferEnds(r) \/ ScanAbort(r) \/ FinishRunning(r)

-----------------------------------------------------------------------------
(* The program. *)

\* Init has waited for the thread; a program without HTTP ends
InitReturns ==
  /\ program = "init"
  /\ state # "UNINITIALIZED"
  /\ program' = IF state = "RUNNING" THEN "up" ELSE "down"
  /\ UNCHANGED <<state, shutdown, deadline, woken, queues, request, abort, user>>

Shutdown ==
  /\ program = "up"
  /\ LockFree
  /\ program' = "down"
  /\ IF state = "RUNNING" THEN shutdown' = TRUE /\ woken' = TRUE
                          ELSE UNCHANGED <<shutdown, woken>>
  /\ UNCHANGED <<state, deadline, queues, request, abort, user>>

\* m_ShutdownDelay is over
DelayPasses ==
  /\ deadline = "set"
  /\ deadline' = "past"
  /\ UNCHANGED <<state, shutdown, woken, program, queues, request, abort, user>>

\* ~CHttp: the thread has ended
Join ==
  /\ program = "down"
  /\ pc = "gone"
  /\ program' = "joined"
  /\ UNCHANGED <<state, shutdown, deadline, woken, queues, request, abort, user>>

-----------------------------------------------------------------------------
(* The callers of requests. *)

Refuses == shutdown \/ state = "ERROR"

\* variant: the thread is not woken
EnqueueSilent(r) == pending' = Append(pending, r) /\ UNCHANGED woken

Enqueue(r) == pending' = Append(pending, r) /\ woken' = TRUE

\* CHttp::Run, by any thread; during a shutdown or after an error it is the caller
\* who completes the request
Run(r) ==
  /\ program \in {"up", "down"} /\ state # "UNINITIALIZED"
  /\ user[r] = "new"
  /\ LockFree
  /\ user' = [user EXCEPT ![r] = "held"]
  /\ IF Refuses
       THEN /\ \E o \in Outcomes(r, "ABORTED") : Completed(r, o)
            /\ reqState' = [reqState EXCEPT ![r] = "ABORTED"]
            /\ UNCHANGED <<pending, woken>>
       ELSE Enqueue(r) /\ UNCHANGED <<reqState, result, tmp, dest, answers>>
  /\ UNCHANGED <<state, shutdown, deadline, program, running, fresh, pc, scan, completing,
                 validate, abort>>

Abort(r) ==
  /\ user[r] = "held"
  /\ ~abort[r]
  /\ abort' = [abort EXCEPT ![r] = TRUE]
  /\ UNCHANGED <<client, queues, request, user>>

\* OnValidation: the file is moved, which may fail, or removed; after a 304 there is
\* none any more
OnValidation(r, success) ==
  /\ user[r] = "held"
  /\ validate[r] /\ reqState[r] = "DONE"
  /\ validate' = [validate EXCEPT ![r] = FALSE]
  /\ tmp' = [tmp EXCEPT ![r] = FALSE]
  /\ \/ success /\ ~tmp[r] /\ UNCHANGED <<reqState, dest>>
     \/ success /\ tmp[r] /\ dest' = [dest EXCEPT ![r] = "new"] /\ UNCHANGED reqState
     \/ (success => tmp[r]) /\ reqState' = [reqState EXCEPT ![r] = "ERROR"] /\ UNCHANGED dest
  /\ UNCHANGED <<client, queues, result, completing, answers, abort, user>>

Holds(r) == r \in Range(pending) \cup Range(fresh) \cup running \cup {completing}

\* the caller lets go of its request, which the thread may still have
Drop(r) ==
  /\ user[r] = "held"
  /\ user' = [user EXCEPT ![r] = "dropped"]
  /\ Destroyed(r, Holds(r))
  /\ UNCHANGED <<client, queues, reqState, result, completing, validate, dest, answers, abort>>

Next ==
  \/ Thread
  \/ InitReturns \/ Shutdown \/ DelayPasses \/ Join
  \/ \E r \in Requests : Run(r) \/ Abort(r) \/ Drop(r) \/ \E s \in BOOLEAN : OnValidation(r, s)

Spec == Init /\ [][Next]_vars

(* The operating system runs the thread and the clock; curl need not end any
   transfer. *)
Fairness == WF_vars(Thread) /\ WF_vars(DelayPasses)

FairSpec == Spec /\ Fairness

-----------------------------------------------------------------------------
(* Properties. *)

Asked(r) == user[r] # "new"
Occurrences(q, r) == Cardinality({i \in DOMAIN q : q[i] = r})

(* A request given to Run is in one place: in one of the two queues, with curl, or
   answered; it is answered once, however aborts, errors and the shutdown overtake
   each other. *)
OnePlace ==
  \A r \in Requests :
    Occurrences(pending, r) + Occurrences(fresh, r) + Cardinality({r} \cap running) + answers[r]
      = IF Asked(r) THEN 1 ELSE 0

(* "OnCompletion has finished" before other threads "try to access the result"
   (http.cpp): whoever sees an end sees the request answered, with its file closed
   and in its final place or waiting for the validation. *)
SeenIsSettled ==
  \A r \in Requests : reqState[r] \in Ended =>
    /\ answers[r] = 1
    /\ tmp[r] => reqState[r] = "DONE" /\ validate[r]

(* "Don't place the file in the specified location until `OnValidation(true)` has
   been called" (http.h): what is there is a whole and validated download. *)
DestinationIsWhole ==
  \A r \in Requests : dest[r] = "new" => result[r] = "DONE" /\ ~(r \in Validated /\ validate[r])

(* No temporary file outlives the request it was made for. *)
NothingLeftBehind ==
  \A r \in Requests : tmp[r] => user[r] = "held" \/ Holds(r)

(* Once the thread has ended, nobody waits for it in vain: every request that was
   given to Run, before, during or after the shutdown, has ended. *)
AnsweredAtEnd ==
  pc = "gone" => \A r \in Requests : Asked(r) => reqState[r] \in Ended

(* The state of the client: a request is in one place and answered once, the end of the thread
   leaves none unanswered, and no temporary file is left. *)
Inv == TypeOK /\ OnePlace /\ AnsweredAtEnd /\ NothingLeftBehind

(* A caller that aborts its request, or whose program shuts down or has lost curl,
   comes back from Wait. *)
WaitReturns ==
  <>[](\A r \in Requests :
         Asked(r) /\ (abort[r] \/ shutdown \/ state = "ERROR") => reqState[r] \in Ended)

=============================================================================
