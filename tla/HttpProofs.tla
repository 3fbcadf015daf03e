----------------------------- MODULE HttpProofs -----------------------------
(***************************************************************************)
(* Proofs about Http for any set of requests, files, validations and       *)
(* hashes.  A request has one place after the other: new with its caller,  *)
(* in a queue or with curl, in the hands of OnCompletionInternal, settled. *)
(***************************************************************************)
EXTENDS Http, SequenceTheorems, FiniteSetTheorems, TLAPS

\* the requests that wait or run
Held == Range(pending) \cup Range(fresh) \cup running

Once(q) == \A i, j \in DOMAIN q : q[i] = q[j] => i = j

(* The queues and curl share no request, and have none twice. *)
Apart ==
  /\ Once(pending) /\ Once(fresh)
  /\ Range(pending) \cap Range(fresh) = {}
  /\ (Range(pending) \cup Range(fresh)) \cap running = {}

(* A request that was given to Run waits, runs or is answered. *)
Places == \A r \in Requests : Asked(r) /\ answers[r] = 0 <=> r \in Held

(* Where the loop is tells what it has in hand; at its end nothing new can come. *)
Loop ==
  /\ pc = "start" <=> state = "UNINITIALIZED"
  /\ pc = "start" => pending = <<>> /\ fresh = <<>> /\ running = {}
  /\ fresh # <<>> => pc = "new"
  /\ scan # {} => pc \in {"complete", "aborts"}
  /\ pc \in {"leave", "finish", "gone"} => Refuses
  /\ pc = "gone" => pending = <<>> /\ running = {} /\ completing = None

(* An answer is the result OnCompletion has left, told when m_State follows. *)
Settled ==
  /\ \A r \in Requests : answers[r] = 1 => Asked(r)
  /\ \A r \in Requests : answers[r] = 1 <=> result[r] # None
  /\ \A r \in Requests : reqState[r] \in Ended <=> answers[r] = 1 /\ completing # r
  /\ completing # None => answers[completing] = 1
  /\ \A r \in Requests : reqState[r] = "DONE" => result[r] = "DONE"

(* The file of a request that is answered is in its place, gone or waits for the
   validation. *)
Stored ==
  /\ \A r \in Requests : answers[r] = 1 /\ tmp[r] =>
       result[r] = "DONE" /\ validate[r] /\ (reqState[r] \in Ended => reqState[r] = "DONE")
  /\ DestinationIsWhole
  /\ NothingLeftBehind

\* the types of what a request has, as in TypeOK
RequestTypes ==
  /\ completing \in Requests \cup {None}
  /\ reqState \in [Requests -> {"QUEUED", "RUNNING"} \cup Ended]
  /\ result \in [Requests -> Ended \cup {None}]
  /\ validate \in [Requests -> BOOLEAN] /\ tmp \in [Requests -> BOOLEAN]
  /\ dest \in [Requests -> {"old", "new"}] /\ answers \in [Requests -> 0..1]

IInv == TypeOK /\ Apart /\ Places /\ Loop /\ Settled /\ Stored

-----------------------------------------------------------------------------
(* Queues without repetition. *)

LEMMA AppendFacts ==
  ASSUME NEW S, NEW q \in Seq(S), NEW e \in S, e \notin Range(q), Once(q)
  PROVE  Append(q, e) \in Seq(S) /\ Once(Append(q, e)) /\ Range(Append(q, e)) = Range(q) \cup {e}
<1>1. /\ Append(q, e) \in Seq(S) /\ Len(Append(q, e)) = Len(q) + 1
      /\ \A i \in 1..Len(q) : Append(q, e)[i] = q[i]
      /\ Append(q, e)[Len(q) + 1] = e
  OBVIOUS
<1>2. DOMAIN q = 1..Len(q) /\ DOMAIN Append(q, e) = 1..(Len(q) + 1) /\ Len(q) \in Nat
  BY <1>1
<1>3. \A i : i \in 1..(Len(q) + 1) <=> i \in 1..Len(q) \/ i = Len(q) + 1
  BY <1>2
<1>4. \A i \in 1..Len(q) : q[i] # e
  BY <1>2 DEF Range
<1> QED
  BY <1>1, <1>2, <1>3, <1>4 DEF Once, Range

LEMMA TailFacts ==
  ASSUME NEW S, NEW q \in Seq(S), q # <<>>, Once(q)
  PROVE  /\ Head(q) \in S /\ Head(q) \in Range(q)
         /\ Tail(q) \in Seq(S) /\ Once(Tail(q)) /\ Range(Tail(q)) = Range(q) \ {Head(q)}
<1>1. /\ Len(q) \in Nat \ {0} /\ DOMAIN q = 1..Len(q) /\ Head(q) = q[1] /\ Head(q) \in S
      /\ Tail(q) \in Seq(S) /\ Len(Tail(q)) = Len(q) - 1
      /\ \A i \in 1..(Len(q) - 1) : Tail(q)[i] = q[i + 1]
  OBVIOUS
<1>2. DOMAIN Tail(q) = 1..(Len(q) - 1)
  BY <1>1
<1>3. \A i \in 1..(Len(q) - 1) : i + 1 \in 1..Len(q) /\ i + 1 # 1
  BY <1>1
<1>4. \A i \in 1..Len(q) : i # 1 => i - 1 \in 1..(Len(q) - 1) /\ i - 1 + 1 = i
  BY <1>1
<1>5. Once(Tail(q))
  <2>1. SUFFICES ASSUME NEW i \in 1..(Len(q) - 1), NEW j \in 1..(Len(q) - 1),
                        Tail(q)[i] = Tail(q)[j]
                 PROVE  i = j
    BY <1>2 DEF Once
  <2>2. i + 1 = j + 1
    BY <1>1, <1>3, <2>1 DEF Once
  <2> QED
    BY <1>1, <2>2
<1>6. Range(Tail(q)) \subseteq Range(q) \ {Head(q)}
  BY <1>1, <1>2, <1>3 DEF Once, Range
<1>7. ASSUME NEW x \in Range(q) \ {Head(q)} PROVE x \in Range(Tail(q))
  <2>1. PICK i \in 1..Len(q) : x = q[i] /\ i # 1
    BY <1>1, <1>7 DEF Range
  <2> DEFINE j == i - 1
  <2>2. j \in 1..(Len(q) - 1) /\ j + 1 = i
    BY <1>4, <2>1
  <2> HIDE DEF j
  <2>3. Tail(q)[j] = x
    BY <1>1, <2>1, <2>2
  <2> QED
    BY <1>2, <2>2, <2>3 DEF Range
<1>8. Head(q) \in Range(q)
  BY <1>1 DEF Range
<1> QED
  BY <1>1, <1>5, <1>6, <1>7, <1>8

LEMMA ConcatFacts ==
  ASSUME NEW S, NEW p \in Seq(S), NEW q \in Seq(S), Once(p), Once(q), Range(p) \cap Range(q) = {}
  PROVE  p \o q \in Seq(S) /\ Once(p \o q) /\ Range(p \o q) = Range(p) \cup Range(q)
<1>1. /\ p \o q \in Seq(S) /\ Len(p) \in Nat /\ Len(q) \in Nat
      /\ DOMAIN p = 1..Len(p) /\ DOMAIN q = 1..Len(q) /\ Len(p \o q) = Len(p) + Len(q)
  OBVIOUS
<1>2. DOMAIN (p \o q) = 1..(Len(p) + Len(q))
  BY <1>1
<1>3. ASSUME NEW i \in 1..(Len(p) + Len(q))
      PROVE  \/ i \in 1..Len(p) /\ (p \o q)[i] = p[i]
             \/ i \notin 1..Len(p) /\ i - Len(p) \in 1..Len(q) /\ (p \o q)[i] = q[i - Len(p)]
  BY <1>1
<1>4. Once(p \o q)
  <2>1. SUFFICES ASSUME NEW i \in 1..(Len(p) + Len(q)), NEW j \in 1..(Len(p) + Len(q)),
                        (p \o q)[i] = (p \o q)[j]
                 PROVE  i = j
    BY <1>2 DEF Once
  <2>2. CASE i \in 1..Len(p) /\ j \in 1..Len(p)
    BY <1>1, <1>3, <2>1, <2>2 DEF Once
  <2>3. CASE i \notin 1..Len(p) /\ j \notin 1..Len(p)
    <3>1. i - Len(p) = j - Len(p)
      BY <1>1, <1>3, <2>1, <2>3 DEF Once
    <3> QED
      BY <1>1, <3>1
  <2>4. CASE i \in 1..Len(p) /\ j \notin 1..Len(p)
    BY <1>1, <1>3, <2>1, <2>4 DEF Range
  <2>5. CASE i \notin 1..Len(p) /\ j \in 1..Len(p)
    BY <1>1, <1>3, <2>1, <2>5 DEF Range
  <2> QED
    BY <2>2, <2>3, <2>4, <2>5
<1> QED
  BY <1>1, <1>4, RangeConcatenation

LEMMA EmptyFacts ==
  ASSUME NEW S
  PROVE  <<>> \in Seq(S) /\ Once(<<>>) /\ Range(<<>>) = {}
BY DEF Once, Range

(* In a queue without repetition a request occurs once or not at all. *)
LEMMA OccurrencesFacts ==
  ASSUME NEW S, NEW q \in Seq(S), Once(q), NEW r
  PROVE  Occurrences(q, r) = IF r \in Range(q) THEN 1 ELSE 0
<1>1. CASE r \in Range(q)
  <2>1. PICK i \in DOMAIN q : q[i] = r
    BY <1>1 DEF Range
  <2>2. {j \in DOMAIN q : q[j] = r} = {i}
    BY <2>1 DEF Once
  <2> QED
    BY <1>1, <2>2, FS_Singleton DEF Occurrences
<1>2. CASE r \notin Range(q)
  <2>1. {j \in DOMAIN q : q[j] = r} = {}
    BY <1>2 DEF Range
  <2> QED
    BY <1>2, <2>1, FS_EmptySet DEF Occurrences
<1> QED
  BY <1>1, <1>2

-----------------------------------------------------------------------------
(* The end of a request. *)

LEMMA SameRequests ==
  ASSUME IInv, UNCHANGED <<request, abort, user, pending, fresh, running>>
  PROVE  Apart' /\ Places' /\ Settled' /\ Stored'
<1>1. UNCHANGED Held
  BY DEF Held
<1>2. Apart' /\ Places'
  BY <1>1 DEF IInv, Apart, Places, Asked, request
<1>3. Settled'
  BY DEF IInv, Settled, request, Asked
<1>4. DestinationIsWhole' /\ NothingLeftBehind'
  BY DEF IInv, Stored, DestinationIsWhole, NothingLeftBehind, Holds, request
<1>5. Stored'
  BY <1>4 DEF IInv, Stored, request
<1> QED
  BY <1>2, <1>3, <1>5

\* what OnCompletion leaves
IsOutcome(r, o) ==
  /\ o.state \in Ended /\ o.tmp \in BOOLEAN /\ o.dest \in {"old", "new"}
  /\ o.tmp => o.state = "DONE" /\ validate[r]
  /\ o.dest = "new" => o.state = "DONE" /\ ~validate[r]

LEMMA OutcomeFacts ==
  ASSUME IInv, NEW r \in Requests, answers[r] = 0
  PROVE  /\ dest[r] = "old"
         /\ \A code \in Ended : \A o \in Outcomes(r, code) : IsOutcome(r, o)
<1>1. dest[r] = "old"
  BY HttpAssumption DEF IInv, TypeOK, Stored, DestinationIsWhole, Settled, Ended
<1>2. ASSUME NEW code \in Ended, NEW o \in Outcomes(r, code) PROVE IsOutcome(r, o)
  <2>1. validate[r] \in BOOLEAN
    BY DEF IInv, TypeOK
  <2>2. CASE code = "DONE" /\ r \in Files
    <3>1. o \in FileOutcomes(r)
      BY <1>2, <2>2 DEF Outcomes
    <3>2. CASE validate[r]
      <4>1. \/ o = [state |-> "ERROR", tmp |-> FALSE, dest |-> "old"]
            \/ o = [state |-> "DONE", tmp |-> FALSE, dest |-> "old"]
            \/ o = [state |-> "DONE", tmp |-> TRUE, dest |-> "old"]
        BY <1>1, <3>1, <3>2 DEF FileOutcomes
      <4>2. CASE o = [state |-> "ERROR", tmp |-> FALSE, dest |-> "old"]
        BY <4>2 DEF IsOutcome, Ended
      <4>3. CASE o = [state |-> "DONE", tmp |-> FALSE, dest |-> "old"]
        BY <4>3 DEF IsOutcome, Ended
      <4>4. CASE o = [state |-> "DONE", tmp |-> TRUE, dest |-> "old"]
        BY <3>2, <4>4 DEF IsOutcome, Ended
      <4> QED
        BY <4>1, <4>2, <4>3, <4>4
    <3>3. CASE ~validate[r]
      <4>1. \/ o = [state |-> "ERROR", tmp |-> FALSE, dest |-> "old"]
            \/ o = [state |-> "DONE", tmp |-> FALSE, dest |-> "old"]
            \/ o = [state |-> "DONE", tmp |-> FALSE, dest |-> "new"]
        BY <1>1, <3>1, <3>3 DEF FileOutcomes
      <4>2. CASE o = [state |-> "ERROR", tmp |-> FALSE, dest |-> "old"]
        BY <4>2 DEF IsOutcome, Ended
      <4>3. CASE o = [state |-> "DONE", tmp |-> FALSE, dest |-> "old"]
        BY <4>3 DEF IsOutcome, Ended
      <4>4. CASE o = [state |-> "DONE", tmp |-> FALSE, dest |-> "new"]
        BY <3>3, <4>4 DEF IsOutcome, Ended
      <4> QED
        BY <4>1, <4>2, <4>3, <4>4
    <3> QED
      BY <3>2, <3>3
  <2>3. CASE ~(code = "DONE" /\ r \in Files)
    <3>1. o = [state |-> code, tmp |-> FALSE, dest |-> dest[r]]
      BY <2>3 DEF Outcomes
    <3> QED
      BY <1>1, <3>1 DEF IsOutcome
  <2> QED
    BY <2>2, <2>3
<1> QED
  BY <1>1, <1>2

(* A request that was given to Run and is not answered is answered now. *)
LEMMA AnswerStep ==
  ASSUME IInv, NEW r \in Requests, NEW o, IsOutcome(r, o), answers[r] = 0, completing = None,
         Completed(r, o), completing' = r, UNCHANGED <<reqState, validate, user>>,
         r \in Held, Held' = Held \ {r}
  PROVE  RequestTypes' /\ Places' /\ Settled' /\ Stored'
<1>1. /\ result' = [result EXCEPT ![r] = o.state] /\ tmp' = [tmp EXCEPT ![r] = o.tmp]
      /\ dest' = [dest EXCEPT ![r] = o.dest] /\ answers' = [answers EXCEPT ![r] = 1]
  BY DEF Completed
<1>2. RequestTypes
  BY DEF IInv, TypeOK, RequestTypes
<1>3. RequestTypes'
  BY <1>1, <1>2 DEF RequestTypes, IsOutcome
<1>4. Asked(r) /\ r # None /\ None \notin Ended /\ reqState[r] \notin Ended
  BY HttpAssumption DEF IInv, Places, Settled
<1>5. Places'
  BY <1>1, <1>2 DEF IInv, Places, Asked, RequestTypes
<1>6. Settled'
  <2>1. /\ \A q \in Requests : answers'[q] = 1 => Asked(q)'
        /\ \A q \in Requests : answers'[q] = 1 <=> result'[q] # None
    BY <1>1, <1>2, <1>4 DEF IInv, Settled, Asked, RequestTypes, IsOutcome
  <2>2. \A q \in Requests : reqState'[q] \in Ended <=> answers'[q] = 1 /\ completing' # q
    <3>1. \A q \in Requests : reqState[q] \in Ended <=> answers[q] = 1
      BY HttpAssumption DEF IInv, Settled
    <3> QED
      BY <1>1, <1>2, <1>4, <3>1 DEF RequestTypes
  <2>3. completing' # None => answers'[completing'] = 1
    BY <1>1, <1>2 DEF RequestTypes
  <2>4. \A q \in Requests : reqState'[q] = "DONE" => result'[q] = "DONE"
    BY <1>1, <1>2, <1>4 DEF IInv, Settled, RequestTypes, Ended
  <2> QED
    BY <2>1, <2>2, <2>3, <2>4 DEF Settled
<1>7. \A q \in Requests : answers'[q] = 1 /\ tmp'[q] =>
        result'[q] = "DONE" /\ validate'[q] /\ (reqState'[q] \in Ended => reqState'[q] = "DONE")
  BY <1>1, <1>2, <1>4 DEF IInv, Stored, RequestTypes, IsOutcome
<1>8. DestinationIsWhole'
  BY <1>1, <1>2 DEF IInv, Stored, DestinationIsWhole, RequestTypes, IsOutcome
<1>9. NothingLeftBehind'
  <2>1. \A q \in Requests \ {r} : q \in Held => q \in Held'
    OBVIOUS
  <2>2. \A q \in Requests : Holds(q) <=> q \in Held \/ q = completing
    BY DEF Holds, Held
  <2>3. \A q \in Requests : Holds(q)' <=> q \in Held' \/ q = r
    BY DEF Holds, Held
  <2>4. ASSUME NEW q \in Requests, tmp'[q] PROVE user'[q] = "held" \/ Holds(q)'
    <3>1. CASE q = r
      BY <2>3, <3>1
    <3>2. CASE q # r
      <4>1. tmp[q] /\ q # completing
        BY <1>1, <1>2, <2>4, <3>2, HttpAssumption DEF RequestTypes
      <4> QED
        BY <2>1, <2>2, <2>3, <3>2, <4>1 DEF IInv, Stored, NothingLeftBehind
    <3> QED
      BY <3>1, <3>2
  <2> QED
    BY <2>4 DEF NothingLeftBehind
<1> QED
  BY <1>3, <1>5, <1>6, <1>7, <1>8, <1>9 DEF Stored

(* The same for what the thread takes from its queues or from curl. *)
LEMMA CompletesStep ==
  ASSUME IInv, NEW r \in Requests, NEW code \in Ended, completing = None,
         Completes(r, code), user' = user, r \in Held, Held' = Held \ {r}
  PROVE  completing' = r /\ RequestTypes' /\ Places' /\ Settled' /\ Stored'
<1>1. answers[r] = 0
  BY DEF IInv, Places
<1>2. PICK o \in Outcomes(r, code) : Completed(r, o)
  BY DEF Completes
<1>3. IsOutcome(r, o)
  BY <1>1, <1>2, OutcomeFacts
<1> QED
  BY <1>1, <1>2, <1>3, AnswerStep DEF Completes

-----------------------------------------------------------------------------
(* Init and each step keep the invariant. *)

LEMMA InitInv == Init => IInv
<1> SUFFICES ASSUME Init PROVE IInv
  OBVIOUS
<1>1. Held = {} /\ Once(<<>>) /\ Range(<<>>) = {}
  BY EmptyFacts DEF Init, Held
<1>2. TypeOK
  <2>1. <<>> \in Seq(Requests)
    BY EmptyFacts
  <2>2. validate \in [Requests -> BOOLEAN]
    BY DEF Init
  <2>3. RequestTypes
    <3>1. completing \in Requests \cup {None} /\ tmp \in [Requests -> BOOLEAN]
      BY DEF Init
    <3>2. /\ reqState \in [Requests -> {"QUEUED", "RUNNING"} \cup Ended]
          /\ result \in [Requests -> Ended \cup {None}]
      BY DEF Init
    <3>3. dest \in [Requests -> {"old", "new"}] /\ answers \in [Requests -> 0..1]
      BY DEF Init
    <3> QED
      BY <2>2, <3>1, <3>2, <3>3 DEF RequestTypes
  <2>4. abort \in [Requests -> BOOLEAN] /\ user \in [Requests -> {"new", "held", "dropped"}]
    BY DEF Init
  <2>5. /\ state \in {"UNINITIALIZED", "RUNNING", "ERROR"}
        /\ shutdown \in BOOLEAN /\ woken \in BOOLEAN /\ deadline \in {"none", "set", "past"}
        /\ pending \in Seq(Requests) /\ fresh \in Seq(Requests)
        /\ running \subseteq Requests /\ scan \subseteq running
        /\ pc = "start" /\ program = "init"
    BY <2>1 DEF Init
  <2> QED
    BY <2>3, <2>4, <2>5 DEF TypeOK, RequestTypes
<1>3. Apart /\ Places
  BY <1>1 DEF Init, Apart, Places, Asked
<1>4. Loop /\ Settled
  BY DEF Init, Loop, Settled, Ended, Refuses
<1>5. Stored
  BY DEF Init, Stored, DestinationIsWhole, NothingLeftBehind
<1> QED
  BY <1>2, <1>3, <1>4, <1>5 DEF IInv

(* Steps of the loop and the program that touch no request. *)
LEMMA LoopStep ==
  ASSUME IInv,
         \/ ThreadStarts \/ PollLeaves \/ PollGoesOn \/ Perform \/ TransfersGoOn \/ NewDone
         \/ LeaveLocks \/ ThreadEnds \/ InitReturns \/ Shutdown \/ DelayPasses \/ Join
  PROVE  IInv'
<1>1. UNCHANGED <<request, abort, user, pending, fresh, running>>
  BY DEF ThreadStarts, PollLeaves, PollGoesOn, PollReturns, Perform, TransfersGoOn, NewDone,
         LeaveLocks,
     ThreadEnds, InitReturns, Shutdown, DelayPasses, Join, queues, client
<1>2. TypeOK'
  <2>1. /\ RequestTypes' /\ pending' \in Seq(Requests) /\ fresh' \in Seq(Requests)
        /\ running' \subseteq Requests
        /\ abort' \in [Requests -> BOOLEAN] /\ user' \in [Requests -> {"new", "held", "dropped"}]
    BY <1>1 DEF IInv, TypeOK, RequestTypes, request
  <2>2. /\ state' \in {"UNINITIALIZED", "RUNNING", "ERROR"}
        /\ shutdown' \in BOOLEAN /\ woken' \in BOOLEAN
        /\ deadline' \in {"none", "set", "past"}
        /\ scan' \subseteq running'
        /\ pc' \in {"start", "poll", "perform", "complete", "aborts", "take",
                    "new", "leave", "finish", "gone"}
        /\ program' \in {"init", "up", "down", "joined"}
    <3>1. CASE ThreadStarts \/ PollLeaves \/ PollGoesOn \/ Perform
      BY <3>1 DEF ThreadStarts, PollLeaves, PollGoesOn, PollReturns, Perform, IInv, TypeOK
    <3>2. CASE TransfersGoOn \/ NewDone \/ LeaveLocks \/ ThreadEnds
      BY <3>2 DEF TransfersGoOn, NewDone, LeaveLocks, ThreadEnds, client, IInv, TypeOK
    <3>3. CASE InitReturns \/ Shutdown \/ DelayPasses \/ Join
      BY <3>3 DEF InitReturns, Shutdown, DelayPasses, Join, queues, IInv, TypeOK
    <3> QED
      BY <3>1, <3>2, <3>3
  <2> QED
    BY <2>1, <2>2 DEF TypeOK, RequestTypes
<1>3. Loop'
  <2>1. CASE ThreadStarts \/ PollLeaves \/ PollGoesOn \/ Perform
    <3>1. CASE ThreadStarts
      BY <1>1, <3>1 DEF ThreadStarts, At, IInv, Loop, Refuses, request
    <3>2. CASE PollLeaves
      BY <1>1, <3>2 DEF PollLeaves, PollReturns, At, IInv, Loop, Refuses
    <3>3. CASE PollGoesOn
      BY <1>1, <3>3 DEF PollGoesOn, PollReturns, At, IInv, Loop, Refuses
    <3>4. CASE Perform
      BY <1>1, <3>4 DEF Perform, At, IInv, Loop, Refuses
    <3> QED
      BY <2>1, <3>1, <3>2, <3>3, <3>4
  <2>2. CASE TransfersGoOn \/ NewDone \/ LeaveLocks \/ ThreadEnds
    BY <1>1, <2>2 DEF TransfersGoOn, NewDone, LeaveLocks, ThreadEnds, At, client, request, IInv,
                      Loop, Refuses
  <2>3. CASE InitReturns \/ Shutdown \/ DelayPasses \/ Join
    BY <1>1, <2>3 DEF InitReturns, Shutdown, DelayPasses, Join, queues, request, IInv, Loop,
                      Refuses
  <2> QED
    BY <2>1, <2>2, <2>3
<1> QED
  BY <1>1, <1>2, <1>3, SameRequests DEF IInv

LEMMA TakeStep ==
  ASSUME IInv, Take
  PROVE  IInv'
<1>1. fresh = <<>> /\ fresh' = pending /\ pending' = <<>> /\ UNCHANGED <<client, running, scan,
                                                                         request, abort, user>>
      /\ pc = "aborts" /\ pc' = "new" /\ scan = {}
  BY DEF Take, At, IInv, Loop
<1>2. Range(<<>>) = {} /\ Once(<<>>) /\ <<>> \in Seq(Requests)
  BY EmptyFacts
<1>3. Held' = Held
  BY <1>1, <1>2 DEF Held
<1>4. TypeOK'
  BY <1>1, <1>2 DEF IInv, TypeOK, client, request
<1>5. Apart'
  BY <1>1, <1>2 DEF IInv, Apart
<1>6. Places' /\ Settled'
  BY <1>1, <1>3 DEF IInv, Places, Settled, Asked, request
<1>7. Loop'
  BY <1>1 DEF IInv, Loop, client, Refuses
<1>8. Stored'
  <2>1. \A r \in Requests : Holds(r)' <=> Holds(r)
    BY <1>1, <1>3 DEF Holds, Held, request
  <2> QED
    BY <1>1, <2>1 DEF IInv, Stored, DestinationIsWhole, NothingLeftBehind, request
<1> QED
  BY <1>4, <1>5, <1>6, <1>7, <1>8 DEF IInv

(* What is taken from curl. *)
LEMMA FromRunning ==
  ASSUME IInv, NEW r \in running, running' = running \ {r}, UNCHANGED <<pending, fresh>>
  PROVE  r \in Requests /\ r \in Held /\ Held' = Held \ {r} /\ Apart'
BY DEF IInv, TypeOK, Apart, Held

LEMMA TransferStep ==
  ASSUME IInv, NEW r \in Requests, TransferEnds(r)
  PROVE  IInv'
<1>1. /\ running' = running \ {r} /\ scan' = scan \ {r} /\ UNCHANGED <<pending, fresh, client,
                                                                       pc, abort, user>>
      /\ pc = "complete" /\ completing = None /\ r \in scan
  BY DEF TransferEnds, At
<1>2. PICK code \in Ended : Completes(r, code)
  BY DEF TransferEnds, Ended
<1>3. r \in running
  BY <1>1 DEF IInv, TypeOK
<1>4. completing' = r /\ RequestTypes' /\ Places' /\ Settled' /\ Stored' /\ Apart'
  BY <1>1, <1>2, <1>3, FromRunning, CompletesStep
<1>5. TypeOK'
  BY <1>1, <1>4 DEF IInv, TypeOK, RequestTypes, client
<1>6. Loop'
  BY <1>1 DEF IInv, Loop, Refuses, client
<1> QED
  BY <1>4, <1>5, <1>6 DEF IInv

LEMMA ScanStep ==
  ASSUME IInv, NEW r \in Requests, ScanAbort(r)
  PROVE  IInv'
<1>1. /\ scan' = scan \ {r} /\ UNCHANGED <<pending, fresh, client, pc, abort, user>>
      /\ pc = "aborts" /\ completing = None /\ r \in scan
  BY DEF ScanAbort, At, Advance
<1>2. r \in running
  BY <1>1 DEF IInv, TypeOK
<1>3. CASE abort[r]
  <2>1. Completes(r, "ABORTED") /\ running' = running \ {r}
    BY <1>3 DEF ScanAbort
  <2>2. completing' = r /\ RequestTypes' /\ Places' /\ Settled' /\ Stored' /\ Apart'
    BY <1>1, <1>2, <2>1, FromRunning, CompletesStep DEF Ended
  <2>3. TypeOK'
    BY <1>1, <2>1, <2>2 DEF IInv, TypeOK, RequestTypes, client
  <2>4. Loop'
    BY <1>1, <2>1 DEF IInv, Loop, Refuses, client
  <2> QED
    BY <2>2, <2>3, <2>4 DEF IInv
<1>4. CASE ~abort[r]
  <2>1. UNCHANGED <<running, request>>
    BY <1>4 DEF ScanAbort
  <2>2. TypeOK'
    BY <1>1, <2>1 DEF IInv, TypeOK, request, client
  <2>3. Loop'
    BY <1>1, <2>1 DEF IInv, Loop, Refuses, client, request
  <2> QED
    BY <1>1, <2>1, <2>2, <2>3, SameRequests DEF IInv
<1> QED
  BY <1>3, <1>4

(* What is taken from a queue. *)
LEMMA FromFresh ==
  ASSUME IInv, fresh # <<>>, fresh' = Tail(fresh), UNCHANGED <<pending, running>>
  PROVE  /\ Head(fresh) \in Requests /\ Head(fresh) \in Held /\ Held' = Held \ {Head(fresh)}
         /\ fresh' \in Seq(Requests) /\ Apart'
<1>1. fresh \in Seq(Requests) /\ Once(fresh)
  BY DEF IInv, TypeOK, Apart
<1>2. /\ Head(fresh) \in Requests /\ Head(fresh) \in Range(fresh)
      /\ fresh' \in Seq(Requests) /\ Once(fresh') /\ Range(fresh') = Range(fresh) \ {Head(fresh)}
  BY <1>1, TailFacts
<1> QED
  BY <1>2 DEF IInv, Apart, Held

LEMMA FromPending ==
  ASSUME IInv, pending # <<>>, pending' = Tail(pending), UNCHANGED <<fresh, running>>
  PROVE  /\ Head(pending) \in Requests /\ Head(pending) \in Held /\ Held' = Held \ {Head(pending)}
         /\ pending' \in Seq(Requests) /\ Apart'
<1>1. pending \in Seq(Requests) /\ Once(pending)
  BY DEF IInv, TypeOK, Apart
<1>2. /\ Head(pending) \in Requests /\ Head(pending) \in Range(pending)
      /\ pending' \in Seq(Requests) /\ Once(pending')
      /\ Range(pending') = Range(pending) \ {Head(pending)}
  BY <1>1, TailFacts
<1> QED
  BY <1>2 DEF IInv, Apart, Held

LEMMA NewEndsStep ==
  ASSUME IInv, NewEnds
  PROVE  IInv'
<1> DEFINE r == Head(fresh)
<1>1. /\ pc = "new" /\ completing = None /\ fresh # <<>> /\ fresh' = Tail(fresh)
      /\ UNCHANGED <<client, pending, running, pc, scan, abort, user>>
  BY DEF NewEnds, At
<1>2. r \in Requests /\ r \in Held /\ Held' = Held \ {r} /\ fresh' \in Seq(Requests) /\ Apart'
  BY <1>1, FromFresh
<1>3. answers[r] = 0
  BY <1>2 DEF IInv, Places
<1>4. RequestTypes' /\ Places' /\ Settled' /\ Stored'
  <2>1. CASE Completes(r, "ABORTED")
    BY <1>1, <1>2, <2>1, CompletesStep DEF Ended
  <2>2. CASE /\ Completed(r, [state |-> "DONE", tmp |-> FALSE, dest |-> dest[r]])
             /\ completing' = r /\ UNCHANGED <<reqState, validate>>
    <3> DEFINE o == [state |-> "DONE", tmp |-> FALSE, dest |-> dest[r]]
    <3>1. IsOutcome(r, o)
      BY <1>2, <1>3, OutcomeFacts DEF IsOutcome, Ended
    <3> QED
      BY <1>1, <1>2, <1>3, <2>2, <3>1, AnswerStep
  <2> QED
    BY <2>1, <2>2 DEF NewEnds
<1>5. TypeOK'
  BY <1>1, <1>2, <1>4 DEF IInv, TypeOK, RequestTypes, client
<1>6. Loop'
  BY <1>1 DEF IInv, Loop, Refuses, client
<1> QED
  BY <1>2, <1>4, <1>5, <1>6 DEF IInv

LEMMA NewRunsStep ==
  ASSUME IInv, NewRuns
  PROVE  IInv'
<1> DEFINE r == Head(fresh)
<1>1. /\ pc = "new" /\ completing = None /\ fresh # <<>> /\ fresh' = Tail(fresh)
      /\ UNCHANGED <<client, pending, pc, scan, result, completing, validate, dest, answers,
                     abort, user>>
      /\ reqState' = [reqState EXCEPT ![r] = "RUNNING"]
      /\ tmp' = [tmp EXCEPT ![r] = r \in Files]
      /\ running' = running \cup {r}
  BY DEF NewRuns, At
<1>2. fresh \in Seq(Requests) /\ Once(fresh)
  BY DEF IInv, TypeOK, Apart
<1>3. /\ r \in Requests /\ r \in Range(fresh)
      /\ fresh' \in Seq(Requests) /\ Once(fresh') /\ Range(fresh') = Range(fresh) \ {r}
  BY <1>1, <1>2, TailFacts
<1>4. Apart' /\ Held' = Held
  BY <1>1, <1>3 DEF IInv, Apart, Held
<1>5. r \in Held /\ answers[r] = 0 /\ reqState[r] \notin Ended
  BY <1>3 DEF IInv, Places, Settled, Held
<1>6. TypeOK'
  BY <1>1, <1>3 DEF IInv, TypeOK, client
<1>7. Places'
  BY <1>1, <1>4 DEF IInv, Places, Asked
<1>8. Loop'
  BY <1>1 DEF IInv, Loop, Refuses, client
<1>9. Settled'
  BY <1>1, <1>3, <1>5 DEF IInv, Settled, Asked, TypeOK, Ended
<1>10. Stored'
  <2>1. \A q \in Requests : Holds(q)' <=> Holds(q)
    BY <1>1, <1>4 DEF Holds, Held
  <2>2. NothingLeftBehind'
    BY <1>1, <1>3, <1>5, <2>1 DEF IInv, Stored, NothingLeftBehind, TypeOK, Holds, Held
  <2>3. DestinationIsWhole'
    BY <1>1 DEF IInv, Stored, DestinationIsWhole
  <2>4. \A q \in Requests : answers'[q] = 1 /\ tmp'[q] =>
          result'[q] = "DONE" /\ validate'[q] /\ (reqState'[q] \in Ended => reqState'[q] = "DONE")
    BY <1>1, <1>3, <1>5 DEF IInv, Stored, TypeOK
  <2> QED
    BY <2>2, <2>3, <2>4 DEF Stored
<1> QED
  BY <1>4, <1>6, <1>7, <1>8, <1>9, <1>10 DEF IInv

LEMMA NewFailsStep ==
  ASSUME IInv, NewFails
  PROVE  IInv'
<1> DEFINE r == Head(fresh)
<1>1. /\ pc = "new" /\ completing = None /\ fresh # <<>> /\ fresh' = <<>>
      /\ pending' = pending \o fresh
      /\ tmp' \in {tmp, [tmp EXCEPT ![r] = r \in Files]} /\ state' = "ERROR" /\ pc' = "finish"
      /\ UNCHANGED <<shutdown, deadline, woken, program, running, scan, reqState, result,
                     completing,
                     validate, dest, answers, abort, user>>
  BY DEF NewFails, At, PutBack
<1>2. /\ fresh \in Seq(Requests) /\ Once(fresh) /\ pending \in Seq(Requests) /\ Once(pending)
      /\ Range(pending) \cap Range(fresh) = {}
  BY DEF IInv, TypeOK, Apart
<1>3. r \in Requests /\ r \in Range(fresh)
  BY <1>1, <1>2, TailFacts
<1>4. /\ pending' \in Seq(Requests) /\ Once(pending')
      /\ Range(pending') = Range(pending) \cup Range(fresh)
      /\ fresh' \in Seq(Requests) /\ Once(fresh') /\ Range(fresh') = {}
  BY <1>1, <1>2, ConcatFacts, EmptyFacts
<1>5. Apart' /\ Held' = Held
  BY <1>1, <1>4 DEF IInv, Apart, Held
<1>6. r \in Held /\ answers[r] = 0
  BY <1>3 DEF IInv, Places, Held
<1>7. tmp' \in [Requests -> BOOLEAN] /\ \A q \in Requests \ {r} : tmp'[q] = tmp[q]
  <2>1. tmp \in [Requests -> BOOLEAN]
    BY DEF IInv, TypeOK
  <2>2. CASE tmp' = tmp
    BY <2>1, <2>2
  <2>3. CASE tmp' = [tmp EXCEPT ![r] = r \in Files]
    BY <1>3, <2>1, <2>3
  <2> QED
    BY <1>1, <2>2, <2>3
<1>8. TypeOK'
  BY <1>1, <1>4, <1>7 DEF IInv, TypeOK
<1>9. Places' /\ Settled'
  BY <1>1, <1>5 DEF IInv, Places, Settled, Asked
<1>10. Loop'
  BY <1>1 DEF IInv, Loop, Refuses
<1>11. Stored'
  <2>1. \A q \in Requests : Holds(q)' <=> Holds(q)
    BY <1>1, <1>5 DEF Holds, Held
  <2>2. Holds(r)
    BY <1>3 DEF Holds
  <2>3. NothingLeftBehind'
    BY <1>1, <1>7, <2>1, <2>2 DEF IInv, Stored, NothingLeftBehind
  <2>4. DestinationIsWhole'
    BY <1>1 DEF IInv, Stored, DestinationIsWhole
  <2>5. \A q \in Requests : answers'[q] = 1 /\ tmp'[q] =>
          result'[q] = "DONE" /\ validate'[q] /\ (reqState'[q] \in Ended => reqState'[q] = "DONE")
    BY <1>1, <1>6, <1>7 DEF IInv, Stored
  <2> QED
    BY <2>3, <2>4, <2>5 DEF Stored
<1> QED
  BY <1>5, <1>8, <1>9, <1>10, <1>11 DEF IInv

LEMMA FinishStep ==
  ASSUME IInv, FinishPending \/ \E r \in Requests : FinishRunning(r)
  PROVE  IInv'
<1>1. CASE FinishPending
  <2>1. /\ pc = "finish" /\ completing = None /\ pending # <<>> /\ pending' = Tail(pending)
        /\ Completes(Head(pending), "ABORTED")
        /\ UNCHANGED <<client, running, fresh, pc, scan, abort, user>>
    BY <1>1 DEF FinishPending, At
  <2>2. /\ completing' = Head(pending) /\ RequestTypes' /\ Places' /\ Settled' /\ Stored'
        /\ Apart' /\ pending' \in Seq(Requests)
    BY <2>1, FromPending, CompletesStep DEF Ended
  <2>3. TypeOK'
    BY <2>1, <2>2 DEF IInv, TypeOK, RequestTypes, client
  <2>4. Loop'
    BY <2>1 DEF IInv, Loop, Refuses, client
  <2> QED
    BY <2>2, <2>3, <2>4 DEF IInv
<1>2. ASSUME NEW r \in Requests, FinishRunning(r) PROVE IInv'
  <2>1. /\ pc = "finish" /\ completing = None /\ r \in running /\ running' = running \ {r}
        /\ Completes(r, "ABORTED")
        /\ UNCHANGED <<client, pending, fresh, pc, scan, abort, user>>
    BY <1>2 DEF FinishRunning, At
  <2>2. completing' = r /\ RequestTypes' /\ Places' /\ Settled' /\ Stored' /\ Apart'
    BY <2>1, FromRunning, CompletesStep DEF Ended
  <2>3. scan = {}
    BY <2>1 DEF IInv, Loop
  <2>4. TypeOK'
    BY <2>1, <2>2, <2>3 DEF IInv, TypeOK, RequestTypes, client
  <2>5. Loop'
    BY <2>1 DEF IInv, Loop, Refuses, client
  <2> QED
    BY <2>2, <2>4, <2>5 DEF IInv
<1> QED
  BY <1>1, <1>2

LEMMA PublishStep ==
  ASSUME IInv, Publish
  PROVE  IInv'
<1> DEFINE r == completing
<1>1. /\ r # None /\ reqState' = [reqState EXCEPT ![r] = result[r]]
      /\ tmp' = [tmp EXCEPT ![r] = tmp[r] /\ user[r] = "held"]
      /\ completing' = None
      /\ UNCHANGED <<client, queues, result, validate, dest, answers, abort, user>>
  BY DEF Publish, Destroyed
<1>2. r \in Requests /\ answers[r] = 1 /\ result[r] \in Ended
  BY <1>1 DEF IInv, TypeOK, Settled
<1>3. UNCHANGED <<pending, fresh, running, pc, scan, state, shutdown>> /\ Held' = Held
  BY <1>1 DEF queues, client, Held
<1>4. TypeOK'
  BY <1>1, <1>2 DEF IInv, TypeOK, queues, client
<1>5. Apart' /\ Places'
  BY <1>1, <1>3 DEF IInv, Apart, Places, Asked
<1>6. Loop'
  BY <1>1, <1>3 DEF IInv, Loop, Refuses
<1>7. Settled'
  BY <1>1, <1>2, HttpAssumption DEF IInv, Settled, Asked, TypeOK
<1>8. Stored'
  <2>1. \A q \in Requests \ {r} : Holds(q)' <=> Holds(q)
    BY <1>1, <1>3, HttpAssumption DEF Holds
  <2>2. NothingLeftBehind'
    BY <1>1, <1>2, <2>1 DEF IInv, Stored, NothingLeftBehind, TypeOK
  <2>3. DestinationIsWhole'
    BY <1>1 DEF IInv, Stored, DestinationIsWhole
  <2>4. \A q \in Requests : answers'[q] = 1 /\ tmp'[q] =>
          result'[q] = "DONE" /\ validate'[q] /\ (reqState'[q] \in Ended => reqState'[q] = "DONE")
    BY <1>1, <1>2 DEF IInv, Stored, TypeOK
  <2> QED
    BY <2>2, <2>3, <2>4 DEF Stored
<1> QED
  BY <1>4, <1>5, <1>6, <1>7, <1>8 DEF IInv

(* Run: the request joins the queue, or its caller answers it. *)
LEMMA RunStep ==
  ASSUME IInv, NEW r \in Requests, Run(r)
  PROVE  IInv'
<1>1. /\ user[r] = "new" /\ user' = [user EXCEPT ![r] = "held"] /\ state # "UNINITIALIZED"
      /\ UNCHANGED <<state, shutdown, deadline, program, running, fresh, pc, scan, completing,
                     validate, abort>>
  BY DEF Run
<1>2. answers[r] = 0 /\ r \notin Held /\ completing # r /\ reqState[r] \notin Ended
  BY <1>1, HttpAssumption DEF IInv, TypeOK, Places, Settled, Asked
<1>3. /\ user' \in [Requests -> {"new", "held", "dropped"}]
      /\ \A q \in Requests : Asked(q)' <=> q = r \/ Asked(q)
  BY <1>1 DEF IInv, TypeOK, Asked
<1>4. CASE Refuses
  <2>1. /\ UNCHANGED <<pending, woken>> /\ reqState' = [reqState EXCEPT ![r] = "ABORTED"]
        /\ \E o \in Outcomes(r, "ABORTED") : Completed(r, o)
    BY <1>4 DEF Run
  <2>2. PICK o \in Outcomes(r, "ABORTED") : Completed(r, o)
    BY <2>1
  <2>3. o = [state |-> "ABORTED", tmp |-> FALSE, dest |-> "old"]
    BY <1>2, <2>2, OutcomeFacts DEF Outcomes
  <2>4. /\ result' = [result EXCEPT ![r] = "ABORTED"] /\ tmp' = [tmp EXCEPT ![r] = FALSE]
        /\ dest' = [dest EXCEPT ![r] = "old"] /\ answers' = [answers EXCEPT ![r] = 1]
    BY <1>2, <2>2, <2>3 DEF Completed
  <2>5. RequestTypes
    BY DEF IInv, TypeOK, RequestTypes
  <2>6. RequestTypes'
    BY <1>1, <2>1, <2>4, <2>5 DEF RequestTypes, Ended
  <2>7. TypeOK'
    BY <1>1, <1>3, <2>1, <2>6 DEF IInv, TypeOK, RequestTypes
  <2>8. Held' = Held /\ Apart' /\ Loop'
    BY <1>1, <2>1 DEF IInv, Held, Apart, Loop, Refuses
  <2>9. Places'
    BY <1>2, <1>3, <2>4, <2>5, <2>8 DEF IInv, Places, RequestTypes
  <2>10. Settled'
    <3>1. /\ \A q \in Requests : answers'[q] = 1 => Asked(q)'
          /\ \A q \in Requests : answers'[q] = 1 <=> result'[q] # None
      BY <1>3, <2>4, <2>5, HttpAssumption DEF IInv, Settled, RequestTypes, Ended
    <3>2. \A q \in Requests : reqState'[q] \in Ended <=> answers'[q] = 1 /\ completing' # q
      BY <1>1, <1>2, <2>1, <2>4, <2>5 DEF IInv, Settled, RequestTypes, Ended
    <3>3. completing' # None => answers'[completing'] = 1
      BY <1>1, <2>4, <2>5 DEF IInv, Settled, RequestTypes
    <3>4. \A q \in Requests : reqState'[q] = "DONE" => result'[q] = "DONE"
      BY <2>1, <2>4, <2>5 DEF IInv, Settled, RequestTypes
    <3> QED
      BY <3>1, <3>2, <3>3, <3>4 DEF Settled
  <2>11. Stored'
    <3>1. \A q \in Requests : answers'[q] = 1 /\ tmp'[q] =>
            /\ result'[q] = "DONE" /\ validate'[q]
            /\ reqState'[q] \in Ended => reqState'[q] = "DONE"
      BY <1>1, <2>1, <2>4, <2>5 DEF IInv, Stored, RequestTypes
    <3>2. DestinationIsWhole'
      BY <1>1, <2>4, <2>5 DEF IInv, Stored, DestinationIsWhole, RequestTypes
    <3>3. \A q \in Requests : Holds(q)' <=> Holds(q)
      BY <1>1, <2>1 DEF Holds
    <3>4. NothingLeftBehind'
      BY <1>1, <2>4, <2>5, <3>3 DEF IInv, TypeOK, Stored, NothingLeftBehind, RequestTypes
    <3> QED
      BY <3>1, <3>2, <3>4 DEF Stored
  <2> QED
    BY <2>7, <2>8, <2>9, <2>10, <2>11 DEF IInv
<1>5. CASE ~Refuses
  <2>1. /\ pending' = Append(pending, r) /\ woken' = TRUE
        /\ UNCHANGED <<reqState, result, tmp, dest, answers>>
    BY <1>5 DEF Run, Enqueue
  <2>2. pending \in Seq(Requests) /\ Once(pending) /\ r \notin Range(pending)
    BY <1>2 DEF IInv, TypeOK, Apart, Held
  <2>3. pending' \in Seq(Requests) /\ Once(pending') /\ Range(pending') = Range(pending) \cup {r}
    BY <2>1, <2>2, AppendFacts
  <2>4. TypeOK'
    BY <1>1, <1>3, <2>1, <2>3 DEF IInv, TypeOK
  <2>5. Apart' /\ Held' = Held \cup {r}
    BY <1>1, <1>2, <2>3 DEF IInv, Apart, Held
  <2>6. Places'
    BY <1>2, <1>3, <2>1, <2>5 DEF IInv, Places
  <2>7. Loop'
    BY <1>1, <1>5, <2>1 DEF IInv, Loop, Refuses
  <2>8. Settled'
    BY <1>1, <1>3, <2>1 DEF IInv, Settled
  <2>9. Stored'
    <3>1. \A q \in Requests : Holds(q) => Holds(q)'
      BY <1>1, <2>3 DEF Holds
    <3>2. NothingLeftBehind'
      BY <1>1, <2>1, <3>1 DEF IInv, TypeOK, Stored, NothingLeftBehind
    <3> QED
      BY <1>1, <2>1, <3>2 DEF IInv, Stored, DestinationIsWhole
  <2> QED
    BY <2>4, <2>5, <2>6, <2>7, <2>8, <2>9 DEF IInv
<1> QED
  BY <1>4, <1>5

LEMMA AbortStep ==
  ASSUME IInv, NEW r \in Requests, Abort(r)
  PROVE  IInv'
<1>1. abort' = [abort EXCEPT ![r] = TRUE] /\ UNCHANGED <<client, queues, request, user>>
  BY DEF Abort
<1>2. UNCHANGED <<pending, fresh, running, Held>>
  BY <1>1 DEF queues, Held
<1>3. TypeOK'
  BY <1>1 DEF IInv, TypeOK, client, queues, request
<1>4. Apart' /\ Places' /\ Loop'
  BY <1>1, <1>2 DEF IInv, Apart, Places, Loop, Asked, Refuses, client, queues, request
<1>5. Settled'
  BY <1>1 DEF IInv, Settled, Asked, request
<1>6. NothingLeftBehind' /\ DestinationIsWhole'
  BY <1>1, <1>2 DEF IInv, Stored, NothingLeftBehind, DestinationIsWhole, Holds, request
<1>7. Stored'
  BY <1>1, <1>6 DEF IInv, Stored, request
<1> QED
  BY <1>3, <1>4, <1>5, <1>7 DEF IInv

LEMMA ValidationStep ==
  ASSUME IInv, NEW r \in Requests, NEW success \in BOOLEAN, OnValidation(r, success)
  PROVE  IInv'
<1>1. /\ reqState[r] = "DONE" /\ validate' = [validate EXCEPT ![r] = FALSE]
      /\ tmp' = [tmp EXCEPT ![r] = FALSE]
      /\ UNCHANGED <<client, queues, result, completing, answers, abort, user>>
  BY DEF OnValidation
<1>2. /\ reqState' = reqState \/ reqState' = [reqState EXCEPT ![r] = "ERROR"]
      /\ dest' = dest \/ dest' = [dest EXCEPT ![r] = "new"]
  BY DEF OnValidation
<1>3. answers[r] = 1 /\ result[r] = "DONE" /\ completing # r
  BY <1>1 DEF IInv, Settled, Ended
<1>4. UNCHANGED <<pending, fresh, running, pc, scan, state, shutdown, Held>>
  BY <1>1 DEF queues, client, Held
<1>5. RequestTypes
  BY DEF IInv, TypeOK, RequestTypes
<1>6. /\ RequestTypes'
      /\ \A q \in Requests : /\ reqState'[q] \in {reqState[q], "ERROR"}
                             /\ q # r => reqState'[q] = reqState[q] /\ dest'[q] = dest[q]
                             /\ reqState'[q] \in Ended <=> reqState[q] \in Ended
  <2>1. /\ reqState' \in [Requests -> {"QUEUED", "RUNNING"} \cup Ended]
        /\ \A q \in Requests : /\ reqState'[q] \in {reqState[q], "ERROR"}
                               /\ q # r => reqState'[q] = reqState[q]
        /\ reqState'[r] \in Ended /\ reqState[r] \in Ended
    <3>1. CASE reqState' = reqState
      BY <1>1, <1>5, <3>1 DEF RequestTypes, Ended
    <3>2. CASE reqState' = [reqState EXCEPT ![r] = "ERROR"]
      BY <1>1, <1>5, <3>2 DEF RequestTypes, Ended
    <3> QED
      BY <1>2, <3>1, <3>2
  <2>2. dest' \in [Requests -> {"old", "new"}] /\ \A q \in Requests \ {r} : dest'[q] = dest[q]
    <3>1. CASE dest' = dest
      BY <1>5, <3>1 DEF RequestTypes
    <3>2. CASE dest' = [dest EXCEPT ![r] = "new"]
      BY <1>5, <3>2 DEF RequestTypes
    <3> QED
      BY <1>2, <3>1, <3>2
  <2> QED
    BY <1>1, <1>5, <2>1, <2>2 DEF RequestTypes
<1>7. TypeOK'
  BY <1>1, <1>6 DEF IInv, TypeOK, RequestTypes, client, queues
<1>8. Apart' /\ Places' /\ Loop'
  BY <1>1, <1>4 DEF IInv, Apart, Places, Loop, Asked, Refuses
<1>9. Settled'
  BY <1>1, <1>6 DEF IInv, Settled, Asked
<1>10. Stored'
  <2>1. \A q \in Requests \ {r} : tmp'[q] = tmp[q] /\ validate'[q] = validate[q]
    BY <1>1, <1>5 DEF RequestTypes
  <2>2. tmp'[r] = FALSE /\ validate'[r] = FALSE
    BY <1>1, <1>5 DEF RequestTypes
  <2>3. \A q \in Requests : answers'[q] = 1 /\ tmp'[q] =>
          result'[q] = "DONE" /\ validate'[q] /\ (reqState'[q] \in Ended => reqState'[q] = "DONE")
    BY <1>1, <1>6, <2>1, <2>2 DEF IInv, Stored
  <2>4. DestinationIsWhole'
    BY <1>1, <1>3, <1>6, <2>1, <2>2 DEF IInv, Stored, DestinationIsWhole
  <2>5. \A q \in Requests : Holds(q)' <=> Holds(q)
    BY <1>1, <1>4 DEF Holds
  <2>6. NothingLeftBehind'
    BY <1>1, <2>1, <2>2, <2>5 DEF IInv, Stored, NothingLeftBehind
  <2> QED
    BY <2>3, <2>4, <2>6 DEF Stored
<1> QED
  BY <1>7, <1>8, <1>9, <1>10 DEF IInv

LEMMA DropStep ==
  ASSUME IInv, NEW r \in Requests, Drop(r)
  PROVE  IInv'
<1>1. /\ user[r] = "held" /\ user' = [user EXCEPT ![r] = "dropped"]
      /\ tmp' = [tmp EXCEPT ![r] = tmp[r] /\ Holds(r)]
      /\ UNCHANGED <<client, queues, reqState, result, completing, validate, dest, answers,
                     abort>>
  BY DEF Drop, Destroyed
<1>2. UNCHANGED <<pending, fresh, running, pc, scan, state, shutdown, Held>>
  BY <1>1 DEF queues, client, Held
<1>3. /\ user' \in [Requests -> {"new", "held", "dropped"}]
      /\ \A q \in Requests : Asked(q)' <=> Asked(q)
  BY <1>1 DEF IInv, TypeOK, Asked
<1>4. /\ tmp' \in [Requests -> BOOLEAN]
      /\ tmp'[r] = (tmp[r] /\ Holds(r))
      /\ \A q \in Requests \ {r} : tmp'[q] = tmp[q] /\ user'[q] = user[q]
  <2>1. /\ tmp \in [Requests -> BOOLEAN] /\ user \in [Requests -> {"new", "held", "dropped"}]
        /\ Holds(r) \in BOOLEAN
    BY DEF IInv, TypeOK, Holds
  <2> QED
    BY <1>1, <2>1
<1>5. TypeOK'
  BY <1>1, <1>3, <1>4 DEF IInv, TypeOK, client, queues
<1>6. Apart' /\ Places' /\ Loop'
  BY <1>1, <1>2, <1>3 DEF IInv, Apart, Places, Loop, Refuses
<1>7. Settled'
  BY <1>1, <1>3 DEF IInv, Settled
<1>8. Stored'
  <2>1. \A q \in Requests : Holds(q)' <=> Holds(q)
    BY <1>1, <1>2 DEF Holds
  <2>2. NothingLeftBehind'
    BY <1>4, <2>1 DEF IInv, Stored, NothingLeftBehind
  <2>3. DestinationIsWhole'
    BY <1>1 DEF IInv, Stored, DestinationIsWhole
  <2>4. \A q \in Requests : tmp'[q] => tmp[q]
    BY <1>4
  <2> QED
    BY <1>1, <2>2, <2>3, <2>4 DEF IInv, Stored
<1> QED
  BY <1>5, <1>6, <1>7, <1>8 DEF IInv

LEMMA StepInv == IInv /\ [Next]_vars => IInv'
<1> SUFFICES ASSUME IInv, [Next]_vars PROVE IInv'
  OBVIOUS
<1>1. CASE UNCHANGED vars
  <2>1. UNCHANGED <<client, queues, request, abort, user, pending, fresh, running>>
    BY <1>1 DEF vars, queues
  <2>2. TypeOK'
    BY <2>1 DEF IInv, TypeOK, client, queues, request
  <2>3. Loop'
    BY <2>1 DEF IInv, Loop, Refuses, client, queues, request
  <2> QED
    BY <2>1, <2>2, <2>3, SameRequests DEF IInv
<1>2. CASE Thread
  BY <1>2, PublishStep, LoopStep, TakeStep, NewEndsStep, NewRunsStep, NewFailsStep, FinishStep,
     TransferStep, ScanStep DEF Thread
<1>3. CASE InitReturns \/ Shutdown \/ DelayPasses \/ Join
  BY <1>3, LoopStep
<1>4. CASE \E r \in Requests : \/ Run(r) \/ Abort(r) \/ Drop(r)
                               \/ \E s \in BOOLEAN : OnValidation(r, s)
  BY <1>4, RunStep, AbortStep, DropStep, ValidationStep
<1> QED
  BY <1>1, <1>2, <1>3, <1>4 DEF Next

-----------------------------------------------------------------------------
(* What the client promises. *)

(* A request is in one place from Run to its answer, over aborts, errors of curl and the
   shutdown. *)
THEOREM RequestInvariant == Spec => []IInv
<1>1. IInv /\ [Next]_vars => IInv'
  BY StepInv
<1> QED
  BY InitInv, <1>1, PTL DEF Spec

LEMMA IInvImpliesInv == IInv => Inv
<1> SUFFICES ASSUME IInv PROVE Inv
  OBVIOUS
<1>1. OnePlace
  <2>1. SUFFICES ASSUME NEW r \in Requests
                 PROVE  Occurrences(pending, r) + Occurrences(fresh, r)
                          + Cardinality({r} \cap running) + answers[r] = IF Asked(r) THEN 1 ELSE 0
    BY DEF OnePlace
  <2>2. /\ Occurrences(pending, r) = IF r \in Range(pending) THEN 1 ELSE 0
        /\ Occurrences(fresh, r) = IF r \in Range(fresh) THEN 1 ELSE 0
    BY OccurrencesFacts DEF IInv, TypeOK, Apart
  <2>3. Cardinality({r} \cap running) = IF r \in running THEN 1 ELSE 0
    <3>1. CASE r \in running
      <4>1. {r} \cap running = {r}
        BY <3>1
      <4> QED
        BY <3>1, <4>1, FS_Singleton
    <3>2. CASE r \notin running
      <4>1. {r} \cap running = {}
        BY <3>2
      <4> QED
        BY <3>2, <4>1, FS_EmptySet
    <3> QED
      BY <3>1, <3>2
  <2>4. /\ answers[r] \in {0, 1} /\ (answers[r] = 1 => Asked(r))
        /\ Asked(r) /\ answers[r] = 0 <=> r \in Held
    BY DEF IInv, TypeOK, Settled, Places
  <2>5. /\ r \in Held <=> r \in Range(pending) \/ r \in Range(fresh) \/ r \in running
        /\ ~(r \in Range(pending) /\ r \in Range(fresh))
        /\ ~(r \in Range(pending) /\ r \in running) /\ ~(r \in Range(fresh) /\ r \in running)
    BY DEF IInv, Held, Apart
  <2> QED
    BY <2>2, <2>3, <2>4, <2>5
<1>2. AnsweredAtEnd
  <2>1. SUFFICES ASSUME pc = "gone", NEW r \in Requests, Asked(r) PROVE reqState[r] \in Ended
    BY DEF AnsweredAtEnd
  <2>2. pending = <<>> /\ fresh = <<>> /\ running = {} /\ completing = None
    BY <2>1 DEF IInv, Loop
  <2>3. r \notin Held
    BY <2>2, EmptyFacts DEF Held
  <2>4. answers[r] = 1
    BY <2>1, <2>3 DEF IInv, TypeOK, Places
  <2> QED
    BY <2>2, <2>4, HttpAssumption DEF IInv, Settled
<1> QED
  BY <1>1, <1>2 DEF Inv, IInv, Stored

(* For any requests: each is answered once, whoever aborts it and however the thread ends,
   and no temporary file outlives it. *)
THEOREM RequestsAreAnswered == Spec => []Inv
BY RequestInvariant, IInvImpliesInv, PTL

(* Who sees the end of a request sees its answer and its file settled. *)
THEOREM EndsAreSettled == Spec => []SeenIsSettled
<1>1. IInv => SeenIsSettled
  BY DEF IInv, Settled, Stored, SeenIsSettled
<1> QED
  BY RequestInvariant, <1>1, PTL

(* Nothing but a whole download, validated where that was asked for, is put in place. *)
THEOREM DestinationsAreWhole == Spec => []DestinationIsWhole
<1>1. IInv => DestinationIsWhole
  BY DEF IInv, Stored
<1> QED
  BY RequestInvariant, <1>1, PTL

=============================================================================
