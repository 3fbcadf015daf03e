---------------------------- MODULE DbPoolProofs ----------------------------
(***************************************************************************)
(* Proofs about DbPool for every size of the ring and any queries, as long *)
(* as fewer are pending than the ring has slots.  Both threads walk the    *)
(* ring by a counter of their own; the tokens of the two semaphores tie    *)
(* the counters to the calls, and the ring is full of queries between      *)
(* them and empty elsewhere, so that an empty slot is the end mark.        *)
(***************************************************************************)
EXTENDS Integers, DbPool, SequenceTheorems, TLAPS

(* Counters of the three threads, and where the ring has a query. *)

\* how many queries were submitted
Calls == Len(submitted)

\* where the query after n others is in the ring
Slot(n) == n % Size

\* queries the worker has taken, and those the backup thread has
Taken == worker.job + (IF worker.cur = Null THEN 0 ELSE 1)
Looked == backup.job + (IF backup.cur = Null THEN 0 ELSE 1)

\* queries the worker is through with, up to what is told of them
Worked == worker.job + (IF worker.pc = "finish" THEN 1 ELSE 0)

\* as in TypeOK
WorkerType == [pc : {"top", "wait", "exec", "copy", "finish", "exited"}, job : Nat,
                cur : Queries \cup {Null}, failMode : BOOLEAN, success : BOOLEAN,
                hasRead : BOOLEAN, hasWrite : BOOLEAN, hasBackup : BOOLEAN]

\* a backup database is among the first n queries
HadBackup(n) == \E i \in 1..n : Kind[submitted[i]] = "addBackup"

(* Each thread has a query in hand exactly while it works on it, the next of the calls. *)
InHand ==
  /\ worker.cur # Null <=> worker.pc \in {"exec", "copy", "finish"}
  /\ backup.cur # Null <=> backup.pc = "look"
  /\ worker.cur # Null => worker.cur = submitted[worker.job + 1]
  /\ backup.cur # Null => backup.cur = submitted[backup.job + 1]

(* The threads follow one another, at most MaxPending behind the calls. *)
Behind ==
  /\ Taken <= backup.job /\ Looked <= Calls
  /\ Calls <= worker.job + MaxPending

(* A token of the semaphores for every query, and one for the end. *)
Tokens ==
  /\ numBackup + Looked + (IF backup.pc = "exited" THEN 1 ELSE 0)
       = Calls + (IF main = "run" THEN 0 ELSE 1)
  /\ numWorker + Taken + (IF worker.pc = "exited" THEN 1 ELSE 0)
       = backup.job + (IF backup.pc = "exited" THEN 1 ELSE 0)

(* The ring holds what was submitted and not taken, and nothing else. *)
Ring ==
  /\ insertIdx = Slot(Calls)
  /\ \A k \in (Taken + 1)..Calls : ring[Slot(k - 1)] = submitted[k]
  /\ \A i \in 0..(Size - 1) :
       ring[i] # Null => \E k \in (Taken + 1)..Calls : i = Slot(k - 1)

(* The threads leave after OnShutdown, when everything is done. *)
Ends ==
  /\ backup.pc = "exited" => main # "run" /\ backup.job = Calls
  /\ worker.pc = "exited" => backup.pc = "exited" /\ worker.job = Calls
  /\ shutdown <=> main = "waiting" /\ worker.pc # "exited"
  /\ main = "returned" => worker.pc = "exited"

(* Each query is submitted once and answered in turn. *)
Answers ==
  /\ \A j, k \in 1..Calls : submitted[j] = submitted[k] => j = k
  /\ \A k \in 1..worker.job : result[submitted[k]] # "none"

(* Both threads see the same databases at the same query, and a write that is
   still to be done has its copy. *)
Copies ==
  /\ backup.hasBackup <=> HadBackup(backup.job)
  /\ worker.hasBackup <=> HadBackup(Worked)
  /\ \A k \in (Worked + 1)..backup.job :
       Kind[submitted[k]] = "write" /\ HadBackup(k) => submitted[k] \in backupTmp \cup unsaved

(* A success is a row in a permanent table. *)
Rows ==
  /\ worker.pc = "copy" => Kind[worker.cur] = "write" /\ (worker.success => worker.cur \in race)
  /\ worker.pc = "finish" /\ worker.success /\ worker.cur \in Writes =>
       worker.cur \in race \cup backupRace \cup unsaved
  /\ SuccessIsPermanent

IInv == TypeOK /\ InHand /\ Behind /\ Tokens /\ Ring /\ Ends /\ Answers /\ Copies /\ Rows
-----------------------------------------------------------------------------
(* Remainders, for the ring: two of its places differ as long as they are less than a lap apart. *)

LEMMA Times ==
  ASSUME NEW S \in Nat \ {0}, NEW d \in Int, d >= 1
  PROVE  S * d >= S
OBVIOUS

LEMMA Split ==
  ASSUME NEW S \in Nat \ {0}, NEW a \in Nat
  PROVE  \E q \in Nat, r \in 0..(S - 1) : a = S * q + r /\ a % S = r
<1>1. a = S * (a \div S) + (a % S) /\ a \div S \in Nat /\ a % S \in 0..(S - 1)
  OBVIOUS
<1> QED
  BY <1>1

LEMMA Unique ==
  ASSUME NEW S \in Nat \ {0}, NEW p \in Nat, NEW q \in Nat,
         NEW m \in 0..(S - 1), NEW n \in 0..(S - 1), S * p + m = S * q + n
  PROVE  m = n
<1>1. S * (p - q) = n - m /\ S * (q - p) = m - n
  OBVIOUS
<1>2. CASE p - q >= 1
  BY <1>1, <1>2, Times
<1>3. CASE q - p >= 1
  BY <1>1, <1>3, Times
<1>4. CASE p = q
  BY <1>4
<1> QED
  BY <1>2, <1>3, <1>4

LEMMA NextSlot ==
  ASSUME NEW S \in Nat \ {0}, NEW a \in Nat
  PROVE  (a + 1) % S = ((a % S) + 1) % S
<1>1. PICK q \in Nat, r \in 0..(S - 1) : a = S * q + r /\ a % S = r 
  BY Split
<1>2. PICK p \in Nat, m \in 0..(S - 1) : a + 1 = S * p + m /\ (a + 1) % S = m 
  BY Split
<1>3. PICK l \in Nat, n \in 0..(S - 1) : r + 1 = S * l + n /\ (r + 1) % S = n 
  BY Split
<1>4. S * p + m = S * (q + l) + n
  BY <1>1, <1>2, <1>3
<1>5. m = n
  BY <1>4, Unique
<1> QED BY <1>1, <1>2, <1>3, <1>5

LEMMA SlotsDiffer ==
  ASSUME NEW S \in Nat \ {0}, NEW a \in Nat, NEW b \in Nat, a < b, b < a + S
  PROVE  a % S # b % S
<1>1. PICK q \in Nat, r \in 0..(S - 1) : a = S * q + r /\ a % S = r 
  BY Split
<1>2. PICK p \in Nat, m \in 0..(S - 1) : b = S * p + m /\ b % S = m 
  BY Split
<1>3. SUFFICES ASSUME r = m PROVE FALSE
  BY <1>1, <1>2
<1>4. S * (p - q) = b - a
  BY <1>1, <1>2, <1>3
<1>5. p - q >= 1
  BY <1>4
<1> QED BY <1>4, <1>5, Times

LEMMA SlotFacts ==
  /\ \A n \in Nat : Slot(n) \in 0..(Size - 1)
  /\ \A n \in Nat : Slot(n + 1) = (Slot(n) + 1) % Size
  /\ \A a, b \in Nat : a < b /\ b < a + Size => Slot(a) # Slot(b)
<1>1. ASSUME NEW n \in Nat PROVE Slot(n) \in 0..(Size - 1)
  BY SizeAssumption, Split DEF Slot
<1>2. ASSUME NEW n \in Nat PROVE Slot(n + 1) = (Slot(n) + 1) % Size
  BY SizeAssumption, NextSlot DEF Slot
<1>3. ASSUME NEW a \in Nat, NEW b \in Nat, a < b, b < a + Size PROVE Slot(a) # Slot(b)
  BY <1>3, SizeAssumption, SlotsDiffer DEF Slot
<1> QED
  BY <1>1, <1>2, <1>3

-----------------------------------------------------------------------------
(* The types of what the invariant is about. *)

LEMMA Types ==
  ASSUME IInv
  PROVE  /\ Calls \in Nat /\ worker.job \in Nat /\ backup.job \in Nat
         /\ Taken \in Nat /\ Looked \in Nat /\ Worked \in Nat
         /\ Taken \in {worker.job, worker.job + 1} /\ Looked \in {backup.job, backup.job + 1}
         /\ worker.job <= Worked /\ Worked <= Taken
         /\ Calls < worker.job + Size
         /\ numBackup \in Nat /\ numWorker \in Nat
         /\ Size \in Nat \ {0} /\ MaxPending \in Nat
<1>1. /\ Calls \in Nat /\ worker.job \in Nat /\ backup.job \in Nat
      /\ numBackup \in Nat /\ numWorker \in Nat
  BY DEF IInv, TypeOK, Calls
<1>2. /\ Taken \in {worker.job, worker.job + 1} /\ Looked \in {backup.job, backup.job + 1}
      /\ Worked \in {worker.job, worker.job + 1}
      /\ worker.pc = "finish" => Taken = worker.job + 1
      /\ worker.pc # "finish" => Worked = worker.job
  BY <1>1 DEF IInv, InHand, Taken, Looked, Worked
<1>3. Size \in Nat \ {0} /\ MaxPending \in Nat /\ MaxPending < Size
  BY SizeAssumption
<1>4. Calls <= worker.job + MaxPending
  BY DEF IInv, Behind
<1>5. Worked <= Taken
  BY <1>1, <1>2
<1> QED
  BY <1>1, <1>2, <1>3, <1>4, <1>5

LEMMA CallTypes ==
  ASSUME IInv, NEW k \in 1..Calls
  PROVE  submitted[k] \in Queries /\ submitted[k] # Null
BY KindAssumption DEF IInv, TypeOK, Calls

(* The place of a query that waits is neither empty nor that of another. *)
LEMMA SlotFull ==
  ASSUME IInv, NEW n \in Nat, Taken <= n, n < Calls
  PROVE  ring[Slot(n)] = submitted[n + 1] /\ ring[Slot(n)] # Null
<1>1. n + 1 \in (Taken + 1)..Calls /\ n + 1 \in 1..Calls /\ n + 1 - 1 = n
  BY Types
<1>2. ring[Slot(n + 1 - 1)] = submitted[n + 1]
  BY <1>1 DEF IInv, Ring
<1>3. submitted[n + 1] # Null
  BY <1>1, CallTypes
<1> QED
  BY <1>1, <1>2, <1>3

LEMMA SlotEmpty ==
  ASSUME IInv, NEW n \in Nat, Taken <= n, n <= Calls, ring[Slot(n)] # Null
  PROVE  n < Calls
<1>1. PICK k \in (Taken + 1)..Calls : Slot(n) = Slot(k - 1)
  BY SlotFacts DEF IInv, Ring
<1>2. k - 1 \in Nat /\ k - 1 < Calls /\ n < k - 1 + Size
  BY Types, <1>1
<1>3. SUFFICES ASSUME n = Calls PROVE FALSE
  BY Types
<1> QED
  BY <1>1, <1>2, <1>3, SlotFacts

(* What stays of the invariant when the calls do. *)
LEMMA SameCalls ==
  ASSUME submitted' = submitted
  PROVE  Calls' = Calls /\ \A n : HadBackup(n)' <=> HadBackup(n)
BY DEF Calls, HadBackup

LEMMA NextBackup ==
  ASSUME NEW n \in Nat
  PROVE  HadBackup(n + 1) <=> HadBackup(n) \/ Kind[submitted[n + 1]] = "addBackup"
<1>1. \A i : i \in 1..(n + 1) <=> i \in 1..n \/ i = n + 1
  OBVIOUS
<1> QED
  BY <1>1 DEF HadBackup

-----------------------------------------------------------------------------
(* Init and each step keep the invariant. *)

LEMMA InitInv == Init => IInv
<1> SUFFICES ASSUME Init PROVE IInv
  OBVIOUS
<1>1. Calls = 0 /\ submitted \in Seq(Queries)
  BY DEF Init, Calls
<1>2. Slot(0) = 0
  BY SizeAssumption, Split DEF Slot
<1>3. TypeOK
  <2>1. ring \in [0..(Size - 1) -> Queries \cup {Null}] /\ insertIdx \in 0..(Size - 1)
    BY SizeAssumption DEF Init
  <2> QED
    BY <1>1, <2>1 DEF Init, TypeOK
<1>4. InHand /\ Behind /\ Tokens /\ Ends
  BY <1>1, SizeAssumption DEF Init, InHand, Behind, Tokens, Ends, Taken, Looked
<1>5. Ring
  BY <1>1, <1>2 DEF Init, Ring, Taken
<1>6. Answers /\ Copies /\ Rows
  <2>1. Worked = 0 /\ worker.job = 0 /\ backup.job = 0 /\ ~HadBackup(0)
    BY DEF Init, Worked, HadBackup
  <2>2. Answers /\ Copies
    BY <1>1, <2>1 DEF Init, Answers, Copies
  <2> QED
    BY <2>2 DEF Init, Rows, SuccessIsPermanent, Writes
<1> QED
  BY <1>3, <1>4, <1>5, <1>6 DEF IInv

LEMMA InsertStep ==
  ASSUME IInv, NEW q \in Queries, Insert(q)
  PROVE  IInv'
<1>1. /\ submitted' \in Seq(Queries) /\ Calls' = Calls + 1
      /\ \A k \in 1..Calls : submitted'[k] = submitted[k] /\ submitted[k] # q
      /\ submitted'[Calls + 1] = q
  BY DEF IInv, TypeOK, Insert, Calls
<1>2. /\ UNCHANGED <<worker, backup, Taken, Looked, Worked>>
      /\ ring' = [ring EXCEPT ![Slot(Calls)] = q]
      /\ insertIdx' = (Slot(Calls) + 1) % Size
      /\ main = "run" /\ UNCHANGED <<main, numWorker, shutdown, race, backupTmp, backupRace,
                                     result, unsaved>>
  BY DEF Insert, IInv, Ring, Taken, Looked, Worked, dbVars
<1>3. Calls - worker.job < MaxPending /\ Taken <= backup.job /\ Looked <= Calls
  BY DEF IInv, Behind, Insert, Calls
<1>4. Taken <= Calls
  BY <1>3, Types
<1>5. /\ Slot(Calls) \in 0..(Size - 1)
      /\ insertIdx' = Slot(Calls + 1) /\ insertIdx' \in 0..(Size - 1)
  BY <1>2, Types, SlotFacts
<1>6. TypeOK'
  <2>1. ring' \in [0..(Size - 1) -> Queries \cup {Null}] /\ numBackup' \in Nat
    BY <1>2, <1>5 DEF IInv, TypeOK, Insert
  <2> QED
    BY <1>1, <1>2, <1>5, <2>1 DEF IInv, TypeOK
<1>7. InHand'
  <2>1. worker.cur # Null => worker.job + 1 \in 1..Calls
    BY <1>4, Types DEF Taken
  <2>2. backup.cur # Null => backup.job + 1 \in 1..Calls
    BY <1>3, Types DEF Looked
  <2> QED
    BY <1>1, <1>2, <2>1, <2>2 DEF IInv, InHand
<1>8. Behind'
  <2>1. /\ Calls' = Calls + 1 /\ UNCHANGED <<Taken, Looked>>
        /\ worker'.job = worker.job /\ backup'.job = backup.job
    BY <1>1, <1>2
  <2> QED
    BY <1>3, <2>1, Types DEF Behind
<1>9. Tokens'
  <2>1. numBackup' = numBackup + 1 /\ Calls' = Calls + 1
    BY <1>1 DEF Insert
  <2> QED
    BY <1>2, <2>1, Types DEF IInv, Tokens
<1>10. Ring'
  <2>1. ASSUME NEW k \in (Taken + 1)..(Calls + 1) PROVE ring'[Slot(k - 1)] = submitted'[k]
    <3>1. CASE k = Calls + 1
      <4>1. k - 1 = Calls
        BY <3>1, Types
      <4> QED
        BY <3>1, <4>1, <1>1, <1>2, <1>5 DEF IInv, TypeOK
    <3>2. CASE k # Calls + 1
      <4>1. /\ k \in (Taken + 1)..Calls /\ k \in 1..Calls
            /\ k - 1 \in Nat /\ k - 1 < Calls /\ Calls < k - 1 + Size
        BY <3>2, Types
      <4>2. Slot(k - 1) # Slot(Calls) /\ Slot(k - 1) \in 0..(Size - 1)
        BY <4>1, Types, SlotFacts
      <4>3. ring[Slot(k - 1)] = submitted[k] /\ submitted'[k] = submitted[k]
        BY <4>1, <1>1 DEF IInv, Ring
      <4> QED
        BY <4>2, <4>3, <1>2 DEF IInv, TypeOK
    <3> QED
      BY <3>1, <3>2
  <2>2. ASSUME NEW i \in 0..(Size - 1), ring'[i] # Null
        PROVE  \E k \in (Taken + 1)..(Calls + 1) : i = Slot(k - 1)
    <3>1. CASE i = Slot(Calls)
      <4> DEFINE last == Calls + 1
      <4>1. last \in (Taken + 1)..(Calls + 1) /\ last - 1 = Calls
        BY <1>4, Types
      <4> HIDE DEF last
      <4>2. i = Slot(last - 1)
        BY <3>1, <4>1
      <4> QED
        BY <4>1, <4>2
    <3>2. CASE i # Slot(Calls)
      <4>1. ring[i] # Null
        BY <2>2, <3>2, <1>2 DEF IInv, TypeOK
      <4>2. PICK k \in (Taken + 1)..Calls : i = Slot(k - 1)
        BY <4>1 DEF IInv, Ring
      <4>3. k \in (Taken + 1)..(Calls + 1)
        BY <4>2, Types
      <4> QED
        BY <4>2, <4>3
    <3> QED
      BY <3>1, <3>2
  <2> QED
    BY <1>1, <1>2, <1>5, <2>1, <2>2 DEF Ring
<1>11. Ends'
  BY <1>2 DEF IInv, Ends
<1>12. Answers'
  <2>1. \A k \in 1..(Calls + 1) : k \in 1..Calls \/ k = Calls + 1
    BY Types
  <2>2. \A k \in 1..worker.job : k \in 1..Calls
    BY <1>4, Types
  <2> QED
    BY <1>1, <1>2, <2>1, <2>2 DEF IInv, Answers
<1>13. Copies'
  <2>1. ASSUME NEW n \in Nat, n <= Calls PROVE HadBackup(n)' <=> HadBackup(n)
    <3>1. \A k \in 1..n : submitted'[k] = submitted[k]
      BY <1>1, <2>1, Types
    <3> QED
      BY <3>1 DEF HadBackup
  <2>2. /\ backup.job <= Calls /\ Worked <= Calls
        /\ \A k \in (Worked + 1)..backup.job : k \in Nat /\ k <= Calls /\ k \in 1..Calls
    BY <1>3, <1>4, Types
  <2>3. \A k \in (Worked + 1)..backup.job :
           Kind[submitted'[k]] = "write" /\ HadBackup(k)' =>
             submitted'[k] \in backupTmp \cup unsaved
    BY <1>1, <2>1, <2>2 DEF IInv, Copies
  <2> QED
    BY <1>2, <2>1, <2>2, <2>3, Types DEF IInv, Copies
<1>14. Rows'
  BY <1>2 DEF IInv, Rows, SuccessIsPermanent
<1> QED
  BY <1>6, <1>7, <1>8, <1>9, <1>10, <1>11, <1>12, <1>13, <1>14 DEF IInv

LEMMA OnShutdownStep ==
  ASSUME IInv, OnShutdown
  PROVE  IInv'
<1>1. /\ UNCHANGED <<ring, insertIdx, submitted, numWorker, backup, worker, race, backupTmp,
                     backupRace, result, unsaved>>
      /\ UNCHANGED <<Calls, Taken, Looked, Worked>>
      /\ main = "run" /\ main' = "waiting" /\ shutdown' = TRUE /\ numBackup' = numBackup + 1
  BY DEF OnShutdown, dbVars, Calls, Taken, Looked, Worked
<1>2. TypeOK' /\ InHand' /\ Ring' /\ Answers'
  BY <1>1 DEF IInv, TypeOK, InHand, Ring, Answers
<1>3. Behind'
  BY <1>1 DEF IInv, Behind
<1>4. Tokens'
  BY <1>1, Types DEF IInv, Tokens
<1>5. Ends'
  BY <1>1 DEF IInv, Ends
<1>6. Copies' /\ Rows'
  BY <1>1, SameCalls DEF IInv, Copies, Rows, SuccessIsPermanent
<1> QED
  BY <1>2, <1>3, <1>4, <1>5, <1>6 DEF IInv

LEMMA ReturnStep ==
  ASSUME IInv, OnShutdownReturns
  PROVE  IInv'
<1>1. /\ UNCHANGED <<ring, insertIdx, submitted, numBackup, numWorker, shutdown, backup, worker,
                     race, backupTmp, backupRace, result, unsaved>>
      /\ UNCHANGED <<Calls, Taken, Looked, Worked>>
      /\ main = "waiting" /\ main' = "returned" /\ ~shutdown
  BY DEF OnShutdownReturns, dbVars, Calls, Taken, Looked, Worked
<1>2. TypeOK' /\ InHand' /\ Ring' /\ Answers' /\ Behind' /\ Tokens'
  BY <1>1 DEF IInv, TypeOK, InHand, Ring, Answers, Behind, Tokens
<1>3. Ends'
  BY <1>1 DEF IInv, Ends
<1>4. Copies' /\ Rows'
  BY <1>1, SameCalls DEF IInv, Copies, Rows, SuccessIsPermanent
<1> QED
  BY <1>2, <1>3, <1>4 DEF IInv

(* The backup thread finds an empty slot only at the end, and else the next query. *)
LEMMA LookFinds ==
  ASSUME IInv, backup.pc = "wait", numBackup > 0
  PROVE  LET q == ring[backup.job % Size]
         IN  /\ q = Null => backup.job = Calls /\ main # "run"
             /\ q # Null => backup.job < Calls /\ q = submitted[backup.job + 1]
<1> DEFINE q == ring[Slot(backup.job)]
<1>1. Looked = backup.job /\ Taken <= backup.job /\ backup.job <= Calls
  BY Types DEF IInv, InHand, Behind, Looked
<1>2. CASE q = Null
  <2>1. backup.job = Calls
    BY <1>1, <1>2, Types, SlotFull
  <2>2. main # "run"
    BY <1>1, <2>1, Types DEF IInv, Tokens
  <2> QED
    BY <1>2, <2>1, <2>2 DEF Slot
<1>3. CASE q # Null
  <2>1. backup.job < Calls
    BY <1>1, <1>3, Types, SlotEmpty
  <2>2. q = submitted[backup.job + 1]
    BY <1>1, <2>1, Types, SlotFull
  <2> QED
    BY <1>3, <2>1, <2>2 DEF Slot
<1> QED
  BY <1>2, <1>3

LEMMA LookStep ==
  ASSUME IInv, BackupLook
  PROVE  IInv'
<1> DEFINE q == ring[backup.job % Size]
<1>1. /\ UNCHANGED <<ring, insertIdx, submitted, main, shutdown, worker, race, backupTmp,
                     backupRace, result, unsaved>>
      /\ UNCHANGED <<Calls, Taken, Worked>>
      /\ backup.pc = "wait" /\ numBackup > 0 /\ numBackup' = numBackup - 1
  BY DEF BackupLook, dbVars, mainVars, Calls, Taken, Worked
<1>2. /\ q = Null => backup.job = Calls /\ main # "run"
      /\ q # Null => backup.job < Calls /\ q = submitted[backup.job + 1]
  BY <1>1, LookFinds
<1>3. CASE q = Null
  <2>1. /\ backup' = [backup EXCEPT !.pc = "exited"] /\ numWorker' = numWorker + 1
        /\ backup'.pc = "exited" /\ backup'.job = backup.job /\ backup'.cur = backup.cur
        /\ backup'.hasBackup = backup.hasBackup
    BY <1>3 DEF BackupLook, IInv, TypeOK
  <2>2. Looked' = Looked
    BY <2>1 DEF Looked
  <2>3. TypeOK'
    <3>1. numBackup' \in Nat /\ numWorker' \in Nat
      BY <1>1, <2>1, Types
    <3>2. backup' \in [pc : {"wait", "look", "exited"}, job : Nat, cur : Queries \cup {Null},
                       hasBackup : BOOLEAN]
      BY <2>1 DEF IInv, TypeOK
    <3> QED
      BY <1>1, <3>1, <3>2 DEF IInv, TypeOK
  <2>4. InHand' /\ Ring' /\ Answers'
    BY <1>1, <2>1 DEF IInv, InHand, Ring, Answers
  <2>5. Behind'
    BY <1>1, <2>1, <2>2 DEF IInv, Behind
  <2>6. Tokens'
    BY <1>1, <2>1, <2>2, Types DEF IInv, Tokens
  <2>7. Ends'
    BY <1>1, <1>2, <1>3, <2>1 DEF IInv, Ends
  <2>8. Copies' /\ Rows'
    BY <1>1, <2>1, SameCalls DEF IInv, Copies, Rows, SuccessIsPermanent
  <2> QED
    BY <2>3, <2>4, <2>5, <2>6, <2>7, <2>8 DEF IInv
<1>4. CASE q # Null
  <2>1. /\ backup' = [backup EXCEPT !.pc = "look", !.cur = q] /\ numWorker' = numWorker
        /\ backup'.pc = "look" /\ backup'.job = backup.job /\ backup'.cur = q
        /\ backup'.hasBackup = backup.hasBackup
    BY <1>4 DEF BackupLook, IInv, TypeOK
  <2>2. Looked = backup.job /\ Looked' = Looked + 1
    BY <1>1, <1>4, <2>1, Types DEF IInv, InHand, Looked
  <2>3. TypeOK'
    <3>1. q \in Queries
      BY <1>2, <1>4, Types, CallTypes
    <3>2. numBackup' \in Nat /\ numWorker' \in Nat
      BY <1>1, <2>1, Types
    <3>3. backup' \in [pc : {"wait", "look", "exited"}, job : Nat, cur : Queries \cup {Null},
                       hasBackup : BOOLEAN]
      BY <2>1, <3>1 DEF IInv, TypeOK
    <3> QED
      BY <1>1, <3>2, <3>3 DEF IInv, TypeOK
  <2>4. InHand' /\ Ring' /\ Answers'
    BY <1>1, <1>2, <1>4, <2>1 DEF IInv, InHand, Ring, Answers
  <2>5. Behind'
    BY <1>1, <1>2, <1>4, <2>1, <2>2, Types DEF IInv, Behind
  <2>6. Tokens'
    BY <1>1, <2>1, <2>2, Types DEF IInv, Tokens
  <2>7. Ends'
    BY <1>1, <2>1 DEF IInv, Ends
  <2>8. Copies' /\ Rows'
    BY <1>1, <2>1, SameCalls DEF IInv, Copies, Rows, SuccessIsPermanent
  <2> QED
    BY <2>3, <2>4, <2>5, <2>6, <2>7, <2>8 DEF IInv
<1> QED
  BY <1>3, <1>4

LEMMA PassStep ==
  ASSUME IInv, BackupPass
  PROVE  IInv'
<1>1. /\ UNCHANGED <<ring, insertIdx, submitted, main, numBackup, shutdown, worker, race,
                     backupRace, result>>
      /\ UNCHANGED <<Calls, Taken, Worked>>
      /\ backup.pc = "look" /\ numWorker' = numWorker + 1
      /\ backup' = [pc |-> "wait", job |-> backup.job + 1, cur |-> Null,
                    hasBackup |-> backup.hasBackup \/ Kind[backup.cur] = "addBackup"]
  BY DEF BackupPass, mainVars, Calls, Taken, Worked
<1>2. /\ backupTmp \subseteq backupTmp' /\ unsaved \subseteq unsaved'
      /\ Kind[backup.cur] = "write" /\ backup.hasBackup => backup.cur \in backupTmp' \cup unsaved'
  BY DEF BackupPass, BackupCopies
<1>3. backup.cur \in Queries /\ backup.cur = submitted[backup.job + 1]
  BY <1>1 DEF IInv, TypeOK, InHand
<1>4. /\ Looked = backup.job + 1 /\ Looked' = Looked /\ backup'.job = backup.job + 1
      /\ backup'.pc = "wait" /\ backup'.cur = Null
      /\ backup'.hasBackup = (backup.hasBackup \/ Kind[backup.cur] = "addBackup")
  <2>1. backup.cur # Null
    BY <1>1 DEF IInv, InHand
  <2> QED
    BY <1>1, <2>1, Types DEF Looked
<1>5. TypeOK'
  <2>1. backupTmp' \subseteq Queries /\ unsaved' \subseteq Queries
    BY <1>3 DEF BackupPass, BackupCopies, IInv, TypeOK
  <2>2. backup' \in [pc : {"wait", "look", "exited"}, job : Nat, cur : Queries \cup {Null},
                     hasBackup : BOOLEAN]
    <3>1. backup.hasBackup \in BOOLEAN
      BY DEF IInv, TypeOK
    <3> QED
      BY <1>1, <3>1, Types
  <2> QED
    BY <1>1, <2>1, <2>2, Types DEF IInv, TypeOK
<1>6. InHand' /\ Ring' /\ Answers'
  BY <1>1, <1>4 DEF IInv, InHand, Ring, Answers
<1>7. Behind'
  BY <1>1, <1>4, Types DEF IInv, Behind
<1>8. Tokens'
  BY <1>1, <1>4, Types DEF IInv, Tokens
<1>9. Ends'
  BY <1>1, <1>4 DEF IInv, Ends
<1>10. Copies'
  <2>1. backup'.hasBackup <=> HadBackup(backup.job + 1)
    BY <1>3, <1>4, Types, NextBackup DEF IInv, Copies
  <2>2. ASSUME NEW k \in (Worked + 1)..(backup.job + 1),
               Kind[submitted[k]] = "write", HadBackup(k)
        PROVE  submitted[k] \in backupTmp' \cup unsaved'
    <3>1. CASE k = backup.job + 1
      BY <1>2, <1>3, <2>2, <3>1, Types, NextBackup DEF IInv, Copies
    <3>2. CASE k # backup.job + 1
      <4>1. k \in (Worked + 1)..backup.job
        BY <3>2, Types
      <4> QED
        BY <1>2, <2>2, <4>1 DEF IInv, Copies
    <3> QED
      BY <3>1, <3>2
  <2> QED
    BY <1>1, <1>4, <2>1, <2>2, SameCalls DEF IInv, Copies
<1>11. Rows'
  BY <1>1, <1>2 DEF IInv, Rows, SuccessIsPermanent
<1> QED
  BY <1>5, <1>6, <1>7, <1>8, <1>9, <1>10, <1>11 DEF IInv

LEMMA TopStep ==
  ASSUME IInv, WorkerTop
  PROVE  IInv'
<1>1. /\ UNCHANGED <<ring, insertIdx, submitted, main, numBackup, numWorker, shutdown, backup,
                     race, backupTmp, backupRace, result, unsaved>>
      /\ worker.pc = "top" /\ worker'.pc = "wait"
      /\ worker'.job = worker.job /\ worker'.cur = worker.cur
      /\ worker'.hasBackup = worker.hasBackup
      /\ worker' \in WorkerType
  BY DEF WorkerTop, IInv, TypeOK, dbVars, mainVars, WorkerType
<1>2. UNCHANGED <<Calls, Taken, Looked, Worked>>
  BY <1>1 DEF Calls, Taken, Looked, Worked
<1>3. TypeOK' /\ InHand' /\ Ring' /\ Answers'
  BY <1>1, <1>2 DEF IInv, TypeOK, InHand, Ring, Answers, WorkerType
<1>4. Behind' /\ Tokens' /\ Ends'
  BY <1>1, <1>2 DEF IInv, Behind, Tokens, Ends
<1>5. Copies' /\ Rows'
  BY <1>1, <1>2, SameCalls DEF IInv, Copies, Rows, SuccessIsPermanent
<1> QED
  BY <1>3, <1>4, <1>5 DEF IInv

(* The worker finds an empty slot only when everything is done, and else the next query,
   which the backup thread has passed on. *)
LEMMA TakeFinds ==
  ASSUME IInv, worker.pc = "wait", numWorker > 0
  PROVE  LET q == ring[worker.job % Size]
         IN  /\ q = Null => worker.job = Calls /\ backup.pc = "exited"
             /\ q # Null => /\ worker.job < backup.job /\ worker.job < Calls
                            /\ q = submitted[worker.job + 1]
<1> DEFINE q == ring[Slot(worker.job)]
<1>1. Taken = worker.job /\ Taken <= backup.job /\ backup.job <= Calls
  BY Types DEF IInv, InHand, Behind, Taken
<1>2. CASE q = Null
  <2>1. worker.job = Calls
    BY <1>1, <1>2, Types, SlotFull
  <2>2. backup.pc = "exited"
    BY <1>1, <2>1, Types DEF IInv, Tokens
  <2> QED
    BY <1>2, <2>1, <2>2 DEF Slot
<1>3. CASE q # Null
  <2>1. worker.job < Calls
    BY <1>1, <1>3, Types, SlotEmpty
  <2>2. q = submitted[worker.job + 1]
    BY <1>1, <2>1, Types, SlotFull
  <2>3. worker.job < backup.job
    BY <1>1, <2>1, Types DEF IInv, Tokens, Ends
  <2> QED
    BY <1>3, <2>1, <2>2, <2>3 DEF Slot
<1> QED
  BY <1>2, <1>3

LEMMA TakeStep ==
  ASSUME IInv, WorkerTake
  PROVE  IInv'
<1> DEFINE q == ring[worker.job % Size]
<1>1. /\ UNCHANGED <<insertIdx, submitted, main, numBackup, backup, race, backupTmp, backupRace,
                     result, unsaved>>
      /\ UNCHANGED <<Calls, Looked>>
      /\ worker.pc = "wait" /\ numWorker > 0 /\ numWorker' = numWorker - 1
      /\ ring' = [ring EXCEPT ![Slot(worker.job)] = Null]
  BY DEF WorkerTake, dbVars, mainVars, Calls, Looked, Slot
<1>2. /\ q = Null => worker.job = Calls /\ backup.pc = "exited"
      /\ q # Null => /\ worker.job < backup.job /\ worker.job < Calls
                     /\ q = submitted[worker.job + 1]
  BY <1>1, TakeFinds
<1>3. Slot(worker.job) \in 0..(Size - 1) /\ q = ring[Slot(worker.job)]
  BY Types, SlotFacts DEF Slot
<1>4. Taken = worker.job /\ Worked = worker.job
  BY <1>1, Types DEF IInv, InHand, Taken, Worked
<1>5. numWorker' \in Nat /\ ring' \in [0..(Size - 1) -> Queries \cup {Null}]
  <2>1. ring' \in [0..(Size - 1) -> Queries \cup {Null}]
    BY <1>1, <1>3 DEF IInv, TypeOK
  <2> QED
    BY <1>1, <2>1, Types
<1>6. CASE q = Null
  <2>1. /\ worker' \in WorkerType /\ shutdown' = FALSE /\ ring' = ring
        /\ worker'.pc = "exited" /\ worker'.job = worker.job /\ worker'.cur = worker.cur
        /\ worker'.hasBackup = worker.hasBackup
    BY <1>1, <1>3, <1>6 DEF WorkerTake, IInv, TypeOK, WorkerType
  <2>2. Taken' = Taken /\ Worked' = Worked
    BY <1>1, <2>1 DEF Taken, Worked
  <2>3. TypeOK'
    BY <1>1, <1>5, <2>1 DEF IInv, TypeOK, WorkerType
  <2>4. InHand' /\ Ring' /\ Answers' /\ Behind'
    BY <1>1, <2>1, <2>2 DEF IInv, InHand, Ring, Answers, Behind
  <2>5. Tokens'
    BY <1>1, <1>2, <1>6, <2>1, <2>2, Types DEF IInv, Tokens
  <2>6. Ends'
    BY <1>1, <1>2, <1>6, <2>1 DEF IInv, Ends
  <2>7. Copies' /\ Rows'
    BY <1>1, <2>1, <2>2, SameCalls DEF IInv, Copies, Rows, SuccessIsPermanent
  <2> QED
    BY <2>3, <2>4, <2>5, <2>6, <2>7 DEF IInv
<1>7. CASE q # Null
  <2>1. q \in Queries
    BY <1>2, <1>7, Types, CallTypes
  <2>2. /\ worker' \in WorkerType /\ shutdown' = shutdown
        /\ worker'.pc = "exec" /\ worker'.job = worker.job /\ worker'.cur = q
        /\ worker'.hasBackup = worker.hasBackup
    <3>1. worker' = [worker EXCEPT !.pc = "exec", !.cur = q] /\ shutdown' = shutdown
      BY <1>7 DEF WorkerTake
    <3> QED
      BY <2>1, <3>1 DEF IInv, TypeOK, WorkerType
  <2>3. Taken' = Taken + 1 /\ Worked' = Worked
    BY <1>1, <1>4, <1>7, <2>2, Types DEF Taken, Worked
  <2>4. TypeOK'
    BY <1>1, <1>5, <2>2 DEF IInv, TypeOK, WorkerType
  <2>5. InHand' /\ Answers'
    BY <1>1, <1>2, <1>7, <2>2 DEF IInv, InHand, Answers
  <2>6. Behind'
    BY <1>1, <1>2, <1>4, <1>7, <2>2, <2>3, Types DEF IInv, Behind
  <2>7. Tokens'
    BY <1>1, <2>2, <2>3, Types DEF IInv, Tokens
  <2>8. Ring'
    <3>1. ASSUME NEW k \in (Taken + 2)..Calls PROVE ring'[Slot(k - 1)] = submitted[k]
      <4>1. /\ k - 1 \in Nat /\ worker.job < k - 1 /\ k - 1 < worker.job + Size
            /\ k \in (Taken + 1)..Calls
        BY <1>4, Types
      <4>2. Slot(k - 1) # Slot(worker.job) /\ Slot(k - 1) \in 0..(Size - 1)
        BY <4>1, Types, SlotFacts
      <4> QED
        BY <1>1, <4>1, <4>2 DEF IInv, Ring, TypeOK
    <3>2. ASSUME NEW i \in 0..(Size - 1), ring'[i] # Null
          PROVE  \E k \in (Taken + 2)..Calls : i = Slot(k - 1)
      <4>1. i # Slot(worker.job) /\ ring[i] # Null
        BY <1>1, <3>2 DEF IInv, TypeOK
      <4>2. PICK k \in (Taken + 1)..Calls : i = Slot(k - 1)
        BY <4>1 DEF IInv, Ring
      <4>3. k # Taken + 1
        <5>1. SUFFICES ASSUME k = Taken + 1 PROVE FALSE
          OBVIOUS
        <5>2. k - 1 = worker.job
          BY <1>4, <5>1, Types
        <5> QED
          BY <4>1, <4>2, <5>2
      <4>4. k \in (Taken + 2)..Calls
        BY <4>3, Types
      <4> QED
        BY <4>2, <4>4
    <3>3. Taken' + 1 = Taken + 2
      BY <2>3, Types
    <3> QED
      BY <1>1, <3>1, <3>2, <3>3 DEF IInv, Ring
  <2>9. Ends'
    BY <1>1, <1>2, <1>7, <2>2 DEF IInv, Ends
  <2>10. Copies' /\ Rows'
    BY <1>1, <2>2, <2>3, SameCalls DEF IInv, Copies, Rows, SuccessIsPermanent
  <2> QED
    BY <2>4, <2>5, <2>6, <2>7, <2>8, <2>9, <2>10 DEF IInv
<1> QED
  BY <1>6, <1>7

(* A query that is executed is the next of the calls, and passed on. *)
LEMMA AtWork ==
  ASSUME IInv, worker.pc \in {"exec", "copy", "finish"}
  PROVE  /\ worker.cur \in Queries /\ worker.cur # Null /\ worker.cur = submitted[worker.job + 1]
         /\ Taken = worker.job + 1 /\ worker.job + 1 <= backup.job /\ worker.job + 1 <= Calls
         /\ worker.job + 1 \in 1..Calls
<1>1. worker.cur \in Queries /\ worker.cur # Null /\ worker.cur = submitted[worker.job + 1]
  BY DEF IInv, TypeOK, InHand
<1>2. Taken = worker.job + 1
  BY <1>1 DEF Taken
<1>3. Taken <= backup.job /\ Looked <= Calls
  BY DEF IInv, Behind
<1> QED
  BY <1>1, <1>2, <1>3, Types

(* A step of the worker that changes nothing but the worker and the databases keeps
   what is said of the counters. *)
LEMMA WorkerOnly ==
  ASSUME IInv,
         UNCHANGED <<ring, insertIdx, submitted, main, numBackup, numWorker, shutdown, backup,
                     result, unsaved>>,
         worker' \in WorkerType, worker'.job = worker.job, worker'.cur = worker.cur,
         worker.pc \in {"exec", "copy", "finish"}, worker'.pc \in {"exec", "copy", "finish"},
         race' \subseteq Queries, backupTmp' \subseteq Queries, backupRace' \subseteq Queries
  PROVE  /\ TypeOK' /\ InHand' /\ Behind' /\ Tokens' /\ Ring' /\ Ends' /\ Answers'
         /\ Calls' = Calls /\ \A n : HadBackup(n)' <=> HadBackup(n)
<1>1. UNCHANGED <<Calls, Taken, Looked>>
  BY DEF Calls, Taken, Looked
<1>2. TypeOK'
  BY DEF IInv, TypeOK, WorkerType
<1>3. InHand' /\ Answers' /\ Ring'
  BY <1>1 DEF IInv, InHand, Answers, Ring
<1>4. Behind' /\ Tokens' /\ Ends'
  BY <1>1 DEF IInv, Behind, Tokens, Ends
<1> QED
  BY <1>1, <1>2, <1>3, <1>4, SameCalls

LEMMA ReadStep ==
  ASSUME IInv, WorkerRead
  PROVE  IInv'
<1>1. /\ UNCHANGED <<ring, insertIdx, submitted, main, numBackup, numWorker, shutdown, backup,
                     race, backupTmp, backupRace, result, unsaved>>
      /\ worker.pc = "exec" /\ Kind[worker.cur] = "read"
  BY DEF WorkerRead, dbVars, mainVars
<1>2. /\ worker' \in WorkerType /\ worker'.pc = "finish"
      /\ worker'.job = worker.job /\ worker'.cur = worker.cur
      /\ worker'.hasBackup = worker.hasBackup
  BY DEF WorkerRead, IInv, TypeOK, WorkerType
<1>3. race \subseteq Queries /\ backupTmp \subseteq Queries /\ backupRace \subseteq Queries
  BY DEF IInv, TypeOK
<1>4. /\ TypeOK' /\ InHand' /\ Behind' /\ Tokens' /\ Ring' /\ Ends' /\ Answers'
      /\ \A n : HadBackup(n)' <=> HadBackup(n)
  BY <1>1, <1>2, <1>3, WorkerOnly
<1>5. Worked = worker.job /\ Worked' = worker.job + 1
  BY <1>1, <1>2, Types DEF Worked
<1>6. Copies'
  <2>1. HadBackup(worker.job + 1) <=> HadBackup(worker.job)
    BY <1>1, AtWork, Types, NextBackup
  <2>2. \A k \in (worker.job + 2)..backup.job : k \in (worker.job + 1)..backup.job
    BY Types
  <2>3. worker.job + 1 + 1 = worker.job + 2
    BY Types
  <2> QED
    BY <1>1, <1>2, <1>4, <1>5, <2>1, <2>2, <2>3 DEF IInv, Copies
<1>7. Rows'
  BY <1>1, <1>2 DEF IInv, Rows, SuccessIsPermanent, Writes
<1> QED
  BY <1>4, <1>6, <1>7 DEF IInv

LEMMA WriteStep ==
  ASSUME IInv, WorkerWrite
  PROVE  IInv'
<1>1. /\ UNCHANGED <<ring, insertIdx, submitted, main, numBackup, numWorker, shutdown, backup,
                     backupTmp, backupRace, result, unsaved>>
      /\ worker.pc = "exec" /\ Kind[worker.cur] = "write"
      /\ race \subseteq race' /\ race' \subseteq race \cup {worker.cur}
  BY DEF WorkerWrite, mainVars
<1>2. /\ worker' \in WorkerType /\ worker'.pc = "copy"
      /\ worker'.job = worker.job /\ worker'.cur = worker.cur
      /\ worker'.hasBackup = worker.hasBackup
      /\ worker'.success => worker.cur \in race'
  BY DEF WorkerWrite, IInv, TypeOK, WorkerType
<1>3. race' \subseteq Queries /\ backupTmp \subseteq Queries /\ backupRace \subseteq Queries
  BY <1>1, AtWork DEF IInv, TypeOK
<1>4. /\ TypeOK' /\ InHand' /\ Behind' /\ Tokens' /\ Ring' /\ Ends' /\ Answers'
      /\ \A n : HadBackup(n)' <=> HadBackup(n)
  BY <1>1, <1>2, <1>3, WorkerOnly
<1>5. Worked' = Worked
  BY <1>1, <1>2 DEF Worked
<1>6. Copies'
  BY <1>1, <1>2, <1>4, <1>5 DEF IInv, Copies
<1>7. Rows'
  BY <1>1, <1>2 DEF IInv, Rows, SuccessIsPermanent, Writes
<1> QED
  BY <1>4, <1>6, <1>7 DEF IInv

LEMMA CopyStep ==
  ASSUME IInv, WorkerCopy
  PROVE  IInv'
<1>1. /\ UNCHANGED <<ring, insertIdx, submitted, main, numBackup, numWorker, shutdown, backup,
                     race, result, unsaved>>
      /\ worker.pc = "copy"
  BY DEF WorkerCopy, mainVars
<1>2. PICK ok \in BOOLEAN :
        /\ IF worker.hasBackup
             THEN IF worker.success THEN CopyRemoved(worker.cur, ok)
                                    ELSE CopyMoved(worker.cur, ok)
             ELSE ~ok /\ UNCHANGED <<backupTmp, backupRace>>
        /\ worker' = [worker EXCEPT !.pc = "finish", !.success = @ \/ ok]
  BY DEF WorkerCopy
<1>3. /\ worker' \in WorkerType /\ worker'.pc = "finish"
      /\ worker'.job = worker.job /\ worker'.cur = worker.cur
      /\ worker'.hasBackup = worker.hasBackup
      /\ worker'.success = (worker.success \/ ok)
  BY <1>2 DEF IInv, TypeOK, WorkerType
<1>4. /\ backupTmp \ {worker.cur} \subseteq backupTmp' /\ backupTmp' \subseteq backupTmp
      /\ backupRace \subseteq backupRace' /\ backupRace' \subseteq backupRace \cup backupTmp
      /\ ok => /\ worker.hasBackup
               /\ ~worker.success => {worker.cur} \cap backupTmp \subseteq backupRace'
  BY <1>2 DEF CopyRemoved, CopyMoved
<1>5. race \subseteq Queries /\ backupTmp' \subseteq Queries /\ backupRace' \subseteq Queries
  BY <1>4 DEF IInv, TypeOK
<1>6. /\ TypeOK' /\ InHand' /\ Behind' /\ Tokens' /\ Ring' /\ Ends' /\ Answers'
      /\ \A n : HadBackup(n)' <=> HadBackup(n)
  BY <1>1, <1>3, <1>5, WorkerOnly
<1>7. Worked = worker.job /\ Worked' = worker.job + 1
  BY <1>1, <1>3, Types DEF Worked
<1>8. Kind[worker.cur] = "write" /\ (worker.success => worker.cur \in race)
  BY <1>1 DEF IInv, Rows
<1>9. HadBackup(worker.job + 1) <=> HadBackup(worker.job)
  BY <1>1, <1>8, AtWork, Types, NextBackup
<1>10. Copies'
  <2>1. ASSUME NEW k \in (worker.job + 2)..backup.job, Kind[submitted[k]] = "write", HadBackup(k)
        PROVE  submitted[k] \in backupTmp' \cup unsaved
    <3>1. /\ k \in (Worked + 1)..backup.job /\ k # worker.job + 1
          /\ k \in 1..Calls /\ worker.job + 1 \in 1..Calls
      <4>1. backup.job <= Calls
        BY Types DEF IInv, Behind
      <4> QED
        BY <1>1, <1>7, <4>1, AtWork, Types
    <3>2. submitted[k] \in backupTmp \cup unsaved
      BY <2>1, <3>1 DEF IInv, Copies
    <3>3. submitted[k] # worker.cur
      BY <1>1, <3>1, AtWork DEF IInv, Answers
    <3> QED
      BY <1>4, <3>2, <3>3
  <2>2. worker.job + 1 + 1 = worker.job + 2
    BY Types
  <2> QED
    BY <1>1, <1>3, <1>6, <1>7, <1>9, <2>1, <2>2 DEF IInv, Copies
<1>11. Rows'
  <2>1. worker'.success => worker.cur \in race \cup backupRace' \cup unsaved
    <3>1. CASE worker.success
      BY <1>8, <3>1
    <3>2. CASE ~worker.success /\ ok
      <4>1. worker.job + 1 \in (Worked + 1)..backup.job
        BY <1>1, <1>7, AtWork, Types
      <4>2. HadBackup(worker.job + 1)
        BY <1>4, <1>7, <1>9, <3>2 DEF IInv, Copies
      <4>3. worker.cur \in backupTmp \cup unsaved
        BY <1>1, <1>8, <4>1, <4>2, AtWork DEF IInv, Copies
      <4> QED
        BY <1>4, <3>2, <4>3
    <3> QED
      BY <1>3, <3>1, <3>2
  <2>2. SuccessIsPermanent'
    BY <1>1, <1>4 DEF IInv, Rows, SuccessIsPermanent, Writes
  <2> QED
    BY <1>1, <1>3, <2>1, <2>2 DEF Rows
<1> QED
  BY <1>6, <1>10, <1>11 DEF IInv

LEMMA ConfigureStep ==
  ASSUME IInv, WorkerConfigure
  PROVE  IInv'
<1>1. /\ UNCHANGED <<ring, insertIdx, submitted, main, numBackup, numWorker, shutdown, backup,
                     race, backupTmp, backupRace, result, unsaved>>
      /\ worker.pc = "exec" /\ Kind[worker.cur] \notin {"read", "write"}
  BY DEF WorkerConfigure, dbVars, mainVars
<1>2. /\ worker' \in WorkerType /\ worker'.pc = "finish"
      /\ worker'.job = worker.job /\ worker'.cur = worker.cur
      /\ worker'.hasBackup <=> worker.hasBackup \/ Kind[worker.cur] = "addBackup"
  BY DEF WorkerConfigure, IInv, TypeOK, WorkerType
<1>3. race \subseteq Queries /\ backupTmp \subseteq Queries /\ backupRace \subseteq Queries
  BY DEF IInv, TypeOK
<1>4. /\ TypeOK' /\ InHand' /\ Behind' /\ Tokens' /\ Ring' /\ Ends' /\ Answers'
      /\ \A n : HadBackup(n)' <=> HadBackup(n)
  BY <1>1, <1>2, <1>3, WorkerOnly
<1>5. Worked = worker.job /\ Worked' = worker.job + 1
  BY <1>1, <1>2, Types DEF Worked
<1>6. Copies'
  <2>1. HadBackup(worker.job + 1) <=> HadBackup(worker.job) \/ Kind[worker.cur] = "addBackup"
    BY <1>1, AtWork, Types, NextBackup
  <2>2. \A k \in (worker.job + 2)..backup.job : k \in (worker.job + 1)..backup.job
    BY Types
  <2>3. worker.job + 1 + 1 = worker.job + 2
    BY Types
  <2> QED
    BY <1>1, <1>2, <1>4, <1>5, <2>1, <2>2, <2>3 DEF IInv, Copies
<1>7. Rows'
  BY <1>1, <1>2 DEF IInv, Rows, SuccessIsPermanent, Writes
<1> QED
  BY <1>4, <1>6, <1>7 DEF IInv

LEMMA FinishStep ==
  ASSUME IInv, WorkerFinish
  PROVE  IInv'
<1>1. /\ UNCHANGED <<ring, insertIdx, submitted, main, numBackup, numWorker, shutdown, backup,
                     race, backupTmp, backupRace, unsaved>>
      /\ worker.pc = "finish"
      /\ result' = [result EXCEPT ![worker.cur] = IF worker.success THEN "ok" ELSE "failed"]
  BY DEF WorkerFinish, dbVars, mainVars
<1>2. /\ worker' \in WorkerType /\ worker'.pc = "top"
      /\ worker'.job = worker.job + 1 /\ worker'.cur = Null
      /\ worker'.hasBackup = worker.hasBackup
  <2>1. worker' = [worker EXCEPT !.pc = "top", !.job = worker.job + 1, !.cur = Null]
    BY DEF WorkerFinish
  <2>2. worker \in WorkerType /\ worker.job + 1 \in Nat
    BY Types DEF IInv, TypeOK, WorkerType
  <2> QED
    BY <2>1, <2>2 DEF WorkerType
<1>3. UNCHANGED <<Calls, Looked>> /\ Taken' = Taken /\ Worked' = Worked
  <2>1. UNCHANGED <<Calls, Looked>>
    BY <1>1 DEF Calls, Looked
  <2>2. Taken' = worker.job + 1 /\ Worked' = worker.job + 1
    BY <1>2, Types DEF Taken, Worked
  <2>3. Taken = worker.job + 1 /\ Worked = worker.job + 1
    BY <1>1, AtWork DEF Worked
  <2> QED
    BY <2>1, <2>2, <2>3
<1>4. TypeOK'
  <2>1. result' \in [Queries -> {"none", "ok", "failed"}]
    BY <1>1, AtWork DEF IInv, TypeOK
  <2> QED
    BY <1>1, <1>2, <2>1 DEF IInv, TypeOK, WorkerType
<1>5. InHand' /\ Ring'
  BY <1>1, <1>2, <1>3 DEF IInv, InHand, Ring
<1>6. Behind'
  BY <1>1, <1>2, <1>3, Types DEF IInv, Behind
<1>7. Tokens' /\ Ends'
  BY <1>1, <1>2, <1>3 DEF IInv, Tokens, Ends
<1>8. Answers'
  <2>1. \A k \in 1..(worker.job + 1) : k \in 1..worker.job \/ k = worker.job + 1
    BY Types
  <2>2. \A q \in Queries : result[q] # "none" => result'[q] # "none"
    BY <1>1 DEF IInv, TypeOK
  <2>3. result'[worker.cur] # "none"
    BY <1>1, AtWork DEF IInv, TypeOK
  <2>4. \A k \in 1..worker.job : submitted[k] \in Queries
    BY <1>1, AtWork, Types, CallTypes
  <2>5. \A k \in 1..(worker.job + 1) : result'[submitted[k]] # "none"
    BY <1>1, <2>1, <2>2, <2>3, <2>4, AtWork DEF IInv, Answers
  <2> QED
    BY <1>1, <1>2, <1>3, <2>5 DEF IInv, Answers
<1>9. Copies'
  BY <1>1, <1>2, <1>3, SameCalls DEF IInv, Copies
<1>10. Rows'
  <2>1. ASSUME NEW q \in Writes \ unsaved, result'[q] = "ok" PROVE q \in race \cup backupRace
    <3>1. CASE q = worker.cur
      BY <1>1, <2>1, <3>1, AtWork DEF IInv, TypeOK, Rows
    <3>2. CASE q # worker.cur
      <4>1. result[q] = "ok"
        BY <1>1, <2>1, <3>2 DEF Writes, IInv, TypeOK
      <4> QED
        BY <2>1, <4>1 DEF IInv, Rows, SuccessIsPermanent
    <3> QED
      BY <3>1, <3>2
  <2> QED
    BY <1>1, <1>2, <2>1 DEF Rows, SuccessIsPermanent, Writes
<1> QED
  BY <1>4, <1>5, <1>6, <1>7, <1>8, <1>9, <1>10 DEF IInv

LEMMA StepInv == IInv /\ [Next]_vars => IInv'
<1> SUFFICES ASSUME IInv, [Next]_vars PROVE IInv'
  OBVIOUS
<1>1. CASE UNCHANGED vars
  <2>1. UNCHANGED <<ring, insertIdx, submitted, main, numBackup, numWorker, shutdown, backup,
                    worker, race, backupTmp, backupRace, result, unsaved>>
    BY <1>1 DEF vars, mainVars, dbVars
  <2>2. UNCHANGED <<Calls, Taken, Looked, Worked>>
    BY <2>1 DEF Calls, Taken, Looked, Worked
  <2>3. TypeOK' /\ InHand' /\ Behind' /\ Tokens' /\ Ring' /\ Ends' /\ Answers'
    BY <2>1, <2>2 DEF IInv, TypeOK, InHand, Behind, Tokens, Ring, Ends, Answers
  <2>4. Copies' /\ Rows'
    BY <2>1, <2>2, SameCalls DEF IInv, Copies, Rows, SuccessIsPermanent
  <2> QED
    BY <2>3, <2>4 DEF IInv
<1>2. CASE \E q \in Queries : Insert(q)
  BY <1>2, InsertStep
<1>3. CASE OnShutdown \/ OnShutdownReturns
  BY <1>3, OnShutdownStep, ReturnStep
<1>4. CASE Backup
  BY <1>4, LookStep, PassStep DEF Backup
<1>5. CASE Worker
  BY <1>5, TopStep, TakeStep, ReadStep, WriteStep, CopyStep, ConfigureStep, FinishStep DEF Worker
<1> QED
  BY <1>1, <1>2, <1>3, <1>4, <1>5 DEF Next

-----------------------------------------------------------------------------
(* What the pool promises. *)

(* The places of the ring and the tokens of the semaphores tie the three counters
   together in every state, which no single thread of the pool could see. *)
THEOREM PoolInvariant == Spec => []IInv
<1>1. IInv /\ [Next]_vars => IInv'
  BY StepInv
<1> QED
  BY InitInv, <1>1, PTL DEF Spec

LEMMA IInvImpliesInv == IInv => Inv
<1> SUFFICES ASSUME IInv PROVE Inv
  OBVIOUS
<1>1. DOMAIN submitted = 1..Calls
  BY DEF IInv, TypeOK, Calls
<1>2. Ordered
  <2>1. Taken <= backup.job /\ backup.job <= Calls
    BY Types DEF IInv, Behind
  <2>2. \A k \in (Taken + 1)..Calls : ring[(k - 1) % Size] = submitted[k]
    BY DEF IInv, Ring, Slot
  <2> QED
    BY <2>1, <2>2 DEF Ordered, IInv, InHand, Taken, Calls
<1>3. ShutdownDrains
  BY <1>1 DEF ShutdownDrains, IInv, Ends, Answers
<1> QED
  BY <1>2, <1>3 DEF Inv, IInv, Rows

(* For every ring larger than what is pending: both threads find each query where they
   look for it and in the order of the calls, OnShutdown returns only when all are
   answered, and a success is in a permanent table. *)
THEOREM PoolSafe == Spec => []Inv
BY PoolInvariant, IInvImpliesInv, PTL

(* No step of the pool deletes the last copy of a row. *)
THEOREM NoRowIsLost == Spec => StoredStays
<1>1. IInv /\ [Next]_vars => [Stored \subseteq Stored']_vars
  <2> SUFFICES ASSUME IInv, Next PROVE Stored \subseteq Stored'
    OBVIOUS
  <2>1. CASE WorkerCopy
    <3>1. race' = race /\ (worker.success => worker.cur \in race)
      BY <2>1 DEF WorkerCopy, IInv, Rows
    <3>2. PICK ok \in BOOLEAN :
            IF worker.hasBackup
              THEN IF worker.success THEN CopyRemoved(worker.cur, ok)
                                     ELSE CopyMoved(worker.cur, ok)
              ELSE ~ok /\ UNCHANGED <<backupTmp, backupRace>>
      BY <2>1 DEF WorkerCopy
    <3> QED
      BY <3>1, <3>2 DEF Stored, CopyRemoved, CopyMoved
  <2>2. CASE WorkerWrite
    BY <2>2 DEF WorkerWrite, Stored
  <2>3. CASE BackupPass
    BY <2>3 DEF BackupPass, BackupCopies, Stored
  <2>4. CASE ~WorkerCopy /\ ~WorkerWrite /\ ~BackupPass
    <3>1. UNCHANGED <<race, backupTmp, backupRace>>
      BY <2>4 DEF Next, Backup, Worker, Insert, OnShutdown, OnShutdownReturns, BackupLook,
         WorkerTop, WorkerTake, WorkerRead, WorkerConfigure, WorkerFinish, dbVars
    <3> QED
      BY <3>1 DEF Stored
  <2> QED
    BY <2>1, <2>2, <2>3, <2>4
<1> QED
  BY PoolInvariant, <1>1, PTL DEF Spec, StoredStays

(* The two threads, the ring and the semaphores implement the queue of DbService: answers
   come one at a time in the order of the calls, and OnShutdown returns after the last. *)
THEOREM PoolImplementsService == Spec => Implements
<1>1. Init => Service!Init
  BY DEF Init, Service!Init
<1>2. IInv /\ IInv' /\ [Next]_vars => [Service!Next]_<<submitted, worker.job, main = "returned">>
  <2> SUFFICES ASSUME IInv, IInv', [Next]_vars
               PROVE  [Service!Next]_<<submitted, worker.job, main = "returned">>
    OBVIOUS
  <2>1. CASE UNCHANGED vars
    BY <2>1 DEF vars, mainVars
  <2>2. ASSUME NEW q \in Queries, Insert(q) PROVE Service!Submit(q)
    BY <2>2 DEF Insert, Service!Submit
  <2>3. CASE OnShutdown
    BY <2>3 DEF OnShutdown
  <2>4. CASE OnShutdownReturns
    <3>1. worker.pc = "exited" /\ worker.job = Calls
      BY <2>4 DEF OnShutdownReturns, IInv, Ends
    <3> QED
      BY <2>4, <3>1 DEF OnShutdownReturns, Service!Next, Service!Close, Calls
  <2>5. CASE Backup
    BY <2>5 DEF Backup, BackupLook, BackupPass, mainVars
  <2>6. CASE WorkerFinish
    <3>1. worker.job < Calls /\ worker.job \in Nat
      BY <2>6, AtWork, Types DEF WorkerFinish
    <3>2. worker'.job = worker.job + 1
      BY <2>6 DEF WorkerFinish, IInv, TypeOK
    <3>3. main # "returned"
      BY <2>6 DEF WorkerFinish, IInv, Ends
    <3> QED
      BY <2>6, <3>1, <3>2, <3>3 DEF WorkerFinish, mainVars, Service!Next, Service!Answer, Calls
  <2>7. CASE WorkerTop \/ WorkerTake \/ WorkerRead \/ WorkerWrite \/ WorkerCopy \/ WorkerConfigure
    <3>1. worker'.job = worker.job
      BY <2>7 DEF WorkerTop, WorkerTake, WorkerRead, WorkerWrite, WorkerCopy, WorkerConfigure,
                  IInv, TypeOK
    <3>2. UNCHANGED <<submitted, main>>
      BY <2>7 DEF WorkerTop, WorkerTake, WorkerRead, WorkerWrite, WorkerCopy, WorkerConfigure,
                  mainVars
    <3> QED
      BY <3>1, <3>2
  <2> QED
    BY <2>1, <2>2, <2>3, <2>4, <2>5, <2>6, <2>7 DEF Next, Worker, Service!Next
<1>3. Service!Spec <=> Service!Init /\ [][Service!Next]_<<submitted, worker.job, main = "returned">>
  BY DEF Service!Spec
<1> QED
  BY PoolInvariant, <1>1, <1>2, <1>3, PTL DEF Spec, Implements

=============================================================================
