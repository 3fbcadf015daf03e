------------------------------- MODULE DbPool -------------------------------
(***************************************************************************)
(* The database connection pool of                                         *)
(* src/src/engine/server/databases/connection_pool.cpp: the main thread    *)
(* puts queries into a ring, the backup thread looks at each one first and *)
(* copies writes to the WRITE_BACKUP database, and the worker thread then  *)
(* executes it.  Two semaphores pass the queries along.  The databases hold *)
(* the rows CScoreWorker::SaveScore writes (game/server/scoreworker.cpp).  *)
(***************************************************************************)
EXTENDS Naturals, Sequences, FiniteSets

CONSTANTS
  Queries,     \* every query of the run, each submitted at most once
  Kind,        \* Queries -> what m_Mode says it is
  Size,        \* std::size(m_aQueries)
  MaxPending,  \* environment bound: queries in the ring the worker has not taken
  Null         \* an empty slot, or no query in hand

Kinds == {"read", "write", "addRead", "addWrite", "addBackup", "print"}

ASSUME KindAssumption == Kind \in [Queries -> Kinds] /\ Null \notin Queries
ASSUME SizeAssumption == Size \in Nat \ {0} /\ MaxPending \in Nat /\ MaxPending < Size

VARIABLES
  ring, insertIdx,        \* m_aQueries, m_InsertIdx
  numBackup, numWorker,   \* the semaphores m_NumBackup and m_NumWorker
  shutdown,               \* m_pShared->m_Shutdown
  main,                   \* where the main thread is: "run", "waiting", "returned"
  backup,                 \* CBackup: pc, JobNum, the query in hand, m_pWriteBackup set
  worker,                 \* CWorker: pc, JobNum, query, FailMode, Success, connections
  race,                   \* rows in the race table of the WRITE database
  backupTmp,              \* rows in race_backup of the WRITE_BACKUP database
  backupRace,             \* rows in race of the WRITE_BACKUP database
  result,                 \* what was stored in m_pResult
  submitted,              \* history: the queries in the order of the calls
  unsaved                 \* history: writes whose BACKUP_FIRST failed

mainVars == <<insertIdx, main, submitted>>
dbVars == <<race, backupTmp, backupRace>>
vars == <<ring, mainVars, numBackup, numWorker, shutdown, backup, worker, dbVars, result, unsaved>>

TypeOK ==
  /\ ring \in [0..(Size - 1) -> Queries \cup {Null}]
  /\ insertIdx \in 0..(Size - 1)
  /\ numBackup \in Nat /\ numWorker \in Nat
  /\ shutdown \in BOOLEAN
  /\ main \in {"run", "waiting", "returned"}
  /\ backup \in [pc : {"wait", "look", "exited"}, job : Nat, cur : Queries \cup {Null},
                 hasBackup : BOOLEAN]
  /\ worker \in [pc : {"top", "wait", "exec", "copy", "finish", "exited"}, job : Nat,
                 cur : Queries \cup {Null}, failMode : BOOLEAN, success : BOOLEAN,
                 hasRead : BOOLEAN, hasWrite : BOOLEAN, hasBackup : BOOLEAN]
  /\ race \subseteq Queries /\ backupTmp \subseteq Queries /\ backupRace \subseteq Queries
  /\ result \in [Queries -> {"none", "ok", "failed"}]
  /\ submitted \in Seq(Queries)
  /\ unsaved \subseteq Queries

Init ==
  /\ ring = [i \in 0..(Size - 1) |-> Null]
  /\ insertIdx = 0
  /\ numBackup = 0 /\ numWorker = 0
  /\ shutdown = FALSE
  /\ main = "run"
  /\ backup = [pc |-> "wait", job |-> 0, cur |-> Null, hasBackup |-> FALSE]
  /\ worker = [pc |-> "top", job |-> 0, cur |-> Null, failMode |-> FALSE, success |-> FALSE,
               hasRead |-> FALSE, hasWrite |-> FALSE, hasBackup |-> FALSE]
  /\ race = {} /\ backupTmp = {} /\ backupRace = {}
  /\ result = [q \in Queries |-> "none"]
  /\ submitted = <<>>
  /\ unsaved = {}

-----------------------------------------------------------------------------
(* Main thread. *)

\* Print, RegisterSqliteDatabase, RegisterMysqlDatabase, Execute, ExecuteWrite:
\* the slot is overwritten whatever it holds
Insert(q) ==
  /\ main = "run"
  /\ \A i \in DOMAIN submitted : submitted[i] # q
  /\ Len(submitted) - worker.job < MaxPending
  /\ ring' = [ring EXCEPT ![insertIdx] = q]
  /\ insertIdx' = (insertIdx + 1) % Size
  /\ numBackup' = numBackup + 1
  /\ submitted' = Append(submitted, q)
  /\ UNCHANGED <<numWorker, shutdown, main, backup, worker, dbVars, result, unsaved>>

\* OnShutdown signals without inserting: the threads find an empty slot
OnShutdown ==
  /\ main = "run"
  /\ main' = "waiting"
  /\ shutdown' = TRUE
  /\ numBackup' = numBackup + 1
  /\ UNCHANGED <<ring, insertIdx, submitted, numWorker, backup, worker, dbVars, result, unsaved>>

\* while(m_pShared->m_Shutdown.load()) sleep
OnShutdownReturns ==
  /\ main = "waiting"
  /\ ~shutdown
  /\ main' = "returned"
  /\ UNCHANGED <<ring, insertIdx, submitted, numBackup, numWorker, shutdown, backup, worker,
                 dbVars, result, unsaved>>

-----------------------------------------------------------------------------
(* Backup thread: CBackup::ProcessQueries. *)

\* variant: on the empty slot of OnShutdown the worker is not told
BackupLookSilent ==
  /\ backup.pc = "wait"
  /\ numBackup > 0
  /\ numBackup' = numBackup - 1
  /\ LET q == ring[backup.job % Size]
     IN  backup' = [backup EXCEPT !.pc = IF q = Null THEN "exited" ELSE "look", !.cur = q]
  /\ UNCHANGED <<ring, mainVars, numWorker, shutdown, worker, dbVars, result, unsaved>>

BackupLook ==
  /\ backup.pc = "wait"
  /\ numBackup > 0
  /\ numBackup' = numBackup - 1
  /\ LET q == ring[backup.job % Size]
     IN  IF q = Null
           THEN /\ backup' = [backup EXCEPT !.pc = "exited"]
                /\ numWorker' = numWorker + 1
           ELSE /\ backup' = [backup EXCEPT !.pc = "look", !.cur = q]
                /\ UNCHANGED numWorker
  /\ UNCHANGED <<ring, mainVars, shutdown, worker, dbVars, result, unsaved>>

\* SaveScore(BACKUP_FIRST) inserts one row into race_backup, or fails
BackupCopies(q, ok) ==
  /\ backupTmp' = IF ok THEN backupTmp \cup {q} ELSE backupTmp
  /\ unsaved' = IF ok THEN unsaved ELSE unsaved \cup {q}

\* variant: a query that is not copied is not passed on either
BackupPassWrites ==
  /\ backup.pc = "look"
  /\ backup' = [pc |-> "wait", job |-> backup.job + 1, cur |-> Null,
                hasBackup |-> backup.hasBackup \/ Kind[backup.cur] = "addBackup"]
  /\ IF Kind[backup.cur] = "write" /\ backup.hasBackup
       THEN \E ok \in BOOLEAN : BackupCopies(backup.cur, ok) /\ numWorker' = numWorker + 1
       ELSE UNCHANGED <<backupTmp, unsaved, numWorker>>
  /\ UNCHANGED <<ring, mainVars, numBackup, shutdown, worker, race, backupRace, result>>

BackupPass ==
  /\ backup.pc = "look"
  /\ IF Kind[backup.cur] = "write" /\ backup.hasBackup
       THEN \E ok \in BOOLEAN : BackupCopies(backup.cur, ok)
       ELSE UNCHANGED <<backupTmp, unsaved>>
  /\ backup' = [pc |-> "wait", job |-> backup.job + 1, cur |-> Null,
                hasBackup |-> backup.hasBackup \/ Kind[backup.cur] = "addBackup"]
  /\ numWorker' = numWorker + 1
  /\ UNCHANGED <<ring, mainVars, numBackup, shutdown, worker, race, backupRace, result>>

-----------------------------------------------------------------------------
(* Worker thread: CWorker::ProcessQueries. *)

\* top of the loop: fail mode ends when no query is waiting
WorkerTop ==
  /\ worker.pc = "top"
  /\ worker' = [worker EXCEPT !.pc = "wait", !.failMode = @ /\ numWorker # 0]
  /\ UNCHANGED <<ring, mainVars, numBackup, numWorker, shutdown, backup, dbVars, result, unsaved>>

\* variant: the worker leaves as soon as it sees the shutdown
WorkerTakeStops ==
  /\ worker.pc = "wait"
  /\ numWorker > 0
  /\ numWorker' = numWorker - 1
  /\ LET i == worker.job % Size
     IN  /\ ring' = [ring EXCEPT ![i] = Null]
         /\ IF ring[i] = Null \/ shutdown
              THEN /\ worker' = [worker EXCEPT !.pc = "exited"]
                   /\ shutdown' = FALSE
              ELSE /\ worker' = [worker EXCEPT !.pc = "exec", !.cur = ring[i]]
                   /\ UNCHANGED shutdown
  /\ UNCHANGED <<mainVars, numBackup, backup, dbVars, result, unsaved>>

WorkerTake ==
  /\ worker.pc = "wait"
  /\ numWorker > 0
  /\ numWorker' = numWorker - 1
  /\ LET i == worker.job % Size
     IN  /\ ring' = [ring EXCEPT ![i] = Null]
         /\ IF ring[i] = Null
              THEN /\ worker' = [worker EXCEPT !.pc = "exited"]
                   /\ shutdown' = FALSE
              ELSE /\ worker' = [worker EXCEPT !.pc = "exec", !.cur = ring[i]]
                   /\ UNCHANGED shutdown
  /\ UNCHANGED <<mainVars, numBackup, backup, dbVars, result, unsaved>>

\* READ_ACCESS: dismissed in shutdown and fail mode, else tried on every read
\* server until one succeeds
WorkerRead ==
  /\ worker.pc = "exec"
  /\ Kind[worker.cur] = "read"
  /\ \E ok \in BOOLEAN :
       /\ ok => worker.hasRead /\ ~worker.failMode /\ ~shutdown
       /\ worker' = [worker EXCEPT !.pc = "finish", !.success = ok, !.failMode = @ \/ ~ok]
  /\ UNCHANGED <<ring, mainVars, numBackup, numWorker, shutdown, backup, dbVars, result, unsaved>>

\* WRITE_ACCESS, first half: SaveScore(NORMAL) on the WRITE server unless a
\* backup exists and shutdown or fail mode skips it.  A server may apply the
\* insert and still report failure.
SkipsWrite == worker.hasBackup /\ (shutdown \/ worker.failMode)

WorkerWrite ==
  /\ worker.pc = "exec"
  /\ Kind[worker.cur] = "write"
  /\ \E applied, ok \in BOOLEAN :
       /\ applied => worker.hasWrite /\ ~SkipsWrite
       /\ ok => applied
       /\ race' = IF applied THEN race \cup {worker.cur} ELSE race
       /\ worker' = [worker EXCEPT !.pc = "copy", !.success = ok, !.failMode = @ \/ ~ok]
  /\ UNCHANGED <<ring, mainVars, numBackup, numWorker, shutdown, backup, backupTmp, backupRace,
                 result, unsaved>>

\* SaveScore(NORMAL_SUCCEEDED) deletes the row of race_backup, or fails
CopyRemoved(q, ok) ==
  /\ backupTmp' = IF ok THEN backupTmp \ {q} ELSE backupTmp
  /\ UNCHANGED backupRace

\* variant: the row of race_backup is deleted whether it was copied or not
CopyMovedUncopied(q, ok) ==
  /\ backupRace' \in {backupRace, backupRace \cup ({q} \cap backupTmp)}
  /\ backupTmp' = IF ok THEN backupTmp \ {q} ELSE backupTmp

\* SaveScore(NORMAL_FAILED) copies the row of race_backup, if there is one, to
\* race and then deletes it; it may fail before the copy or before the deletion
CopyMoved(q, ok) ==
  \E copied \in BOOLEAN :
    /\ ok => copied
    /\ backupRace' = IF copied THEN backupRace \cup ({q} \cap backupTmp) ELSE backupRace
    /\ backupTmp' = IF ok THEN backupTmp \ {q} ELSE backupTmp

\* variant: the success of the first half is not looked at
WorkerCopyRemoves ==
  /\ worker.pc = "copy"
  /\ \E ok \in BOOLEAN :
       /\ IF worker.hasBackup
            THEN CopyRemoved(worker.cur, ok)
            ELSE ~ok /\ UNCHANGED <<backupTmp, backupRace>>
       /\ worker' = [worker EXCEPT !.pc = "finish", !.success = @ \/ ok]
  /\ UNCHANGED <<ring, mainVars, numBackup, numWorker, shutdown, backup, race, result, unsaved>>

\* WRITE_ACCESS, second half: tell the backup database how it went
WorkerCopy ==
  /\ worker.pc = "copy"
  /\ \E ok \in BOOLEAN :
       /\ IF worker.hasBackup
            THEN IF worker.success THEN CopyRemoved(worker.cur, ok) ELSE CopyMoved(worker.cur, ok)
            ELSE ~ok /\ UNCHANGED <<backupTmp, backupRace>>
       /\ worker' = [worker EXCEPT !.pc = "finish", !.success = @ \/ ok]
  /\ UNCHANGED <<ring, mainVars, numBackup, numWorker, shutdown, backup, race, result, unsaved>>

\* ADD_MYSQL, ADD_SQLITE and PRINT
WorkerConfigure ==
  /\ worker.pc = "exec"
  /\ Kind[worker.cur] \notin {"read", "write"}
  /\ worker' = [worker EXCEPT !.pc = "finish", !.success = TRUE,
                  !.hasRead = @ \/ Kind[worker.cur] = "addRead",
                  !.hasWrite = @ \/ Kind[worker.cur] = "addWrite",
                  !.hasBackup = @ \/ Kind[worker.cur] = "addBackup"]
  /\ UNCHANGED <<ring, mainVars, numBackup, numWorker, shutdown, backup, dbVars, result, unsaved>>

\* m_Success, then m_Completed, then the next iteration
WorkerFinish ==
  /\ worker.pc = "finish"
  /\ result' = [result EXCEPT ![worker.cur] = IF worker.success THEN "ok" ELSE "failed"]
  /\ worker' = [worker EXCEPT !.pc = "top", !.job = @ + 1, !.cur = Null]
  /\ UNCHANGED <<ring, mainVars, numBackup, numWorker, shutdown, backup, dbVars, unsaved>>

Backup == BackupLook \/ BackupPass
Worker ==
  \/ WorkerTop \/ WorkerTake \/ WorkerRead \/ WorkerWrite \/ WorkerCopy
  \/ WorkerConfigure \/ WorkerFinish

Next ==
  \/ \E q \in Queries : Insert(q)
  \/ OnShutdown \/ OnShutdownReturns \/ Backup \/ Worker

Spec == Init /\ [][Next]_vars

(* The operating system schedules the two threads and the waiting main thread;
   a database call returns, with or without success. *)
Fairness == WF_vars(Backup) /\ WF_vars(Worker) /\ WF_vars(OnShutdownReturns)

FairSpec == Spec /\ Fairness

-----------------------------------------------------------------------------
(* Properties. *)

Stored == race \cup backupTmp \cup backupRace
Writes == {q \in Queries : Kind[q] = "write"}

(* connection_pool.cpp: the detour over the backup database exists "to not loose
   ranks when the server shuts down before all queries are executed on the mysql
   server".  A rank that reached some table is in some table ever after: no
   failing step, fail mode or shutdown deletes the last copy. *)
StoredStays == [][Stored \subseteq Stored']_vars

(* A write reported as successful is in a permanent table, unless its own
   BACKUP_FIRST had failed: neither fail mode nor shutdown turns a row that is
   only in race_backup, or nowhere, into a success. *)
SuccessIsPermanent ==
  \A q \in Writes \ unsaved : result[q] = "ok" => q \in race \cup backupRace

(* The worker executes no query before the backup thread has passed it on, and
   both follow the order of the calls: the ring holds what was submitted and not
   taken yet, at the place both threads will look for it. *)
Ordered ==
  LET taken == worker.job + (IF worker.cur = Null THEN 0 ELSE 1)
  IN  /\ taken <= backup.job /\ backup.job <= Len(submitted)
      /\ \A k \in (taken + 1)..Len(submitted) : ring[(k - 1) % Size] = submitted[k]
      /\ worker.cur # Null => worker.cur = submitted[worker.job + 1]
      /\ backup.cur # Null => backup.cur = submitted[backup.job + 1]

(* "Work through all database jobs after OnShutdown is called before exiting the
   thread": when OnShutdown has returned every query was answered and both
   threads are past their loops. *)
ShutdownDrains ==
  main = "returned" =>
    /\ \A i \in DOMAIN submitted : result[submitted[i]] # "none"
    /\ worker.pc = "exited" /\ backup.pc = "exited"

(* The state of the pool: the ring holds what is to be done where both threads look for it,
   the shutdown leaves nothing unanswered, and a success is in a permanent table. *)
Inv == TypeOK /\ Ordered /\ ShutdownDrains /\ SuccessIsPermanent

(* The pool implements the FIFO service of DbService. *)
Service == INSTANCE DbService WITH answered <- worker.job, closed <- main = "returned"
Implements == Service!Spec

(* Every submitted query is answered, and OnShutdown returns. *)
EveryQueryAnswered ==
  \A q \in Queries : (\E i \in DOMAIN submitted : submitted[i] = q) ~> result[q] # "none"
ShutdownReturns == main = "waiting" ~> main = "returned"

=============================================================================
