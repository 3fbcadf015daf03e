----------------------------- MODULE SnapIdPool -----------------------------
(***************************************************************************)
(* CSnapIdPool: one array whose entries are linked into two lists by one   *)
(* field, the free ids as a stack and the ids given back as a queue.       *)
(* The time an id was given back is kept in an int, the clock is int64_t.  *)
(***************************************************************************)
EXTENDS Integers, FiniteSets, Functions

CONSTANTS
  MaxIds,     \* MAX_IDS
  Quarantine, \* five seconds
  HalfInt,    \* the first time that an int cannot hold
  MaxTime     \* bound: the clock

ASSUME PoolAssumption ==
  MaxIds \in Nat \ {0} /\ Quarantine \in Nat /\ HalfInt \in Nat \ {0} /\ MaxTime \in Nat

Ids == 0..(MaxIds - 1)

VARIABLES
  pool,    \* the members of CSnapIdPool
  now,     \* time_get
  freedAt  \* history: when each id was given back

poolVars == <<pool, now, freedAt>>

\* what an int holds of a time
AsInt(t) == ((t + HalfInt) % (2 * HalfInt)) - HalfInt

PoolTypeOK ==
  /\ pool.next \in [Ids -> Ids \cup {-1}]
  /\ pool.state \in [Ids -> {"free", "allocated", "timed"}]
  /\ pool.timeout \in [Ids -> (-HalfInt)..(HalfInt - 1)]
  /\ {pool.firstFree, pool.firstTimed, pool.lastTimed} \subseteq Ids \cup {-1}
  /\ {pool.usage, pool.inUsage} \subseteq 0..MaxIds
  /\ now \in 0..MaxTime

Reset ==
  [next |-> [i \in Ids |-> IF i = MaxIds - 1 THEN -1 ELSE i + 1],
   state |-> [i \in Ids |-> "free"], timeout |-> [i \in Ids |-> 0],
   firstFree |-> 0, firstTimed |-> -1, lastTimed |-> -1, usage |-> 0, inUsage |-> 0]

PoolInit ==
  /\ pool = Reset
  /\ now = 0
  /\ freedAt = [i \in Ids |-> 0]

-----------------------------------------------------------------------------
RemoveFirstTimeout(p) ==
  LET id == p.firstTimed
      following == p.next[id]
  IN  [p EXCEPT !.next[id] = p.firstFree, !.state[id] = "free", !.firstFree = id,
                !.firstTimed = following,
                !.lastTimed = IF following = -1 THEN -1 ELSE @,
                !.usage = @ - 1]

\* a pass of the loops of NewId and TimeoutIds, which end at the first id that is not in due
Pass(p, due) == IF p.firstTimed \in due THEN RemoveFirstTimeout(p) ELSE p

\* no id is passed twice
RemoveTimeouts(p, due) ==
  LET after[n \in 0..MaxIds] == IF n = 0 THEN p ELSE Pass(after[n - 1], due)
  IN  after[MaxIds]

\* the ids whose time has come
Due == {i \in Ids : pool.timeout[i] < now}

\* an id is taken, or there is none
NewId ==
  LET p == RemoveTimeouts(pool, Due)
      id == p.firstFree
  IN  /\ pool' = IF id = -1
                   THEN p
                   ELSE [p EXCEPT !.firstFree = p.next[id], !.state[id] = "allocated",
                                  !.usage = @ + 1, !.inUsage = @ + 1]
      /\ UNCHANGED <<now, freedAt>>

\* variant: the pool is reset
TimeoutIdsReset == pool' = Reset /\ UNCHANGED <<now, freedAt>>

\* the map is loaded
TimeoutIds ==
  /\ pool' = RemoveTimeouts(pool, Ids)
  /\ UNCHANGED <<now, freedAt>>

\* variant: the link of the free list is kept
FreeIdLinked(id) ==
  /\ pool.state[id] = "allocated"
  /\ LET p == [pool EXCEPT !.inUsage = @ - 1, !.state[id] = "timed",
                           !.timeout[id] = AsInt(now + Quarantine), !.lastTimed = id]
     IN  pool' = IF pool.lastTimed # -1
                   THEN [p EXCEPT !.next[pool.lastTimed] = id]
                   ELSE [p EXCEPT !.firstTimed = id]
  /\ freedAt' = [freedAt EXCEPT ![id] = now]
  /\ UNCHANGED now

FreeId(id) ==
  /\ pool.state[id] = "allocated"
  /\ LET p == [pool EXCEPT !.inUsage = @ - 1, !.state[id] = "timed", !.next[id] = -1,
                           !.timeout[id] = AsInt(now + Quarantine), !.lastTimed = id]
     IN  pool' = IF pool.lastTimed # -1
                   THEN [p EXCEPT !.next[pool.lastTimed] = id]
                   ELSE [p EXCEPT !.firstTimed = id]
  /\ freedAt' = [freedAt EXCEPT ![id] = now]
  /\ UNCHANGED now

Tick == now < MaxTime /\ now' = now + 1 /\ UNCHANGED <<pool, freedAt>>

PoolNext == NewId \/ TimeoutIds \/ (\E id \in Ids : FreeId(id)) \/ Tick

PoolSpec == PoolInit /\ [][PoolNext]_poolVars

-----------------------------------------------------------------------------
(* Properties. *)

\* the entries of the list that starts at first, up to its end
Chain(first) ==
  LET at[k \in 0..MaxIds] ==
        IF k = 0 THEN first ELSE IF at[k - 1] = -1 THEN -1 ELSE pool.next[at[k - 1]]
  IN  [k \in {k \in 0..MaxIds : at[k] # -1} |-> at[k]]

InState(s) == {i \in Ids : pool.state[i] = s}

(* The shared links keep two proper lists: every free id is on the free list
   once, every resting id on the other, and each list ends. *)
ListsArePartition ==
  /\ \A l \in {<<pool.firstFree, "free">>, <<pool.firstTimed, "timed">>} :
       Range(Chain(l[1])) = InState(l[2]) /\ Cardinality(DOMAIN Chain(l[1])) = Cardinality(InState(l[2]))
  /\ pool.lastTimed = -1 <=> InState("timed") = {}
  /\ pool.lastTimed # -1 => pool.state[pool.lastTimed] = "timed" /\ pool.next[pool.lastTimed] = -1

(* m_InUsage counts the ids in use, m_Usage those that rest as well. *)
CountersAreRight ==
  /\ pool.inUsage = Cardinality(InState("allocated"))
  /\ pool.usage = Cardinality(InState("allocated") \cup InState("timed"))

(* Ids come out of their rest in the order they went in, so that a short one
   never waits behind a long one. *)
OldestRestsFirst ==
  \A j, k \in DOMAIN Chain(pool.firstTimed) :
    j <= k => freedAt[Chain(pool.firstTimed)[j]] <= freedAt[Chain(pool.firstTimed)[k]]

(* The state of the pool: the lists are proper and in order, and the counters match them. *)
Inv == PoolTypeOK /\ ListsArePartition /\ CountersAreRight /\ OldestRestsFirst

(* The pool keeps the promise of SnapIds: an id has one owner, and NewId fails
   only when every id is in use or rests. *)
Promise == INSTANCE SnapIds WITH owned <- InState("allocated"), resting <- InState("timed")
Implements == Promise!Spec

=============================================================================
