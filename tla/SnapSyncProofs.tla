--------------------------- MODULE SnapSyncProofs ---------------------------
(***************************************************************************)
(* Proofs about SnapSync for any worlds, any way to cut a delta into       *)
(* packets and any times for which snapshots are kept: whatever is lost,   *)
(* doubled and reordered, a delta meets the base it was made from, and the *)
(* screen shows what the server published.                                 *)
(***************************************************************************)
EXTENDS SnapSync, SequenceTheorems, WellFoundedInduction, TLAPS

(* A tick has one snapshot. *)
Published ==
  /\ DOMAIN built \subseteq 1..srv.tick
  /\ \A t \in DOMAIN built : built[t] \in Worlds

\* a storage keeps what was built
HoldsBuilt(s) == \A i \in DOMAIN s : s[i].tick \in DOMAIN built /\ s[i].snap = built[s[i].tick]

(* A packet leads from what was built for its base to what was built for its tick. *)
IsDelta(m) ==
  /\ m.tick \in DOMAIN built /\ m.to = built[m.tick]
  /\ IF m.base = -1 THEN m.from = Empty
                    ELSE m.base \in DOMAIN built /\ m.from = built[m.base]
  /\ m.of = 0 => m.from = m.to

Deltas == \A m \in snaps : IsDelta(m)

(* The client collects the packets of one tick, and what it holds is older or acknowledged. *)
Receives ==
  /\ \A p \in cl.parts : p.tick = cl.recvTick
  /\ \A i \in DOMAIN cl.store :
       cl.store[i].tick < cl.recvTick \/ (cl.store[i].tick = cl.recvTick /\ cl.ack = cl.recvTick)

(* The game is shown from the second snapshot on; until then nothing is purged. *)
Starting ==
  /\ cl.received = 0 => cl.store = <<>>
  /\ cl.received = 1 => Len(cl.store) = 1
  /\ cl.online <=> cl.received >= 2
  /\ ~cl.online => cl.prev = 0 /\ cl.cur = 0

IInv ==
  /\ TypeOK
  /\ Published /\ HoldsBuilt(srv.store) /\ HoldsBuilt(cl.store) /\ Deltas
  /\ StoresRise /\ Receives /\ Starting /\ ViewIsHeld /\ AckedIsHeld
  /\ NoCrcError

-----------------------------------------------------------------------------
(* The least element of a set of numbers. *)

LEMMA LessIsWellFounded == IsWellFoundedOn({p \in Nat \X Nat : p[1] < p[2]}, Nat)
BY NatLessThanWellFounded DEF OpToRel

LEMMA LeastExists ==
  ASSUME NEW S \in SUBSET Nat, S # {}
  PROVE  \E m \in S : \A k \in S : m <= k
<1> DEFINE R == {p \in Nat \X Nat : p[1] < p[2]}
<1>1. PICK m \in S : \A k \in S : ~(<<k, m>> \in R)
  BY LessIsWellFounded, WFMin
<1>2. ASSUME NEW k \in S PROVE m <= k
  <2>1. k \in Nat /\ m \in Nat
    OBVIOUS
  <2>2. CASE k < m
    <3>1. <<k, m>> \in Nat \X Nat /\ <<k, m>>[1] < <<k, m>>[2]
      BY <2>1, <2>2
    <3>2. <<k, m>> \in R
      BY <3>1
    <3> QED
      BY <1>1, <3>2
  <2> QED
    BY <2>1, <2>2
<1> QED
  BY <1>2

-----------------------------------------------------------------------------
(* Storages. *)

LEMMA TickFacts ==
  /\ MaxTick \in Nat /\ Ticks \subseteq Nat \ {0} /\ \A t \in Ticks : t \in Int
  /\ \A h \in Holders : h.tick \in Ticks /\ h.tick \in Int /\ h.snap \in Worlds \cup {Empty}
<1>1. MaxTick \in Nat
  BY SyncAssumption
<1>2. Ticks \subseteq Nat \ {0}
  BY <1>1 DEF Ticks
<1>3. \A h \in Holders : h.tick \in Ticks /\ h.snap \in Worlds \cup {Empty}
  BY DEF Holders
<1>4. \A t \in Ticks : t \in Int
  BY <1>2
<1> QED
  BY <1>1, <1>2, <1>3, <1>4

LEMMA AckTypes == \A a \in Ticks \cup {-1} : a \in Int
<1>1. \A t \in Ticks : t \in Int
  BY TickFacts
<1>2. -1 \in Int
  OBVIOUS
<1> QED
  BY <1>1, <1>2

LEMMA StoreFacts ==
  ASSUME NEW s \in Seq(Holders)
  PROVE  /\ Len(s) \in Nat /\ DOMAIN s = 1..Len(s)
         /\ \A i \in 1..Len(s) : s[i] \in Holders /\ s[i].tick \in Ticks /\ s[i].tick \in Int
<1>1. Len(s) \in Nat /\ DOMAIN s = 1..Len(s) /\ \A i \in 1..Len(s) : s[i] \in Holders
  OBVIOUS
<1> QED
  BY <1>1, TickFacts

LEMMA AddFacts ==
  ASSUME NEW s \in Seq(Holders), NEW tick \in Ticks, NEW snap \in Worlds \cup {Empty}
  PROVE  /\ Add(s, tick, snap) \in Seq(Holders)
         /\ Len(Add(s, tick, snap)) = Len(s) + 1 /\ Len(s) \in Nat
         /\ DOMAIN Add(s, tick, snap) = 1..(Len(s) + 1) /\ DOMAIN s = 1..Len(s)
         /\ \A i \in 1..Len(s) : Add(s, tick, snap)[i] = s[i]
         /\ Add(s, tick, snap)[Len(s) + 1] = [tick |-> tick, snap |-> snap]
<1>1. [tick |-> tick, snap |-> snap] \in Holders
  BY DEF Holders
<1> DEFINE h == [tick |-> tick, snap |-> snap]
<1> HIDE DEF h
<1>2. h \in Holders
  BY <1>1 DEF h
<1>3. /\ Append(s, h) \in Seq(Holders) /\ Len(Append(s, h)) = Len(s) + 1 /\ Len(s) \in Nat
      /\ \A i \in 1..Len(s) : Append(s, h)[i] = s[i]
      /\ Append(s, h)[Len(s) + 1] = h
  BY <1>2
<1> QED
  BY <1>3 DEF Add, h

(* PurgeUntil drops the snapshots before the tick. *)
LEMMA PurgeFacts ==
  ASSUME NEW s \in Seq(Holders), Rising(s), NEW tick \in Int
  PROVE  /\ PurgeUntil(s, tick) \in Seq(Holders)
         /\ \E d \in 0..Len(s) :
              /\ Len(PurgeUntil(s, tick)) = Len(s) - d
              /\ \A i \in 1..(Len(s) - d) : PurgeUntil(s, tick)[i] = s[i + d]
              /\ \A i \in 1..d : s[i].tick < tick
<1> DEFINE kept == {i \in DOMAIN s : s[i].tick >= tick}
<1>1. /\ Len(s) \in Nat /\ DOMAIN s = 1..Len(s)
      /\ \A i \in 1..Len(s) : s[i] \in Holders /\ s[i].tick \in Int
  BY StoreFacts
<1>2. CASE kept = {}
  <2>1. PurgeUntil(s, tick) = <<>>
    BY <1>2 DEF PurgeUntil
  <2>2. \A i \in 1..Len(s) : s[i].tick < tick
    BY <1>1, <1>2
  <2>3. <<>> \in Seq(Holders) /\ Len(<<>>) = Len(s) - Len(s) /\ Len(s) \in 0..Len(s)
        /\ \A i \in 1..(Len(s) - Len(s)) : <<>>[i] = s[i + Len(s)]
    BY <1>1
  <2> QED
    BY <2>1, <2>2, <2>3
<1>3. CASE kept # {}
  <2> DEFINE first == CHOOSE i \in kept : \A j \in kept : i <= j
  <2>1. kept \in SUBSET Nat
    BY <1>1
  <2>2. first \in kept /\ \A j \in kept : first <= j
    <3>1. \E i \in kept : \A j \in kept : i <= j
      BY <1>3, <2>1, LeastExists
    <3> QED
      BY <3>1
  <2>3. PurgeUntil(s, tick) = SubSeq(s, first, Len(s))
    BY <1>3 DEF PurgeUntil
  <2>4. first \in 1..Len(s) /\ \A i \in 1..(first - 1) : s[i].tick < tick
    BY <1>1, <2>2
  <2> HIDE DEF first
  <2>5. /\ SubSeq(s, first, Len(s)) \in Seq(Holders)
        /\ Len(SubSeq(s, first, Len(s))) = Len(s) - first + 1
        /\ \A i \in 1..(Len(s) - first + 1) : SubSeq(s, first, Len(s))[i] = s[first + i - 1]
    BY <1>1, <2>4, SubSeqProperties
  <2> DEFINE d == first - 1
  <2>6. /\ d \in 0..Len(s) /\ Len(s) - first + 1 = Len(s) - d
        /\ \A i \in 1..(Len(s) - d) : first + i - 1 = i + d
    BY <1>1, <2>4
  <2>7. /\ Len(PurgeUntil(s, tick)) = Len(s) - d
        /\ \A i \in 1..(Len(s) - d) : PurgeUntil(s, tick)[i] = s[i + d]
    BY <2>3, <2>5, <2>6
  <2> QED
    BY <2>3, <2>4, <2>5, <2>6, <2>7
<1> QED
  BY <1>2, <1>3

(* In a storage in order a tick has one holder, which Get finds. *)
LEMMA SnapOfFacts ==
  ASSUME NEW s \in Seq(Holders), Rising(s), NEW i \in DOMAIN s
  PROVE  SnapOf(s, s[i].tick) = s[i].snap
<1>1. DOMAIN s = 1..Len(s) /\ Len(s) \in Nat /\ \A j \in DOMAIN s : s[j].tick \in Int
  BY StoreFacts
<1>2. \A j \in Indices(s, s[i].tick) : j = i
  BY <1>1 DEF Indices, Rising
<1>3. Indices(s, s[i].tick) = {i}
  BY <1>2 DEF Indices
<1> QED
  BY <1>1, <1>3 DEF SnapOf

-----------------------------------------------------------------------------
(* The server. *)

SrvType ==
  [tick : 0..MaxTick, store : Seq(Holders), acked : Ticks \cup OldAcks \cup {-1},
   rate : {"init", "full", "recover"}]

ClType ==
  [online : BOOLEAN, predicts : BOOLEAN, store : Seq(Holders),
   recvTick : 0..MaxTick, parts : SUBSET [part : Parts, tick : Ticks],
   ack : Ticks \cup {-1}, prev : 0..MaxTick, cur : 0..MaxTick,
   received : Nat, crcErrors : 0..MaxCrcErrors]

LEMMA Types ==
  ASSUME TypeOK
  PROVE  /\ srv \in SrvType /\ cl \in ClType
         /\ snaps \subseteq Packets /\ inputs \subseteq Ticks \cup OldAcks \cup {-1}
BY DEF TypeOK, SrvType, ClType

\* the part of the invariant about the client does not look at the server
ClientPart ==
  /\ cl \in ClType
  /\ HoldsBuilt(cl.store) /\ Rising(cl.store)
  /\ Receives /\ Starting /\ ViewIsHeld /\ AckedIsHeld /\ NoCrcError

ServerPart ==
  /\ srv \in SrvType
  /\ Published /\ HoldsBuilt(srv.store) /\ Rising(srv.store)
  /\ snaps \subseteq Packets /\ Deltas

InputPart == inputs \subseteq Ticks \cup OldAcks \cup {-1}

LEMMA Split == IInv <=> ClientPart /\ ServerPart /\ InputPart
BY DEF IInv, ClientPart, ServerPart, InputPart, TypeOK, SrvType, ClType, StoresRise

LEMMA SplitNext == ClientPart' /\ ServerPart' /\ InputPart' => IInv'
BY DEF IInv, ClientPart, ServerPart, InputPart, TypeOK, SrvType, ClType, StoresRise

LEMMA InitInv == Init => IInv
<1> SUFFICES ASSUME Init PROVE IInv
  OBVIOUS
<1>1. MaxTick \in Nat /\ MaxCrcErrors \in Nat
  BY SyncAssumption
<1>2. <<>> \in Seq(Holders) /\ DOMAIN <<>> = {} /\ Len(<<>>) = 0
  OBVIOUS
<1>3. ClientPart
  <2>1. cl \in ClType
    BY <1>1, <1>2 DEF Init, ClType
  <2>2. cl.store = <<>> /\ cl.parts = {} /\ cl.received = 0 /\ ~cl.online /\ cl.ack = -1
        /\ cl.prev = 0 /\ cl.cur = 0 /\ cl.crcErrors = 0
    BY DEF Init
  <2> QED
    BY <1>2, <2>1, <2>2
    DEF ClientPart, HoldsBuilt, Rising, Receives, Starting, ViewIsHeld, AckedIsHeld, NoCrcError
<1>4. ServerPart
  <2>1. srv \in SrvType
    BY <1>1, <1>2 DEF Init, SrvType
  <2>2. srv.store = <<>> /\ snaps = {} /\ built = <<>>
    BY DEF Init
  <2> QED
    BY <1>2, <2>1, <2>2 DEF ServerPart, HoldsBuilt, Rising, Published, Deltas
<1>5. InputPart
  BY DEF Init, InputPart
<1> QED
  BY <1>3, <1>4, <1>5, Split

LEMMA TickStep == ASSUME IInv, Tick PROVE IInv'
<1> DEFINE tick == srv.tick + 1
<1>1. /\ srv \in SrvType /\ srv.tick \in 0..MaxTick /\ srv.store \in Seq(Holders)
      /\ srv.acked \in Ticks \cup OldAcks \cup {-1} /\ srv.rate \in {"init", "full", "recover"}
      /\ MaxTick \in Nat /\ KeepTicks \in Nat /\ OldAcks \subseteq Nat
  BY Types, SyncAssumption DEF IInv, SrvType
<1>2. tick \in Ticks /\ tick \in 0..MaxTick /\ tick \in Int /\ tick \notin DOMAIN built
      /\ \A t \in DOMAIN built : t \in Int /\ t < tick
  BY <1>1 DEF IInv, Published, Ticks, Tick
<1> HIDE DEF tick
<1>3. CASE SkipSnapshot(tick)
  <2>1. srv' \in SrvType /\ srv'.store = srv.store /\ srv'.tick = tick
    BY <1>1, <1>2, <1>3 DEF SkipSnapshot, SrvType
  <2>2. 1..srv.tick \subseteq 1..tick
    BY <1>1 DEF tick
  <2>3. ServerPart'
    BY <1>3, <2>1, <2>2, Split
    DEF ServerPart, SkipSnapshot, HoldsBuilt, Published, Deltas, IsDelta
  <2>4. ClientPart' /\ InputPart'
    BY <1>3, Split DEF SkipSnapshot, ClientPart, HoldsBuilt, Receives, Starting, ViewIsHeld,
       AckedIsHeld, NoCrcError, InputPart
  <2> QED
    BY <2>3, <2>4, SplitNext
<1>4. ASSUME NEW snap \in Worlds, DoSnapshot(tick, snap) PROVE IInv'
  <2> DEFINE old == PurgeUntil(srv.store, tick - KeepTicks)
             store == Add(old, tick, snap)
             delta == Delta(store, tick, snap)
  <2>1. tick - KeepTicks \in Int /\ Rising(srv.store) /\ Len(srv.store) \in Nat
    BY <1>1, <1>2, Split DEF ServerPart
  <2> DEFINE until == tick - KeepTicks
  <2> HIDE DEF until
  <2>2. /\ PurgeUntil(srv.store, until) \in Seq(Holders)
        /\ \E d \in 0..Len(srv.store) :
             /\ Len(PurgeUntil(srv.store, until)) = Len(srv.store) - d
             /\ \A i \in 1..(Len(srv.store) - d) :
                  PurgeUntil(srv.store, until)[i] = srv.store[i + d]
             /\ \A i \in 1..d : srv.store[i].tick < until
    <3>1. until \in Int
      BY <2>1 DEF until
    <3> QED
      BY <1>1, <2>1, <3>1, PurgeFacts
  <2>3. old \in Seq(Holders)
    BY <2>2 DEF until
  <2>4. PICK d \in 0..Len(srv.store) :
             /\ Len(old) = Len(srv.store) - d
             /\ \A i \in 1..(Len(srv.store) - d) : old[i] = srv.store[i + d]
    BY <2>2 DEF until
  <2> HIDE DEF old
  <2>5. /\ store \in Seq(Holders) /\ DOMAIN store = 1..(Len(old) + 1) /\ Len(old) \in Nat
        /\ \A i \in 1..Len(old) : store[i] = old[i]
        /\ store[Len(old) + 1] = [tick |-> tick, snap |-> snap]
    BY <1>2, <2>3, AddFacts
  <2> HIDE DEF store
  <2>6. /\ built' = [t \in DOMAIN built \cup {tick} |-> IF t = tick THEN snap ELSE built[t]]
        /\ srv' = [srv EXCEPT !.tick = tick, !.store = store,
                              !.rate = IF delta.base = -1 /\ @ = "full" THEN "recover" ELSE @]
        /\ UNCHANGED <<cl, inputs>>
    BY <1>4 DEF DoSnapshot, old, store
  <2>7. /\ DOMAIN built' = DOMAIN built \cup {tick} /\ built'[tick] = snap
        /\ \A t \in DOMAIN built : built'[t] = built[t]
    BY <1>2, <2>6
  <2>8. \A i \in 1..Len(old) : i + d \in 1..Len(srv.store) /\ old[i] = srv.store[i + d]
    BY <2>3, <2>4
  <2>9. /\ \A i \in 1..Len(srv.store) : /\ srv.store[i].tick \in DOMAIN built
                                        /\ srv.store[i].snap = built[srv.store[i].tick]
                                        /\ srv.store[i].tick \in Int
        /\ \A i, j \in 1..Len(srv.store) : i < j => srv.store[i].tick < srv.store[j].tick
    BY <1>1, StoreFacts, Split DEF ServerPart, HoldsBuilt, Rising
  <2>10. Rising(store)
    <3>1. SUFFICES ASSUME NEW i \in 1..(Len(old) + 1), NEW j \in 1..(Len(old) + 1), i < j
                   PROVE  store[i].tick < store[j].tick
      BY <2>5 DEF Rising
    <3>2. /\ i \in 1..Len(old) /\ i + d \in 1..Len(srv.store)
          /\ store[i].tick = srv.store[i + d].tick
      BY <2>5, <2>8, <3>1
    <3>3. CASE j \in 1..Len(old)
      <4>1. store[j].tick = srv.store[j + d].tick /\ j + d \in 1..Len(srv.store) /\ i + d < j + d
        BY <2>4, <2>5, <2>8, <3>1, <3>3
      <4> QED
        BY <2>9, <3>2, <4>1
    <3>4. CASE j = Len(old) + 1
      <4>1. store[j].tick = tick
        BY <2>5, <3>4
      <4> QED
        BY <1>2, <2>9, <3>2, <4>1
    <3> QED
      BY <2>5, <3>3, <3>4
  <2>11. \A i \in DOMAIN store : /\ store[i].tick \in DOMAIN built'
                                 /\ store[i].snap = built'[store[i].tick]
    <3>1. SUFFICES ASSUME NEW i \in 1..(Len(old) + 1)
                   PROVE  store[i].tick \in DOMAIN built' /\ store[i].snap = built'[store[i].tick]
      BY <2>5
    <3>2. CASE i \in 1..Len(old)
      BY <2>5, <2>7, <2>8, <2>9, <3>2
    <3>3. CASE i = Len(old) + 1
      BY <2>5, <2>7, <3>3
    <3> QED
      BY <2>5, <3>2, <3>3
  <2>12. /\ delta.tick = tick /\ delta.to = snap /\ delta.base \in Ticks \cup {-1}
         /\ IF delta.base = -1 THEN delta.from = Empty
                               ELSE /\ delta.base \in DOMAIN built'
                                    /\ delta.from = built'[delta.base]
         /\ delta.from \in Worlds \cup {Empty}
    <3>1. /\ delta.base = IF Has(store, srv.acked) THEN srv.acked ELSE -1
          /\ delta.tick = tick /\ delta.to = snap
          /\ delta.from = IF delta.base = -1 THEN Empty ELSE SnapOf(store, delta.base)
      BY DEF Delta
    <3>2. CASE delta.base = -1
      BY <3>1, <3>2
    <3>3. CASE delta.base # -1
      <4>1. PICK i \in DOMAIN store : store[i].tick = delta.base
        BY <3>1, <3>3 DEF Has, Indices
      <4>2. delta.from = store[i].snap
        BY <2>5, <2>10, <3>1, <3>3, <4>1, SnapOfFacts
      <4>3. store[i] \in Holders
        BY <2>5
      <4>4. store[i].tick \in Ticks /\ store[i].snap \in Worlds \cup {Empty}
        BY <4>3, TickFacts
      <4> QED
        BY <2>11, <3>1, <3>3, <4>1, <4>2, <4>4
    <3> QED
      BY <3>2, <3>3
  <2>13. PICK n \in IF snap = delta.from THEN {0}
                    ELSE IF delta.base = -1 THEN WholeCuts ELSE DeltaCuts :
           snaps' = snaps \cup InPackets(delta, n)
    BY <1>4 DEF DoSnapshot, old, store
  <2> HIDE DEF delta
  <2>14. ASSUME NEW m \in InPackets(delta, n)
         PROVE  m \in Packets /\ IsDelta(m)'
    <3>1. PICK p \in IF n = 0 THEN {0} ELSE 0..(n - 1) :
            m = [tick |-> delta.tick, base |-> delta.base, from |-> delta.from, to |-> delta.to,
                 of |-> n, part |-> p]
      BY <2>14 DEF InPackets
    <3>2. n \in {0} \cup Cuts /\ (n = 0 => snap = delta.from)
      <4>1. 0 \notin WholeCuts /\ 0 \notin DeltaCuts
        BY SyncAssumption
      <4> QED
        BY <2>13, <4>1 DEF Cuts
    <3>3. p \in Parts
      <4>1. CASE n = 0
        <5>1. p \in 0..(1 - 1) /\ 1 \in Cuts \cup {1}
          BY <3>1, <4>1
        <5> QED
          BY <5>1 DEF Parts
      <4>2. CASE n # 0
        BY <3>1, <3>2, <4>2 DEF Parts
      <4> QED
        BY <4>1, <4>2
    <3>4. m \in Packets
      BY <1>2, <2>12, <3>1, <3>2, <3>3 DEF Packets
    <3>5. IsDelta(m)'
      BY <2>7, <2>12, <3>1, <3>2 DEF IsDelta
    <3> QED
      BY <3>4, <3>5
  <2>15. ASSUME NEW m \in snaps PROVE m \in Packets /\ IsDelta(m)'
    <3>1. m \in Packets /\ IsDelta(m)
      BY Split DEF ServerPart, Deltas
    <3> QED
      BY <2>7, <3>1 DEF IsDelta
  <2>16. ServerPart'
    <3>1. srv' \in SrvType /\ srv'.store = store /\ srv'.tick = tick
      BY <1>1, <1>2, <2>5, <2>6 DEF SrvType
    <3>2. Published'
      <4>1. 1..srv.tick \subseteq 1..tick /\ tick \in 1..tick
        BY <1>1 DEF tick
      <4> QED
        BY <2>7, <3>1, <4>1, Split DEF ServerPart, Published
    <3>3. HoldsBuilt(srv.store)' /\ Rising(srv.store)'
      BY <2>10, <2>11, <3>1 DEF HoldsBuilt, Rising
    <3>4. (snaps \subseteq Packets)' /\ Deltas'
      BY <2>13, <2>14, <2>15 DEF Deltas
    <3> QED
      BY <3>1, <3>2, <3>3, <3>4 DEF ServerPart
  <2>17. ClientPart' /\ InputPart'
    BY <2>6, <2>7, Split DEF ClientPart, HoldsBuilt, Receives, Starting, ViewIsHeld,
       AckedIsHeld, NoCrcError, InputPart
  <2> QED
    BY <2>16, <2>17, SplitNext
<1> QED
  BY <1>3, <1>4 DEF Tick, tick

LEMMA RecvInputStep == ASSUME IInv, NEW ack \in inputs, RecvInput(ack) PROVE IInv'
<1>1. srv \in SrvType /\ ack \in Ticks \cup OldAcks \cup {-1}
  BY Types DEF IInv
<1>2. srv' \in SrvType /\ srv'.store = srv.store /\ srv'.tick = srv.tick
  BY <1>1 DEF RecvInput, SrvType
<1>3. ServerPart'
  BY <1>2, Split DEF RecvInput, ServerPart, HoldsBuilt, Published, Deltas, IsDelta
<1>4. ClientPart' /\ InputPart'
  BY Split DEF RecvInput, ClientPart, HoldsBuilt, Receives, Starting, ViewIsHeld,
     AckedIsHeld, NoCrcError, InputPart
<1> QED
  BY <1>3, <1>4, SplitNext

LEMMA LoseStep ==
  ASSUME IInv, (\E ack \in inputs : LoseInput(ack)) \/ \E m \in snaps : LoseSnap(m)
  PROVE  IInv'
<1>1. UNCHANGED <<srv, cl, built>> /\ snaps' \subseteq snaps /\ inputs' \subseteq inputs
  BY DEF LoseInput, LoseSnap
<1>2. ServerPart'
  BY <1>1, Split DEF ServerPart, HoldsBuilt, Published, Deltas, IsDelta
<1>3. ClientPart' /\ InputPart'
  BY <1>1, Split DEF ClientPart, HoldsBuilt, Receives, Starting, ViewIsHeld,
     AckedIsHeld, NoCrcError, InputPart
<1> QED
  BY <1>2, <1>3, SplitNext

-----------------------------------------------------------------------------
(* The client. *)

LEMMA ClientTypes ==
  ASSUME IInv
  PROVE  /\ cl \in ClType /\ cl.store \in Seq(Holders) /\ Rising(cl.store)
         /\ cl.recvTick \in 0..MaxTick /\ cl.ack \in Ticks \cup {-1}
         /\ cl.prev \in 0..MaxTick /\ cl.cur \in 0..MaxTick /\ cl.received \in Nat
         /\ cl.parts \subseteq [part : Parts, tick : Ticks] /\ cl.crcErrors = 0
         /\ cl.online \in BOOLEAN /\ cl.predicts \in BOOLEAN
         /\ 0 \in 0..MaxCrcErrors
BY SyncAssumption, Split DEF ClType, ClientPart, NoCrcError

\* the packets that arrive are deltas
LEMMA PacketFacts ==
  ASSUME IInv, NEW m \in snaps
  PROVE  /\ m.tick \in Ticks /\ m.base \in Ticks \cup {-1} /\ m.part \in Parts
         /\ m.tick \in Nat \ {0} /\ m.base \in Int /\ m.tick \in 0..MaxTick
         /\ m.to \in Worlds /\ IsDelta(m)
<1>1. m \in Packets /\ IsDelta(m)
  BY Split DEF ServerPart, Deltas
<1>2. m.tick \in Ticks /\ m.base \in Ticks \cup {-1} /\ m.part \in Parts /\ m.to \in Worlds
  BY <1>1 DEF Packets
<1>3. m.tick \in Nat \ {0} /\ m.base \in Int
  BY <1>2, TickFacts, AckTypes
<1>4. m.tick \in 0..MaxTick
  BY <1>2, TickFacts DEF Ticks
<1> QED
  BY <1>1, <1>2, <1>3, <1>4

(* The parts that are collected are of the packet's tick. *)
LEMMA CollectedFacts ==
  ASSUME IInv, NEW m \in snaps
  PROVE  /\ Collected(m) \subseteq [part : Parts, tick : Ticks]
         /\ \A p \in Collected(m) : p.tick = m.tick
<1>1. [part |-> m.part, tick |-> m.tick] \in [part : Parts, tick : Ticks]
  BY PacketFacts
<1>2. cl.parts \subseteq [part : Parts, tick : Ticks] /\ \A p \in cl.parts : p.tick = cl.recvTick
  BY ClientTypes, Split DEF ClientPart, Receives
<1> QED
  BY <1>1, <1>2 DEF Collected

LEMMA ServerUndisturbed ==
  ASSUME IInv, UNCHANGED <<srv, snaps, built>>, InputPart', ClientPart'
  PROVE  IInv'
<1>1. ServerPart'
  BY Split DEF ServerPart, HoldsBuilt, Published, Deltas, IsDelta
<1> QED
  BY <1>1, SplitNext

LEMMA InputFacts ==
  ASSUME IInv, NEW predicts \in BOOLEAN, NEW ack \in Ticks \cup {-1}, SendsInput(predicts, ack)
  PROVE  InputPart'
BY Split DEF SendsInput, InputPart

LEMMA HeldFacts ==
  ASSUME IInv
  PROVE  /\ Len(cl.store) \in Nat /\ DOMAIN cl.store = 1..Len(cl.store)
         /\ \A i \in 1..Len(cl.store) :
              /\ cl.store[i].tick \in Ticks /\ cl.store[i].tick \in Nat \ {0}
              /\ cl.store[i].tick \in DOMAIN built
              /\ cl.store[i].snap = built[cl.store[i].tick]
              /\ cl.store[i].tick < cl.recvTick
                   \/ (cl.store[i].tick = cl.recvTick /\ cl.ack = cl.recvTick)
         /\ \A i, j \in 1..Len(cl.store) : i < j => cl.store[i].tick < cl.store[j].tick
BY ClientTypes, StoreFacts, TickFacts, Split DEF ClientPart, HoldsBuilt, Rising, Receives

(* Everything that is held is older than a snapshot that is new. *)
LEMMA NewIsNewer ==
  ASSUME IInv, NEW m \in snaps, IsNew(m)
  PROVE  \A i \in 1..Len(cl.store) : cl.store[i].tick < m.tick
<1>1. SUFFICES ASSUME NEW i \in 1..Len(cl.store) PROVE cl.store[i].tick < m.tick
  OBVIOUS
<1>2. m.tick >= cl.recvTick /\ m.tick > cl.ack /\ m.tick \in Nat
  BY PacketFacts DEF IsNew
<1>3. cl.store[i].tick \in Nat /\ cl.recvTick \in Nat /\ cl.ack \in Int
  <2>1. cl.recvTick \in 0..MaxTick /\ cl.ack \in Ticks \cup {-1}
    BY ClientTypes
  <2>2. cl.store[i].tick \in Nat
    BY HeldFacts
  <2>3. cl.recvTick \in Nat
    BY <2>1, TickFacts
  <2>4. cl.ack \in Int
    BY <2>1, AckTypes
  <2> QED
    BY <2>2, <2>3, <2>4
<1>4. cl.store[i].tick < cl.recvTick \/ (cl.store[i].tick = cl.recvTick /\ cl.ack = cl.recvTick)
  BY HeldFacts
<1> QED
  BY <1>2, <1>3, <1>4

LEMMA WaitsStep ==
  ASSUME IInv, NEW m \in snaps, Waits(m), UNCHANGED built
  PROVE  ClientPart' /\ InputPart'
<1>1. /\ cl' = [cl EXCEPT !.parts = Collected(m), !.recvTick = m.tick]
      /\ UNCHANGED inputs /\ IsNew(m)
  BY DEF Waits
<1>2. cl' \in ClType
  BY <1>1, ClientTypes, PacketFacts, CollectedFacts DEF ClType
<1>3. /\ cl'.store = cl.store /\ cl'.parts = Collected(m) /\ cl'.recvTick = m.tick
      /\ cl'.ack = cl.ack /\ cl'.prev = cl.prev /\ cl'.cur = cl.cur /\ cl'.online = cl.online
      /\ cl'.received = cl.received /\ cl'.crcErrors = cl.crcErrors
  BY <1>1, ClientTypes DEF ClType
<1>4. Receives'
  <2>1. \A i \in DOMAIN cl.store : cl.store[i].tick < m.tick
    BY <1>1, NewIsNewer, HeldFacts
  <2> QED
    BY <1>3, <2>1, CollectedFacts DEF Receives
<1>5. HoldsBuilt(cl.store)' /\ Rising(cl.store)' /\ Starting' /\ ViewIsHeld' /\ AckedIsHeld'
      /\ NoCrcError'
  BY <1>3, Split DEF ClientPart, HoldsBuilt, Starting, ViewIsHeld, AckedIsHeld, NoCrcError
<1> QED
  BY <1>1, <1>2, <1>4, <1>5, Split DEF ClientPart, InputPart

LEMMA MissesBaseStep ==
  ASSUME IInv, NEW m \in snaps, MissesBase(m), UNCHANGED built
  PROVE  ClientPart' /\ InputPart'
<1>1. /\ cl' = [cl EXCEPT !.parts = {}, !.recvTick = m.tick, !.ack = -1]
      /\ SendsInput(cl.predicts, -1) /\ IsNew(m)
  BY DEF MissesBase
<1>2. cl' \in ClType
  BY <1>1, ClientTypes, PacketFacts DEF ClType
<1>3. /\ cl'.store = cl.store /\ cl'.parts = {} /\ cl'.recvTick = m.tick
      /\ cl'.ack = -1 /\ cl'.prev = cl.prev /\ cl'.cur = cl.cur /\ cl'.online = cl.online
      /\ cl'.received = cl.received /\ cl'.crcErrors = cl.crcErrors
  BY <1>1, ClientTypes DEF ClType
<1>4. Receives'
  <2>1. \A i \in DOMAIN cl.store : cl.store[i].tick < m.tick
    BY <1>1, NewIsNewer, HeldFacts
  <2> QED
    BY <1>3, <2>1 DEF Receives
<1>5. HoldsBuilt(cl.store)' /\ Rising(cl.store)' /\ Starting' /\ ViewIsHeld' /\ AckedIsHeld'
      /\ NoCrcError'
  BY <1>3, Split DEF ClientPart, HoldsBuilt, Starting, ViewIsHeld, AckedIsHeld, NoCrcError
<1>6. InputPart'
  BY <1>1, InputFacts, ClientTypes
<1> QED
  BY <1>1, <1>2, <1>4, <1>5, <1>6 DEF ClientPart

(* A complete delta whose base is held gives what the server built. *)
LEMMA RebuiltFacts ==
  ASSUME IInv, NEW m \in snaps, FindsBase(cl.store, m.base)
  PROVE  Unpacked(cl.store, m, Collected(m)) = m.to
<1> DEFINE base == IF m.base = -1 THEN Empty ELSE SnapOf(cl.store, m.base)
<1>1. base = m.from
  <2>1. CASE m.base = -1
    BY <2>1, PacketFacts DEF IsDelta
  <2>2. CASE m.base # -1
    <3>1. PICK i \in DOMAIN cl.store : cl.store[i].tick = m.base
      BY <2>2 DEF FindsBase, Has, Indices
    <3>2. base = cl.store[i].snap
      BY <2>2, <3>1, SnapOfFacts, ClientTypes
    <3>3. cl.store[i].snap = built[m.base]
      BY <3>1, HeldFacts
    <3>4. m.from = built[m.base]
      BY <2>2, PacketFacts DEF IsDelta
    <3> QED
      BY <3>2, <3>3, <3>4
  <2> QED
    BY <2>1, <2>2
<1>2. ~\E p \in Collected(m) : p.tick # m.tick
  BY CollectedFacts
<1>3. m.of = 0 => m.from = m.to
  BY PacketFacts DEF IsDelta
<1> QED
  BY <1>1, <1>2, <1>3 DEF Unpacked

(* What the screen shows and the base are not purged. *)
LEMMA PurgeTickFacts ==
  ASSUME IInv, NEW m \in snaps
  PROVE  /\ PurgeTick(m) \in {m.base} \cup ({cl.prev, cl.cur} \ {0}) /\ PurgeTick(m) \in Int
         /\ PurgeTick(m) <= m.base /\ (cl.prev # 0 => PurgeTick(m) <= cl.prev)
<1> DEFINE S == {m.base} \cup ({cl.prev, cl.cur} \ {0})
<1>1. m.base \in Int /\ cl.prev \in Int /\ cl.cur \in Int
  BY PacketFacts, ClientTypes, TickFacts
<1>2. \E t \in S : \A u \in S : t <= u
  BY <1>1
<1>3. PurgeTick(m) \in S /\ \A u \in S : PurgeTick(m) <= u
  BY <1>2 DEF PurgeTick
<1> QED
  BY <1>1, <1>3

LEMMA StoresStep ==
  ASSUME IInv, NEW m \in snaps, IsNew(m), FindsBase(cl.store, m.base), Stores(m, m.to),
         UNCHANGED built
  PROVE  ClientPart' /\ InputPart'
<1> DEFINE pt == PurgeTick(m)
           old == PurgeUntil(cl.store, pt)
           store == Add(old, m.tick, m.to)
           starts == cl.received = 1
<1>1. /\ old \in Seq(Holders)
      /\ \E d \in 0..Len(cl.store) :
           /\ Len(old) = Len(cl.store) - d
           /\ \A i \in 1..(Len(cl.store) - d) : old[i] = cl.store[i + d]
           /\ \A i \in 1..d : cl.store[i].tick < pt
  <2>1. pt \in Int
    BY PurgeTickFacts
  <2> HIDE DEF pt
  <2> QED
    BY <2>1, PurgeFacts, ClientTypes
<1>2. PICK d \in 0..Len(cl.store) :
           /\ Len(old) = Len(cl.store) - d
           /\ \A i \in 1..(Len(cl.store) - d) : old[i] = cl.store[i + d]
           /\ \A i \in 1..d : cl.store[i].tick < pt
  BY <1>1
<1>3. /\ cl' = [cl EXCEPT !.parts = {}, !.recvTick = m.tick, !.store = store,
                          !.ack = m.tick,
                          !.received = IF @ > 2 THEN @ ELSE @ + 1, !.online = @ \/ starts,
                          !.prev = IF starts THEN store[1].tick ELSE @,
                          !.cur = IF starts THEN store[Len(store)].tick ELSE @,
                          !.crcErrors = IF @ = 0 THEN 0 ELSE @ - 1]
      /\ UNCHANGED inputs
  BY DEF Stores
<1> HIDE DEF old
<1>4. /\ store \in Seq(Holders) /\ DOMAIN store = 1..(Len(old) + 1) /\ Len(old) \in Nat
      /\ Len(store) = Len(old) + 1
      /\ \A i \in 1..Len(old) : store[i] = old[i]
      /\ store[Len(old) + 1] = [tick |-> m.tick, snap |-> m.to]
  <2>1. m.tick \in Ticks /\ m.to \in Worlds \cup {Empty}
    BY PacketFacts
  <2>2. old \in Seq(Holders)
    BY <1>1
  <2> QED
    BY <2>1, <2>2, AddFacts
<1> HIDE DEF store
<1>5. \A i \in 1..Len(old) : i + d \in 1..Len(cl.store) /\ store[i] = cl.store[i + d]
  BY <1>2, <1>4, HeldFacts
<1>6. \A i \in 1..(Len(old) + 1) : i \in 1..Len(old) \/ i = Len(old) + 1
  BY <1>4
<1>7. \A i \in 1..Len(store) : /\ store[i].tick \in Ticks /\ store[i].tick \in 0..MaxTick
                               /\ store[i].tick \in Nat \ {0}
  BY <1>4, StoreFacts, TickFacts DEF Ticks
<1>8. /\ cl'.store = store /\ cl'.parts = {} /\ cl'.recvTick = m.tick /\ cl'.ack = m.tick
      /\ cl'.prev = (IF starts THEN store[1].tick ELSE cl.prev)
      /\ cl'.cur = (IF starts THEN store[Len(store)].tick ELSE cl.cur)
      /\ (cl'.online <=> cl.online \/ starts) /\ cl'.online \in BOOLEAN
      /\ cl'.received = (IF cl.received > 2 THEN cl.received ELSE cl.received + 1)
      /\ cl'.crcErrors = 0 /\ cl'.predicts = cl.predicts
  BY <1>3, ClientTypes DEF ClType
<1>9. cl' \in ClType
  <2>1. 1 \in 1..Len(store) /\ Len(store) \in 1..Len(store)
    BY <1>4
  <2>2. store[1].tick \in 0..MaxTick /\ store[Len(store)].tick \in 0..MaxTick
    BY <1>7, <2>1
  <2>3. /\ cl'.prev \in 0..MaxTick /\ cl'.cur \in 0..MaxTick /\ cl'.received \in Nat
        /\ cl'.online \in BOOLEAN
    BY <1>8, <2>2, ClientTypes
  <2>4. cl' = [online |-> cl'.online, predicts |-> cl.predicts, store |-> store,
               recvTick |-> m.tick, parts |-> {}, ack |-> m.tick, prev |-> cl'.prev,
               cur |-> cl'.cur, received |-> cl'.received, crcErrors |-> 0]
    BY <1>3, <1>8, ClientTypes DEF ClType
  <2> QED
    BY <1>4, <2>3, <2>4, ClientTypes, PacketFacts DEF ClType
<1>10. \A i \in 1..Len(cl.store) : cl.store[i].tick < m.tick
  BY NewIsNewer
<1>11. Rising(store)
  <2>1. SUFFICES ASSUME NEW i \in 1..(Len(old) + 1), NEW j \in 1..(Len(old) + 1), i < j
                 PROVE  store[i].tick < store[j].tick
    BY <1>4 DEF Rising
  <2>2. i \in 1..Len(old) /\ store[i].tick = cl.store[i + d].tick /\ i + d \in 1..Len(cl.store)
    BY <1>4, <1>5, <2>1
  <2>3. CASE j \in 1..Len(old)
    <3>1. store[j].tick = cl.store[j + d].tick /\ j + d \in 1..Len(cl.store) /\ i + d < j + d
      BY <1>2, <1>4, <1>5, <2>1, <2>3
    <3> QED
      BY <2>2, <3>1, HeldFacts
  <2>4. CASE j = Len(old) + 1
    BY <1>4, <1>10, <2>2, <2>4
  <2> QED
    BY <1>6, <2>3, <2>4
<1>12. HoldsBuilt(cl.store)'
  <2>1. \A i \in 1..Len(old) : /\ store[i].tick \in DOMAIN built
                               /\ store[i].snap = built[store[i].tick]
    BY <1>5, HeldFacts
  <2>2. m.tick \in DOMAIN built /\ m.to = built[m.tick]
    BY PacketFacts DEF IsDelta
  <2> QED
    BY <1>4, <1>6, <1>8, <2>1, <2>2 DEF HoldsBuilt
<1>13. Receives'
  <2>1. SUFFICES \A i \in 1..(Len(old) + 1) : store[i].tick < m.tick \/ store[i].tick = m.tick
    BY <1>4, <1>8 DEF Receives
  <2>2. \A i \in 1..Len(old) : store[i].tick < m.tick
    BY <1>5, <1>10
  <2>3. store[Len(old) + 1].tick = m.tick
    BY <1>4
  <2> QED
    BY <1>6, <2>2, <2>3
<1>14. AckedIsHeld' /\ NoCrcError'
  BY <1>4, <1>8 DEF AckedIsHeld, NoCrcError
<1>15. Starting' /\ ViewIsHeld'
  <2>1. Starting /\ ViewIsHeld
    BY Split DEF ClientPart
  <2>2. CASE cl.received = 0
    <3>1. Len(cl.store) = 0 /\ ~cl.online /\ cl.prev = 0 /\ cl.cur = 0
      BY <2>1, <2>2 DEF Starting
    <3>2. Len(store) = 1
      BY <1>2, <1>4, <3>1
    <3>3. ~cl'.online /\ cl'.received = 1 /\ cl'.prev = 0 /\ cl'.cur = 0 /\ cl'.store = store
      BY <1>8, <2>2, <3>1
    <3> QED
      BY <3>2, <3>3 DEF Starting, ViewIsHeld
  <2>3. CASE cl.received = 1
    <3>1. Len(cl.store) = 1 /\ ~cl.online /\ cl.prev = 0 /\ cl.cur = 0
      BY <2>1, <2>3 DEF Starting
    <3>2. d = 0
      <4>1. SUFFICES ASSUME d = 1 PROVE FALSE
        BY <3>1
      <4>2. cl.store[1].tick < pt /\ pt <= m.base /\ pt \in Int /\ m.base \in Int
        BY <1>2, <4>1, PurgeTickFacts, PacketFacts
      <4>3. cl.store[1].tick \in Nat /\ DOMAIN cl.store = {1}
        BY <3>1, HeldFacts
      <4>4. cl.store[1].tick < m.base
        BY <4>2, <4>3
      <4>5. Has(cl.store, m.base)
        BY <4>3, <4>4 DEF FindsBase
      <4> QED
        BY <4>3, <4>4, <4>5 DEF Has, Indices
    <3>3. Len(store) = 2
      BY <1>2, <1>4, <3>1, <3>2
    <3>4. cl'.received = 2 /\ cl'.online
      BY <1>8, <2>3
    <3>5. cl'.prev = store[1].tick /\ cl'.cur = store[2].tick
      BY <1>8, <2>3, <3>3
    <3>6. 1 \in DOMAIN cl'.store /\ 1 + 1 \in DOMAIN cl'.store /\ 1 + 1 = 2
      <4>1. DOMAIN cl'.store = 1..2
        BY <1>4, <1>8, <3>3
      <4> QED
        BY <4>1
    <3> QED
      BY <1>8, <3>4, <3>5, <3>6 DEF Starting, ViewIsHeld
  <2>4. CASE cl.received >= 2
    <3>1. cl.online /\ cl'.online /\ cl'.prev = cl.prev /\ cl'.cur = cl.cur /\ cl'.received >= 2
      BY <1>8, <2>1, <2>4, ClientTypes DEF Starting
    <3>2. PICK i \in 1..Len(cl.store) : /\ i + 1 \in 1..Len(cl.store)
                                        /\ cl.prev = cl.store[i].tick
                                        /\ cl.cur = cl.store[i + 1].tick
      BY <2>1, <3>1, HeldFacts DEF ViewIsHeld
    <3>3. d < i
      <4>1. pt <= cl.prev /\ pt \in Int /\ cl.prev \in Int
        BY <3>2, PurgeTickFacts, HeldFacts
      <4>2. ~(cl.prev < pt)
        BY <4>1
      <4>3. i \notin 1..d
        BY <1>2, <3>2, <4>2
      <4> QED
        BY <1>2, <3>2, <4>3
    <3> DEFINE k == i - d
    <3>4. /\ k \in 1..Len(old) /\ k + d = i
          /\ k + 1 \in 1..Len(old) /\ (k + 1) + d = i + 1
      BY <1>2, <3>2, <3>3, HeldFacts
    <3> HIDE DEF k
    <3>5. store[k] = cl.store[i] /\ store[k + 1] = cl.store[i + 1]
      BY <1>5, <3>4
    <3>6. k \in DOMAIN store /\ k + 1 \in DOMAIN store
      BY <1>4, <3>4
    <3>7. ViewIsHeld'
      BY <1>8, <3>1, <3>2, <3>5, <3>6 DEF ViewIsHeld
    <3>8. Starting'
      BY <1>8, <3>1, ClientTypes DEF Starting
    <3> QED
      BY <3>7, <3>8
  <2> QED
    BY <2>2, <2>3, <2>4, ClientTypes
<1>16. InputPart'
  BY <1>3, Split DEF InputPart
<1> QED
  BY <1>8, <1>9, <1>11, <1>12, <1>13, <1>14, <1>15, <1>16 DEF ClientPart

LEMMA RecvSnapStep == ASSUME IInv, NEW m \in snaps, RecvSnap(m) PROVE IInv'
<1>1. UNCHANGED <<srv, snaps, built>>
  BY DEF RecvSnap
<1>2. CASE Waits(m)
  BY <1>1, <1>2, WaitsStep, ServerUndisturbed
<1>3. CASE MissesBase(m)
  BY <1>1, <1>3, MissesBaseStep, ServerUndisturbed
<1>4. CASE Rebuilds(m)
  <2>1. IsNew(m) /\ FindsBase(cl.store, m.base)
    BY <1>4 DEF Rebuilds
  <2>2. Stores(m, m.to)
    BY <1>4, <2>1, RebuiltFacts DEF Rebuilds
  <2> QED
    BY <1>1, <2>1, <2>2, StoresStep, ServerUndisturbed
<1>5. CASE UNCHANGED <<cl, inputs>>
  <2>1. ClientPart' /\ InputPart'
    BY <1>1, <1>5, Split DEF ClientPart, HoldsBuilt, Receives, Starting, ViewIsHeld,
       AckedIsHeld, NoCrcError, InputPart
  <2> QED
    BY <1>1, <2>1, ServerUndisturbed
<1> QED
  BY <1>2, <1>3, <1>4, <1>5 DEF RecvSnap

(* The screen stands at one holder of the storage and moves on from there. *)
LEMMA UpdateFacts ==
  ASSUME IInv, NEW n \in 0..MaxTick, Update(n)
  PROVE  \E i \in 1..Len(cl.store), predicts \in BOOLEAN :
           /\ i + 1 \in 1..Len(cl.store) /\ i + 1 + n \in 1..Len(cl.store)
           /\ cl.prev = cl.store[i].tick /\ cl.cur = cl.store[i + 1].tick
           /\ cl' = [cl EXCEPT !.cur = cl.store[i + 1 + n].tick,
                               !.prev = IF n = 0 THEN @ ELSE cl.store[i + n].tick,
                               !.predicts = @ \/ predicts]
           /\ SendsInput(predicts, cl.ack) /\ UNCHANGED <<srv, snaps, built>>
           /\ cl.online
<1>1. n \in Nat
  BY TickFacts
<1>2. cl.online
  BY DEF Update
<1>3. PICK i \in 1..Len(cl.store) : /\ i + 1 \in 1..Len(cl.store)
                                    /\ cl.prev = cl.store[i].tick
                                    /\ cl.cur = cl.store[i + 1].tick
  BY <1>2, HeldFacts, Split DEF ClientPart, ViewIsHeld
<1> DEFINE at == CHOOSE j \in DOMAIN cl.store : cl.store[j].tick = cl.cur
<1>4. at = i + 1
  <2>1. at \in 1..Len(cl.store) /\ cl.store[at].tick = cl.store[i + 1].tick
    BY <1>3, HeldFacts
  <2> HIDE DEF at
  <2>2. ~(at < i + 1) /\ ~(i + 1 < at)
    BY <1>3, <2>1, HeldFacts
  <2> QED
    BY <1>3, <2>1, <2>2
<1>5. /\ at + n <= Len(cl.store)
      /\ \E predicts \in BOOLEAN :
           /\ cl' = [cl EXCEPT !.cur = cl.store[at + n].tick,
                               !.prev = IF n = 0 THEN @ ELSE cl.store[at + n - 1].tick,
                               !.predicts = @ \/ predicts]
           /\ SendsInput(predicts, cl.ack)
      /\ UNCHANGED <<srv, snaps, built>>
  BY DEF Update
<1> HIDE DEF at
<1>6. at + n - 1 = i + n /\ at + n = i + 1 + n /\ i + 1 + n \in 1..Len(cl.store)
  BY <1>1, <1>3, <1>4, <1>5, HeldFacts
<1>7. PICK predicts \in BOOLEAN :
           /\ cl' = [cl EXCEPT !.cur = cl.store[i + 1 + n].tick,
                               !.prev = IF n = 0 THEN @ ELSE cl.store[i + n].tick,
                               !.predicts = @ \/ predicts]
           /\ SendsInput(predicts, cl.ack)
  BY <1>5, <1>6
<1> QED
  BY <1>2, <1>3, <1>5, <1>6, <1>7

LEMMA UpdateStep == ASSUME IInv, NEW n \in 0..MaxTick, Update(n) PROVE IInv'
<1>1. PICK i \in 1..Len(cl.store), predicts \in BOOLEAN :
           /\ i + 1 \in 1..Len(cl.store) /\ i + 1 + n \in 1..Len(cl.store)
           /\ cl.prev = cl.store[i].tick /\ cl.cur = cl.store[i + 1].tick
           /\ cl' = [cl EXCEPT !.cur = cl.store[i + 1 + n].tick,
                               !.prev = IF n = 0 THEN @ ELSE cl.store[i + n].tick,
                               !.predicts = @ \/ predicts]
           /\ SendsInput(predicts, cl.ack) /\ UNCHANGED <<srv, snaps, built>>
           /\ cl.online
  BY UpdateFacts
<1> DEFINE k == i + n
<1>2. k \in 1..Len(cl.store) /\ k + 1 \in 1..Len(cl.store) /\ k + 1 = i + 1 + n
  <2>1. n \in Nat
    BY TickFacts
  <2>2. Len(cl.store) \in Nat
    BY HeldFacts
  <2>3. i \in 1..Len(cl.store) /\ i + 1 + n \in 1..Len(cl.store)
    BY <1>1
  <2> QED
    BY <2>1, <2>2, <2>3
<1>3. cl.store[k].tick \in 0..MaxTick /\ cl.store[k + 1].tick \in 0..MaxTick
  BY <1>2, HeldFacts DEF Ticks
<1>4. /\ cl'.store = cl.store /\ cl'.parts = cl.parts /\ cl'.recvTick = cl.recvTick
      /\ cl'.ack = cl.ack /\ cl'.received = cl.received /\ cl'.crcErrors = cl.crcErrors
      /\ cl'.online = cl.online /\ cl'.cur = cl.store[k + 1].tick
      /\ cl'.prev = (IF n = 0 THEN cl.prev ELSE cl.store[k].tick)
  BY <1>1, <1>2, ClientTypes DEF ClType
<1>5. cl'.prev = cl.store[k].tick
  BY <1>1, <1>4
<1>6. cl' \in ClType
  <2>1. (cl.predicts \/ predicts) \in BOOLEAN
    OBVIOUS
  <2> QED
    BY <1>1, <1>2, <1>3, <1>4, <2>1, ClientTypes DEF ClType
<1>7. ViewIsHeld'
  BY <1>2, <1>4, <1>5, HeldFacts DEF ViewIsHeld
<1>8. Starting'
  BY <1>1, <1>4, Split DEF ClientPart, Starting
<1>9. HoldsBuilt(cl.store)' /\ Rising(cl.store)' /\ Receives' /\ AckedIsHeld' /\ NoCrcError'
  BY <1>1, <1>4, Split DEF ClientPart, HoldsBuilt, Receives, AckedIsHeld, NoCrcError
<1>10. InputPart'
  BY <1>1, InputFacts, ClientTypes
<1>11. ClientPart'
  BY <1>6, <1>7, <1>8, <1>9 DEF ClientPart
<1> QED
  BY <1>1, <1>10, <1>11, ServerUndisturbed

LEMMA StepInv == IInv /\ [Next]_vars => IInv'
<1> SUFFICES ASSUME IInv, [Next]_vars PROVE IInv'
  OBVIOUS
<1>1. CASE Tick
  BY <1>1, TickStep
<1>2. CASE \E ack \in inputs : RecvInput(ack) \/ LoseInput(ack)
  BY <1>2, RecvInputStep, LoseStep
<1>3. CASE \E m \in snaps : RecvSnap(m) \/ LoseSnap(m)
  BY <1>3, RecvSnapStep, LoseStep
<1>4. CASE \E n \in 0..MaxTick : Update(n)
  BY <1>4, UpdateStep
<1>5. CASE UNCHANGED vars
  <2>1. UNCHANGED <<srv, cl, snaps, inputs, built>>
    BY <1>5 DEF vars
  <2>2. ClientPart' /\ InputPart'
    BY <2>1, Split DEF ClientPart, HoldsBuilt, Receives, Starting, ViewIsHeld,
       AckedIsHeld, NoCrcError, InputPart
  <2> QED
    BY <2>1, <2>2, ServerUndisturbed
<1> QED
  BY <1>1, <1>2, <1>3, <1>4, <1>5 DEF Next

-----------------------------------------------------------------------------
(* Theorems. *)

THEOREM SyncInvariant == Spec => []IInv
BY InitInv, StepInv, PTL DEF Spec

(* For any way to lose, double and reorder packets: both storages stay in order, the client
   acknowledges the newest snapshot it holds, and what the screen shows is never purged. *)
THEOREM StoragesHold == Spec => []Inv
<1>1. IInv => Inv
  BY DEF IInv, Inv
<1> QED
  BY SyncInvariant, <1>1, PTL

(* Every snapshot that is held is the one the server built for its tick. *)
THEOREM HeldIsBuilt == Spec => []SameSnapshot
<1>1. IInv => SameSnapshot
  BY DEF IInv, HoldsBuilt, SameSnapshot
<1> QED
  BY SyncInvariant, <1>1, PTL

(* Packets that are lost, doubled or reordered cause no error of the checksum. *)
THEOREM ChecksumsAgree == Spec => []NoCrcError
<1>1. IInv => NoCrcError
  BY DEF IInv
<1> QED
  BY SyncInvariant, <1>1, PTL

-----------------------------------------------------------------------------
(* The refinement: the screen shows what was published. *)

Shown == IF cl.cur = 0 THEN <<>> ELSE [tick |-> cl.cur, snap |-> SnapOf(cl.store, cl.cur)]

(* What the screen shows was built. *)
ShownIsBuilt ==
  /\ cl.cur \in Nat
  /\ cl.cur # 0 => cl.cur \in DOMAIN built /\ SnapOf(cl.store, cl.cur) = built[cl.cur]

LEMMA ShownFacts == IInv => ShownIsBuilt
<1> SUFFICES ASSUME IInv PROVE ShownIsBuilt
  OBVIOUS
<1>1. cl.cur \in Nat
  <2>1. cl.cur \in 0..MaxTick
    BY ClientTypes
  <2> QED
    BY <2>1, TickFacts
<1>2. CASE ~cl.online
  BY <1>1, <1>2, Split DEF ClientPart, Starting, ShownIsBuilt
<1>3. CASE cl.online
  <2>1. PICK i \in DOMAIN cl.store : i + 1 \in DOMAIN cl.store /\ cl.cur = cl.store[i + 1].tick
    BY <1>3, Split DEF ClientPart, ViewIsHeld
  <2>2. SnapOf(cl.store, cl.cur) = cl.store[i + 1].snap
    BY <2>1, ClientTypes, SnapOfFacts
  <2>3. cl.cur # 0 /\ cl.cur \in DOMAIN built /\ cl.store[i + 1].snap = built[cl.cur]
    BY <2>1, HeldFacts
  <2> QED
    BY <1>1, <2>2, <2>3 DEF ShownIsBuilt
<1> QED
  BY <1>2, <1>3, ClientTypes

\* the snapshot on the screen, by what was built
LEMMA ShownValue ==
  ASSUME ShownIsBuilt
  PROVE  Shown = IF cl.cur = 0 THEN <<>> ELSE [tick |-> cl.cur, snap |-> built[cl.cur]]
BY DEF ShownIsBuilt, Shown

LEMMA ShownValueNext ==
  ASSUME ShownIsBuilt'
  PROVE  Shown' = IF cl'.cur = 0 THEN <<>> ELSE [tick |-> cl'.cur, snap |-> built'[cl'.cur]]
BY DEF ShownIsBuilt, Shown

LEMMA InitView == Init => View!Init
BY DEF Init, View!Init

\* the screen stays, or shows a later snapshot
LEMMA ScreenStep ==
  ASSUME ShownIsBuilt, ShownIsBuilt', UNCHANGED built, cl.cur <= cl'.cur
  PROVE  [View!Next]_<<built, Shown>>
<1>1. cl.cur \in Nat /\ cl'.cur \in Nat
  BY DEF ShownIsBuilt
<1>2. CASE cl.cur = cl'.cur
  BY <1>2, ShownValue, ShownValueNext
<1>3. CASE cl.cur < cl'.cur
  <2>1. cl'.cur # 0 /\ cl'.cur \in DOMAIN built
    BY <1>1, <1>3 DEF ShownIsBuilt
  <2>2. Shown # <<>> => cl'.cur > Shown.tick
    BY <1>1, <1>3, ShownValue
  <2>3. Shown' = [tick |-> cl'.cur, snap |-> built[cl'.cur]]
    BY <2>1, ShownValueNext
  <2>4. View!Show(cl'.cur)
    BY <2>2, <2>3 DEF View!Show, Shown
  <2> QED
    BY <2>1, <2>4 DEF View!Next
<1> QED
  BY <1>1, <1>2, <1>3

LEMMA StepView ==
  ASSUME IInv, ShownIsBuilt, ShownIsBuilt', [Next]_vars
  PROVE  [View!Next]_<<built, Shown>>
<1> cl.cur \in Nat
  BY DEF ShownIsBuilt
<1>1. CASE UNCHANGED built /\ cl'.cur = cl.cur
  BY <1>1, ScreenStep
<1>2. CASE Tick
  <2>1. CASE SkipSnapshot(srv.tick + 1)
    BY <1>1, <2>1 DEF SkipSnapshot
  <2>2. ASSUME NEW snap \in Worlds, DoSnapshot(srv.tick + 1, snap)
        PROVE  [View!Next]_<<built, Shown>>
    <3> DEFINE tick == srv.tick + 1
    <3>1. built' = [t \in DOMAIN built \cup {tick} |-> IF t = tick THEN snap ELSE built[t]]
          /\ cl' = cl
      BY <2>2 DEF DoSnapshot
    <3>2. /\ tick \in Ticks /\ \A t \in DOMAIN built : t < tick
      <4>1. srv.tick \in 0..MaxTick /\ MaxTick \in Nat
        BY Split, TickFacts DEF ServerPart, SrvType
      <4> QED
        BY <1>2, <4>1, Split DEF ServerPart, Published, Ticks, Tick
    <3>3. Shown' = Shown
      BY <3>1 DEF Shown
    <3> HIDE DEF tick
    <3>4. View!Publish(tick, snap)
      BY <3>1, <3>2, <3>3 DEF View!Publish, Shown
    <3> QED
      BY <3>2, <3>4 DEF View!Next
  <2> QED
    BY <1>2, <2>1, <2>2 DEF Tick
<1>3. CASE \E ack \in inputs : RecvInput(ack) \/ LoseInput(ack)
  BY <1>1, <1>3 DEF RecvInput, LoseInput
<1>4. ASSUME NEW m \in snaps, RecvSnap(m) PROVE [View!Next]_<<built, Shown>>
  <2>1. UNCHANGED built
    BY <1>4 DEF RecvSnap
  <2>2. cl'.cur = cl.cur \/ cl.cur = 0
    <3>1. CASE Waits(m)
      BY <3>1, ClientTypes DEF Waits, ClType
    <3>2. CASE MissesBase(m)
      BY <3>2, ClientTypes DEF MissesBase, ClType
    <3>3. CASE Rebuilds(m)
      <4>1. Stores(m, m.to)
        BY <3>3, RebuiltFacts DEF Rebuilds
      <4>2. cl.received = 1 => cl.cur = 0
        BY ClientTypes, Split DEF ClientPart, Starting
      <4>3. cl.received # 1 => cl'.cur = cl.cur
        BY <4>1, ClientTypes DEF Stores, ClType
      <4> QED
        BY <4>2, <4>3
    <3> QED
      BY <1>4, <3>1, <3>2, <3>3 DEF RecvSnap
  <2>3. cl'.cur \in Nat
    BY DEF ShownIsBuilt
  <2> QED
    BY <2>1, <2>2, <2>3, ScreenStep
<1>5. ASSUME NEW n \in 0..MaxTick, Update(n) PROVE [View!Next]_<<built, Shown>>
  <2>1. PICK i \in 1..Len(cl.store), predicts \in BOOLEAN :
           /\ i + 1 \in 1..Len(cl.store) /\ i + 1 + n \in 1..Len(cl.store)
           /\ cl.cur = cl.store[i + 1].tick
           /\ cl' = [cl EXCEPT !.cur = cl.store[i + 1 + n].tick,
                               !.prev = IF n = 0 THEN @ ELSE cl.store[i + n].tick,
                               !.predicts = @ \/ predicts]
           /\ UNCHANGED built
    BY <1>5, UpdateFacts
  <2>2. cl'.cur = cl.store[i + 1 + n].tick
    BY <2>1, ClientTypes DEF ClType
  <2>3. n \in Nat
    BY TickFacts
  <2>4. i + 1 = i + 1 + n \/ i + 1 < i + 1 + n
    BY <2>1, <2>3, HeldFacts
  <2>5. cl.store[i + 1].tick <= cl.store[i + 1 + n].tick
    BY <2>1, <2>4, HeldFacts
  <2> QED
    BY <2>1, <2>2, <2>5, ScreenStep
<1>6. CASE \E m \in snaps : LoseSnap(m)
  BY <1>1, <1>6 DEF LoseSnap
<1>7. CASE UNCHANGED vars
  BY <1>1, <1>7 DEF vars
<1> QED
  BY <1>2, <1>3, <1>4, <1>5, <1>6, <1>7 DEF Next

(* The storages, the acknowledgements and the purges on both sides implement SnapView: the
   player sees published snapshots only, each newer than the one before. *)
THEOREM SyncImplementsView == Spec => Implements
<1>1. []ShownIsBuilt /\ []IInv /\ [][Next]_vars => [][View!Next]_<<built, Shown>>
  <2>1. IInv /\ ShownIsBuilt /\ ShownIsBuilt' /\ [Next]_vars => [View!Next]_<<built, Shown>>
    BY StepView
  <2> QED
    BY <2>1, PTL
<1>2. Spec => []ShownIsBuilt
  BY SyncInvariant, ShownFacts, PTL
<1>3. Init /\ [][View!Next]_<<built, Shown>> => Implements
  BY InitView, PTL DEF Implements, View!Spec, Shown
<1> QED
  BY <1>1, <1>2, <1>3, SyncInvariant, PTL DEF Spec

=============================================================================
