------------------------------ MODULE SnapSync ------------------------------
(***************************************************************************)
(* The snapshots of one client: the server sends the difference to the     *)
(* snapshot the client acknowledged last (CServer::DoSnapshot), the client *)
(* rebuilds it from the base it keeps (CClient, NETMSG_SNAP).   Neither    *)
(* direction is vital: packets are lost, doubled and reordered.  It begins *)
(* when the client enters the game and lasts as long as the map.           *)
(***************************************************************************)
EXTENDS Integers, Sequences, FiniteSets

CONSTANTS
  Worlds,       \* what the game can look like to the client
  Empty,        \* the snapshot without items
  Garbled,      \* what an ill-matched delta makes of a snapshot
  TickSpeed,    \* ticks between two snapshots of a client that recovers
  InitEvery,    \* ticks between two snapshots of a client that is new (10)
  KeepTicks,    \* ticks the server keeps a snapshot for (three seconds)
  MaxCrcErrors, \* errors after which the client resets (10)
  WholeCuts,    \* numbers of packets a delta to the empty snapshot may be cut into
  DeltaCuts,    \* numbers of packets another delta may be cut into
  OldAcks,      \* ticks of the map before, acknowledged by inputs still on their way
  MaxTick,      \* bound: ticks
  MaxFlight,    \* bound: snapshot packets on their way
  MaxInputs     \* bound: inputs on their way

ASSUME SyncAssumption ==
  /\ {TickSpeed, InitEvery} \cup WholeCuts \cup DeltaCuts \subseteq Nat \ {0}
  /\ {KeepTicks, MaxCrcErrors, MaxTick, MaxFlight, MaxInputs} \subseteq Nat
  /\ OldAcks \subseteq Nat \ {0}
  /\ Empty \notin Worlds /\ Garbled \notin Worlds \cup {Empty}

VARIABLES
  srv,    \* the members of CServer::CClient and m_CurrentGameTick
  cl,     \* the members of CClient for this connection
  snaps,  \* snapshot packets on their way
  inputs, \* inputs on their way: the tick each acknowledges
  built   \* history: the snapshot the server built for a tick

vars == <<srv, cl, snaps, inputs, built>>

Ticks == 1..MaxTick
Cuts == WholeCuts \cup DeltaCuts
Parts == UNION {0..(n - 1) : n \in Cuts \cup {1}}
Holders == [tick : Ticks, snap : Worlds \cup {Empty}]

\* of = 0 is NETMSG_SNAPEMPTY, of = 1 NETMSG_SNAPSINGLE, otherwise NETMSG_SNAP; the delta
\* leads from one snapshot to the other
Packets ==
  [tick : Ticks, base : Ticks \cup {-1}, of : {0} \cup Cuts, part : Parts,
   from : Worlds \cup {Empty}, to : Worlds]

TypeOK ==
  /\ srv \in [tick : 0..MaxTick, store : Seq(Holders),
              acked : Ticks \cup OldAcks \cup {-1}, rate : {"init", "full", "recover"}]
  /\ cl \in [online : BOOLEAN, predicts : BOOLEAN, store : Seq(Holders),
             recvTick : 0..MaxTick, parts : SUBSET [part : Parts, tick : Ticks],
             ack : Ticks \cup {-1}, prev : 0..MaxTick, cur : 0..MaxTick,
             received : Nat, crcErrors : 0..MaxCrcErrors]
  /\ snaps \subseteq Packets
  /\ inputs \subseteq Ticks \cup OldAcks \cup {-1}

Init ==
  /\ srv = [tick |-> 0, store |-> <<>>, acked |-> -1, rate |-> "init"]
  /\ cl = [online |-> FALSE, predicts |-> FALSE, store |-> <<>>, recvTick |-> 0, parts |-> {},
           ack |-> -1, prev |-> 0, cur |-> 0, received |-> 0, crcErrors |-> 0]
  /\ snaps = {}
  /\ inputs \in SUBSET OldAcks
  /\ built = <<>>

-----------------------------------------------------------------------------
(* CSnapshotStorage *)

Indices(s, tick) == {i \in DOMAIN s : s[i].tick = tick}
Has(s, tick) == Indices(s, tick) # {}

\* Get returns the first holder with the tick
SnapOf(s, tick) ==
  s[CHOOSE i \in Indices(s, tick) : \A j \in Indices(s, tick) : i <= j].snap

PurgeUntil(s, tick) ==
  LET kept == {i \in DOMAIN s : s[i].tick >= tick}
  IN  IF kept = {}
        THEN <<>>
        ELSE SubSeq(s, CHOOSE i \in kept : \A j \in kept : i <= j, Len(s))

Add(s, tick, snap) == Append(s, [tick |-> tick, snap |-> snap])

-----------------------------------------------------------------------------
(* CServer *)

IsDue(tick) ==
  /\ srv.rate = "recover" => tick % TickSpeed = 0
  /\ srv.rate = "init" => tick % InitEvery = 0

\* variant: the delta is made from the last snapshot
DeltaOfLast(store, tick, snap) ==
  LET base == IF Has(store, srv.acked) THEN srv.acked ELSE -1
  IN  [tick |-> tick, base |-> base, to |-> snap,
       from |-> IF base = -1 THEN Empty ELSE store[Len(store)].snap]

\* the delta to the snapshot that was acknowledged, to the empty one if it is not kept
Delta(store, tick, snap) ==
  LET base == IF Has(store, srv.acked) THEN srv.acked ELSE -1
  IN  [tick |-> tick, base |-> base, to |-> snap,
       from |-> IF base = -1 THEN Empty ELSE SnapOf(store, base)]

\* a delta without changes, or one that is cut into n packets
InPackets(delta, n) ==
  {[tick |-> delta.tick, base |-> delta.base, from |-> delta.from, to |-> delta.to,
    of |-> n, part |-> p] : p \in IF n = 0 THEN {0} ELSE 0..(n - 1)}

\* the snapshot of the tick for this client
DoSnapshot(tick, snap) ==
  LET store == Add(PurgeUntil(srv.store, tick - KeepTicks), tick, snap)
      delta == Delta(store, tick, snap)
  IN  /\ IsDue(tick)
      /\ srv' = [srv EXCEPT !.tick = tick, !.store = store,
                            !.rate = IF delta.base = -1 /\ @ = "full" THEN "recover" ELSE @]
      /\ built' = [t \in DOMAIN built \cup {tick} |-> IF t = tick THEN snap ELSE built[t]]
      /\ \E n \in IF snap = delta.from THEN {0}
                 ELSE IF delta.base = -1 THEN WholeCuts ELSE DeltaCuts :
           snaps' = snaps \cup InPackets(delta, n)
      /\ Cardinality(snaps') <= MaxFlight
      /\ UNCHANGED <<cl, inputs>>

\* a tick without a snapshot for this client
SkipSnapshot(tick) ==
  /\ ~IsDue(tick)
  /\ srv' = [srv EXCEPT !.tick = tick]
  /\ UNCHANGED <<cl, snaps, inputs, built>>

Tick ==
  /\ srv.tick < MaxTick
  /\ \/ \E snap \in Worlds : DoSnapshot(srv.tick + 1, snap)
     \/ SkipSnapshot(srv.tick + 1)

\* NETMSG_INPUT; a packet stays on its way until it is lost, for there may be copies
RecvInput(ack) ==
  /\ ack \in inputs
  /\ srv' = [srv EXCEPT !.acked = ack, !.rate = IF ack > 0 THEN "full" ELSE @]
  /\ UNCHANGED <<cl, snaps, inputs, built>>

-----------------------------------------------------------------------------
(* CClient *)

\* an input is sent when there is a prediction for it
SendsInput(predicts, ack) ==
  /\ inputs' = IF predicts THEN inputs \cup {ack} ELSE inputs
  /\ Cardinality(inputs') <= MaxInputs \/ inputs' = inputs

FindsBase(store, base) == base = -1 \/ Has(store, base)

\* the delta applied to the base that is kept; the packets must be of one snapshot
Unpacked(store, m, parts) ==
  LET base == IF m.base = -1 THEN Empty ELSE SnapOf(store, m.base)
  IN  IF \E p \in parts : p.tick # m.tick THEN Garbled
      ELSE IF m.of = 0 THEN base
      ELSE IF base = m.from THEN m.to ELSE Garbled

\* variant: only the base is kept
PurgeTickOfBase(m) == m.base

\* what the screen shows and the base are kept
PurgeTick(m) ==
  CHOOSE t \in {m.base} \cup ({cl.prev, cl.cur} \ {0}) :
    \A u \in {m.base} \cup ({cl.prev, cl.cur} \ {0}) : t <= u

\* variant: packets of an older snapshot are kept
CollectedMixed(m) == cl.parts \cup {[part |-> m.part, tick |-> m.tick]}

\* a newer snapshot begins, the packets of the one before are forgotten
Collected(m) ==
  (IF m.tick = cl.recvTick THEN cl.parts ELSE {}) \cup {[part |-> m.part, tick |-> m.tick]}

IsComplete(m) ==
  {p.part : p \in Collected(m)} = 0..(IF m.of = 0 THEN 0 ELSE m.of - 1)

IsNew(m) == m.tick >= cl.recvTick /\ m.tick > cl.ack

Waits(m) ==
  /\ IsNew(m)
  /\ ~IsComplete(m)
  /\ cl' = [cl EXCEPT !.parts = Collected(m), !.recvTick = m.tick]
  /\ UNCHANGED inputs

\* the base is gone: the server is asked for a whole snapshot
MissesBase(m) ==
  /\ IsNew(m)
  /\ IsComplete(m)
  /\ ~FindsBase(cl.store, m.base)
  /\ cl' = [cl EXCEPT !.parts = {}, !.recvTick = m.tick, !.ack = -1]
  /\ SendsInput(cl.predicts, -1)

\* the checksum is wrong: the server is asked for a whole snapshot after too many of them
FailsCrc(m) ==
  LET resets == cl.crcErrors = MaxCrcErrors
  IN  /\ cl' = [cl EXCEPT !.parts = {}, !.recvTick = m.tick,
                          !.ack = IF resets THEN -1 ELSE @,
                          !.crcErrors = IF resets THEN 0 ELSE @ + 1]
      /\ SendsInput(resets /\ cl.predicts, -1)

\* the snapshot is kept and will be acknowledged; with the second the game is shown
\* (received counts no further than the code tells apart)
Stores(m, snap) ==
  /\ LET store == Add(PurgeUntil(cl.store, PurgeTick(m)), m.tick, snap)
         starts == cl.received = 1
     IN  cl' = [cl EXCEPT !.parts = {}, !.recvTick = m.tick, !.store = store,
                          !.ack = m.tick,
                          !.received = IF @ > 2 THEN @ ELSE @ + 1, !.online = @ \/ starts,
                          !.prev = IF starts THEN store[1].tick ELSE @,
                          !.cur = IF starts THEN store[Len(store)].tick ELSE @,
                          !.crcErrors = IF @ = 0 THEN 0 ELSE @ - 1]
  /\ UNCHANGED inputs

\* an empty delta has no checksum
Rebuilds(m) ==
  /\ IsNew(m)
  /\ IsComplete(m)
  /\ FindsBase(cl.store, m.base)
  /\ LET snap == Unpacked(cl.store, m, Collected(m))
     IN  IF m.of # 0 /\ snap # m.to THEN FailsCrc(m) ELSE Stores(m, snap)

\* NETMSG_SNAP, NETMSG_SNAPSINGLE, NETMSG_SNAPEMPTY
RecvSnap(m) ==
  /\ m \in snaps
  /\ \/ Waits(m) \/ MissesBase(m) \/ Rebuilds(m)
     \/ ~IsNew(m) /\ UNCHANGED <<cl, inputs>>
  /\ UNCHANGED <<srv, snaps, built>>

\* variant: the screen follows a time that may go back
UpdateSeeks(n) ==
  /\ cl.online
  /\ \E i \in DOMAIN cl.store \ {1}, predicts \in BOOLEAN :
       /\ cl' = [cl EXCEPT !.cur = cl.store[i].tick, !.prev = cl.store[i - 1].tick,
                           !.predicts = @ \/ predicts]
       /\ SendsInput(predicts, cl.ack)
  /\ UNCHANGED <<srv, snaps, built>>

\* the time of the screen passes n snapshots; a prediction may be due, and with it an input
Update(n) ==
  LET i == CHOOSE j \in DOMAIN cl.store : cl.store[j].tick = cl.cur
  IN  /\ cl.online
      /\ i + n <= Len(cl.store)
      /\ \E predicts \in BOOLEAN :
           /\ n > 0 \/ predicts
           /\ cl' = [cl EXCEPT !.cur = cl.store[i + n].tick,
                               !.prev = IF n = 0 THEN @ ELSE cl.store[i + n - 1].tick,
                               !.predicts = @ \/ predicts]
           /\ SendsInput(predicts, cl.ack)
      /\ UNCHANGED <<srv, snaps, built>>

\* the network
LoseSnap(m) == m \in snaps /\ snaps' = snaps \ {m} /\ UNCHANGED <<srv, cl, inputs, built>>
LoseInput(ack) == ack \in inputs /\ inputs' = inputs \ {ack} /\ UNCHANGED <<srv, cl, snaps, built>>

Next ==
  \/ Tick
  \/ \E ack \in inputs : RecvInput(ack) \/ LoseInput(ack)
  \/ \E m \in snaps : RecvSnap(m) \/ LoseSnap(m)
  \/ \E n \in 0..MaxTick : Update(n)

Spec == Init /\ [][Next]_vars

-----------------------------------------------------------------------------
Rising(s) == \A i, j \in DOMAIN s : i < j => s[i].tick < s[j].tick

(* Both storages stay in the order of their ticks, each tick once: PurgeUntil and the
   walk of the screen along the list rely on it (snapshot.cpp, client.cpp). *)
StoresRise == Rising(srv.store) /\ Rising(cl.store)

(* The two snapshots on the screen are held and follow one another: what m_aapSnapshots
   points to is never freed by the purge, whatever arrives. *)
ViewIsHeld ==
  cl.online =>
    \E i \in DOMAIN cl.store :
      /\ i + 1 \in DOMAIN cl.store
      /\ cl.prev = cl.store[i].tick
      /\ cl.cur = cl.store[i + 1].tick

(* The tick the client acknowledges is the newest it holds, so the server may build on it. *)
AckedIsHeld ==
  cl.ack # -1 => Len(cl.store) > 0 /\ cl.ack = cl.store[Len(cl.store)].tick

(* The storages of both sides: in order, with what the screen and the acknowledgement refer to. *)
Inv == TypeOK /\ StoresRise /\ ViewIsHeld /\ AckedIsHeld

(* A snapshot the client holds is the one the server built for the tick, although an empty
   delta carries no checksum. *)
SameSnapshot ==
  \A i \in DOMAIN cl.store :
    LET h == cl.store[i] IN h.tick \in DOMAIN built /\ h.snap = built[h.tick]

(* Lost, doubled and reordered packets never cause an error of the checksum: a delta meets the
   base it was made from, and the packets of two snapshots are not mixed. *)
NoCrcError == cl.crcErrors = 0

(* The player sees what the server published, in its order. *)
View == INSTANCE SnapView WITH
  Snapshots <- Worlds, published <- built,
  shown <- IF cl.cur = 0 THEN <<>> ELSE [tick |-> cl.cur, snap |-> SnapOf(cl.store, cl.cur)]
Implements == View!Spec
=============================================================================
