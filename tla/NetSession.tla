----------------------------- MODULE NetSession -----------------------------
(***************************************************************************)
(* The slots of CNetServer and the clients that connect to them: the token *)
(* handshake, the rejoin of a client inside its session, the close of a    *)
(* session and the timeout protection, by which a player takes back the    *)
(* slot its lost connection still holds.  Chunks go from server to client; *)
(* those of a client only run a handler (Timeout, Kick).  The network      *)
(* loses, delays and reorders packets.                                     *)
(***************************************************************************)
EXTENDS NetConnection

CONSTANTS
  Addrs,         \* address and port of each client
  NoAddr,        \* of a slot never used
  Ip,            \* the address of it, without the port
  MaxClients,    \* slots of the server
  MaxClientsPerIp,
  Duplicates,    \* whether the network duplicates packets
  MaxConnects,   \* bound: times a client connects
  MaxStreams,    \* bound: sessions and rejoins
  MaxSends,      \* bound: chunks of a stream
  NetCap         \* bound: packets in the network

ASSUME SessionAssumption ==
  /\ DOMAIN Ip = Addrs /\ NoAddr \notin Addrs /\ Duplicates \in BOOLEAN
  /\ {MaxClients, MaxClientsPerIp, MaxStreams, MaxSends, MaxConnects, NetCap} \subseteq Nat
  /\ MaxSends < MaxSeq \div 2

Slots == 1..MaxClients

VARIABLES
  client,    \* the CNetConnection of each client
  slot,      \* m_aSlots: the CNetConnection of each slot
  peer,      \* m_PeerAddr of each slot
  game,      \* whether the server and the game have a client in the slot
  net,       \* packets in the network
  connects,  \* history: times each client connected
  stream,    \* history: the stream of chunks a slot is sending
  streams,   \* history: streams so far
  got        \* history: the chunks each client was handed in its session

vars == <<client, slot, peer, game, net, connects, stream, streams, got>>
history == <<connects, stream, streams, got>>

Live(s) == slot[s].state \notin {"offline", "error"}

TypeOK ==
  /\ \A a \in Addrs : client[a].state \in {"offline", "connect", "online", "error"}
  /\ \A s \in Slots : slot[s].state \in {"offline", "online", "error"}
  /\ \A c \in {client[a] : a \in Addrs} \cup {slot[s] : s \in Slots} :
       c.out = {} /\ {c.seq, c.ack, c.peerAck} \subseteq 0..(MaxSeq - 1)
  /\ peer \in [Slots -> Addrs \cup {NoAddr}]
  /\ \A s \in Slots : peer[s] = NoAddr => slot[s].state = "offline"
  /\ game \in [Slots -> BOOLEAN]
  /\ stream \in [Slots -> 0..MaxStreams]

Init ==
  /\ client = [a \in Addrs |-> Offline]
  /\ slot = [s \in Slots |-> Offline]
  /\ peer = [s \in Slots |-> NoAddr]
  /\ game = [s \in Slots |-> FALSE]
  /\ net = {}
  /\ connects = [a \in Addrs |-> 0]
  /\ stream = [s \in Slots |-> 0]
  /\ streams = 0
  /\ got = [a \in Addrs |-> {}]

-----------------------------------------------------------------------------
(* Packets. *)

Post(packets, underway) ==
  net' = IF Cardinality(underway \cup packets) <= NetCap THEN underway \cup packets ELSE packets

\* a client knows the token of the server from the answer to its connect on
ToServer(a, c) ==
  {[to |-> "server", addr |-> a, token |-> client[a].state # "connect" \/ c.state = "online",
    ctrl |-> pk.ctrl, ack |-> pk.ack, resend |-> pk.resend, chunks |-> pk.chunks] : pk \in c.out}

ToClient(a, c) ==
  {[to |-> "client", addr |-> a, token |-> TRUE,
    ctrl |-> pk.ctrl, ack |-> pk.ack, resend |-> pk.resend, chunks |-> pk.chunks] : pk \in c.out}

\* CNetServer::SendControl
Reply(a, msg) == ToClient(a, SendControl(Offline, msg))

SetClient(a, c, underway) ==
  /\ client' = [client EXCEPT ![a] = [c EXCEPT !.out = {}]]
  /\ Post(ToServer(a, c), underway)

SetSlot(s, c, underway) ==
  /\ slot' = [slot EXCEPT ![s] = [c EXCEPT !.out = {}]]
  /\ Post(ToClient(peer[s], c), underway)

Lose(pk) == net' = net \ {pk} /\ UNCHANGED <<client, slot, peer, game, history>>

\* what is left of the network when pk is received
Underway(pk, keep) == IF keep /\ Duplicates THEN net ELSE net \ {pk}

-----------------------------------------------------------------------------
(* CNetClient. *)

Connect(a) ==
  /\ client[a].state = "offline"
  /\ connects[a] < MaxConnects
  /\ connects' = [connects EXCEPT ![a] = @ + 1]
  /\ got' = [got EXCEPT ![a] = {}]
  /\ SetClient(a, SendControl([Reset(client[a]) EXCEPT !.state = "connect"], "connect"), net)
  /\ UNCHANGED <<slot, peer, game, stream, streams>>

ClientUpdate(a, idle) ==
  /\ client[a].state \in {"connect", "online"}
  /\ SetClient(a, Updated(client[a], FALSE, idle), net)
  /\ UNCHANGED <<slot, peer, game, history>>

\* Update with its Disconnect, when nothing was received for ConnTimeout or the
\* server has closed
ClientUpdateEnds(a) ==
  /\ client[a].state \in {"online", "error"}
  /\ SetClient(a, Disconnect(IF client[a].state = "error" THEN client[a] ELSE TimedOut(client[a])),
               net)
  /\ UNCHANGED <<slot, peer, game, history>>

\* the player leaves, or the client crashes
ClientLeaves(a, crash) ==
  /\ client[a].state \in {"connect", "online"}
  /\ SetClient(a, IF crash THEN Reset(client[a]) ELSE Disconnect(client[a]), net)
  /\ UNCHANGED <<slot, peer, game, history>>

UnpackChunk(r, chunk) ==
  [conn |-> AfterUnpack(r.conn, <<chunk>>), ids |-> r.ids \cup Range(Unpacked(r.conn, <<chunk>>))]

\* Recv of a packet: Feed, and every chunk of it unpacked
UnpackAll(c, chunks) ==
  LET unpacked[n \in 0..Len(chunks)] ==
        IF n = 0 THEN [conn |-> c, ids |-> {}] ELSE UnpackChunk(unpacked[n - 1], chunks[n])
  IN  unpacked[Len(chunks)]

ClientRecv(a, pk, keep) ==
  /\ pk.to = "client" /\ pk.addr = a
  /\ client[a].state \in {"connect", "online"}
  /\ LET r == UnpackAll(Feed(client[a], pk), pk.chunks)
     IN  IF AckIsValid(client[a], pk.ack)
           THEN /\ SetClient(a, r.conn, Underway(pk, keep))
                /\ got' = [got EXCEPT ![a] = @ \cup r.ids]
           ELSE /\ net' = Underway(pk, keep) /\ UNCHANGED <<client, got>>
  /\ UNCHANGED <<slot, peer, game, connects, stream, streams>>

-----------------------------------------------------------------------------
(* CNetServer::Recv. *)

SlotsOf(a) == {s \in Slots : Live(s) /\ peer[s] = a}

\* NumClientsWithAddr
Counted(s, a) ==
  /\ slot[s].state # "offline" /\ Ip[peer[s]] = Ip[a]
  /\ slot[s].state = "error" => slot[s].protected /\ slot[s].timedOut

StartStream(s) == streams' = streams + 1 /\ stream' = [stream EXCEPT ![s] = streams + 1]

\* variant: the new client is not counted
TryAcceptOneMore(a, limited, underway) ==
  LET free == {s \in Slots : slot[s].state = "offline"}
  IN  IF limited \/ Cardinality({s \in Slots : Counted(s, a)}) > MaxClientsPerIp \/ free = {}
        THEN Post(Reply(a, "close"), underway) /\ UNCHANGED <<slot, peer, game, stream, streams>>
        ELSE /\ slot' = [slot EXCEPT ![Min(free)] = Accepted(@)]
             /\ peer' = [peer EXCEPT ![Min(free)] = a]
             /\ game' = [game EXCEPT ![Min(free)] = TRUE]
             /\ StartStream(Min(free))
             /\ Post({}, underway)

\* TryAcceptClient; limited: Connlimit refuses
TryAccept(a, limited, underway) ==
  LET free == {s \in Slots : slot[s].state = "offline"}
  IN  IF limited \/ Cardinality({s \in Slots : Counted(s, a)}) + 1 > MaxClientsPerIp \/ free = {}
        THEN Post(Reply(a, "close"), underway) /\ UNCHANGED <<slot, peer, game, stream, streams>>
        ELSE /\ slot' = [slot EXCEPT ![Min(free)] = Accepted(@)]
             /\ peer' = [peer EXCEPT ![Min(free)] = a]
             /\ game' = [game EXCEPT ![Min(free)] = TRUE]
             /\ StartStream(Min(free))
             /\ Post({}, underway)

\* the client is not in a slot: OnTokenCtrlMsg, or nothing
RecvUnknown(pk, limited, underway) ==
  CASE pk.ctrl = "connect" ->
         Post(Reply(pk.addr, "connectAccept"), underway)
           /\ UNCHANGED <<slot, peer, game, stream, streams>>
    [] pk.ctrl = "accept" -> TryAccept(pk.addr, limited, underway)
    [] OTHER -> Post({}, underway) /\ UNCHANGED <<slot, peer, game, stream, streams>>

\* Feed with its check of the token
FeedChecked(c, pk) == IF pk.token /\ AckIsValid(c, pk.ack) THEN Feed(c, pk) ELSE c

\* OnConnCtrlMsg: a rejoin resets the sequences, and SendMap sends the first chunk
Rejoined(s) ==
  Flush(QueueChunk(ResetRejoin(slot[s]), [stream |-> streams + 1, n |-> 1]))

\* variant: a connect inside a session is ignored
RecvSlotDeaf(s, pk, underway) ==
  /\ UNCHANGED <<peer, game>>
  /\ IF pk.ctrl = "accept"
       THEN SetSlot(s, FeedChecked(Rejoined(s), pk), underway) /\ StartStream(s)
       ELSE SetSlot(s, FeedChecked(slot[s], pk), underway) /\ UNCHANGED <<stream, streams>>

RecvSlot(s, pk, underway) ==
  /\ UNCHANGED <<peer, game>>
  /\ CASE pk.ctrl = "connect" ->
            /\ slot' = [slot EXCEPT ![s] = FeedChecked(@, pk)]
            /\ Post(Reply(pk.addr, "connectAccept"), underway)
            /\ UNCHANGED <<stream, streams>>
       [] pk.ctrl = "accept" ->
            SetSlot(s, FeedChecked(Rejoined(s), pk), underway) /\ StartStream(s)
       [] OTHER ->
            SetSlot(s, FeedChecked(slot[s], pk), underway) /\ UNCHANGED <<stream, streams>>

ServerRecv(pk, keep, limited) ==
  /\ pk.to = "server"
  /\ pk.ctrl = "accept" => streams < MaxStreams
  /\ UNCHANGED <<client, connects, got>>
  /\ IF SlotsOf(pk.addr) = {}
       THEN RecvUnknown(pk, limited, Underway(pk, keep))
       ELSE RecvSlot(Min(SlotsOf(pk.addr)), pk, Underway(pk, keep))

-----------------------------------------------------------------------------
(* CNetServer::Update and what the server does with a slot. *)

\* variant: the game is not told
DropSilent(s, c) ==
  /\ UNCHANGED game
  /\ SetSlot(s, Disconnect(c), net)

\* Drop: DelClientCallback, then Disconnect
Drop(s, c) ==
  /\ game' = [game EXCEPT ![s] = FALSE]
  /\ SetSlot(s, Disconnect(c), net)

\* Update leaves a connection that timed out alone while it is protected
EndOfUpdate(s, c) ==
  IF c.state = "error" /\ (~c.protected \/ ~c.timedOut)
    THEN Drop(s, c)
    ELSE SetSlot(s, c, net) /\ UNCHANGED game

SlotUpdate(s, resend, idle) ==
  /\ slot[s].state = "online"
  /\ EndOfUpdate(s, Updated(slot[s], resend, idle))
  /\ UNCHANGED <<client, peer, history>>

\* nothing was received for ConnTimeout
SlotTimeout(s) ==
  /\ slot[s].state = "online"
  /\ EndOfUpdate(s, TimedOut(slot[s]))
  /\ UNCHANGED <<client, peer, history>>

\* over: ConnTimeoutProtection has passed
SlotError(s, over) ==
  /\ slot[s].state = "error"
  /\ EndOfUpdate(s, [slot[s] EXCEPT !.timedOut = @ /\ ~over])
  /\ UNCHANGED <<client, peer, history>>

\* the server drops the client: a kick, a wrong password, a ban
Kick(s) ==
  /\ game[s]
  /\ Drop(s, slot[s])
  /\ UNCHANGED <<client, peer, history>>

\* the game sends to the player of a slot, whatever its connection
Send(s, flush) ==
  /\ game[s]
  /\ slot[s].seq < MaxSends
  /\ LET c == QueueChunk(slot[s], [stream |-> stream[s], n |-> slot[s].seq + 1])
     IN  SetSlot(s, IF flush THEN Flush(c) ELSE c, net)
  /\ UNCHANGED <<client, peer, game, history>>

-----------------------------------------------------------------------------
(* Timeout protection.  The players are one person's: they have one code. *)

\* CNetConnection::ResumeConnection, and the Reset of the slot it takes from
Resumed(c, o) ==
  [c EXCEPT !.seq = o.seq, !.ack = o.ack, !.remoteClosed = FALSE, !.state = "online",
            !.buffer = o.buffer]

\* the slots whose players have set the code, and whose connection is in error
Claimable(o) == {s \in Slots \ {o} : game[s] /\ slot[s].protected /\ slot[s].state = "error"}

\* variant: the slot that gave its connection away keeps it
TimeoutShared(o) ==
  /\ game[o] /\ slot[o].state = "online"
  /\ IF Claimable(o) = {}
       THEN /\ slot' = [slot EXCEPT ![o].protected = TRUE]
            /\ UNCHANGED <<peer, game, stream>>
       ELSE LET s == Min(Claimable(o))
            IN  /\ slot' = [slot EXCEPT ![s] = Resumed(@, slot[o])]
                /\ peer' = [peer EXCEPT ![s] = peer[o]]
                /\ stream' = [stream EXCEPT ![s] = stream[o]]
                /\ UNCHANGED game
  /\ UNCHANGED <<client, net, connects, streams, got>>

\* ConTimeout of the player in slot o: SetTimedOut for the first slot that can be
\* taken back, or SetTimeoutProtected
Timeout(o) ==
  /\ game[o] /\ slot[o].state = "online"
  /\ IF Claimable(o) = {}
       THEN /\ slot' = [slot EXCEPT ![o].protected = TRUE]
            /\ UNCHANGED <<peer, game, stream>>
       ELSE LET s == Min(Claimable(o))
            IN  /\ slot' = [slot EXCEPT ![s] = Resumed(@, slot[o]), ![o] = Reset(@)]
                /\ peer' = [peer EXCEPT ![s] = peer[o]]
                /\ game' = [game EXCEPT ![o] = FALSE]
                /\ stream' = [stream EXCEPT ![s] = stream[o]]
  /\ UNCHANGED <<client, net, connects, streams, got>>

-----------------------------------------------------------------------------
Next ==
  \/ \E pk \in net : Lose(pk)
  \/ \E pk \in net, keep \in {FALSE, Duplicates} :
       \/ \E limited \in BOOLEAN : ServerRecv(pk, keep, limited)
       \/ \E a \in Addrs : ClientRecv(a, pk, keep)
  \/ \E a \in Addrs :
       \/ Connect(a)
       \/ \E idle \in {"late", "idle"} : ClientUpdate(a, idle)
       \/ ClientUpdateEnds(a)
       \/ \E crash \in BOOLEAN : ClientLeaves(a, crash)
  \/ \E s \in Slots :
       \/ \E resend \in BOOLEAN, idle \in {"no", "late", "idle"} : SlotUpdate(s, resend, idle)
       \/ SlotTimeout(s)
       \/ \E over \in BOOLEAN : SlotError(s, over)
       \/ Kick(s)
       \/ \E flush \in BOOLEAN : Send(s, flush)
       \/ Timeout(s)

Spec == Init /\ [][Next]_vars

\* nothing of the client of the slot is taken any more
Unheard(s) ==
  /\ peer[s] \in Addrs
  /\ client[peer[s]].state = "offline" \/ ~AckIsValid(slot[s], client[peer[s]].ack)

(***************************************************************************)
(* The loops go round, so their timers run out: ConnTimeout where one end  *)
(* of the session is gone, ConnTimeoutProtection always.  Of a packet that *)
(* is sent over and over one copy arrives in the end.                      *)
(***************************************************************************)
Fairness ==
  /\ WF_vars(\E pk \in net : Lose(pk))
  /\ \A a \in Addrs :
       /\ WF_vars(ClientUpdate(a, "idle"))
       /\ WF_vars((SlotsOf(a) = {} \/ client[a].state = "error") /\ ClientUpdateEnds(a))
       /\ SF_vars(\E pk \in net, limited \in BOOLEAN :
                    pk.addr = a /\ pk.ctrl = "connect" /\ ServerRecv(pk, FALSE, limited))
       /\ SF_vars(\E pk \in net : pk.ctrl = "connectAccept" /\ ClientRecv(a, pk, FALSE))
       /\ SF_vars(\E pk \in net :
                    NextInSequence(client[a], pk.chunks) # {} /\ ClientRecv(a, pk, FALSE))
       /\ SF_vars(\E pk \in net, s \in SlotsOf(a) :
                    /\ pk.addr = a /\ AckIsValid(slot[s], pk.ack)
                    /\ AckChunks(slot[s], pk.ack) # slot[s]
                    /\ ServerRecv(pk, FALSE, FALSE))
  /\ \A s \in Slots :
       /\ WF_vars(SlotUpdate(s, TRUE, "idle"))
       /\ WF_vars(Unheard(s) /\ SlotTimeout(s))
       /\ WF_vars(SlotError(s, TRUE))

FairSpec == Spec /\ Fairness

-----------------------------------------------------------------------------
(* Properties. *)

(* No address is served by two slots: Recv finds the one slot of a packet. *)
OneSlot == \A a \in Addrs : Cardinality(SlotsOf(a)) <= 1

(* The table of slots keeps its type, and no address is served by two of them. *)
Inv == TypeOK /\ OneSlot

(* The server has a client in exactly the slots whose connection is in use, over
   rejoin, drop, timeout and the slot that is taken back. *)
GameFollowsNet == \A s \in Slots : game[s] <=> slot[s].state # "offline"

(* MaxClientsPerIp holds for the slots in use and those that timeout protection
   keeps, wherever the players have moved to. *)
PerIp ==
  \A a \in Addrs : Cardinality({s \in Slots : Counted(s, a)}) <= MaxClientsPerIp

(* "old packet that we already got" (network.cpp): a chunk of its session that a
   client takes for old was handed to its program. *)
OldMeansGot ==
  \A pk \in net, s \in Slots :
    (/\ Live(s) /\ pk.to = "client" /\ peer[s] = pk.addr
     /\ client[pk.addr].state = "online" /\ AckIsValid(client[pk.addr], pk.ack)) =>
      \A i \in DOMAIN pk.chunks :
        pk.chunks[i].id.stream = stream[s] /\ IsSeqInBackroom(pk.chunks[i].seq, client[pk.addr].ack)
          => pk.chunks[i].id \in got[pk.addr]

(* A client that is gone for good leaves no slot behind, not even one that a late
   packet of its handshake opened. *)
GhostsEnd ==
  \A a \in Addrs : <>[](client[a].state = "offline") => <>[](\A s \in Slots : peer[s] = a => ~game[s])

(* No slot stays with a connection in error or with chunks that wait for their acknowledgement:
   the chunks are resent until they arrive, over losses, rejoins and the slot that is taken
   back, or the slot is dropped in the end, even when its player never comes back. *)
SlotsSettle ==
  \A s \in Slots :
    slot[s].state = "error" \/ slot[s].buffer # <<>>
      ~> slot[s].state # "error" /\ slot[s].buffer = <<>>

(* A connect is answered, and a client that is online on its own, for its accept
   was lost or refused, learns it or is given a slot. *)
HandshakeEnds ==
  \A a \in Addrs :
    /\ client[a].state = "connect" ~> client[a].state # "connect"
    /\ client[a].state = "online" ~> client[a].state # "online" \/ SlotsOf(a) # {}
=============================================================================
