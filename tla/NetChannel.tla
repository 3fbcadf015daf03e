----------------------------- MODULE NetChannel -----------------------------
(***************************************************************************)
(* Two CNetConnections that are online, with a network between them that   *)
(* loses, duplicates, delays and reorders packets.  Each side is the loop  *)
(* of CNetClient or CNetServer: Update, then Recv until nothing is left,   *)
(* with the handlers of the chunks sending in between.                     *)
(***************************************************************************)
EXTENDS NetConnection

CONSTANTS
  Peers,     \* the two ends
  Total,     \* bound: vital chunks each end sends
  Window,    \* bound: vital chunks an end lets go without an acknowledgement
  Lifetime,  \* bound: how far a sender moves on while a packet is in the network
  NetCap     \* bound: packets in the network

\* a window is less than half a lap, and what a late packet holds is less than a lap old
ASSUME ChannelAssumption ==
  /\ \E p, q \in Peers : p # q /\ Peers = {p, q}
  /\ Total \in [Peers -> Nat] /\ Window \in Nat /\ Lifetime \in Nat /\ NetCap \in Nat
  /\ 2 * (Window + 1) <= MaxSeq
  /\ Window + Lifetime + PacketCap + 1 <= MaxSeq

VARIABLES
  conn,   \* the CNetConnection of each end
  inbox,  \* m_PacketChunkUnpacker of each end: the chunks of a packet still to unpack
  net,    \* packets in the network
  sent,   \* history: vital chunks each end has queued while online
  log     \* history: vital chunks handed to the program of each end

vars == <<conn, inbox, net, sent, log>>

Other(p) == CHOOSE q \in Peers : q # p

Chunks == [seq : 0..(MaxSeq - 1), id : Nat]

ConnType ==
  [state : {"online", "error", "offline"}, seq : 0..(MaxSeq - 1), ack : 0..(MaxSeq - 1),
   peerAck : 0..(MaxSeq - 1), remoteClosed : BOOLEAN, timedOut : BOOLEAN,
   protected : BOOLEAN, buffer : Seq(Chunks),
   construct : [chunks : Seq(Chunks), resend : BOOLEAN], out : {{}}]

TypeOK ==
  /\ conn \in [Peers -> ConnType]
  /\ inbox \in [Peers -> Seq(Chunks)]
  /\ \A pk \in net :
       /\ pk.from \in Peers /\ pk.sent \in Nat /\ pk.got \in Nat /\ pk.ack \in 0..(MaxSeq - 1)
       /\ pk.ctrl \in {"none", "keepalive", "close"} /\ pk.resend \in BOOLEAN
       /\ pk.chunks \in Seq(Chunks) /\ Len(pk.chunks) <= PacketCap
  /\ sent \in [Peers -> Nat]
  /\ log \in [Peers -> Seq(Nat)]

Init ==
  /\ conn = [p \in Peers |-> Accepted(Offline)]
  /\ inbox = [p \in Peers |-> <<>>]
  /\ net = {}
  /\ sent = [p \in Peers |-> 0]
  /\ log = [p \in Peers |-> <<>>]

-----------------------------------------------------------------------------
(* The network. *)

\* where the sender stood is noted on each packet, for its lifetime
Stamped(p, pk) ==
  [from |-> p, sent |-> sent'[p], got |-> Len(log[p]), ack |-> pk.ack, ctrl |-> pk.ctrl,
   resend |-> pk.resend, chunks |-> pk.chunks]

Alive(pk) ==
  /\ sent'[pk.from] - pk.sent <= Lifetime
  /\ Len(log'[pk.from]) - pk.got <= Lifetime

\* what p has sent joins the packets under way, or pushes them out of a full
\* network; a packet past its lifetime is gone
Transmit(p, c, underway) ==
  LET fresh == {Stamped(p, pk) : pk \in c.out}
      all   == underway \cup fresh
  IN  /\ conn' = [conn EXCEPT ![p] = [c EXCEPT !.out = {}]]
      /\ net' = {pk \in IF Cardinality(all) <= NetCap THEN all ELSE fresh : Alive(pk)}

Lose(pk) == net' = net \ {pk} /\ UNCHANGED <<conn, inbox, sent, log>>

-----------------------------------------------------------------------------
(* One end. *)

\* the program sends a vital chunk, and may ask for a flush
Unacked(c) == (c.seq - c.peerAck) % MaxSeq

Send(p, flush) ==
  /\ conn[p].state = "online"
  /\ sent[p] < Total[p]
  /\ Unacked(conn[p]) < Window
  /\ sent' = [sent EXCEPT ![p] = @ + 1]
  /\ UNCHANGED <<inbox, log>>
  /\ LET c == QueueChunk(conn[p], sent[p] + 1)
     IN  Transmit(p, IF flush THEN Flush(c) ELSE c, net)

\* UnpackNextChunk: the program gets the next chunk in sequence, if there is one.
\* What is unpacked after the program dropped the connection is not logged.
UnpackNext(p, c, chunks, underway) ==
  /\ inbox' = [inbox EXCEPT ![p] = Remaining(c, chunks)]
  /\ log' = [log EXCEPT ![p] = IF c.state = "offline" THEN @ ELSE @ \o Unpacked(c, chunks)]
  /\ UNCHANGED sent
  /\ Transmit(p, AfterUnpack(c, chunks), underway)

\* Recv goes on with the packet the last call left
Unpack(p) == inbox[p] # <<>> /\ UnpackNext(p, conn[p], inbox[p], net)

\* Recv takes a packet from the socket; keep: the network will deliver it again
Recv(p, pk, keep) ==
  /\ conn[p].state = "online"
  /\ inbox[p] = <<>>
  /\ pk.from # p
  /\ LET underway == IF keep THEN net ELSE net \ {pk}
     IN  IF AckIsValid(conn[p], pk.ack)
           THEN UnpackNext(p, Feed(conn[p], pk), pk.chunks, underway)
           ELSE UNCHANGED <<inbox, sent, log>> /\ Transmit(p, conn[p], underway)

\* Update of an online connection, no timeout
Update(p, resend, idle) ==
  /\ conn[p].state = "online"
  /\ inbox[p] = <<>>
  /\ Updated(conn[p], resend, idle) # conn[p]
  /\ UNCHANGED <<inbox, sent, log>>
  /\ Transmit(p, Updated(conn[p], resend, idle), net)

\* Update that finds the connection timed out, or closed by the peer, is
\* followed by Disconnect
UpdateEnds(p) ==
  /\ inbox[p] = <<>>
  /\ conn[p].state # "offline"
  /\ UNCHANGED <<inbox, sent, log>>
  /\ Transmit(p, Disconnect(IF conn[p].state = "error" THEN conn[p] ELSE TimedOut(conn[p])), net)

\* the program disconnects, possibly in the handler of a chunk
Drop(p) ==
  /\ conn[p].state # "offline"
  /\ UNCHANGED <<inbox, sent, log>>
  /\ Transmit(p, Disconnect(conn[p]), net)

Next ==
  \/ \E pk \in net : Lose(pk)
  \/ \E p \in Peers :
       \/ \E flush \in BOOLEAN : Send(p, flush)
       \/ \E pk \in net, keep \in BOOLEAN : Recv(p, pk, keep)
       \/ Unpack(p)
       \/ \E resend \in BOOLEAN, idle \in {"no", "late", "idle"} : Update(p, resend, idle)
       \/ UpdateEnds(p)
       \/ Drop(p)

Spec == Init /\ [][Next]_vars

-----------------------------------------------------------------------------
(* Properties. *)

Online(p) == conn[p].state = "online"

\* the position that a sequence number stands for, at or up to half a lap before n
Position(s, n) == CHOOSE k \in (n - MaxSeq + 1)..n : k % MaxSeq = s

(* An end believes acknowledged only what the peer's program really got, however
   stale or reordered the acknowledgement was. *)
AcksAreTrue ==
  \A p \in Peers : Online(p) => Position(conn[p].peerAck, sent[p]) <= Len(log[Other(p)])

(* As long as the buffer never overflows, every vital chunk the peer has not got
   is still saved for a resend: a lost packet never becomes a lost chunk. *)
Resendable ==
  \A p \in Peers : Online(p) =>
    \A k \in (Len(log[Other(p)]) + 1)..sent[p] :
      \E i \in DOMAIN conn[p].buffer : conn[p].buffer[i].id = k

(* "old packet that we already got" (network.cpp): a chunk that is skipped
   without asking for a resend was delivered before. *)
OldMeansGot ==
  \A p \in Peers : Online(p) =>
    \A chunks \in {inbox[p]} \cup {pk.chunks : pk \in {q \in net : q.from # p}} :
      \A i \in DOMAIN chunks :
        IsSeqInBackroom(chunks[i].seq, conn[p].ack) => chunks[i].id <= Len(log[p])

(* The state keeps its type, a skipped chunk was delivered, and acknowledgements are true. *)
Inv == TypeOK /\ OldMeansGot /\ AcksAreTrue

(* The channel implements the reliable streams of NetStream. *)
Streams ==
  INSTANCE NetStream WITH
    pending <- [p \in Peers |-> [i \in 1..(sent[p] - Len(log[Other(p)])) |->
                                   Len(log[Other(p)]) + i]],
    delivered <- [p \in Peers |-> log[Other(p)]]
StreamsImplemented == Streams!Spec
=============================================================================
