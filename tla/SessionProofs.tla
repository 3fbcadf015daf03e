--------------------------- MODULE SessionProofs ----------------------------
(***************************************************************************)
(* Proofs about how clients come to the server and into the game.          *)
(*                                                                         *)
(* NetSession, for any clients, addresses, numbers of slots, buffers and   *)
(* networks: no address is ever served by two slots, the server has a      *)
(* client in exactly the slots whose connection is in use, and the limit   *)
(* of clients per address holds wherever players move to.                  *)
(*                                                                         *)
(* Login, for any maps, sizes of a map and windows, and any number of      *)
(* reloads and rejoins: the states of the slot and of its player agree,    *)
(* and the client loads or fetches the map the server runs.                *)
(***************************************************************************)
EXTENDS NetSession, Login, FiniteSetTheorems, SequenceTheorems, WellFoundedInduction, TLAPS

Seqs == 0..(MaxSeq - 1)
Chunk == [seq : Seqs, id : [stream : Nat, n : Nat]]
Ctrls == {"none", "keepalive", "connect", "connectAccept", "accept", "close"}
States == {"offline", "connect", "online", "error"}

\* a control packet asks for no resend
Sent == {pk \in [ctrl : Ctrls, ack : Seqs, resend : BOOLEAN, chunks : Seq(Chunk)] :
           pk.ctrl # "none" => ~pk.resend}

Conn ==
  [state : States, seq : Seqs, ack : Seqs, peerAck : Seqs, remoteClosed : BOOLEAN,
   timedOut : BOOLEAN, protected : BOOLEAN, buffer : Seq(Chunk),
   construct : [chunks : Seq(Chunk), resend : BOOLEAN], out : SUBSET Sent]

Packets ==
  {pk \in [to : {"server", "client"}, addr : Addrs, token : BOOLEAN, ctrl : Ctrls, ack : Seqs,
           resend : BOOLEAN, chunks : Seq(Chunk)] : pk.ctrl # "none" => ~pk.resend}

IType ==
  /\ client \in [Addrs -> Conn] /\ \A a \in Addrs : client[a].out = {}
  /\ slot \in [Slots -> Conn]
  /\ \A s \in Slots : slot[s].out = {} /\ slot[s].state # "connect"
  /\ peer \in [Slots -> Addrs \cup {NoAddr}]
  /\ \A s \in Slots : peer[s] = NoAddr => slot[s].state = "offline"
  /\ game \in [Slots -> BOOLEAN]
  /\ net \subseteq Packets
  /\ stream \in [Slots -> 0..MaxStreams] /\ streams \in 0..MaxStreams

(* Two slots that are live have different peers. *)
Apart == \A s, r \in Slots : Live(s) /\ Live(r) /\ peer[s] = peer[r] => s = r

IInv == IType /\ Apart /\ GameFollowsNet /\ PerIp

-----------------------------------------------------------------------------
(* Numbers and recursive functions. *)

LEMMA LessIsWellFounded == IsWellFoundedOn({p \in Nat \X Nat : p[1] < p[2]}, Nat)
BY NatLessThanWellFounded DEF OpToRel

LEMMA LeastExists ==
  ASSUME NEW S \in SUBSET Nat, S # {}
  PROVE  \E m \in S : \A k \in S : m <= k
<1> DEFINE R == {p \in Nat \X Nat : p[1] < p[2]}
<1>1. PICK m \in S : \A k \in S : ~(<<k, m>> \in R)
  BY LessIsWellFounded, WFMin
<1>2. ASSUME NEW k \in S PROVE m <= k
  <2>1. k \in Nat /\ m \in Nat
    OBVIOUS
  <2>2. CASE k < m
    <3>1. <<k, m>> \in Nat \X Nat /\ <<k, m>>[1] < <<k, m>>[2]
      BY <2>1, <2>2
    <3>2. <<k, m>> \in R
      BY <3>1
    <3> QED
      BY <1>1, <3>2
  <2> QED
    BY <2>1, <2>2
<1> QED
  BY <1>2

(* The recursive functions of the model: H makes each value from the one before. *)
Runs(g, n, a, H) == g[0] = a /\ \A k \in 1..n : g[k] = H[<<g[k - 1], k>>]

LEMMA RunExists ==
  ASSUME NEW S, NEW a \in S, NEW L \in Nat, NEW H \in [S \X (1..L) -> S]
  PROVE  \E g \in [0..L -> S] : Runs(g, L, a, H)
<1> DEFINE Good(n) == \E g \in [0..n -> S] : Runs(g, n, a, H)
           Bad == {n \in 0..L : ~Good(n)}
<1>1. SUFFICES ASSUME Bad # {} PROVE FALSE
  <2>1. L \in 0..L
    OBVIOUS
  <2>2. CASE Bad = {}
    BY <2>1, <2>2
  <2> QED
    BY <2>2
<1>2. PICK m \in Bad : \A n \in Bad : m <= n
  <2>1. Bad \in SUBSET Nat
    OBVIOUS
  <2> HIDE DEF Bad
  <2> QED
    BY <1>1, <2>1, LeastExists
<1>3. m \in 0..L /\ ~Good(m)
  OBVIOUS
<1>4. m # 0
  <2> DEFINE z == [k \in 0..0 |-> a]
  <2>1. z \in [0..0 -> S]
    OBVIOUS
  <2>2. z[0] = a /\ 1..0 = {}
    OBVIOUS
  <2>3. Runs(z, 0, a, H)
    BY <2>2 DEF Runs
  <2>4. Good(0)
    BY <2>1, <2>3
  <2> QED
    BY <1>3, <2>4
<1>5. m \in 1..L /\ m - 1 \in 0..L /\ ~(m <= m - 1)
  BY <1>3, <1>4
<1>6. Good(m - 1)
  <2>1. m - 1 \notin Bad
    <3> HIDE DEF Bad
    <3> QED
      BY <1>2, <1>5
  <2> HIDE DEF Good
  <2> QED
    BY <1>5, <2>1
<1>7. PICK g \in [0..(m - 1) -> S] : Runs(g, m - 1, a, H)
  BY <1>6
<1> DEFINE h == [k \in 0..m |-> IF k = m THEN H[<<g[m - 1], m>>] ELSE g[k]]
<1>8. h \in [0..m -> S]
  <2>1. <<g[m - 1], m>> \in S \X (1..L)
    BY <1>5, <1>7
  <2> QED
    BY <1>5, <1>7, <2>1
<1>9. Runs(h, m, a, H)
  <2>1. h[0] = a
    BY <1>5, <1>7 DEF Runs
  <2>2. ASSUME NEW k \in 1..m PROVE h[k] = H[<<h[k - 1], k>>]
    <3>1. k \in 0..m /\ k - 1 \in 0..m /\ k - 1 # m
      BY <1>5
    <3>2. h[k - 1] = g[k - 1]
      BY <3>1
    <3>3. CASE k = m
      BY <3>1, <3>2, <3>3
    <3>4. CASE k # m
      <4>1. k \in 1..(m - 1)
        BY <1>5, <3>4
      <4>2. g[k] = H[<<g[k - 1], k>>]
        BY <4>1, <1>7 DEF Runs
      <4>3. h[k] = g[k]
        BY <3>1, <3>4
      <4> QED
        BY <4>2, <4>3, <3>2
    <3> QED
      BY <3>3, <3>4
  <2> HIDE DEF h
  <2> QED
    BY <2>1, <2>2 DEF Runs
<1>10. Good(m)
  <2> HIDE DEF h
  <2> QED
    BY <1>8, <1>9
<1> QED
  BY <1>10, <1>3

(* Induction up to L, for a set of numbers. *)
LEMMA Induction ==
  ASSUME NEW L \in Nat, NEW G, 0 \in G, \A n \in 1..L : n - 1 \in G => n \in G
  PROVE  \A n \in 0..L : n \in G
<1> DEFINE Bad == {n \in 0..L : n \notin G}
<1>1. SUFFICES ASSUME Bad # {} PROVE FALSE
  OBVIOUS
<1>2. PICK m \in Bad : \A n \in Bad : m <= n
  <2>1. Bad \in SUBSET Nat
    OBVIOUS
  <2> HIDE DEF Bad
  <2> QED
    BY <1>1, <2>1, LeastExists
<1>3. m \in 1..L /\ m - 1 \in 0..L /\ ~(m <= m - 1)
  OBVIOUS
<1>4. m - 1 \in G
  <2>1. m - 1 \notin Bad
    <3> HIDE DEF Bad
    <3> QED
      BY <1>2, <1>3
  <2> QED
    BY <1>3, <2>1
<1> QED
  BY <1>3, <1>4

-----------------------------------------------------------------------------
(* The methods of a connection: what they return, and what they leave alone. *)

Constructs == [chunks : Seq(Chunk), resend : BOOLEAN]

\* neither the state nor timeout protection is touched
Kept(c, d) == d.state = c.state /\ d.timedOut = c.timedOut /\ d.protected = c.protected

LEMMA SeqAfterType == ASSUME NEW s \in Seqs PROVE SeqAfter(s) \in Seqs
BY NetAssumption DEF SeqAfter, Seqs

LEMMA ConnNat == Seqs \subseteq Nat /\ 0 \in Seqs
BY NetAssumption DEF Seqs

LEMMA OfflineType == Offline \in Conn /\ Offline.out = {} /\ Offline.state = "offline"
<1>1. <<>> \in Seq(Chunk)
  OBVIOUS
<1> QED
  BY <1>1, ConnNat DEF Offline, Conn, NoChunks, States

LEMMA ResetType ==
  ASSUME NEW c \in Conn
  PROVE  /\ Reset(c) \in Conn /\ Reset(c).out = c.out /\ Reset(c).state = "offline"
         /\ ResetRejoin(c) \in Conn /\ ResetRejoin(c).out = c.out /\ Kept(c, ResetRejoin(c))
         /\ Accepted(c) \in Conn /\ Accepted(c).out = c.out /\ Accepted(c).state = "online"
<1>1. Reset(c) \in Conn /\ Reset(c).out = c.out /\ Reset(c).state = "offline"
  BY OfflineType DEF Reset, Conn, Offline
<1>2. ResetRejoin(c) \in Conn /\ ResetRejoin(c).out = c.out /\ Kept(c, ResetRejoin(c))
  BY OfflineType DEF ResetRejoin, Conn, Offline, Kept
<1>3. Accepted(c) \in Conn /\ Accepted(c).out = c.out /\ Accepted(c).state = "online"
  BY <1>1 DEF Accepted, Conn, States
<1> QED
  BY <1>1, <1>2, <1>3

LEMMA SendControlType ==
  ASSUME NEW c \in Conn, NEW msg \in Ctrls
  PROVE  SendControl(c, msg) \in Conn /\ Kept(c, SendControl(c, msg))
<1>1. Control(c, msg) \in Sent
  <2>1. <<>> \in Seq(Chunk)
    OBVIOUS
  <2> QED
    BY <2>1 DEF Control, Sent, Conn
<1> QED
  BY <1>1 DEF SendControl, Conn, Kept

LEMMA FlushType ==
  ASSUME NEW c \in Conn
  PROVE  Flush(c) \in Conn /\ Kept(c, Flush(c))
<1> DEFINE pk == [ctrl |-> "none", ack |-> c.ack, resend |-> c.construct.resend,
                  chunks |-> c.construct.chunks]
<1>1. pk \in Sent
  BY DEF Sent, Conn, Ctrls
<1>2. NoChunks \in Constructs
  <2>1. <<>> \in Seq(Chunk)
    OBVIOUS
  <2> QED
    BY <2>1 DEF NoChunks, Constructs
<1>3. c.out \cup {pk} \in SUBSET Sent
  BY <1>1 DEF Conn
<1> HIDE DEF pk
<1>4. [c EXCEPT !.construct = NoChunks, !.out = c.out \cup {pk}] \in Conn
  BY <1>2, <1>3 DEF Conn, Constructs
<1>5. Kept(c, [c EXCEPT !.construct = NoChunks, !.out = c.out \cup {pk}])
  BY DEF Kept, Conn
<1>6. Flush(c) = c \/ Flush(c) = [c EXCEPT !.construct = NoChunks, !.out = c.out \cup {pk}]
  BY DEF Flush, pk
<1>7. Kept(c, c)
  BY DEF Kept
<1> QED
  BY <1>4, <1>5, <1>6, <1>7

LEMMA QueueChunkExType ==
  ASSUME NEW c \in Conn, NEW chunk \in Chunk, NEW first \in BOOLEAN
  PROVE  /\ QueueChunkEx(c, chunk, first) \in Conn
         /\ Kept(c, QueueChunkEx(c, chunk, first))
<1> DEFINE f == IF Len(c.construct.chunks) = PacketCap THEN Flush(c) ELSE c
<1>1. f \in Conn /\ Kept(c, f)
  BY FlushType DEF Kept
<1> HIDE DEF f
<1> DEFINE k == [f.construct EXCEPT !.chunks = Append(@, chunk)]
           b == IF first /\ Len(f.buffer) < BufferCap THEN Append(f.buffer, chunk) ELSE f.buffer
<1>2. k \in Constructs
  <2>1. f.construct \in Constructs
    BY <1>1 DEF Conn, Constructs
  <2>2. Append(f.construct.chunks, chunk) \in Seq(Chunk)
    BY <2>1 DEF Constructs
  <2> QED
    BY <2>1, <2>2 DEF Constructs
<1>3. b \in Seq(Chunk)
  BY <1>1 DEF Conn
<1>4. CASE c.state \in {"offline", "error"}
  <2>1. QueueChunkEx(c, chunk, first) = c
    BY <1>4 DEF QueueChunkEx
  <2> QED
    BY <2>1 DEF Kept
<1>5. CASE c.state \notin {"offline", "error"}
  <2>1. QueueChunkEx(c, chunk, first) = [f EXCEPT !.construct = k, !.buffer = b]
    BY <1>5, <1>1 DEF QueueChunkEx, f, Conn
  <2> HIDE DEF k, b
  <2>2. [f EXCEPT !.construct = k, !.buffer = b] \in Conn
    BY <1>1, <1>2, <1>3 DEF Conn, Constructs
  <2>3. Kept(c, [f EXCEPT !.construct = k, !.buffer = b])
    BY <1>1 DEF Conn, Kept
  <2> QED
    BY <2>1, <2>2, <2>3
<1> QED
  BY <1>4, <1>5

LEMMA QueueChunkType ==
  ASSUME NEW c \in Conn, NEW id \in [stream : Nat, n : Nat]
  PROVE  QueueChunk(c, id) \in Conn /\ Kept(c, QueueChunk(c, id))
<1> DEFINE s == SeqAfter(c.seq)
           d == [c EXCEPT !.seq = s]
           chunk == [seq |-> s, id |-> id]
<1>1. s \in Seqs
  BY SeqAfterType DEF Conn
<1> HIDE DEF s
<1>2. d \in Conn /\ Kept(c, d) /\ chunk \in Chunk
  BY <1>1 DEF Conn, Kept, Chunk
<1>3. QueueChunk(c, id) = QueueChunkEx(d, chunk, TRUE)
  BY DEF QueueChunk, s
<1> HIDE DEF d, chunk
<1>4. QueueChunkEx(d, chunk, TRUE) \in Conn /\ Kept(d, QueueChunkEx(d, chunk, TRUE))
  BY <1>2, QueueChunkExType
<1> QED
  BY <1>2, <1>3, <1>4 DEF Kept

LEMMA ResendChunkType ==
  ASSUME NEW c \in Conn, NEW chunk \in Chunk
  PROVE  ResendChunk(c, chunk) \in Conn /\ Kept(c, ResendChunk(c, chunk))
BY QueueChunkExType DEF ResendChunk

LEMMA ResendType ==
  ASSUME NEW c \in Conn
  PROVE  Resend(c) \in Conn /\ Kept(c, Resend(c))
<1> DEFINE L == Len(c.buffer)
           K == {d \in Conn : Kept(c, d)}
           H == [p \in K \X (1..L) |-> ResendChunk(p[1], c.buffer[p[2]])]
           r[n \in 0..L] == IF n = 0 THEN c ELSE ResendChunk(r[n - 1], c.buffer[n])
<1>1. L \in Nat /\ \A n \in 1..L : c.buffer[n] \in Chunk
  BY DEF Conn
<1>2. c \in K
  BY DEF Kept
<1>3. \A d \in K, n \in 1..L : ResendChunk(d, c.buffer[n]) \in K
  <2> SUFFICES ASSUME NEW d \in K, NEW n \in 1..L PROVE ResendChunk(d, c.buffer[n]) \in K
    OBVIOUS
  <2> HIDE DEF L
  <2>1. ResendChunk(d, c.buffer[n]) \in Conn /\ Kept(d, ResendChunk(d, c.buffer[n]))
    BY <1>1, ResendChunkType
  <2> QED
    BY <2>1 DEF Kept
<1>4. Resend(c) = r[L]
  BY DEF Resend
<1> HIDE DEF K, L
<1>5. H \in [K \X (1..L) -> K]
  BY <1>3
<1>6. PICK g \in [0..L -> K] : Runs(g, L, c, H)
  <2> HIDE DEF H
  <2> QED
    BY <1>1, <1>2, <1>5, RunExists
<1>7. g = [n \in 0..L |-> IF n = 0 THEN c ELSE ResendChunk(g[n - 1], c.buffer[n])]
  <2>1. \A n \in 0..L : g[n] = IF n = 0 THEN c ELSE ResendChunk(g[n - 1], c.buffer[n])
    <3> SUFFICES ASSUME NEW n \in 0..L, n # 0 PROVE g[n] = ResendChunk(g[n - 1], c.buffer[n])
      BY <1>6 DEF Runs
    <3>1. n \in 1..L /\ n - 1 \in 0..L
      BY <1>1
    <3>2. g[n] = H[<<g[n - 1], n>>]
      BY <1>6, <3>1 DEF Runs
    <3>3. <<g[n - 1], n>> \in K \X (1..L)
      BY <1>6, <3>1
    <3> QED
      BY <3>2, <3>3
  <2> QED
    BY <2>1, <1>6
<1>8. r = [n \in 0..L |-> IF n = 0 THEN c ELSE ResendChunk(r[n - 1], c.buffer[n])]
  BY <1>7
<1> HIDE DEF r
<1>9. \A n \in 0..L : n \in {i \in 0..L : r[i] \in K}
  <2>1. 0 \in {i \in 0..L : r[i] \in K}
    BY <1>1, <1>2, <1>8
  <2>2. ASSUME NEW n \in 1..L, n - 1 \in {i \in 0..L : r[i] \in K}
        PROVE  n \in {i \in 0..L : r[i] \in K}
    <3>1. n \in 0..L /\ n # 0
      BY <1>1
    <3>2. r[n] = ResendChunk(r[n - 1], c.buffer[n])
      BY <1>8, <3>1
    <3> QED
      BY <3>1, <3>2, <2>2, <1>3
  <2> QED
    BY <1>1, <2>1, <2>2, Induction
<1>10. r[L] \in K
  BY <1>1, <1>9
<1> QED
  BY <1>4, <1>10 DEF K

LEMMA DisconnectType ==
  ASSUME NEW c \in Conn
  PROVE  Disconnect(c) \in Conn /\ Disconnect(c).state = "offline"
<1>1. SendControl(c, "close") \in Conn
  BY SendControlType DEF Ctrls
<1> DEFINE d == IF c.remoteClosed \/ c.timedOut THEN c ELSE SendControl(c, "close")
<1>2. d \in Conn
  BY <1>1
<1>3. Disconnect(c) = IF c.state = "offline" THEN c ELSE Reset(d)
  BY DEF Disconnect
<1> HIDE DEF d
<1> QED
  BY <1>2, <1>3, ResetType

LEMMA MinType ==
  ASSUME NEW S \in SUBSET Nat, S # {}
  PROVE  Min(S) \in S /\ \A k \in S : Min(S) <= k
<1>1. \E m \in S : \A k \in S : m <= k
  BY LeastExists
<1> QED
  BY <1>1 DEF Min

LEMMA AckChunksType ==
  ASSUME NEW c \in Conn, NEW a \in Seqs
  PROVE  /\ AckChunks(c, a) \in Conn /\ Kept(c, AckChunks(c, a))
         /\ AckChunks(c, a).out = c.out
<1> DEFINE kept == {i \in DOMAIN c.buffer : ~IsSeqInBackroom(c.buffer[i].seq, a)}
           b == IF kept = {} THEN <<>> ELSE SubSeq(c.buffer, Min(kept), Len(c.buffer))
<1>1. c.buffer \in Seq(Chunk)
  BY DEF Conn
<1>2. b \in Seq(Chunk)
  <2>1. CASE kept = {}
    BY <2>1
  <2>2. CASE kept # {}
    <3>1. kept \in SUBSET Nat /\ kept \subseteq 1..Len(c.buffer)
      BY <1>1
    <3> HIDE DEF kept
    <3>2. Min(kept) \in 1..Len(c.buffer)
      BY <2>2, <3>1, MinType
    <3>3. SubSeq(c.buffer, Min(kept), Len(c.buffer)) \in Seq(Chunk)
      BY <1>1, <3>2
    <3> QED
      BY <2>2, <3>3
  <2> QED
    BY <2>1, <2>2
<1>3. AckChunks(c, a) = [c EXCEPT !.buffer = b]
  BY DEF AckChunks, Conn
<1> HIDE DEF b
<1> QED
  BY <1>2, <1>3 DEF Conn, Kept

(* Feed of a packet changes the state to an error by a close, and that of a connect. *)
LEMMA FeedType ==
  ASSUME NEW c \in Conn, NEW pk \in Packets
  PROVE  /\ Feed(c, pk) \in Conn
         /\ Feed(c, pk).timedOut = c.timedOut /\ Feed(c, pk).protected = c.protected
         /\ Feed(c, pk).state \in {c.state, "error", "online"}
         /\ c.state # "connect" => Feed(c, pk).state \in {c.state, "error"}
         /\ c.state # "connect" /\ pk.ctrl # "none" => Feed(c, pk).out = c.out
<1>1. pk.ack \in Seqs /\ pk.ctrl \in Ctrls /\ (pk.ctrl # "none" => ~pk.resend)
  BY DEF Packets
<1> DEFINE a == [c EXCEPT !.peerAck = pk.ack]
<1>2. a \in Conn /\ Kept(c, a) /\ a.out = c.out
  BY <1>1 DEF Conn, Kept
<1> HIDE DEF a
<1> DEFINE r == IF pk.resend THEN Resend(a) ELSE a
<1>3. r \in Conn /\ Kept(c, r) /\ (pk.ctrl # "none" => r.out = c.out)
  <2>1. Resend(a) \in Conn /\ Kept(a, Resend(a))
    BY <1>2, ResendType
  <2> QED
    BY <1>1, <1>2, <2>1 DEF Kept
<1> HIDE DEF r
<1> DEFINE opens == r.state = "connect" /\ pk.ctrl = "connectAccept"
           s == IF opens THEN [SendControl(r, "accept") EXCEPT !.state = "online"] ELSE r
<1>4. /\ s \in Conn /\ s.timedOut = c.timedOut /\ s.protected = c.protected
      /\ s.state \in {c.state, "online"} /\ (c.state # "connect" => s = r)
  <2>1. SendControl(r, "accept") \in Conn /\ Kept(r, SendControl(r, "accept"))
    BY <1>3, SendControlType DEF Ctrls
  <2> DEFINE d == SendControl(r, "accept")
  <2> HIDE DEF d
  <2>2. [d EXCEPT !.state = "online"] \in Conn
    BY <2>1 DEF d, Conn, States
  <2>3. /\ [d EXCEPT !.state = "online"].timedOut = c.timedOut
        /\ [d EXCEPT !.state = "online"].protected = c.protected
        /\ [d EXCEPT !.state = "online"].state = "online"
    BY <1>3, <2>1 DEF d, Conn, Kept
  <2> QED
    BY <1>3, <2>2, <2>3 DEF d, Kept
<1> HIDE DEF s
<1>5. AckChunks(s, pk.ack) \in Conn /\ Kept(s, AckChunks(s, pk.ack))
      /\ AckChunks(s, pk.ack).out = s.out
  BY <1>1, <1>4, AckChunksType
<1> DEFINE e == [r EXCEPT !.state = "error", !.remoteClosed = TRUE]
<1>6. e \in Conn /\ e.timedOut = c.timedOut /\ e.protected = c.protected /\ e.state = "error"
      /\ e.out = r.out
  BY <1>3 DEF Conn, Kept, States
<1> HIDE DEF e
<1>7. Feed(c, pk) = IF pk.ctrl = "close" THEN e
                    ELSE IF s.state = "online" THEN AckChunks(s, pk.ack) ELSE s
  BY DEF Feed, a, r, s, e
<1>8. CASE pk.ctrl = "close"
  BY <1>3, <1>6, <1>7, <1>8
<1>9. CASE pk.ctrl # "close" /\ s.state = "online"
  BY <1>3, <1>4, <1>5, <1>7, <1>9 DEF Kept
<1>10. CASE pk.ctrl # "close" /\ s.state # "online"
  BY <1>3, <1>4, <1>7, <1>10
<1> QED
  BY <1>8, <1>9, <1>10

LEMMA AfterUnpackType ==
  ASSUME NEW c \in Conn, NEW chunks \in Seq(Chunk)
  PROVE  AfterUnpack(c, chunks) \in Conn /\ Kept(c, AfterUnpack(c, chunks))
         /\ AfterUnpack(c, chunks).out = c.out
<1> DEFINE asks == \E i \in DOMAIN Skipped(c, chunks) : ~IsSeqInBackroom(chunks[i].seq, c.ack)
           k == [c.construct EXCEPT !.resend = c.construct.resend \/ asks]
           n == IF NextInSequence(c, chunks) = {} THEN c.ack ELSE SeqAfter(c.ack)
<1>1. n \in Seqs
  BY SeqAfterType DEF Conn
<1>2. k \in Constructs
  <2>1. c.construct \in Constructs
    BY DEF Conn, Constructs
  <2>2. (c.construct.resend \/ asks) \in BOOLEAN
    OBVIOUS
  <2> HIDE DEF asks
  <2> QED
    BY <2>1, <2>2 DEF Constructs
<1>3. AfterUnpack(c, chunks) = [c EXCEPT !.ack = n, !.construct = k]
  BY DEF AfterUnpack, Conn
<1> HIDE DEF k, n
<1> QED
  BY <1>1, <1>2, <1>3 DEF Conn, Constructs, Kept

LEMMA UnpackChunkType ==
  ASSUME NEW c \in Conn, NEW ids \in SUBSET [stream : Nat, n : Nat], NEW chunk \in Chunk,
         NEW r, r = [conn |-> c, ids |-> ids]
  PROVE  /\ UnpackChunk(r, chunk).conn \in Conn /\ Kept(c, UnpackChunk(r, chunk).conn)
         /\ UnpackChunk(r, chunk) \in [conn : Conn, ids : SUBSET [stream : Nat, n : Nat]]
<1>1. <<chunk>> \in Seq(Chunk)
  OBVIOUS
<1>2. Range(Unpacked(c, <<chunk>>)) \subseteq [stream : Nat, n : Nat]
  <2> DEFINE hit == NextInSequence(c, <<chunk>>)
  <2>1. hit \subseteq {1}
    BY DEF NextInSequence
  <2>2. CASE hit = {}
    BY <2>2 DEF Unpacked, Range
  <2>3. CASE hit # {}
    <3>1. Min(hit) = 1
      <4>1. hit \in SUBSET Nat
        BY <2>1
      <4> HIDE DEF hit
      <4> QED
        BY <2>1, <2>3, <4>1, MinType
    <3>2. Unpacked(c, <<chunk>>) = <<chunk.id>>
      BY <2>3, <3>1 DEF Unpacked
    <3> QED
      BY <3>2 DEF Range, Chunk
  <2> QED
    BY <2>2, <2>3
<1>3. AfterUnpack(c, <<chunk>>) \in Conn /\ Kept(c, AfterUnpack(c, <<chunk>>))
  BY <1>1, AfterUnpackType
<1> QED
  BY <1>2, <1>3 DEF UnpackChunk

LEMMA UnpackAllType ==
  ASSUME NEW c \in Conn, NEW chunks \in Seq(Chunk)
  PROVE  UnpackAll(c, chunks).conn \in Conn /\ Kept(c, UnpackAll(c, chunks).conn)
<1> DEFINE L == Len(chunks)
           first == [conn |-> c, ids |-> {}]
           K == {d \in [conn : Conn, ids : SUBSET [stream : Nat, n : Nat]] : Kept(c, d.conn)}
           H == [p \in K \X (1..L) |-> UnpackChunk(p[1], chunks[p[2]])]
           r[n \in 0..L] == IF n = 0 THEN first ELSE UnpackChunk(r[n - 1], chunks[n])
<1>1. L \in Nat /\ \A n \in 1..L : chunks[n] \in Chunk
  OBVIOUS
<1>2. first \in K
  BY DEF Kept
<1>3. \A d \in K, n \in 1..L : UnpackChunk(d, chunks[n]) \in K
  <2> SUFFICES ASSUME NEW d \in K, NEW n \in 1..L PROVE UnpackChunk(d, chunks[n]) \in K
    OBVIOUS
  <2> HIDE DEF L
  <2>1. d = [conn |-> d.conn, ids |-> d.ids]
    OBVIOUS
  <2>2. UnpackChunk(d, chunks[n]) \in [conn : Conn, ids : SUBSET [stream : Nat, n : Nat]]
        /\ Kept(d.conn, UnpackChunk(d, chunks[n]).conn)
    BY <1>1, <2>1, UnpackChunkType
  <2> QED
    BY <2>2 DEF Kept
<1>4. UnpackAll(c, chunks) = r[L]
  BY DEF UnpackAll
<1> HIDE DEF K, L, first
<1>5. H \in [K \X (1..L) -> K]
  BY <1>3
<1>6. PICK g \in [0..L -> K] : Runs(g, L, first, H)
  <2> HIDE DEF H
  <2> QED
    BY <1>1, <1>2, <1>5, RunExists
<1>7. g = [n \in 0..L |-> IF n = 0 THEN first ELSE UnpackChunk(g[n - 1], chunks[n])]
  <2>1. \A n \in 0..L : g[n] = IF n = 0 THEN first ELSE UnpackChunk(g[n - 1], chunks[n])
    <3> SUFFICES ASSUME NEW n \in 0..L, n # 0 PROVE g[n] = UnpackChunk(g[n - 1], chunks[n])
      BY <1>6 DEF Runs
    <3>1. n \in 1..L /\ n - 1 \in 0..L
      BY <1>1
    <3>2. g[n] = H[<<g[n - 1], n>>]
      BY <1>6, <3>1 DEF Runs
    <3>3. <<g[n - 1], n>> \in K \X (1..L)
      BY <1>6, <3>1
    <3> QED
      BY <3>2, <3>3
  <2> QED
    BY <2>1, <1>6
<1>8. r = [n \in 0..L |-> IF n = 0 THEN first ELSE UnpackChunk(r[n - 1], chunks[n])]
  BY <1>7
<1> HIDE DEF r
<1>9. \A n \in 0..L : n \in {i \in 0..L : r[i] \in K}
  <2>1. 0 \in {i \in 0..L : r[i] \in K}
    BY <1>1, <1>2, <1>8
  <2>2. ASSUME NEW n \in 1..L, n - 1 \in {i \in 0..L : r[i] \in K}
        PROVE  n \in {i \in 0..L : r[i] \in K}
    <3>1. n \in 0..L /\ n # 0
      BY <1>1
    <3>2. r[n] = UnpackChunk(r[n - 1], chunks[n])
      BY <1>8, <3>1
    <3> QED
      BY <3>1, <3>2, <2>2, <1>3
  <2> QED
    BY <1>1, <2>1, <2>2, Induction
<1>10. r[L] \in K
  BY <1>1, <1>9
<1> QED
  BY <1>4, <1>10 DEF K

LEMMA TimedOutType ==
  ASSUME NEW c \in Conn
  PROVE  /\ TimedOut(c) \in Conn /\ TimedOut(c).out = c.out /\ TimedOut(c).state = "error"
         /\ TimedOut(c).protected = c.protected
BY DEF TimedOut, Conn, States

LEMMA UpdatedType ==
  ASSUME NEW c \in Conn, NEW resend \in BOOLEAN, NEW idle \in {"no", "late", "idle"}
  PROVE  Updated(c, resend, idle) \in Conn /\ Updated(c, resend, idle).state = c.state
<1> DEFINE r == IF resend /\ c.buffer # <<>> THEN ResendChunk(c, Head(c.buffer)) ELSE c
           k == [r EXCEPT !.timedOut = FALSE]
<1>1. r \in Conn /\ Kept(c, r)
  <2>1. CASE resend /\ c.buffer # <<>>
    <3>1. Head(c.buffer) \in Chunk
      BY <2>1 DEF Conn
    <3> QED
      BY <2>1, <3>1, ResendChunkType
  <2>2. CASE ~(resend /\ c.buffer # <<>>)
    BY <2>2 DEF Kept
  <2> QED
    BY <2>1, <2>2
<1> HIDE DEF r
<1>2. k \in Conn /\ k.state = c.state
  BY <1>1 DEF Conn, Kept
<1> HIDE DEF k
<1>3. Flush(k) \in Conn /\ Flush(k).state = c.state
  BY <1>2, FlushType DEF Kept
<1>4. SendControl(k, "keepalive") \in Conn /\ SendControl(k, "keepalive").state = c.state
  BY <1>2, SendControlType DEF Kept, Ctrls
<1>5. SendControl(k, "connect") \in Conn /\ SendControl(k, "connect").state = c.state
  BY <1>2, SendControlType DEF Kept, Ctrls
<1>6. Updated(c, resend, idle) \in {k, Flush(k), SendControl(k, "keepalive"),
                                    SendControl(k, "connect"), c}
  BY DEF Updated, r, k
<1> QED
  BY <1>2, <1>3, <1>4, <1>5, <1>6

-----------------------------------------------------------------------------
(* The network. *)

LEMMA PostType ==
  ASSUME NEW packets \in SUBSET Packets, NEW underway \in SUBSET Packets,
         Post(packets, underway)
  PROVE  net' \subseteq Packets
BY DEF Post

LEMMA PacketsType ==
  ASSUME NEW a \in Addrs, NEW c \in Conn, NEW msg \in Ctrls
  PROVE  ToServer(a, c) \subseteq Packets /\ ToClient(a, c) \subseteq Packets
         /\ Reply(a, msg) \subseteq Packets
<1>1. ToServer(a, c) \subseteq Packets
  <2> SUFFICES ASSUME NEW pk \in c.out
               PROVE  [to |-> "server", addr |-> a,
                       token |-> client[a].state # "connect" \/ c.state = "online",
                       ctrl |-> pk.ctrl, ack |-> pk.ack, resend |-> pk.resend,
                       chunks |-> pk.chunks] \in Packets
    BY DEF ToServer
  <2>1. pk \in Sent
    BY DEF Conn
  <2>2. (client[a].state # "connect" \/ c.state = "online") \in BOOLEAN
    OBVIOUS
  <2> QED
    BY <2>1, <2>2 DEF Sent, Packets
<1>2. \A d \in Conn : ToClient(a, d) \subseteq Packets
  <2> SUFFICES ASSUME NEW d \in Conn, NEW pk \in d.out
               PROVE  [to |-> "client", addr |-> a, token |-> TRUE, ctrl |-> pk.ctrl,
                       ack |-> pk.ack, resend |-> pk.resend, chunks |-> pk.chunks] \in Packets
    BY DEF ToClient
  <2>1. pk \in Sent
    BY DEF Conn
  <2> QED
    BY <2>1 DEF Sent, Packets
<1>3. Reply(a, msg) \subseteq Packets
  BY <1>2, OfflineType, SendControlType DEF Reply
<1> QED
  BY <1>1, <1>2, <1>3

LEMMA UnderwayType ==
  ASSUME net \subseteq Packets, NEW pk, NEW keep
  PROVE  Underway(pk, keep) \subseteq Packets
BY DEF Underway

-----------------------------------------------------------------------------
(* Steps that leave the slots alone. *)

LEMMA SlotsKept ==
  ASSUME IInv, UNCHANGED <<slot, peer, game, stream, streams>>,
         client' \in [Addrs -> Conn], \A a \in Addrs : client'[a].out = {},
         net' \subseteq Packets
  PROVE  IInv'
<1>1. IType'
  BY DEF IInv, IType
<1>2. Apart'
  BY DEF IInv, Apart, Live
<1>3. GameFollowsNet'
  BY DEF IInv, GameFollowsNet
<1>4. PerIp'
  BY DEF IInv, PerIp, Counted
<1> QED
  BY <1>1, <1>2, <1>3, <1>4 DEF IInv

LEMMA ClientStep ==
  ASSUME IInv, NEW a \in Addrs, NEW c \in Conn, NEW underway \in SUBSET Packets,
         SetClient(a, c, underway), UNCHANGED <<slot, peer, game, stream, streams>>
  PROVE  IInv'
<1>1. net' \subseteq Packets
  BY PostType, PacketsType DEF SetClient, Ctrls
<1>2. [c EXCEPT !.out = {}] \in Conn /\ [c EXCEPT !.out = {}].out = {}
  BY DEF Conn
<1>3. client \in [Addrs -> Conn] /\ \A b \in Addrs : client[b].out = {}
  BY DEF IInv, IType
<1>4. client' = [client EXCEPT ![a] = [c EXCEPT !.out = {}]]
  BY DEF SetClient
<1>5. client' \in [Addrs -> Conn] /\ \A b \in Addrs : client'[b].out = {}
  BY <1>2, <1>3, <1>4
<1> QED
  BY <1>1, <1>5, SlotsKept

-----------------------------------------------------------------------------
(* A step of one slot that takes nobody in. *)

\* a connection gets neither into use nor out of an error, nor under protection once it is in one
Follows(c, d) ==
  /\ d \in Conn /\ d.state # "connect"
  /\ d.state # "offline" => c.state # "offline"
  /\ d.state = "online" => c.state = "online"
  /\ d.state = "error" /\ d.protected /\ d.timedOut =>
       c.state = "online" \/ (c.protected /\ c.timedOut)

LEMMA SlotsFinite ==
  ASSUME NEW S \in SUBSET Slots
  PROVE  IsFiniteSet(S) /\ Cardinality(S) \in Nat
<1>1. MaxClients \in Nat /\ 1 \in Int
  BY SessionAssumption
<1>2. IsFiniteSet(1..MaxClients)
  BY <1>1, FS_Interval
<1>3. IsFiniteSet(S)
  BY <1>2, FS_Subset DEF Slots
<1> QED
  BY <1>3, FS_CardinalityType

LEMMA SlotStep ==
  ASSUME IInv, NEW s \in Slots, NEW d, Follows(slot[s], d),
         slot' = [slot EXCEPT ![s] = [d EXCEPT !.out = {}]],
         UNCHANGED <<client, peer>>,
         game' \in [Slots -> BOOLEAN], game'[s] <=> d.state # "offline",
         \A r \in Slots : r # s => game'[r] = game[r],
         net' \subseteq Packets,
         stream' \in [Slots -> 0..MaxStreams], streams' \in 0..MaxStreams
  PROVE  IInv'
<1> DEFINE e == [d EXCEPT !.out = {}]
<1>1. /\ e \in Conn /\ e.out = {} /\ e.state = d.state /\ e.timedOut = d.timedOut
      /\ e.protected = d.protected
  BY DEF Follows, Conn
<1>2. slot \in [Slots -> Conn] /\ slot' = [slot EXCEPT ![s] = e]
  BY DEF IInv, IType
<1> HIDE DEF e
<1>3. /\ slot' \in [Slots -> Conn] /\ slot'[s] = e
      /\ \A r \in Slots : r # s => slot'[r] = slot[r]
  BY <1>1, <1>2
<1>4. IType'
  BY <1>1, <1>3 DEF IInv, IType, Follows
<1>5. \A r \in Slots : Live(r)' => Live(r)
  BY <1>1, <1>3 DEF Live, Follows, Conn, States
<1>6. Apart'
  BY <1>5 DEF IInv, Apart
<1>7. GameFollowsNet'
  BY <1>1, <1>3 DEF IInv, GameFollowsNet
<1>8. ASSUME NEW a \in Addrs
      PROVE  Cardinality({r \in Slots : Counted(r, a)'}) <= MaxClientsPerIp
  <2> DEFINE now == {r \in Slots : Counted(r, a)}
             next == {r \in Slots : Counted(r, a)'}
  <2>1. \A r \in Slots : Counted(r, a)' => Counted(r, a)
    BY <1>1, <1>3 DEF Counted, Follows, Conn, States, IInv, IType
  <2>2. next \subseteq now /\ now \in SUBSET Slots /\ next \in SUBSET Slots
    BY <2>1
  <2>3. Cardinality(now) <= MaxClientsPerIp
    BY DEF IInv, PerIp
  <2> HIDE DEF now, next
  <2>4. Cardinality(next) <= Cardinality(now) /\ Cardinality(now) \in Nat
        /\ Cardinality(next) \in Nat
    BY <2>2, SlotsFinite, FS_Subset
  <2>5. Cardinality(next) <= MaxClientsPerIp
    BY <2>3, <2>4, SessionAssumption
  <2> QED
    BY <2>5 DEF next
<1>9. PerIp'
  BY <1>8 DEF PerIp
<1> QED
  BY <1>4, <1>6, <1>7, <1>9 DEF IInv

\* a step in which the server keeps the client of the slot
LEMMA SlotServed ==
  ASSUME IInv, NEW s \in Slots, NEW d, Follows(slot[s], d),
         d.state # "offline" \/ slot[s].state = "offline",
         slot' = [slot EXCEPT ![s] = [d EXCEPT !.out = {}]],
         UNCHANGED <<client, peer, game>>, net' \subseteq Packets,
         stream' \in [Slots -> 0..MaxStreams], streams' \in 0..MaxStreams
  PROVE  IInv'
<1>1. game' \in [Slots -> BOOLEAN] /\ (game'[s] <=> d.state # "offline")
  BY DEF IInv, IType, GameFollowsNet, Follows
<1>2. \A r \in Slots : r # s => game'[r] = game[r]
  OBVIOUS
<1> QED
  BY <1>1, <1>2, SlotStep

LEMMA SetSlotType ==
  ASSUME IInv, NEW s \in Slots, game[s], NEW c \in Conn, NEW underway \in SUBSET Packets,
         SetSlot(s, c, underway)
  PROVE  net' \subseteq Packets /\ slot' = [slot EXCEPT ![s] = [c EXCEPT !.out = {}]]
<1>1. peer[s] \in Addrs
  BY DEF IInv, IType, GameFollowsNet
<1>2. ToClient(peer[s], c) \subseteq Packets
  BY <1>1, PacketsType DEF Ctrls
<1> QED
  BY <1>2, PostType DEF SetSlot

LEMMA FeedCheckedFollows ==
  ASSUME NEW c \in Conn, c.state = "online", NEW pk \in Packets, NEW d \in Conn, Kept(c, d)
  PROVE  /\ Follows(c, FeedChecked(d, pk)) /\ FeedChecked(d, pk).state # "offline"
         /\ pk.ctrl # "none" => FeedChecked(d, pk).out = d.out
<1>1. /\ Feed(d, pk) \in Conn /\ Feed(d, pk).state \in {"online", "error"}
      /\ pk.ctrl # "none" => Feed(d, pk).out = d.out
  BY FeedType DEF Kept
<1>2. FeedChecked(d, pk) \in {d, Feed(d, pk)}
  BY DEF FeedChecked
<1> QED
  BY <1>1, <1>2 DEF Follows, Kept

-----------------------------------------------------------------------------
(* The server receives. *)

LEMMA RejoinedType ==
  ASSUME IInv, NEW s \in Slots
  PROVE  Rejoined(s) \in Conn /\ Kept(slot[s], Rejoined(s))
<1> DEFINE c == ResetRejoin(slot[s])
           id == [stream |-> streams + 1, n |-> 1]
<1>1. c \in Conn /\ Kept(slot[s], c)
  BY ResetType DEF IInv, IType
<1>2. id \in [stream : Nat, n : Nat]
  BY SessionAssumption DEF IInv, IType
<1> HIDE DEF c, id
<1>3. QueueChunk(c, id) \in Conn /\ Kept(c, QueueChunk(c, id))
  BY <1>1, <1>2, QueueChunkType
<1>4. Flush(QueueChunk(c, id)) \in Conn
      /\ Kept(QueueChunk(c, id), Flush(QueueChunk(c, id)))
  BY <1>3, FlushType
<1>5. Rejoined(s) = Flush(QueueChunk(c, id))
  BY DEF Rejoined, c, id
<1> QED
  BY <1>1, <1>3, <1>4, <1>5 DEF Kept

LEMMA StartStreamType ==
  ASSUME IInv, NEW s \in Slots, StartStream(s), streams < MaxStreams
  PROVE  stream' \in [Slots -> 0..MaxStreams] /\ streams' \in 0..MaxStreams
BY SessionAssumption DEF IInv, IType, StartStream

LEMMA RecvSlotStep ==
  ASSUME IInv, NEW s \in Slots, Live(s), NEW pk \in Packets,
         NEW underway \in SUBSET Packets, pk.ctrl = "accept" => streams < MaxStreams,
         RecvSlot(s, pk, underway), UNCHANGED client
  PROVE  IInv'
<1>1. slot[s] \in Conn /\ slot[s].state = "online" /\ slot[s].out = {} /\ game[s]
  BY DEF IInv, IType, GameFollowsNet, Live, Conn, States
<1>2. UNCHANGED <<client, peer, game>> /\ pk.addr \in Addrs
  BY DEF RecvSlot, Packets
<1>3. CASE pk.ctrl = "connect"
  <2> DEFINE d == FeedChecked(slot[s], pk)
  <2>1. Follows(slot[s], d) /\ d.state # "offline" /\ d.out = {}
    BY <1>1, <1>3, FeedCheckedFollows DEF Kept
  <2>2. /\ slot' = [slot EXCEPT ![s] = d]
        /\ Post(Reply(pk.addr, "connectAccept"), underway)
        /\ UNCHANGED <<stream, streams>>
    BY <1>3 DEF RecvSlot
  <2> HIDE DEF d
  <2>3. d = [d EXCEPT !.out = {}]
    BY <2>1 DEF Follows, Conn
  <2>4. net' \subseteq Packets
    BY <1>2, <2>2, PacketsType, OfflineType, PostType DEF Ctrls
  <2>5. stream' \in [Slots -> 0..MaxStreams] /\ streams' \in 0..MaxStreams
    BY <2>2 DEF IInv, IType
  <2> QED
    BY <1>2, <2>1, <2>2, <2>3, <2>4, <2>5, SlotServed
<1>4. CASE pk.ctrl = "accept"
  <2> DEFINE d == FeedChecked(Rejoined(s), pk)
  <2>1. Follows(slot[s], d) /\ d.state # "offline"
    BY <1>1, RejoinedType, FeedCheckedFollows
  <2>2. SetSlot(s, d, underway) /\ StartStream(s)
    BY <1>4 DEF RecvSlot
  <2> HIDE DEF d
  <2>3. net' \subseteq Packets /\ slot' = [slot EXCEPT ![s] = [d EXCEPT !.out = {}]]
    BY <1>1, <2>1, <2>2, SetSlotType DEF Follows
  <2>4. stream' \in [Slots -> 0..MaxStreams] /\ streams' \in 0..MaxStreams
    BY <1>4, <2>2, StartStreamType
  <2> QED
    BY <1>2, <2>1, <2>3, <2>4, SlotServed
<1>5. CASE pk.ctrl \notin {"connect", "accept"}
  <2> DEFINE d == FeedChecked(slot[s], pk)
  <2>1. Follows(slot[s], d) /\ d.state # "offline"
    BY <1>1, FeedCheckedFollows DEF Kept
  <2>2. SetSlot(s, d, underway) /\ UNCHANGED <<stream, streams>>
    BY <1>5 DEF RecvSlot
  <2> HIDE DEF d
  <2>3. net' \subseteq Packets /\ slot' = [slot EXCEPT ![s] = [d EXCEPT !.out = {}]]
    BY <1>1, <2>1, <2>2, SetSlotType DEF Follows
  <2>4. stream' \in [Slots -> 0..MaxStreams] /\ streams' \in 0..MaxStreams
    BY <2>2 DEF IInv, IType
  <2> QED
    BY <1>2, <2>1, <2>3, <2>4, SlotServed
<1> QED
  BY <1>3, <1>4, <1>5

(* The new client goes to a free slot, and is the one more that the limit allows. *)
LEMMA AcceptStep ==
  ASSUME IInv, NEW a \in Addrs, SlotsOf(a) = {}, NEW m \in Slots,
         slot[m].state = "offline",
         Cardinality({s \in Slots : Counted(s, a)}) + 1 <= MaxClientsPerIp,
         slot' = [slot EXCEPT ![m] = Accepted(@)], peer' = [peer EXCEPT ![m] = a],
         game' = [game EXCEPT ![m] = TRUE], UNCHANGED client, net' \subseteq Packets,
         stream' \in [Slots -> 0..MaxStreams], streams' \in 0..MaxStreams
  PROVE  IInv'
<1> DEFINE e == Accepted(slot[m])
<1>1. e \in Conn /\ e.out = {} /\ e.state = "online" /\ slot' = [slot EXCEPT ![m] = e]
  BY ResetType DEF IInv, IType
<1> HIDE DEF e
<1>2. /\ slot' \in [Slots -> Conn] /\ slot'[m] = e
      /\ \A r \in Slots : r # m => slot'[r] = slot[r]
  BY <1>1 DEF IInv, IType
<1>3. /\ peer' \in [Slots -> Addrs \cup {NoAddr}] /\ peer'[m] = a
      /\ \A r \in Slots : r # m => peer'[r] = peer[r]
  BY DEF IInv, IType
<1>4. /\ game' \in [Slots -> BOOLEAN] /\ game'[m]
      /\ \A r \in Slots : r # m => game'[r] = game[r]
  BY DEF IInv, IType
<1>5. IType'
  BY <1>1, <1>2, <1>3, <1>4, SessionAssumption DEF IInv, IType
<1>6. Apart'
  <2>1. \A r \in Slots : r # m /\ Live(r)' => Live(r) /\ peer[r] # a /\ peer'[r] = peer[r]
    BY <1>2, <1>3 DEF Live, SlotsOf
  <2> QED
    BY <1>3, <2>1 DEF IInv, Apart
<1>7. GameFollowsNet'
  BY <1>1, <1>2, <1>4 DEF IInv, GameFollowsNet
<1>8. ASSUME NEW b \in Addrs
      PROVE  Cardinality({r \in Slots : Counted(r, b)'}) <= MaxClientsPerIp
  <2> DEFINE now == {r \in Slots : Counted(r, b)}
             next == {r \in Slots : Counted(r, b)'}
  <2>1. \A r \in Slots : r # m => (Counted(r, b)' => Counted(r, b))
    BY <1>2, <1>3 DEF Counted
  <2>2. now \in SUBSET Slots /\ next \in SUBSET Slots /\ next \subseteq now \cup {m}
    BY <2>1
  <2>3. Cardinality(now) <= MaxClientsPerIp
    BY DEF IInv, PerIp
  <2>4. m \in next => Cardinality(now) + 1 <= MaxClientsPerIp
    <3>1. m \in next => Ip[b] = Ip[a]
      BY <1>3 DEF Counted
    <3>2. Ip[b] = Ip[a] => now = {r \in Slots : Counted(r, a)}
      BY DEF Counted
    <3> QED
      BY <3>1, <3>2
  <2> HIDE DEF now, next
  <2>5. Cardinality(now) \in Nat /\ Cardinality(next) \in Nat /\ MaxClientsPerIp \in Nat
    BY <2>2, SlotsFinite, SessionAssumption
  <2>6. Cardinality(next) <= MaxClientsPerIp
    <3>1. CASE m \in next
      <4>1. /\ IsFiniteSet(now \cup {m})
            /\ Cardinality(now \cup {m}) \in {Cardinality(now), Cardinality(now) + 1}
        BY <2>2, SlotsFinite, FS_AddElement
      <4>2. Cardinality(next) <= Cardinality(now \cup {m})
        BY <2>2, <4>1, FS_Subset
      <4> QED
        BY <2>4, <2>5, <3>1, <4>1, <4>2
    <3>2. CASE m \notin next
      <4>1. next \in SUBSET now
        BY <2>2, <3>2
      <4>2. Cardinality(next) <= Cardinality(now)
        BY <2>2, <4>1, SlotsFinite, FS_Subset
      <4> QED
        BY <2>3, <2>5, <4>2
    <3> QED
      BY <3>1, <3>2
  <2> QED
    BY <2>6 DEF next
<1>9. PerIp'
  BY <1>8 DEF PerIp
<1> QED
  BY <1>5, <1>6, <1>7, <1>9 DEF IInv

LEMMA TryAcceptStep ==
  ASSUME IInv, NEW a \in Addrs, SlotsOf(a) = {}, NEW limited \in BOOLEAN,
         NEW underway \in SUBSET Packets, streams < MaxStreams,
         TryAccept(a, limited, underway), UNCHANGED client
  PROVE  IInv'
<1> DEFINE free == {s \in Slots : slot[s].state = "offline"}
           full == Cardinality({s \in Slots : Counted(s, a)}) + 1 > MaxClientsPerIp
<1>1. CASE limited \/ full \/ free = {}
  <2>1. Post(Reply(a, "close"), underway) /\ UNCHANGED <<slot, peer, game, stream, streams>>
    BY <1>1 DEF TryAccept
  <2>2. net' \subseteq Packets
    BY <2>1, PacketsType, OfflineType, PostType DEF Ctrls
  <2>3. client' \in [Addrs -> Conn] /\ \A b \in Addrs : client'[b].out = {}
    BY DEF IInv, IType
  <2> QED
    BY <2>1, <2>2, <2>3, SlotsKept
<1>2. CASE ~(limited \/ full \/ free = {})
  <2> DEFINE m == Min(free)
  <2>1. /\ slot' = [slot EXCEPT ![m] = Accepted(@)] /\ peer' = [peer EXCEPT ![m] = a]
        /\ game' = [game EXCEPT ![m] = TRUE] /\ StartStream(m) /\ Post({}, underway)
    BY <1>2 DEF TryAccept
  <2>2. m \in Slots /\ slot[m].state = "offline"
    <3>1. free \in SUBSET Nat /\ free # {}
      BY <1>2 DEF Slots
    <3>2. m \in free
      <4> HIDE DEF free
      <4> QED
        BY <3>1, MinType
    <3> QED
      BY <3>2
  <2> HIDE DEF m
  <2>3. net' \subseteq Packets
    BY <2>1, PostType
  <2>4. stream' \in [Slots -> 0..MaxStreams] /\ streams' \in 0..MaxStreams
    BY <2>1, <2>2, StartStreamType
  <2>5. Cardinality({s \in Slots : Counted(s, a)}) + 1 <= MaxClientsPerIp
    <3> DEFINE now == {s \in Slots : Counted(s, a)}
    <3>1. Cardinality(now) \in Nat
      <4>1. now \in SUBSET Slots
        OBVIOUS
      <4> HIDE DEF now
      <4> QED
        BY <4>1, SlotsFinite
    <3> QED
      BY <1>2, <3>1, SessionAssumption
  <2> QED
    BY <2>1, <2>2, <2>3, <2>4, <2>5, AcceptStep
<1> QED
  BY <1>1, <1>2

LEMMA ServerRecvStep ==
  ASSUME IInv, NEW pk \in net, NEW keep, NEW limited \in BOOLEAN,
         ServerRecv(pk, keep, limited)
  PROVE  IInv'
<1>1. net \subseteq Packets /\ pk \in Packets /\ Underway(pk, keep) \in SUBSET Packets
  BY UnderwayType DEF IInv, IType
<1>2. pk.addr \in Addrs /\ UNCHANGED client
  BY <1>1 DEF Packets, ServerRecv
<1>3. CASE SlotsOf(pk.addr) # {}
  <2> DEFINE s == Min(SlotsOf(pk.addr))
  <2>1. s \in SlotsOf(pk.addr)
    <3>1. SlotsOf(pk.addr) \in SUBSET Nat
      BY DEF SlotsOf, Slots
    <3> QED
      BY <1>3, <3>1, MinType
  <2>2. RecvSlot(s, pk, Underway(pk, keep)) /\ (pk.ctrl = "accept" => streams < MaxStreams)
    BY <1>3 DEF ServerRecv
  <2>3. s \in Slots /\ Live(s)
    BY <2>1 DEF SlotsOf
  <2> HIDE DEF s
  <2> QED
    BY <1>1, <1>2, <2>2, <2>3, RecvSlotStep
<1>4. CASE SlotsOf(pk.addr) = {}
  <2>1. RecvUnknown(pk, limited, Underway(pk, keep))
        /\ (pk.ctrl = "accept" => streams < MaxStreams)
    BY <1>4 DEF ServerRecv
  <2>2. CASE pk.ctrl = "accept"
    <3>1. TryAccept(pk.addr, limited, Underway(pk, keep))
      BY <2>1, <2>2 DEF RecvUnknown
    <3> QED
      BY <1>1, <1>2, <1>4, <2>1, <2>2, <3>1, TryAcceptStep
  <2>3. CASE pk.ctrl # "accept"
    <3>1. UNCHANGED <<slot, peer, game, stream, streams>>
      BY <2>1, <2>3 DEF RecvUnknown
    <3>2. \E packets \in {{}, Reply(pk.addr, "connectAccept")} :
             Post(packets, Underway(pk, keep))
      BY <2>1, <2>3 DEF RecvUnknown
    <3>3. Reply(pk.addr, "connectAccept") \subseteq Packets
      BY <1>2, PacketsType, OfflineType DEF Ctrls
    <3>4. net' \subseteq Packets
      BY <1>1, <3>2, <3>3, PostType
    <3>5. client' \in [Addrs -> Conn] /\ \A b \in Addrs : client'[b].out = {}
      BY <1>2 DEF IInv, IType
    <3> QED
      BY <3>1, <3>4, <3>5, SlotsKept
  <2> QED
    BY <2>2, <2>3
<1> QED
  BY <1>3, <1>4

-----------------------------------------------------------------------------
(* What the clients do. *)

LEMMA ConnectStep == ASSUME IInv, NEW a \in Addrs, Connect(a) PROVE IInv'
<1> DEFINE o == [Reset(client[a]) EXCEPT !.state = "connect"]
<1>1. o \in Conn
  <2>1. Reset(client[a]) \in Conn
    BY ResetType DEF IInv, IType
  <2> QED
    BY <2>1 DEF Conn, States
<1>2. SetClient(a, SendControl(o, "connect"), net)
  BY DEF Connect
<1> HIDE DEF o
<1>3. SendControl(o, "connect") \in Conn
  BY <1>1, SendControlType DEF Ctrls
<1>4. net \in SUBSET Packets /\ UNCHANGED <<slot, peer, game, stream, streams>>
  BY DEF IInv, IType, Connect
<1> QED
  BY <1>2, <1>3, <1>4, ClientStep

LEMMA ClientUpdateStep ==
  ASSUME IInv, NEW a \in Addrs, NEW idle \in {"late", "idle"}, ClientUpdate(a, idle)
  PROVE  IInv'
<1>1. client[a] \in Conn /\ net \in SUBSET Packets
  BY DEF IInv, IType
<1>2. Updated(client[a], FALSE, idle) \in Conn
  BY <1>1, UpdatedType
<1> QED
  BY <1>1, <1>2, ClientStep DEF ClientUpdate, history

LEMMA ClientUpdateEndsStep == ASSUME IInv, NEW a \in Addrs, ClientUpdateEnds(a) PROVE IInv'
<1>1. client[a] \in Conn /\ net \in SUBSET Packets
  BY DEF IInv, IType
<1> DEFINE c == IF client[a].state = "error" THEN client[a] ELSE TimedOut(client[a])
<1>2. c \in Conn
  BY <1>1, TimedOutType
<1>3. SetClient(a, Disconnect(c), net) /\ UNCHANGED <<slot, peer, game, stream, streams>>
  BY DEF ClientUpdateEnds, history
<1> HIDE DEF c
<1>4. Disconnect(c) \in Conn
  BY <1>2, DisconnectType
<1> QED
  BY <1>1, <1>3, <1>4, ClientStep

LEMMA ClientLeavesStep ==
  ASSUME IInv, NEW a \in Addrs, NEW crash \in BOOLEAN, ClientLeaves(a, crash)
  PROVE  IInv'
<1>1. client[a] \in Conn /\ net \in SUBSET Packets
  BY DEF IInv, IType
<1> DEFINE c == IF crash THEN Reset(client[a]) ELSE Disconnect(client[a])
<1>2. c \in Conn
  BY <1>1, ResetType, DisconnectType
<1>3. SetClient(a, c, net) /\ UNCHANGED <<slot, peer, game, stream, streams>>
  BY DEF ClientLeaves, history
<1> HIDE DEF c
<1> QED
  BY <1>1, <1>2, <1>3, ClientStep

LEMMA ClientRecvStep ==
  ASSUME IInv, NEW a \in Addrs, NEW pk \in net, NEW keep, ClientRecv(a, pk, keep)
  PROVE  IInv'
<1>1. client[a] \in Conn /\ pk \in Packets /\ Underway(pk, keep) \in SUBSET Packets
  BY UnderwayType DEF IInv, IType
<1>2. UNCHANGED <<slot, peer, game, stream, streams>>
  BY DEF ClientRecv
<1> DEFINE c == UnpackAll(Feed(client[a], pk), pk.chunks).conn
<1>3. c \in Conn
  <2>1. Feed(client[a], pk) \in Conn
    BY <1>1, FeedType
  <2>2. pk.chunks \in Seq(Chunk)
    BY <1>1 DEF Packets
  <2> QED
    BY <2>1, <2>2, UnpackAllType
<1>4. CASE AckIsValid(client[a], pk.ack)
  <2>1. SetClient(a, c, Underway(pk, keep))
    BY <1>4 DEF ClientRecv
  <2> HIDE DEF c
  <2> QED
    BY <1>1, <1>2, <1>3, <2>1, ClientStep
<1>5. CASE ~AckIsValid(client[a], pk.ack)
  <2>1. net' = Underway(pk, keep) /\ UNCHANGED client
    BY <1>5 DEF ClientRecv
  <2>2. client' \in [Addrs -> Conn] /\ \A b \in Addrs : client'[b].out = {}
    BY <2>1 DEF IInv, IType
  <2> QED
    BY <1>1, <1>2, <2>1, <2>2, SlotsKept
<1> QED
  BY <1>4, <1>5

-----------------------------------------------------------------------------
(* What the server does with a slot. *)

LEMMA DropStep ==
  ASSUME IInv, NEW s \in Slots, game[s], NEW c \in Conn, Drop(s, c),
         UNCHANGED <<client, peer, history>>
  PROVE  IInv'
<1> DEFINE d == Disconnect(c)
<1>1. d \in Conn /\ d.state = "offline"
  BY DisconnectType
<1>2. SetSlot(s, d, net) /\ game' = [game EXCEPT ![s] = FALSE]
  BY DEF Drop
<1> HIDE DEF d
<1>3. net \in SUBSET Packets
  BY DEF IInv, IType
<1>4. net' \subseteq Packets /\ slot' = [slot EXCEPT ![s] = [d EXCEPT !.out = {}]]
  BY <1>1, <1>2, <1>3, SetSlotType
<1>5. Follows(slot[s], d)
  BY <1>1 DEF Follows
<1>6. /\ game' \in [Slots -> BOOLEAN] /\ ~game'[s]
      /\ \A r \in Slots : r # s => game'[r] = game[r]
  BY <1>2 DEF IInv, IType
<1>7. /\ UNCHANGED <<client, peer>> /\ stream' \in [Slots -> 0..MaxStreams]
      /\ streams' \in 0..MaxStreams
  BY DEF IInv, IType, history
<1> QED
  BY <1>1, <1>4, <1>5, <1>6, <1>7, SlotStep

LEMMA EndOfUpdateStep ==
  ASSUME IInv, NEW s \in Slots, NEW c \in Conn, game[s], EndOfUpdate(s, c),
         Follows(slot[s], c), c.state # "offline", UNCHANGED <<client, peer, history>>
  PROVE  IInv'
<1> DEFINE ends == c.state = "error" /\ (~c.protected \/ ~c.timedOut)
<1>1. CASE ends
  BY <1>1, DropStep DEF EndOfUpdate
<1>2. CASE ~ends
  <2>1. SetSlot(s, c, net) /\ UNCHANGED game
    BY <1>2 DEF EndOfUpdate
  <2>2. net \in SUBSET Packets
    BY DEF IInv, IType
  <2>3. net' \subseteq Packets /\ slot' = [slot EXCEPT ![s] = [c EXCEPT !.out = {}]]
    BY <2>1, <2>2, SetSlotType
  <2>4. /\ UNCHANGED <<client, peer, game>> /\ stream' \in [Slots -> 0..MaxStreams]
        /\ streams' \in 0..MaxStreams
    BY <2>1 DEF IInv, IType, history
  <2> QED
    BY <2>3, <2>4, SlotServed
<1> QED
  BY <1>1, <1>2

LEMMA SlotUpdateStep ==
  ASSUME IInv, NEW s \in Slots, NEW resend \in BOOLEAN, NEW idle \in {"no", "late", "idle"},
         SlotUpdate(s, resend, idle)
  PROVE  IInv'
<1> DEFINE c == Updated(slot[s], resend, idle)
<1>1. slot[s] \in Conn /\ slot[s].state = "online" /\ game[s]
  BY DEF IInv, IType, GameFollowsNet, SlotUpdate
<1>2. c \in Conn /\ c.state = "online"
  BY <1>1, UpdatedType
<1>3. EndOfUpdate(s, c) /\ UNCHANGED <<client, peer, history>>
  BY DEF SlotUpdate
<1> HIDE DEF c
<1>4. Follows(slot[s], c)
  BY <1>1, <1>2 DEF Follows
<1> QED
  BY <1>1, <1>2, <1>3, <1>4, EndOfUpdateStep

LEMMA SlotTimeoutStep == ASSUME IInv, NEW s \in Slots, SlotTimeout(s) PROVE IInv'
<1> DEFINE c == TimedOut(slot[s])
<1>1. slot[s] \in Conn /\ slot[s].state = "online" /\ game[s]
  BY DEF IInv, IType, GameFollowsNet, SlotTimeout
<1>2. c \in Conn /\ c.state = "error"
  BY <1>1, TimedOutType
<1>3. EndOfUpdate(s, c) /\ UNCHANGED <<client, peer, history>>
  BY DEF SlotTimeout
<1> HIDE DEF c
<1>4. Follows(slot[s], c)
  BY <1>1, <1>2 DEF Follows
<1> QED
  BY <1>1, <1>2, <1>3, <1>4, EndOfUpdateStep

LEMMA SlotErrorStep ==
  ASSUME IInv, NEW s \in Slots, NEW over \in BOOLEAN, SlotError(s, over) PROVE IInv'
<1> DEFINE late == slot[s].timedOut /\ ~over
           c == [slot[s] EXCEPT !.timedOut = late]
<1>1. slot[s] \in Conn /\ slot[s].state = "error" /\ game[s] /\ late \in BOOLEAN
  BY DEF IInv, IType, GameFollowsNet, SlotError
<1>2. c \in Conn /\ c.state = "error" /\ (c.timedOut => slot[s].timedOut)
      /\ c.protected = slot[s].protected
  BY <1>1 DEF Conn
<1>3. EndOfUpdate(s, c) /\ UNCHANGED <<client, peer, history>>
  BY DEF SlotError
<1> HIDE DEF c
<1>4. Follows(slot[s], c)
  BY <1>1, <1>2 DEF Follows
<1> QED
  BY <1>1, <1>2, <1>3, <1>4, EndOfUpdateStep

LEMMA KickStep == ASSUME IInv, NEW s \in Slots, Kick(s) PROVE IInv'
<1>1. slot[s] \in Conn
  BY DEF IInv, IType
<1> QED
  BY <1>1, DropStep DEF Kick

LEMMA SendStep ==
  ASSUME IInv, NEW s \in Slots, NEW flush \in BOOLEAN, Send(s, flush) PROVE IInv'
<1> DEFINE id == [stream |-> stream[s], n |-> slot[s].seq + 1]
           q == QueueChunk(slot[s], id)
           d == IF flush THEN Flush(q) ELSE q
<1>1. slot[s] \in Conn /\ slot[s].state \notin {"connect", "offline"} /\ game[s]
  BY DEF IInv, IType, GameFollowsNet, Send
<1>2. id \in [stream : Nat, n : Nat]
  <2>1. stream[s] \in Nat
    BY SessionAssumption DEF IInv, IType
  <2>2. slot[s].seq \in Nat
    BY <1>1, ConnNat DEF Conn
  <2> QED
    BY <2>1, <2>2
<1>3. SetSlot(s, d, net) /\ UNCHANGED <<client, peer, game, history>>
  BY DEF Send
<1> HIDE DEF id
<1>4. q \in Conn /\ Kept(slot[s], q)
  BY <1>1, <1>2, QueueChunkType
<1> HIDE DEF q
<1>5. d \in Conn /\ Kept(slot[s], d)
  BY <1>4, FlushType DEF Kept
<1> HIDE DEF d
<1>6. Follows(slot[s], d) /\ d.state # "offline"
  BY <1>1, <1>5 DEF Follows, Kept
<1>7. net \in SUBSET Packets
  BY DEF IInv, IType
<1>8. net' \subseteq Packets /\ slot' = [slot EXCEPT ![s] = [d EXCEPT !.out = {}]]
  BY <1>1, <1>3, <1>5, <1>7, SetSlotType
<1>9. stream' \in [Slots -> 0..MaxStreams] /\ streams' \in 0..MaxStreams
  BY <1>3 DEF IInv, IType, history
<1> QED
  BY <1>3, <1>6, <1>8, <1>9, SlotServed

-----------------------------------------------------------------------------
(* Timeout protection. *)

LEMMA ResumedType ==
  ASSUME NEW c \in Conn, NEW o \in Conn
  PROVE  /\ Resumed(c, o) \in Conn /\ Resumed(c, o).out = c.out
         /\ Resumed(c, o).state = "online"
BY DEF Resumed, Conn, States

(* The slot that is taken back counts in place of the one it is taken from. *)
LEMMA ResumeStep ==
  ASSUME IInv, NEW o \in Slots, NEW s \in Slots, s # o, slot[o].state = "online",
         slot[s].state = "error",
         slot' = [slot EXCEPT ![s] = Resumed(@, slot[o]), ![o] = Reset(@)],
         peer' = [peer EXCEPT ![s] = peer[o]], game' = [game EXCEPT ![o] = FALSE],
         stream' = [stream EXCEPT ![s] = stream[o]], UNCHANGED <<client, net, streams>>
  PROVE  IInv'
<1> DEFINE e == Resumed(slot[s], slot[o])
           z == Reset(slot[o])
<1>1. /\ e \in Conn /\ e.out = {} /\ e.state = "online"
      /\ z \in Conn /\ z.out = {} /\ z.state = "offline"
      /\ slot' = [slot EXCEPT ![s] = e, ![o] = z]
  BY ResumedType, ResetType DEF IInv, IType
<1> HIDE DEF e, z
<1>2. /\ slot' \in [Slots -> Conn] /\ slot'[s] = e /\ slot'[o] = z
      /\ \A r \in Slots : r # s /\ r # o => slot'[r] = slot[r]
  BY <1>1 DEF IInv, IType
<1>3. /\ peer' \in [Slots -> Addrs \cup {NoAddr}] /\ peer'[s] = peer[o]
      /\ \A r \in Slots : r # s => peer'[r] = peer[r]
  BY DEF IInv, IType
<1>4. /\ game' \in [Slots -> BOOLEAN] /\ ~game'[o]
      /\ \A r \in Slots : r # o => game'[r] = game[r]
  BY DEF IInv, IType
<1>5. peer[o] # NoAddr
  BY DEF IInv, IType
<1>6. IType'
  <2>1. stream' \in [Slots -> 0..MaxStreams] /\ streams' \in 0..MaxStreams
    BY DEF IInv, IType
  <2>2. \A r \in Slots : slot'[r].out = {} /\ slot'[r].state # "connect"
    BY <1>1, <1>2 DEF IInv, IType
  <2>3. \A r \in Slots : peer'[r] = NoAddr => slot'[r].state = "offline"
    BY <1>1, <1>2, <1>3, <1>5 DEF IInv, IType
  <2> QED
    BY <1>2, <1>3, <1>4, <2>1, <2>2, <2>3 DEF IInv, IType
<1>7. Apart'
  <2>1. Live(o) /\ ~Live(o)'
    BY <1>1, <1>2 DEF Live
  <2>2. \A r \in Slots : r # s /\ Live(r)' =>
          Live(r) /\ r # o /\ peer'[r] = peer[r] /\ peer[r] # peer[o]
    <3> SUFFICES ASSUME NEW r \in Slots, r # s, Live(r)'
                 PROVE  Live(r) /\ r # o /\ peer'[r] = peer[r] /\ peer[r] # peer[o]
      OBVIOUS
    <3>1. r # o
      BY <2>1
    <3>2. Live(r) /\ peer'[r] = peer[r]
      BY <1>2, <1>3, <3>1 DEF Live
    <3>3. peer[r] # peer[o]
      BY <2>1, <3>1, <3>2 DEF IInv, Apart
    <3> QED
      BY <3>1, <3>2, <3>3
  <2> QED
    BY <1>3, <2>2 DEF IInv, Apart
<1>8. GameFollowsNet'
  BY <1>1, <1>2, <1>4 DEF IInv, GameFollowsNet
<1>9. ASSUME NEW a \in Addrs
      PROVE  Cardinality({r \in Slots : Counted(r, a)'}) <= MaxClientsPerIp
  <2> DEFINE now == {r \in Slots : Counted(r, a)}
             next == {r \in Slots : Counted(r, a)'}
  <2>1. \A r \in Slots : r # s => (Counted(r, a)' => Counted(r, a) /\ r # o)
    BY <1>1, <1>2, <1>3 DEF Counted
  <2>2. Counted(s, a)' => Counted(o, a)
    BY <1>3 DEF Counted
  <2>3. now \in SUBSET Slots /\ next \in SUBSET Slots /\ next \subseteq (now \ {o}) \cup {s}
    BY <2>1
  <2>4. s \in next => o \in now
    BY <2>2
  <2>5. s \notin next => next \subseteq now
    BY <2>1
  <2>6. Cardinality(now) <= MaxClientsPerIp
    BY DEF IInv, PerIp
  <2> HIDE DEF now, next
  <2>7. Cardinality(now) \in Nat /\ Cardinality(next) \in Nat /\ MaxClientsPerIp \in Nat
    BY <2>3, SlotsFinite, SessionAssumption
  <2>8. CASE s \in next
    <3> DEFINE rest == now \ {o}
    <3>1. IsFiniteSet(rest) /\ Cardinality(rest) = Cardinality(now) - 1
      BY <2>3, <2>4, <2>8, SlotsFinite, FS_RemoveElement
    <3> HIDE DEF rest
    <3>2. IsFiniteSet(rest \cup {s})
          /\ Cardinality(rest \cup {s}) \in {Cardinality(rest), Cardinality(rest) + 1}
      BY <3>1, FS_AddElement
    <3>3. Cardinality(next) <= Cardinality(rest \cup {s})
      BY <2>3, <3>2, FS_Subset DEF rest
    <3>4. Cardinality(next) <= MaxClientsPerIp
      BY <2>6, <2>7, <3>1, <3>2, <3>3
    <3> QED
      BY <3>4 DEF next
  <2>9. CASE s \notin next
    <3>1. next \in SUBSET now
      BY <2>5, <2>9
    <3>2. Cardinality(next) <= Cardinality(now)
      BY <2>3, <3>1, SlotsFinite, FS_Subset
    <3>3. Cardinality(next) <= MaxClientsPerIp
      BY <2>6, <2>7, <3>2
    <3> QED
      BY <3>3 DEF next
  <2> QED
    BY <2>8, <2>9
<1>10. PerIp'
  BY <1>9 DEF PerIp
<1> QED
  BY <1>6, <1>7, <1>8, <1>10 DEF IInv

LEMMA TimeoutStep == ASSUME IInv, NEW o \in Slots, Timeout(o) PROVE IInv'
<1>1. slot[o] \in Conn /\ slot[o].state = "online" /\ slot[o].out = {}
  BY DEF IInv, IType, Timeout
<1>2. UNCHANGED <<client, net, streams>>
  BY DEF Timeout
<1>3. CASE Claimable(o) = {}
  <2> DEFINE d == [slot[o] EXCEPT !.protected = TRUE]
  <2>1. d \in Conn /\ d.state = "online" /\ d.out = {}
    BY <1>1 DEF Conn
  <2>2. slot' = [slot EXCEPT ![o] = d] /\ UNCHANGED <<peer, game, stream>>
    BY <1>3 DEF Timeout
  <2> HIDE DEF d
  <2>3. d = [d EXCEPT !.out = {}]
    BY <2>1 DEF Conn
  <2>4. Follows(slot[o], d) /\ d.state # "offline"
    BY <1>1, <2>1 DEF Follows
  <2>5. /\ net' \subseteq Packets /\ stream' \in [Slots -> 0..MaxStreams]
        /\ streams' \in 0..MaxStreams
    BY <1>2, <2>2 DEF IInv, IType
  <2> QED
    BY <1>2, <2>2, <2>3, <2>4, <2>5, SlotServed
<1>4. CASE Claimable(o) # {}
  <2> DEFINE s == Min(Claimable(o))
  <2>1. s \in Claimable(o)
    <3>1. Claimable(o) \in SUBSET Nat
      BY DEF Claimable, Slots
    <3> QED
      BY <1>4, <3>1, MinType
  <2>2. /\ slot' = [slot EXCEPT ![s] = Resumed(@, slot[o]), ![o] = Reset(@)]
        /\ peer' = [peer EXCEPT ![s] = peer[o]] /\ game' = [game EXCEPT ![o] = FALSE]
        /\ stream' = [stream EXCEPT ![s] = stream[o]]
    BY <1>4 DEF Timeout
  <2>3. s \in Slots /\ s # o /\ slot[s].state = "error"
    BY <2>1 DEF Claimable
  <2> HIDE DEF s
  <2> QED
    BY <1>1, <1>2, <2>2, <2>3, ResumeStep
<1> QED
  BY <1>3, <1>4

-----------------------------------------------------------------------------
(* The specification. *)

LEMMA InitIInv == ASSUME Init PROVE IInv
<1>1. IType
  <2>1. 0 \in 0..MaxStreams
    BY SessionAssumption
  <2>2. Offline \in Conn /\ Offline.out = {} /\ Offline.state # "connect"
    BY OfflineType
  <2> QED
    BY <2>1, <2>2, OfflineType DEF Init, IType
<1>2. Apart /\ GameFollowsNet
  BY OfflineType DEF Init, Apart, Live, GameFollowsNet
<1>3. PerIp
  <2> SUFFICES ASSUME NEW a \in Addrs
               PROVE  Cardinality({s \in Slots : Counted(s, a)}) <= MaxClientsPerIp
    BY DEF PerIp
  <2>1. {s \in Slots : Counted(s, a)} = {}
    BY OfflineType DEF Init, Counted
  <2> QED
    BY <2>1, FS_EmptySet, SessionAssumption
<1> QED
  BY <1>1, <1>2, <1>3 DEF IInv

LEMMA NextIInv == ASSUME IInv, [Next]_vars PROVE IInv'
<1>1. ASSUME NEW pk \in net, Lose(pk) PROVE IInv'
  BY <1>1, SlotsKept DEF Lose, history, IInv, IType
<1>2. ASSUME NEW pk \in net, NEW keep \in {FALSE, Duplicates}, NEW limited \in BOOLEAN,
             ServerRecv(pk, keep, limited)
      PROVE  IInv'
  BY <1>2, ServerRecvStep
<1>3. ASSUME NEW pk \in net, NEW keep \in {FALSE, Duplicates}, NEW a \in Addrs,
             ClientRecv(a, pk, keep)
      PROVE  IInv'
  BY <1>3, ClientRecvStep
<1>4. ASSUME NEW a \in Addrs, Connect(a) PROVE IInv'
  BY <1>4, ConnectStep
<1>5. ASSUME NEW a \in Addrs, NEW idle \in {"late", "idle"}, ClientUpdate(a, idle) PROVE IInv'
  BY <1>5, ClientUpdateStep
<1>6. ASSUME NEW a \in Addrs, ClientUpdateEnds(a) PROVE IInv'
  BY <1>6, ClientUpdateEndsStep
<1>7. ASSUME NEW a \in Addrs, NEW crash \in BOOLEAN, ClientLeaves(a, crash) PROVE IInv'
  BY <1>7, ClientLeavesStep
<1>8. ASSUME NEW s \in Slots, NEW resend \in BOOLEAN, NEW idle \in {"no", "late", "idle"},
             SlotUpdate(s, resend, idle)
      PROVE  IInv'
  BY <1>8, SlotUpdateStep
<1>9. ASSUME NEW s \in Slots, SlotTimeout(s) PROVE IInv'
  BY <1>9, SlotTimeoutStep
<1>10. ASSUME NEW s \in Slots, NEW over \in BOOLEAN, SlotError(s, over) PROVE IInv'
  BY <1>10, SlotErrorStep
<1>11. ASSUME NEW s \in Slots, Kick(s) PROVE IInv'
  BY <1>11, KickStep
<1>12. ASSUME NEW s \in Slots, NEW flush \in BOOLEAN, Send(s, flush) PROVE IInv'
  BY <1>12, SendStep
<1>13. ASSUME NEW s \in Slots, Timeout(s) PROVE IInv'
  BY <1>13, TimeoutStep
<1>14. CASE UNCHANGED vars
  BY <1>14, SlotsKept DEF vars, IInv, IType
<1> QED
  BY <1>1, <1>2, <1>3, <1>4, <1>5, <1>6, <1>7, <1>8, <1>9, <1>10, <1>11, <1>12, <1>13, <1>14
     DEF Next

(* The strengthened invariant of every behaviour. *)
THEOREM SessionInvariant == Spec => []IInv
<1>1. Init => IInv
  BY InitIInv
<1>2. IInv /\ [Next]_vars => IInv'
  BY NextIInv
<1> QED
  BY <1>1, <1>2, PTL DEF Spec

LEMMA OneSlotHolds == ASSUME IType, Apart PROVE OneSlot
<1> SUFFICES ASSUME NEW a \in Addrs PROVE Cardinality(SlotsOf(a)) <= 1
  BY DEF OneSlot
<1>1. CASE SlotsOf(a) = {}
  BY <1>1, FS_EmptySet
<1>2. CASE SlotsOf(a) # {}
  <2>1. PICK s \in SlotsOf(a) : TRUE
    BY <1>2
  <2>2. SlotsOf(a) = {s}
    BY <2>1 DEF SlotsOf, Apart
  <2>3. Cardinality({s}) = 1
    BY FS_Singleton
  <2> QED
    BY <2>2, <2>3
<1> QED
  BY <1>1, <1>2

(* The table of slots keeps its type and no address is served by two of them: the packet of an
   address finds the one slot of its session (CNetServer::Recv). *)
THEOREM OneSlotServes == Spec => []Inv
<1>1. IInv => Inv
  <2> SUFFICES ASSUME IInv PROVE Inv
    OBVIOUS
  <2>1. TypeOK
    BY DEF IInv, IType, TypeOK, Conn, States, Seqs
  <2>2. OneSlot
    BY OneSlotHolds DEF IInv
  <2> QED
    BY <2>1, <2>2 DEF Inv
<1> QED
  BY <1>1, SessionInvariant, PTL

(* The server and the game have a client in exactly the slots whose connection is in use. *)
THEOREM GameAgreesWithNet == Spec => []GameFollowsNet
<1>1. IInv => GameFollowsNet
  BY DEF IInv
<1> QED
  BY <1>1, SessionInvariant, PTL

(* However players reconnect and take slots back, no internet address has more than
   MaxClientsPerIp slots in use or under timeout protection. *)
THEOREM PerIpHolds == Spec => []PerIp
<1>1. IInv => PerIp
  BY DEF IInv
<1> QED
  BY <1>1, SessionInvariant, PTL

-----------------------------------------------------------------------------
(* Login. *)

\* the server has told the client of its map
Told == srv.state \notin {"preauth", "auth"}

\* the last change of the map in a queue is one to map
LastIs(q, map) ==
  \A i \in DOMAIN q :
    q[i].kind = "map" /\ (\A j \in DOMAIN q : j > i => q[j].kind # "map") => q[i].map = map

(* The last change of the map on its way names the map the server runs. *)
LastChange == Told => LastIs(down, srv.map)

(* What is fetched has a name. *)
Fetching == cl.via # "none" => cl.target # 0

LoginIInv == LoginTypeOK /\ PlayerFollowsState /\ LastChange /\ Fetching /\ MapAgrees

-----------------------------------------------------------------------------
(* Messages. *)

LEMMA MapsAndNumbers ==
  /\ NumChunks \in Nat \ {0} /\ MapWindow \in Nat \ {0} /\ FirstMap \in Maps
  /\ OnDisk \subseteq Maps /\ \A map \in Maps : map # 0
BY LoginAssumption

LEMMA UpTypes ==
  /\ \A k \in {"ver", "info", "ready", "startinfo", "entergame"} : [kind |-> k] \in UpMessages
  /\ \A c \in Chunks : [kind |-> "request", chunk |-> c] \in UpMessages
BY DEF UpMessages

LEMMA DownTypes ==
  /\ \A k \in {"con_ready", "readytoenter"} : [kind |-> k] \in DownMessages
  /\ \A map \in Maps : [kind |-> "map", map |-> map] \in DownMessages
  /\ \A map \in Maps, c \in Chunks :
       [kind |-> "data", map |-> map, chunk |-> c] \in DownMessages
BY DEF DownMessages

LEMMA MessageFields ==
  /\ \A m \in UpMessages : m.kind = "request" => m.chunk \in Chunks
  /\ \A m \in DownMessages : m.kind = "map" => m.map \in Maps
  /\ \A m \in DownMessages : m.kind = "data" => m.map \in Maps /\ m.chunk \in Chunks
BY DEF UpMessages, DownMessages

(* An answer consists of chunks. *)
LEMMA AnswerType ==
  ASSUME LoginTypeOK, NEW chunk
  PROVE  /\ Answer(chunk) \in Seq(DownMessages)
         /\ \A i \in DOMAIN Answer(chunk) : Answer(chunk)[i].kind = "data"
<1> DEFINE Data == {m \in DownMessages : m.kind = "data"}
<1>1. srv.map \in Maps
  BY DEF LoginTypeOK
<1>2. \A c : SendMapData(c) \in Seq(Data)
  <2> SUFFICES ASSUME NEW c PROVE SendMapData(c) \in Seq(Data)
    OBVIOUS
  <2>1. c \in Chunks => [kind |-> "data", map |-> srv.map, chunk |-> c] \in Data
    BY <1>1, DownTypes
  <2> HIDE DEF Data
  <2> QED
    BY <2>1 DEF SendMapData
<1>3. SendWindow \in Seq(Data)
  <2> DEFINE n == IF MapWindow < NumChunks THEN MapWindow ELSE NumChunks
  <2>1. n \in Nat /\ \A i \in 1..n : i - 1 \in Chunks
    BY MapsAndNumbers DEF Chunks
  <2>2. \A i \in 1..n : [kind |-> "data", map |-> srv.map, chunk |-> i - 1] \in Data
    BY <1>1, <2>1, DownTypes
  <2>3. SendWindow = [i \in 1..n |-> [kind |-> "data", map |-> srv.map, chunk |-> i - 1]]
    BY DEF SendWindow
  <2> HIDE DEF n, Data
  <2> QED
    BY <2>1, <2>2, <2>3
<1> HIDE DEF Data
<1>4. Answer(chunk) \in Seq(Data)
  BY <1>2, <1>3 DEF Answer
<1> QED
  BY <1>4 DEF Data

-----------------------------------------------------------------------------
(* The queue to the client. *)

LEMMA ConcatQuiet ==
  ASSUME NEW q \in Seq(DownMessages), NEW ms \in Seq(DownMessages), NEW map,
         \A i \in DOMAIN ms : ms[i].kind # "map"
  PROVE  /\ q \o ms \in Seq(DownMessages)
         /\ LastIs(q, map) => LastIs(q \o ms, map)
         /\ Pending(q \o ms, "map") <=> Pending(q, "map")
<1> DEFINE r == q \o ms
<1>1. /\ r \in Seq(DownMessages) /\ DOMAIN q \subseteq DOMAIN r /\ DOMAIN r \subseteq Nat
      /\ \A i \in DOMAIN q : r[i] = q[i]
      /\ \A i \in DOMAIN r :
           i \notin DOMAIN q => i - Len(q) \in DOMAIN ms /\ r[i] = ms[i - Len(q)]
  OBVIOUS
<1> HIDE DEF r
<1>2. \A i \in DOMAIN r : r[i].kind = "map" => i \in DOMAIN q
  BY <1>1
<1>3. LastIs(q, map) => LastIs(r, map)
  BY <1>1, <1>2 DEF LastIs
<1>4. Pending(r, "map") <=> Pending(q, "map")
  BY <1>1, <1>2 DEF Pending
<1> QED
  BY <1>1, <1>3, <1>4 DEF r

LEMMA ConcatChange ==
  ASSUME NEW q \in Seq(DownMessages), NEW map \in Maps
  PROVE  /\ q \o SendMap(map) \in Seq(DownMessages)
         /\ LastIs(q \o SendMap(map), map) /\ Pending(q \o SendMap(map), "map")
<1> DEFINE m == [kind |-> "map", map |-> map]
           r == q \o <<m>>
<1>1. m \in DownMessages /\ m.kind = "map" /\ m.map = map
  BY DownTypes
<1> HIDE DEF m
<1>2. /\ r \in Seq(DownMessages) /\ Len(r) = Len(q) + 1 /\ r[Len(r)] = m
      /\ DOMAIN r = 1..Len(r) /\ Len(r) \in Nat
  BY <1>1
<1> HIDE DEF r
<1>3. Len(r) \in DOMAIN r /\ \A i \in DOMAIN r : i = Len(r) \/ Len(r) > i
  <2>1. Len(q) \in Nat
    OBVIOUS
  <2> QED
    BY <1>2, <2>1
<1>4. LastIs(r, map) /\ Pending(r, "map")
  BY <1>1, <1>2, <1>3 DEF LastIs, Pending
<1> QED
  BY <1>2, <1>4 DEF r, m, SendMap

LEMMA TailKeeps ==
  ASSUME NEW q \in Seq(DownMessages), q # <<>>, NEW map
  PROVE  /\ Tail(q) \in Seq(DownMessages) /\ Head(q) \in DownMessages
         /\ LastIs(q, map) => LastIs(Tail(q), map)
         /\ Head(q).kind # "map" => (Pending(Tail(q), "map") <=> Pending(q, "map"))
         /\ LastIs(q, map) /\ Head(q).kind = "map" /\ ~Pending(Tail(q), "map") =>
              Head(q).map = map
<1> DEFINE r == Tail(q)
<1>1. /\ r \in Seq(DownMessages) /\ Head(q) \in DownMessages /\ Head(q) = q[1]
      /\ DOMAIN q \subseteq Nat /\ DOMAIN r \subseteq Nat /\ 1 \in DOMAIN q
      /\ \A i \in DOMAIN r : i + 1 \in DOMAIN q /\ r[i] = q[i + 1]
      /\ \A i \in DOMAIN q : i = 1 \/ (i - 1 \in DOMAIN r /\ i > 1)
  OBVIOUS
<1> HIDE DEF r
<1>2. LastIs(q, map) => LastIs(r, map)
  <2> SUFFICES ASSUME LastIs(q, map), NEW i \in DOMAIN r, r[i].kind = "map",
                      \A j \in DOMAIN r : j > i => r[j].kind # "map"
               PROVE  r[i].map = map
    BY DEF LastIs
  <2>1. i + 1 \in DOMAIN q /\ q[i + 1].kind = "map"
    BY <1>1
  <2>2. ASSUME NEW j \in DOMAIN q, j > i + 1 PROVE q[j].kind # "map"
    <3>1. j - 1 \in DOMAIN r /\ j - 1 > i /\ r[j - 1] = q[j]
      <4>1. j \in Nat /\ i \in Nat
        BY <1>1
      <4>2. j # 1 /\ j - 1 > i /\ (j - 1) + 1 = j
        BY <4>1, <2>2
      <4> QED
        BY <1>1, <4>2
    <3> QED
      BY <3>1
  <2> QED
    BY <1>1, <2>1, <2>2 DEF LastIs
<1>3. Pending(r, "map") => Pending(q, "map")
  BY <1>1 DEF Pending
<1>4. ASSUME NEW i \in DOMAIN q, i # 1, q[i].kind = "map" PROVE Pending(r, "map")
  <2>1. i - 1 \in DOMAIN r /\ i \in Nat /\ (i - 1) + 1 = i
    BY <1>1, <1>4
  <2>2. r[i - 1] = q[i]
    BY <1>1, <2>1
  <2> QED
    BY <1>4, <2>1, <2>2 DEF Pending
<1>5. Head(q).kind # "map" => (Pending(r, "map") <=> Pending(q, "map"))
  BY <1>1, <1>3, <1>4 DEF Pending
<1>6. LastIs(q, map) /\ Head(q).kind = "map" /\ ~Pending(r, "map") => Head(q).map = map
  BY <1>1, <1>4 DEF LastIs
<1> QED
  BY <1>1, <1>2, <1>5, <1>6 DEF r

-----------------------------------------------------------------------------
(* Steps of the server. *)

SrvType ==
  [state : {"preauth", "auth", "connecting", "ready", "ingame"}, map : Maps, nextChunk : Nat,
   player : {"none", "new", "ready"}]
ClType ==
  [state : {"loading", "online"}, map : Maps \cup {0}, target : Maps \cup {0},
   via : {"none", "http", "slow"}, chunk : Chunks, disk : SUBSET Maps, received : 0..3]

LEMMA Types ==
  LoginTypeOK <=> srv \in SrvType /\ cl \in ClType /\ up \in Seq(UpMessages)
             /\ down \in Seq(DownMessages)
BY DEF LoginTypeOK, SrvType, ClType

LEMMA TypesNext ==
  LoginTypeOK' <=> srv' \in SrvType /\ cl' \in ClType /\ up' \in Seq(UpMessages)
              /\ down' \in Seq(DownMessages)
BY DEF LoginTypeOK, SrvType, ClType

\* the player of a slot in these states
Plays(s) == (s.player # "none" <=> s.state \in {"ready", "ingame"})
            /\ (s.state = "ingame" => s.player = "ready")

LEMMA MessageTaken ==
  ASSUME LoginTypeOK, NEW kind, Gets(kind)
  PROVE  up' \in Seq(UpMessages) /\ Head(up) \in UpMessages /\ Head(up).kind = kind
BY DEF LoginTypeOK, Gets

(* The server answers with anything but a change of the map. *)
LEMMA AnswerStep ==
  ASSUME LoginIInv, srv' \in SrvType, Plays(srv'), srv'.map = srv.map,
         srv'.state \in {"preauth", "auth"} <=> srv.state \in {"preauth", "auth"},
         NEW ms \in Seq(DownMessages), \A i \in DOMAIN ms : ms[i].kind # "map",
         down' = down \o ms, UNCHANGED cl, up' \in Seq(UpMessages)
  PROVE  LoginIInv'
<1>1. /\ down \in Seq(DownMessages) /\ down' \in Seq(DownMessages)
      /\ LastIs(down, srv.map) => LastIs(down', srv.map)
      /\ Pending(down', "map") <=> Pending(down, "map")
  BY ConcatQuiet DEF LoginIInv, LoginTypeOK
<1>2. LoginTypeOK'
  BY <1>1, Types, TypesNext DEF LoginIInv
<1>3. PlayerFollowsState' /\ Fetching'
  BY DEF LoginIInv, PlayerFollowsState, Plays, Fetching
<1>4. LastChange'
  BY <1>1 DEF LoginIInv, LastChange, Told
<1>5. MapAgrees'
  BY <1>1 DEF LoginIInv, MapAgrees
<1> QED
  BY <1>2, <1>3, <1>4, <1>5 DEF LoginIInv

(* The server sends the map it runs. *)
LEMMA ChangeStep ==
  ASSUME LoginIInv, srv' \in SrvType, Plays(srv'), NEW q \in Seq(DownMessages),
         down' = q \o SendMap(srv'.map), cl' \in ClType, cl'.via # "none" => cl'.target # 0,
         up' \in Seq(UpMessages)
  PROVE  LoginIInv'
<1>1. srv'.map \in Maps
  BY DEF SrvType
<1>2. down' \in Seq(DownMessages) /\ LastIs(down', srv'.map) /\ Pending(down', "map")
  BY <1>1, ConcatChange
<1>3. LoginTypeOK'
  BY <1>2, TypesNext
<1>4. PlayerFollowsState' /\ Fetching' /\ LastChange' /\ MapAgrees'
  BY <1>2 DEF PlayerFollowsState, Plays, Fetching, LastChange, MapAgrees
<1> QED
  BY <1>3, <1>4 DEF LoginIInv

LEMMA QuietMessages ==
  /\ <<>> \in Seq(DownMessages) /\ \A i \in DOMAIN <<>> : <<>>[i].kind # "map"
  /\ \A q \in Seq(DownMessages) : q \o <<>> = q
  /\ \A k \in {"con_ready", "readytoenter"} :
       /\ <<[kind |-> k]>> \in Seq(DownMessages)
       /\ \A i \in DOMAIN <<[kind |-> k]>> : <<[kind |-> k]>>[i].kind # "map"
       /\ \A q \in Seq(DownMessages) : Append(q, [kind |-> k]) = q \o <<[kind |-> k]>>
<1>1. <<>> \in Seq(DownMessages) /\ \A i \in DOMAIN <<>> : <<>>[i].kind # "map"
  OBVIOUS
<1>2. \A q \in Seq(DownMessages) : q \o <<>> = q
  OBVIOUS
<1>3. ASSUME NEW k \in {"con_ready", "readytoenter"}
      PROVE  /\ <<[kind |-> k]>> \in Seq(DownMessages)
             /\ \A i \in DOMAIN <<[kind |-> k]>> : <<[kind |-> k]>>[i].kind # "map"
             /\ \A q \in Seq(DownMessages) : Append(q, [kind |-> k]) = q \o <<[kind |-> k]>>
  <2> DEFINE m == [kind |-> k]
  <2>1. m \in DownMessages /\ m.kind # "map"
    BY DownTypes
  <2> HIDE DEF m
  <2>2. /\ <<m>> \in Seq(DownMessages) /\ \A i \in DOMAIN <<m>> : <<m>>[i].kind # "map"
        /\ \A q \in Seq(DownMessages) : Append(q, m) = q \o <<m>>
    BY <2>1
  <2> QED
    BY <2>2 DEF m
<1> QED
  BY <1>1, <1>2, <1>3

LEMMA ClientVerStep == ASSUME LoginIInv, ClientVer PROVE LoginIInv'
<1> DEFINE to == IF srv.state = "preauth" THEN "auth" ELSE srv.state
<1>1. srv \in SrvType /\ Plays(srv) /\ down \in Seq(DownMessages)
  BY Types DEF LoginIInv, PlayerFollowsState, Plays
<1>2. srv' = [srv EXCEPT !.state = to] /\ UNCHANGED <<cl, down>>
  BY DEF ClientVer
<1>3. /\ srv' \in SrvType /\ Plays(srv') /\ srv'.map = srv.map
      /\ srv'.state \in {"preauth", "auth"} <=> srv.state \in {"preauth", "auth"}
  BY <1>1, <1>2 DEF SrvType, Plays
<1>4. up' \in Seq(UpMessages)
  BY MessageTaken DEF ClientVer, LoginIInv
<1> QED
  BY <1>1, <1>2, <1>3, <1>4, QuietMessages, AnswerStep

LEMMA InfoStep == ASSUME LoginIInv, Info PROVE LoginIInv'
<1>1. srv \in SrvType /\ Plays(srv) /\ down \in Seq(DownMessages)
  BY Types DEF LoginIInv, PlayerFollowsState, Plays
<1>2. up' \in Seq(UpMessages) /\ UNCHANGED cl
  BY MessageTaken DEF Info, LoginIInv
<1>3. CASE srv.state \in {"preauth", "auth"}
  <2>1. /\ srv' = [srv EXCEPT !.state = "connecting", !.nextChunk = 0]
        /\ down' = down \o SendMap(srv.map)
    BY <1>3 DEF Info
  <2>2. srv' \in SrvType /\ Plays(srv') /\ srv'.map = srv.map
    BY <1>1, <1>3, <2>1 DEF SrvType, Plays
  <2>3. cl' \in ClType /\ (cl'.via # "none" => cl'.target # 0)
    BY <1>2, Types DEF LoginIInv, Fetching
  <2> QED
    BY <1>1, <1>2, <2>1, <2>2, <2>3, ChangeStep
<1>4. CASE srv.state \notin {"preauth", "auth"}
  <2>1. UNCHANGED <<srv, down>>
    BY <1>4 DEF Info
  <2> QED
    BY <1>1, <1>2, <2>1, QuietMessages, AnswerStep
<1> QED
  BY <1>3, <1>4

LEMMA RequestMapDataStep == ASSUME LoginIInv, RequestMapData PROVE LoginIInv'
<1> DEFINE chunk == Head(up).chunk
           next == IF srv.nextChunk = chunk THEN srv.nextChunk + 1 ELSE srv.nextChunk
<1>1. srv \in SrvType /\ Plays(srv) /\ down \in Seq(DownMessages)
  BY Types DEF LoginIInv, PlayerFollowsState, Plays
<1>2. up' \in Seq(UpMessages) /\ UNCHANGED cl
  BY MessageTaken DEF RequestMapData, LoginIInv
<1>3. CASE srv.state \in {"preauth", "auth"}
  <2>1. UNCHANGED <<srv, down>>
    BY <1>3 DEF RequestMapData
  <2> QED
    BY <1>1, <1>2, <2>1, QuietMessages, AnswerStep
<1>4. CASE srv.state \notin {"preauth", "auth"}
  <2>1. srv' = [srv EXCEPT !.nextChunk = next] /\ down' = down \o Answer(chunk)
    BY <1>4 DEF RequestMapData
  <2>2. next \in Nat
    BY <1>1 DEF SrvType
  <2> HIDE DEF next, chunk
  <2>3. srv' \in SrvType /\ Plays(srv') /\ srv'.map = srv.map /\ srv'.state = srv.state
    BY <1>1, <2>1, <2>2 DEF SrvType, Plays
  <2>4. /\ Answer(chunk) \in Seq(DownMessages)
        /\ \A i \in DOMAIN Answer(chunk) : Answer(chunk)[i].kind # "map"
    BY AnswerType DEF LoginIInv
  <2> QED
    BY <1>2, <2>1, <2>3, <2>4, AnswerStep
<1> QED
  BY <1>3, <1>4

LEMMA ReadyStep == ASSUME LoginIInv, Ready PROVE LoginIInv'
<1>1. srv \in SrvType /\ Plays(srv) /\ down \in Seq(DownMessages)
  BY Types DEF LoginIInv, PlayerFollowsState, Plays
<1>2. up' \in Seq(UpMessages) /\ UNCHANGED cl
  BY MessageTaken DEF Ready, LoginIInv
<1>3. \/ srv' = srv
      \/ srv.state = "connecting" /\ srv' = [srv EXCEPT !.state = "ready", !.player = "new"]
  BY DEF Ready
<1>4. /\ srv' \in SrvType /\ Plays(srv') /\ srv'.map = srv.map
      /\ srv'.state \in {"preauth", "auth"} <=> srv.state \in {"preauth", "auth"}
  BY <1>1, <1>3 DEF SrvType, Plays
<1>5. down' = Append(down, [kind |-> "con_ready"])
  BY DEF Ready
<1>6. down' = down \o <<[kind |-> "con_ready"]>>
  BY <1>1, <1>5, QuietMessages
<1> QED
  BY <1>2, <1>4, <1>6, QuietMessages, AnswerStep

LEMMA StartInfoStep == ASSUME LoginIInv, StartInfo PROVE LoginIInv'
<1>1. srv \in SrvType /\ Plays(srv) /\ down \in Seq(DownMessages)
  BY Types DEF LoginIInv, PlayerFollowsState, Plays
<1>2. up' \in Seq(UpMessages) /\ UNCHANGED cl
  BY MessageTaken DEF StartInfo, LoginIInv
<1>3. CASE srv.state \in {"ready", "ingame"} /\ srv.player = "new"
  <2>1. /\ srv' = [srv EXCEPT !.player = "ready"]
        /\ down' = Append(down, [kind |-> "readytoenter"])
    BY <1>3 DEF StartInfo
  <2>2. srv' \in SrvType /\ Plays(srv') /\ srv'.map = srv.map /\ srv'.state = srv.state
    BY <1>1, <1>3, <2>1 DEF SrvType, Plays
  <2>3. down' = down \o <<[kind |-> "readytoenter"]>>
    BY <1>1, <2>1, QuietMessages
  <2> QED
    BY <1>2, <2>2, <2>3, QuietMessages, AnswerStep
<1>4. CASE ~(srv.state \in {"ready", "ingame"} /\ srv.player = "new")
  <2>1. UNCHANGED <<srv, down>>
    BY <1>4 DEF StartInfo
  <2> QED
    BY <1>1, <1>2, <2>1, QuietMessages, AnswerStep
<1> QED
  BY <1>3, <1>4

LEMMA EnterGameStep == ASSUME LoginIInv, EnterGame PROVE LoginIInv'
<1> DEFINE to == IF srv.state = "ready" /\ srv.player = "ready" THEN "ingame" ELSE srv.state
<1>1. srv \in SrvType /\ Plays(srv) /\ down \in Seq(DownMessages)
  BY Types DEF LoginIInv, PlayerFollowsState, Plays
<1>2. srv' = [srv EXCEPT !.state = to] /\ UNCHANGED <<cl, down>>
  BY DEF EnterGame
<1>3. /\ srv' \in SrvType /\ Plays(srv') /\ srv'.map = srv.map
      /\ srv'.state \in {"preauth", "auth"} <=> srv.state \in {"preauth", "auth"}
  BY <1>1, <1>2 DEF SrvType, Plays
<1>4. up' \in Seq(UpMessages)
  BY MessageTaken DEF EnterGame, LoginIInv
<1> QED
  BY <1>1, <1>2, <1>3, <1>4, QuietMessages, AnswerStep

LEMMA LoadMapStep == ASSUME LoginIInv, NEW map \in Maps, LoadMap(map) PROVE LoginIInv'
<1>1. /\ srv \in SrvType /\ Plays(srv) /\ down \in Seq(DownMessages) /\ cl \in ClType
      /\ up \in Seq(UpMessages)
  BY Types DEF LoginIInv, PlayerFollowsState, Plays
<1>2. UNCHANGED <<cl, up>>
  BY DEF LoadMap
<1>3. CASE srv.state \in {"preauth", "auth"}
  <2>1. srv' = [srv EXCEPT !.map = map] /\ UNCHANGED down
    BY <1>3 DEF LoadMap
  <2>2. srv' \in SrvType /\ Plays(srv') /\ srv'.state = srv.state
    BY <1>1, <2>1 DEF SrvType, Plays
  <2>3. LoginTypeOK'
    BY <1>1, <1>2, <2>1, <2>2, TypesNext
  <2>4. PlayerFollowsState' /\ Fetching' /\ LastChange' /\ MapAgrees'
    BY <1>2, <1>3, <2>2 DEF LoginIInv, PlayerFollowsState, Plays, Fetching, LastChange, Told, MapAgrees
  <2> QED
    BY <2>3, <2>4 DEF LoginIInv
<1>4. CASE srv.state \notin {"preauth", "auth"}
  <2>1. /\ srv' = [state |-> "connecting", map |-> map, nextChunk |-> 0, player |-> "none"]
        /\ down' = down \o SendMap(map)
    BY <1>4 DEF LoadMap
  <2>2. srv' \in SrvType /\ Plays(srv') /\ srv'.map = map
    BY <2>1 DEF SrvType, Plays
  <2>3. cl'.via # "none" => cl'.target # 0
    BY <1>2 DEF LoginIInv, Fetching
  <2> QED
    BY <1>1, <1>2, <2>1, <2>2, <2>3, ChangeStep
<1> QED
  BY <1>3, <1>4

LEMMA ConnectedType ==
  /\ Connected \in ClType /\ Connected.via = "none"
  /\ <<[kind |-> "ver"], [kind |-> "info"]>> \in Seq(UpMessages)
<1>1. Connected \in ClType /\ Connected.via = "none"
  BY MapsAndNumbers DEF Connected, ClType, Chunks
<1>2. [kind |-> "ver"] \in UpMessages /\ [kind |-> "info"] \in UpMessages
  BY UpTypes
<1> QED
  BY <1>1, <1>2

LEMMA RejoinStep == ASSUME LoginIInv, Rejoin PROVE LoginIInv'
<1>1. srv \in SrvType /\ Plays(srv) /\ cl \in ClType
  BY Types DEF LoginIInv, PlayerFollowsState, Plays
<1>2. /\ srv' = [srv EXCEPT !.nextChunk = 0] /\ cl' = [Connected EXCEPT !.disk = cl.disk]
      /\ up' = <<[kind |-> "ver"], [kind |-> "info"]>> /\ down' = SendMap(srv.map)
  BY DEF Rejoin
<1>3. srv' \in SrvType /\ Plays(srv') /\ srv'.map = srv.map
  BY <1>1, <1>2 DEF SrvType, Plays
<1>4. cl' \in ClType /\ cl'.via = "none"
  BY <1>1, <1>2, ConnectedType DEF ClType
<1>5. up' \in Seq(UpMessages)
  BY <1>2, ConnectedType
<1>6. <<>> \in Seq(DownMessages) /\ down' = <<>> \o SendMap(srv'.map)
  BY <1>2, <1>3 DEF SendMap
<1> QED
  BY <1>3, <1>4, <1>5, <1>6, ChangeStep

-----------------------------------------------------------------------------
(* Steps of the client. *)

\* the map is the same, or the one that was fetched
Settles(c, d) ==
  \/ d.target = c.target /\ d.map = c.map
  \/ c.target # 0 /\ d.target = 0 /\ d.map = c.target

(* The client does something else than to hear of a change of the map. *)
LEMMA ClientMoves ==
  ASSUME LoginIInv, UNCHANGED srv, cl' \in ClType, Settles(cl, cl'),
         cl'.via # "none" => cl'.target # 0, up' \in Seq(UpMessages),
         down' = down \/ (down # <<>> /\ down' = Tail(down) /\ Head(down).kind # "map")
  PROVE  LoginIInv'
<1>1. srv \in SrvType /\ down \in Seq(DownMessages)
  BY Types DEF LoginIInv
<1>2. /\ down' \in Seq(DownMessages)
      /\ LastIs(down, srv.map) => LastIs(down', srv.map)
  BY <1>1, TailKeeps
<1>3. Pending(down', "map") <=> Pending(down, "map")
  BY <1>1, TailKeeps
<1>4. LoginTypeOK'
  BY <1>1, <1>2, TypesNext
<1>5. PlayerFollowsState' /\ Fetching'
  BY DEF LoginIInv, PlayerFollowsState, Fetching
<1>6. LastChange'
  BY <1>2 DEF LoginIInv, LastChange, Told
<1>7. MapAgrees'
  BY <1>3 DEF LoginIInv, MapAgrees, Settles
<1> QED
  BY <1>4, <1>5, <1>6, <1>7 DEF LoginIInv

LEMMA MessageHeard ==
  ASSUME LoginTypeOK, NEW kind, Hears(kind)
  PROVE  /\ down # <<>> /\ down' = Tail(down) /\ Head(down).kind = kind
         /\ Head(down) \in DownMessages /\ Tail(down) \in Seq(DownMessages)
BY DEF LoginTypeOK, Hears

LEMMA SaysType ==
  ASSUME LoginTypeOK, NEW m \in UpMessages, Says(m)
  PROVE  up' \in Seq(UpMessages)
BY DEF LoginTypeOK, Says

LEMMA LoadedType ==
  ASSUME LoginTypeOK, NEW map \in Maps, Loaded(map)
  PROVE  /\ cl' \in ClType /\ cl'.map = map /\ cl'.target = 0 /\ cl'.via = "none"
         /\ up' \in Seq(UpMessages)
<1>1. cl \in ClType /\ cl.disk \cup {map} \in SUBSET Maps /\ 0 \in Chunks
  BY Types, MapsAndNumbers DEF ClType, Chunks
<1>2. cl' = [cl EXCEPT !.state = "loading", !.map = map, !.target = 0, !.via = "none",
                       !.chunk = 0, !.disk = cl.disk \cup {map}]
  BY <1>1 DEF Loaded, ClType
<1>3. cl' \in ClType /\ cl'.map = map /\ cl'.target = 0 /\ cl'.via = "none"
  BY <1>1, <1>2 DEF ClType
<1>4. up' \in Seq(UpMessages)
  BY SaysType, UpTypes DEF Loaded
<1> QED
  BY <1>3, <1>4

LEMMA StartDownloadType ==
  ASSUME LoginTypeOK, NEW map \in Maps, StartDownload(map)
  PROVE  cl' \in ClType /\ cl'.target = map /\ up' \in Seq(UpMessages)
<1>1. cl \in ClType /\ 0 \in Chunks /\ up \in Seq(UpMessages)
  BY Types, MapsAndNumbers DEF Chunks
<1>2. PICK via \in {"http", "slow"} :
        cl' = [cl EXCEPT !.state = "loading", !.target = map, !.via = via, !.chunk = 0]
  BY DEF StartDownload
<1>3. cl' \in ClType /\ cl'.target = map
  BY <1>1, <1>2 DEF ClType
<1>4. up' \in Seq(UpMessages)
  <2>1. [kind |-> "request", chunk |-> 0] \in UpMessages
    BY <1>1, UpTypes
  <2> QED
    BY <1>1, <2>1, SaysType DEF StartDownload
<1> QED
  BY <1>3, <1>4

LEMMA MapChangeStep == ASSUME LoginIInv, MapChange PROVE LoginIInv'
<1> DEFINE map == Head(down).map
<1>1. LoginTypeOK /\ srv \in SrvType /\ down \in Seq(DownMessages)
  BY Types DEF LoginIInv
<1>2. /\ down # <<>> /\ down' = Tail(down) /\ Head(down).kind = "map"
      /\ Head(down) \in DownMessages /\ Tail(down) \in Seq(DownMessages)
  BY <1>1, MessageHeard DEF MapChange
<1>3. map \in Maps /\ map # 0
  BY <1>2, MessageFields, MapsAndNumbers
<1>4. (Loaded(map) \/ StartDownload(map)) /\ UNCHANGED srv
  BY DEF MapChange
<1> HIDE DEF map
<1>5. /\ cl' \in ClType /\ up' \in Seq(UpMessages)
      /\ \/ cl'.map = map /\ cl'.target = 0 /\ cl'.via = "none"
         \/ cl'.target = map
  BY <1>1, <1>3, <1>4, LoadedType, StartDownloadType
<1>6. LoginTypeOK'
  BY <1>1, <1>2, <1>4, <1>5, TypesNext
<1>7. PlayerFollowsState' /\ Fetching'
  BY <1>3, <1>4, <1>5 DEF LoginIInv, PlayerFollowsState, Fetching
<1>8. LastChange'
  BY <1>1, <1>2, <1>4, TailKeeps DEF LoginIInv, LastChange, Told
<1>9. Told /\ ~Pending(down', "map") => map = srv.map
  BY <1>1, <1>2, TailKeeps DEF LoginIInv, LastChange, map
<1>10. MapAgrees'
  BY <1>3, <1>4, <1>5, <1>9 DEF MapAgrees, Told
<1> QED
  BY <1>6, <1>7, <1>8, <1>10 DEF LoginIInv

LEMMA MapDataStep == ASSUME LoginIInv, MapData PROVE LoginIInv'
<1> DEFINE d == Head(down)
<1>1. LoginTypeOK /\ cl \in ClType /\ UNCHANGED srv /\ up \in Seq(UpMessages)
  BY Types DEF LoginIInv, MapData
<1>2. /\ down # <<>> /\ down' = Tail(down) /\ d.kind = "data"
      /\ d.map \in Maps /\ d.chunk \in Chunks /\ d.map # 0
  BY <1>1, MessageHeard, MessageFields, MapsAndNumbers DEF MapData
<1>3. \/ UNCHANGED <<cl, up>>
      \/ d.map = cl.target /\ Loaded(cl.target)
      \/ /\ d.chunk = cl.chunk /\ d.chunk # NumChunks - 1
         /\ cl' = [cl EXCEPT !.chunk = @ + 1]
         /\ Says([kind |-> "request", chunk |-> d.chunk + 1])
  BY DEF MapData
<1> HIDE DEF d
<1>4. CASE UNCHANGED <<cl, up>>
  BY <1>1, <1>2, <1>4, ClientMoves DEF d, Settles, LoginIInv, Fetching
<1>5. CASE d.map = cl.target /\ Loaded(cl.target)
  <2>1. /\ cl' \in ClType /\ cl'.map = cl.target /\ cl'.target = 0 /\ cl'.via = "none"
        /\ up' \in Seq(UpMessages)
    BY <1>1, <1>2, <1>5, LoadedType
  <2> QED
    BY <1>1, <1>2, <1>5, <2>1, ClientMoves DEF d, Settles
<1>6. CASE /\ d.chunk = cl.chunk /\ d.chunk # NumChunks - 1
           /\ cl' = [cl EXCEPT !.chunk = @ + 1]
           /\ Says([kind |-> "request", chunk |-> d.chunk + 1])
  <2>1. cl.chunk + 1 \in Chunks
    BY <1>2, <1>6, MapsAndNumbers DEF Chunks
  <2>2. /\ cl' \in ClType /\ cl'.map = cl.map /\ cl'.target = cl.target /\ cl'.via = cl.via
    BY <1>1, <1>6, <2>1 DEF ClType
  <2>3. up' \in Seq(UpMessages)
    BY <1>1, <1>6, <2>1, UpTypes, SaysType
  <2> QED
    BY <1>1, <1>2, <2>2, <2>3, ClientMoves DEF d, Settles, LoginIInv, Fetching
<1> QED
  BY <1>3, <1>4, <1>5, <1>6

LEMMA HttpDoneStep == ASSUME LoginIInv, HttpDone PROVE LoginIInv'
<1>1. LoginTypeOK /\ cl \in ClType /\ UNCHANGED <<srv, down>> /\ Loaded(cl.target)
  BY Types DEF LoginIInv, HttpDone
<1>2. cl.target \in Maps /\ cl.target # 0
  BY <1>1 DEF LoginIInv, Fetching, HttpDone, ClType
<1>3. /\ cl' \in ClType /\ cl'.map = cl.target /\ cl'.target = 0 /\ cl'.via = "none"
      /\ up' \in Seq(UpMessages)
  BY <1>1, <1>2, LoadedType
<1> QED
  BY <1>1, <1>2, <1>3, ClientMoves DEF Settles

LEMMA HttpFailsStep == ASSUME LoginIInv, HttpFails PROVE LoginIInv'
<1>1. LoginTypeOK /\ cl \in ClType /\ UNCHANGED <<srv, down>>
  BY Types DEF LoginIInv, HttpFails
<1>2. /\ cl.via = "http" /\ cl' = [cl EXCEPT !.via = "slow"]
      /\ Says([kind |-> "request", chunk |-> cl.chunk])
  BY DEF HttpFails
<1>3. cl' \in ClType /\ cl'.map = cl.map /\ cl'.target = cl.target /\ cl.target # 0
  BY <1>1, <1>2 DEF ClType, LoginIInv, Fetching
<1>4. up' \in Seq(UpMessages)
  <2>1. cl.chunk \in Chunks
    BY <1>1 DEF ClType
  <2> QED
    BY <1>1, <1>2, <2>1, UpTypes, SaysType
<1> QED
  BY <1>1, <1>3, <1>4, ClientMoves DEF Settles

LEMMA ConReadyStep == ASSUME LoginIInv, ConReady PROVE LoginIInv'
<1>1. LoginTypeOK /\ cl \in ClType /\ UNCHANGED <<srv, cl>>
  BY Types DEF LoginIInv, ConReady
<1>2. down # <<>> /\ down' = Tail(down) /\ Head(down).kind # "map"
  BY <1>1, MessageHeard DEF ConReady
<1>3. up' \in Seq(UpMessages)
  BY <1>1, UpTypes, SaysType DEF ConReady
<1> QED
  BY <1>1, <1>2, <1>3, ClientMoves DEF Settles, LoginIInv, Fetching

LEMMA ReadyToEnterStep == ASSUME LoginIInv, ReadyToEnter PROVE LoginIInv'
<1>1. LoginTypeOK /\ cl \in ClType /\ UNCHANGED srv /\ cl' = [cl EXCEPT !.received = 0]
  BY Types DEF LoginIInv, ReadyToEnter
<1>2. down # <<>> /\ down' = Tail(down) /\ Head(down).kind # "map"
  BY <1>1, MessageHeard DEF ReadyToEnter
<1>3. up' \in Seq(UpMessages)
  BY <1>1, UpTypes, SaysType DEF ReadyToEnter
<1>4. cl' \in ClType /\ cl'.map = cl.map /\ cl'.target = cl.target /\ cl'.via = cl.via
  BY <1>1 DEF ClType
<1> QED
  BY <1>1, <1>2, <1>3, <1>4, ClientMoves DEF Settles, LoginIInv, Fetching

LEMMA SnapshotStep == ASSUME LoginIInv, Snapshot PROVE LoginIInv'
<1> DEFINE to == IF cl.received = 1 THEN "online" ELSE cl.state
<1>1. LoginTypeOK /\ cl \in ClType /\ up \in Seq(UpMessages) /\ UNCHANGED <<srv, up, down>>
  BY Types DEF LoginIInv, Snapshot
<1>2. cl.received < 3 /\ cl' = [cl EXCEPT !.received = cl.received + 1, !.state = to]
  BY <1>1 DEF Snapshot, ClType
<1>3. cl.received + 1 \in 0..3 /\ to \in {"loading", "online"}
  BY <1>1, <1>2 DEF ClType
<1> HIDE DEF to
<1>4. cl' \in ClType /\ cl'.map = cl.map /\ cl'.target = cl.target /\ cl'.via = cl.via
  BY <1>1, <1>2, <1>3 DEF ClType
<1> QED
  BY <1>1, <1>4, ClientMoves DEF Settles, LoginIInv, Fetching

-----------------------------------------------------------------------------
(* The specification. *)

LEMMA LoginInitIInv == ASSUME LoginInit PROVE LoginIInv
<1>1. srv \in SrvType /\ Plays(srv) /\ ~Told
  BY MapsAndNumbers DEF LoginInit, SrvType, Plays, Told
<1>2. cl \in ClType /\ cl.via = "none" /\ up \in Seq(UpMessages) /\ down \in Seq(DownMessages)
  BY ConnectedType DEF LoginInit
<1>3. LoginTypeOK
  BY <1>1, <1>2, Types
<1>4. PlayerFollowsState /\ LastChange /\ Fetching /\ MapAgrees
  BY <1>1, <1>2 DEF Plays, PlayerFollowsState, LastChange, Fetching, MapAgrees, Told
<1> QED
  BY <1>3, <1>4 DEF LoginIInv

LEMMA LoginNextIInv == ASSUME LoginIInv, [LoginNext]_loginVars PROVE LoginIInv'
<1>1. CASE Serve
  BY <1>1, ClientVerStep, InfoStep, RequestMapDataStep, ReadyStep, StartInfoStep, EnterGameStep
     DEF Serve
<1>2. CASE Follow
  BY <1>2, MapChangeStep, MapDataStep, ConReadyStep, ReadyToEnterStep DEF Follow
<1>3. CASE Http
  BY <1>3, HttpDoneStep, HttpFailsStep DEF Http
<1>4. CASE Snapshot
  BY <1>4, SnapshotStep
<1>5. ASSUME NEW map \in Maps, LoadMap(map) PROVE LoginIInv'
  BY <1>5, LoadMapStep
<1>6. CASE Rejoin
  BY <1>6, RejoinStep
<1>7. CASE UNCHANGED loginVars
  <2>1. UNCHANGED srv /\ UNCHANGED cl /\ UNCHANGED up /\ UNCHANGED down
    BY <1>7 DEF loginVars
  <2> QED
    BY <2>1, Types, ClientMoves DEF Settles, LoginIInv, Fetching
<1> QED
  BY <1>1, <1>2, <1>3, <1>4, <1>5, <1>6, <1>7 DEF LoginNext

(* The strengthened invariant of every behaviour. *)
THEOREM LoginInvariant == LoginSpec => []LoginIInv
<1>1. LoginInit => LoginIInv
  BY LoginInitIInv
<1>2. LoginIInv /\ [LoginNext]_loginVars => LoginIInv'
  BY LoginNextIInv
<1> QED
  BY <1>1, <1>2, PTL DEF LoginSpec

(* The game has a player for the slot exactly while the server calls it ready or more, and one
   that sent its info when it is in the game (CServer and CGameContext use it unchecked). *)
THEOREM PlayerIsThere == LoginSpec => []LoginInv
<1>1. LoginIInv => LoginInv
  BY DEF LoginIInv, LoginInv
<1> QED
  BY <1>1, LoginInvariant, PTL

(* However reloads, rejoins, answers and downloads cross, a client the server waits for or plays
   with has loaded the server's map or fetches it, or is yet to hear of the change. *)
THEOREM MapsAgree == LoginSpec => []MapAgrees
<1>1. LoginIInv => MapAgrees
  BY DEF LoginIInv
<1> QED
  BY <1>1, LoginInvariant, PTL
=============================================================================
