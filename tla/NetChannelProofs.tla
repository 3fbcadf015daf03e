-------------------------- MODULE NetChannelProofs --------------------------
(***************************************************************************)
(* Proofs about NetChannel for any lap of the sequence numbers, any        *)
(* buffer, packets and window that keep below half a lap: whatever the     *)
(* network loses, doubles, delays and reorders, an acknowledgement is true *)
(* and each chunk is delivered once and in order.                          *)
(*                                                                         *)
(* A sequence number says where a chunk is in its stream but for laps.     *)
(* The invariant bounds how far everything under way is from the place     *)
(* where it is compared, so that the number tells the place.               *)
(***************************************************************************)
EXTENDS NetChannel, SequenceTheorems, WellFoundedInduction, TLAPS

Got(p) == Len(log[p])

\* a chunk of a stream of which S are sent, under its number
Fits(ch, S) == ch.seq = ch.id % MaxSeq /\ 1 <= ch.id /\ ch.id <= S

(* What is packed: the newest chunk was sent, or waited for its acknowledgement, when it was
   added, and each one sent since was added too; slack: a chunk more was sent. *)
Packs(chunks, S, slack) ==
  /\ Len(chunks) <= PacketCap
  /\ \A i \in DOMAIN chunks :
       /\ Fits(chunks[i], S)
       /\ chunks[i].id >= S - Window + 1 - (Len(chunks) - i) - slack

\* the chunks of a packet, sent when S were sent
Holds(chunks, S) ==
  /\ Len(chunks) <= PacketCap
  /\ \A i \in DOMAIN chunks :
       Fits(chunks[i], S) /\ chunks[i].id >= S - Window - PacketCap + 1

\* the buffer keeps chunks after P in their order
Rises(buffer, P, S) ==
  /\ \A i \in DOMAIN buffer : Fits(buffer[i], S) /\ buffer[i].id > P
  /\ \A i, j \in DOMAIN buffer : i <= j => buffer[j].id - buffer[i].id >= j - i

\* if it never overflows, all of them
Saves(buffer, P, S) ==
  Window <= BufferCap => \A k \in (P + 1)..S : \E i \in DOMAIN buffer : buffer[i].id = k

\* P chunks of S are acknowledged
Acked(c, P, S) ==
  /\ c.peerAck = P % MaxSeq /\ P <= S /\ S - P <= Window
  /\ Rises(c.buffer, P, S) /\ Saves(c.buffer, P, S)

(* No end is a window ahead of the other. *)
Bounded == \A p \in Peers : Got(Other(p)) <= sent[p] /\ sent[p] - Got(Other(p)) <= Window

(* The counters of a connection say how much was sent and delivered. *)
Counts ==
  \A p \in Peers : conn[p].state # "offline" =>
    conn[p].seq = sent[p] % MaxSeq /\ conn[p].ack = Got(p) % MaxSeq

(* What an end takes for acknowledged was delivered; the rest is in its buffer. *)
Keeps ==
  \A p \in Peers : Online(p) =>
    /\ \E P \in Nat : P <= Got(Other(p)) /\ Acked(conn[p], P, sent[p])
    /\ Packs(conn[p].construct.chunks, sent[p], 0)

(* A packet tells what its sender had got, and holds the newest of what it had sent. *)
Underway ==
  \A pk \in net :
    /\ pk.from \in Peers
    /\ pk.sent <= sent[pk.from] /\ sent[pk.from] - pk.sent <= Lifetime
    /\ pk.got <= Got(pk.from) /\ Got(pk.from) - pk.got <= Lifetime
    /\ pk.ack = pk.got % MaxSeq
    /\ Holds(pk.chunks, pk.sent)

(* The chunks still to unpack are less than a lap from each other and from what was delivered. *)
Near(chunks, G, S) ==
  /\ \A i \in DOMAIN chunks : Fits(chunks[i], S) /\ G - chunks[i].id <= MaxSeq - 2
  /\ \A i, j \in DOMAIN chunks : chunks[j].id - chunks[i].id <= MaxSeq - 2

Unpacking == \A p \in Peers : Near(inbox[p], Got(p), sent[Other(p)])

IInv == TypeOK /\ Bounded /\ Counts /\ Keeps /\ Underway /\ Unpacking
-----------------------------------------------------------------------------
(* Sequence numbers. *)

LEMMA Division ==
  ASSUME NEW M \in Nat \ {0}, NEW a \in Int
  PROVE  \E q \in Int, x \in 0..(M - 1) : a = M * q + x /\ a % M = x
<1>1. a % M \in 0..(M - 1)
  OBVIOUS
<1>2. a \div M \in Int
  OBVIOUS
<1>3. a = M * (a \div M) + (a % M)
  OBVIOUS
<1> QED
  BY <1>1, <1>2, <1>3

LEMMA ZeroLap ==
  ASSUME NEW M \in Nat \ {0}, NEW q \in Int, M * q < M, -M < M * q
  PROVE  q = 0
OBVIOUS

LEMMA OneLap ==
  ASSUME NEW M \in Nat \ {0}, NEW q \in Int, M * q < 2 * M, -M < M * q
  PROVE  q \in {0, 1}
OBVIOUS

LEMMA ModIs ==
  ASSUME NEW M \in Nat \ {0}, NEW q \in Int, NEW x \in 0..(M - 1)
  PROVE  (M * q + x) % M = x
<1>1. M * q + x \in Int
  OBVIOUS
<1>2. PICK r \in Int, y \in 0..(M - 1) : M * q + x = M * r + y /\ (M * q + x) % M = y
  BY <1>1, Division
<1>3. M * (q - r) < M /\ -M < M * (q - r) /\ q - r \in Int
  BY <1>2
<1>4. q - r = 0
  BY <1>3, ZeroLap
<1> QED
  BY <1>2, <1>4

LEMMA SameNumber ==
  ASSUME NEW M \in Nat \ {0}, NEW a \in Int, NEW b \in Int,
         a % M = b % M, a - b < M, b - a < M
  PROVE  a = b
<1>1. PICK q \in Int, x \in 0..(M - 1) : a = M * q + x /\ a % M = x
  BY Division
<1>2. PICK r \in Int, y \in 0..(M - 1) : b = M * r + y /\ b % M = y
  BY Division
<1>3. M * (q - r) < M /\ -M < M * (q - r) /\ q - r \in Int
  BY <1>1, <1>2
<1>4. q - r = 0
  BY <1>3, ZeroLap
<1> QED
  BY <1>1, <1>2, <1>4

LEMMA NextNumber ==
  ASSUME NEW M \in Nat \ {0}, NEW a \in Int
  PROVE  ((a % M) + 1) % M = (a + 1) % M
<1>1. PICK q \in Int, x \in 0..(M - 1) : a = M * q + x /\ a % M = x
  BY Division
<1>2. CASE x + 1 < M
  <2>1. x + 1 \in 0..(M - 1) /\ a + 1 = M * q + (x + 1)
    BY <1>1, <1>2
  <2>2. (a + 1) % M = x + 1
    BY <2>1, ModIs
  <2>3. (x + 1) % M = x + 1
    BY <2>1
  <2> QED
    BY <1>1, <2>2, <2>3
<1>3. CASE x + 1 = M
  <2>1. 0 \in 0..(M - 1) /\ a + 1 = M * (q + 1) + 0 /\ q + 1 \in Int
    BY <1>1, <1>3
  <2>2. (a + 1) % M = 0
    BY <2>1, ModIs
  <2>3. M = M * 1 + 0 /\ M % M = 0
    BY <2>1, ModIs
  <2> QED
    BY <1>1, <1>3, <2>2, <2>3
<1> QED
  BY <1>1, <1>2, <1>3

(* Of two places less than a lap apart, the numbers tell the distance. *)
LEMMA Lap ==
  ASSUME NEW M \in Nat \ {0}, NEW a \in Int, NEW b \in Int, a <= b, b - a < M
  PROVE  \E x, y \in 0..(M - 1) :
           /\ a % M = x /\ b % M = y
           /\ \/ x <= y /\ y - x = b - a
              \/ x > y /\ y - x = b - a - M
<1>1. PICK q \in Int, x \in 0..(M - 1) : a = M * q + x /\ a % M = x
  BY Division
<1>2. PICK r \in Int, y \in 0..(M - 1) : b = M * r + y /\ b % M = y
  BY Division
<1>3. M * (r - q) < 2 * M /\ -M < M * (r - q) /\ r - q \in Int
  BY <1>1, <1>2
<1>4. r - q \in {0, 1}
  BY <1>3, OneLap
<1> DEFINE z == M * q
<1>5. z \in Int /\ a = z + x
  BY <1>1
<1>6. b = z + y \/ b = z + M + y
  <2>1. M * (q + 1) = M * q + M
    OBVIOUS
  <2>2. r = q \/ r = q + 1
    BY <1>4
  <2> QED
    BY <1>2, <2>1, <2>2
<1> HIDE DEF z
<1>7. (x <= y /\ y - x = b - a) \/ (x > y /\ y - x = b - a - M)
  BY <1>5, <1>6
<1> QED
  BY <1>1, <1>2, <1>7

LEMMA Half ==
  MaxSeq \div 2 \in Nat /\ MaxSeq = 2 * (MaxSeq \div 2)
<1>1. MaxSeq \in Int /\ 2 \in Nat \ {0}
  BY NetAssumption
<1>2. MaxSeq \div 2 \in Int /\ MaxSeq = 2 * (MaxSeq \div 2) + (MaxSeq % 2)
  BY <1>1
<1> QED
  BY <1>2, NetAssumption

(* A place ahead by less than half a lap is not in the backroom; one half a lap back is. *)
LEMMA Ahead ==
  ASSUME NEW g \in Int, NEW k \in Int, g < k, 2 * (k - g + 1) <= MaxSeq
  PROVE  ~IsSeqInBackroom(k % MaxSeq, g % MaxSeq)
<1> DEFINE h == MaxSeq \div 2
<1>1. h \in Nat /\ MaxSeq = 2 * h /\ MaxSeq \in Nat \ {0}
  BY Half, NetAssumption
<1> HIDE DEF h
<1>2. PICK x, y \in 0..(MaxSeq - 1) :
        /\ g % MaxSeq = x /\ k % MaxSeq = y
        /\ \/ x <= y /\ y - x = k - g
           \/ x > y /\ y - x = k - g - MaxSeq
  <2>1. g <= k /\ k - g < MaxSeq
    BY <1>1
  <2> QED
    BY <1>1, <2>1, Lap
<1>3. IsSeqInBackroom(y, x) <=>
        IF x - h < 0 THEN y <= x \/ y >= x - h + MaxSeq ELSE y <= x /\ y >= x - h
  BY DEF IsSeqInBackroom, h
<1>4. ~IsSeqInBackroom(y, x)
  BY <1>1, <1>2, <1>3
<1> QED
  BY <1>2, <1>4

LEMMA Behind ==
  ASSUME NEW g \in Int, NEW k \in Int, k <= g, 2 * (g - k) <= MaxSeq
  PROVE  IsSeqInBackroom(k % MaxSeq, g % MaxSeq)
<1> DEFINE h == MaxSeq \div 2
<1>1. h \in Nat /\ MaxSeq = 2 * h /\ MaxSeq \in Nat \ {0}
  BY Half, NetAssumption
<1> HIDE DEF h
<1>2. PICK y, x \in 0..(MaxSeq - 1) :
        /\ k % MaxSeq = y /\ g % MaxSeq = x
        /\ \/ y <= x /\ x - y = g - k
           \/ y > x /\ x - y = g - k - MaxSeq
  <2>1. g - k < MaxSeq
    BY <1>1
  <2> QED
    BY <1>1, <2>1, Lap
<1>3. IsSeqInBackroom(y, x) <=>
        IF x - h < 0 THEN y <= x \/ y >= x - h + MaxSeq ELSE y <= x /\ y >= x - h
  BY DEF IsSeqInBackroom, h
<1>4. IsSeqInBackroom(y, x)
  BY <1>1, <1>2, <1>3
<1> QED
  BY <1>2, <1>4

-----------------------------------------------------------------------------
(* Numbers and recursive functions. *)

LEMMA LessIsWellFounded == IsWellFoundedOn({p \in Nat \X Nat : p[1] < p[2]}, Nat)
BY NatLessThanWellFounded DEF OpToRel

LEMMA LeastExists ==
  ASSUME NEW S \in SUBSET Nat, S # {}
  PROVE  \E m \in S : \A k \in S : m <= k
<1> DEFINE R == {p \in Nat \X Nat : p[1] < p[2]}
<1>1. PICK m \in S : \A k \in S : ~(<<k, m>> \in R)
  BY LessIsWellFounded, WFMin
<1>2. ASSUME NEW k \in S PROVE m <= k
  <2>1. k \in Nat /\ m \in Nat
    OBVIOUS
  <2>2. CASE k < m
    <3>1. <<k, m>> \in Nat \X Nat /\ <<k, m>>[1] < <<k, m>>[2]
      BY <2>1, <2>2
    <3>2. <<k, m>> \in R
      BY <3>1
    <3> QED
      BY <1>1, <3>2
  <2> QED
    BY <2>1, <2>2
<1> QED
  BY <1>2

(* The recursive functions of the model: H makes each value from the one before. *)
Runs(g, n, a, H) == g[0] = a /\ \A k \in 1..n : g[k] = H[<<g[k - 1], k>>]

LEMMA RunExists ==
  ASSUME NEW S, NEW a \in S, NEW L \in Nat, NEW H \in [S \X (1..L) -> S]
  PROVE  \E g \in [0..L -> S] : Runs(g, L, a, H)
<1> DEFINE Good(n) == \E g \in [0..n -> S] : Runs(g, n, a, H)
           Bad == {n \in 0..L : ~Good(n)}
<1>1. SUFFICES ASSUME Bad # {} PROVE FALSE
  <2>1. L \in 0..L
    OBVIOUS
  <2>2. CASE Bad = {}
    BY <2>1, <2>2
  <2> QED
    BY <2>2
<1>2. PICK m \in Bad : \A n \in Bad : m <= n
  <2>1. Bad \in SUBSET Nat
    OBVIOUS
  <2> HIDE DEF Bad
  <2> QED
    BY <1>1, <2>1, LeastExists
<1>3. m \in 0..L /\ ~Good(m)
  OBVIOUS
<1>4. m # 0
  <2> DEFINE z == [k \in 0..0 |-> a]
  <2>1. z \in [0..0 -> S]
    OBVIOUS
  <2>2. z[0] = a /\ 1..0 = {}
    OBVIOUS
  <2>3. Runs(z, 0, a, H)
    BY <2>2 DEF Runs
  <2>4. Good(0)
    BY <2>1, <2>3
  <2> QED
    BY <1>3, <2>4
<1>5. m \in 1..L /\ m - 1 \in 0..L /\ ~(m <= m - 1)
  BY <1>3, <1>4
<1>6. Good(m - 1)
  <2>1. m - 1 \notin Bad
    <3> HIDE DEF Bad
    <3> QED
      BY <1>2, <1>5
  <2> HIDE DEF Good
  <2> QED
    BY <1>5, <2>1
<1>7. PICK g \in [0..(m - 1) -> S] : Runs(g, m - 1, a, H)
  BY <1>6
<1> DEFINE h == [k \in 0..m |-> IF k = m THEN H[<<g[m - 1], m>>] ELSE g[k]]
<1>8. h \in [0..m -> S]
  <2>1. <<g[m - 1], m>> \in S \X (1..L)
    BY <1>5, <1>7
  <2> QED
    BY <1>5, <1>7, <2>1
<1>9. Runs(h, m, a, H)
  <2>1. h[0] = a
    BY <1>5, <1>7 DEF Runs
  <2>2. ASSUME NEW k \in 1..m PROVE h[k] = H[<<h[k - 1], k>>]
    <3>1. k \in 0..m /\ k - 1 \in 0..m /\ k - 1 # m
      BY <1>5
    <3>2. h[k - 1] = g[k - 1]
      BY <3>1
    <3>3. CASE k = m
      BY <3>1, <3>2, <3>3
    <3>4. CASE k # m
      <4>1. k \in 1..(m - 1)
        BY <1>5, <3>4
      <4>2. g[k] = H[<<g[k - 1], k>>]
        BY <4>1, <1>7 DEF Runs
      <4>3. h[k] = g[k]
        BY <3>1, <3>4
      <4> QED
        BY <4>2, <4>3, <3>2
    <3> QED
      BY <3>3, <3>4
  <2> HIDE DEF h
  <2> QED
    BY <2>1, <2>2 DEF Runs
<1>10. Good(m)
  <2> HIDE DEF h
  <2> QED
    BY <1>8, <1>9
<1> QED
  BY <1>10, <1>3

(* Induction up to L, for a set of numbers. *)
LEMMA Induction ==
  ASSUME NEW L \in Nat, NEW G, 0 \in G, \A n \in 1..L : n - 1 \in G => n \in G
  PROVE  \A n \in 0..L : n \in G
<1> DEFINE Bad == {n \in 0..L : n \notin G}
<1>1. SUFFICES ASSUME Bad # {} PROVE FALSE
  OBVIOUS
<1>2. PICK m \in Bad : \A n \in Bad : m <= n
  <2>1. Bad \in SUBSET Nat
    OBVIOUS
  <2> HIDE DEF Bad
  <2> QED
    BY <1>1, <2>1, LeastExists
<1>3. m \in 1..L /\ m - 1 \in 0..L /\ ~(m <= m - 1)
  OBVIOUS
<1>4. m - 1 \in G
  <2>1. m - 1 \notin Bad
    <3> HIDE DEF Bad
    <3> QED
      BY <1>2, <1>3
  <2> QED
    BY <1>3, <2>1
<1> QED
  BY <1>3, <1>4

LEMMA MinType ==
  ASSUME NEW S \in SUBSET Nat, S # {}
  PROVE  Min(S) \in S /\ \A k \in S : Min(S) <= k
<1>1. \E m \in S : \A k \in S : m <= k
  BY LeastExists
<1> QED
  BY <1>1 DEF Min
-----------------------------------------------------------------------------
(* The methods of an online connection: what they pack and send. *)

Seqs == 0..(MaxSeq - 1)
Ctrls == {"none", "keepalive", "close"}
Sends == [ctrl : Ctrls, ack : Seqs, resend : BOOLEAN, chunks : Seq(Chunks)]
Constructs == [chunks : Seq(Chunks), resend : BOOLEAN]

\* ConnType in the middle of a step
Conn ==
  [state : {"online", "error", "offline"}, seq : Seqs, ack : Seqs, peerAck : Seqs,
   remoteClosed : BOOLEAN, timedOut : BOOLEAN, protected : BOOLEAN, buffer : Seq(Chunks),
   construct : Constructs, out : SUBSET Sends]

\* what c has sent tells its ack, and holds the newest of S chunks
Tells(c, S) == \A m \in c.out : m.ack = c.ack /\ Holds(m.chunks, S)

Carries(c, S, slack) ==
  c \in Conn /\ c.state = "online" /\ Packs(c.construct.chunks, S, slack) /\ Tells(c, S)

\* the counters and the buffer are not touched
Same(c, d) ==
  d.seq = c.seq /\ d.ack = c.ack /\ d.peerAck = c.peerAck /\ d.buffer = c.buffer

LEMMA Constants ==
  /\ MaxSeq \in Nat \ {0} /\ BufferCap \in Nat /\ PacketCap \in Nat \ {0}
  /\ Window \in Nat /\ Lifetime \in Nat
  /\ Total \in [Peers -> Nat]
  /\ 2 * (Window + 1) <= MaxSeq /\ Window + Lifetime + PacketCap + 1 <= MaxSeq
BY NetAssumption, ChannelAssumption

LEMMA Sizes == Window \in Nat /\ PacketCap \in Nat \ {0}
BY Constants

LEMMA ChunkAt ==
  ASSUME NEW chunks \in Seq(Chunks), NEW i \in DOMAIN chunks
  PROVE  /\ i \in Nat /\ 1 <= i /\ i <= Len(chunks) /\ Len(chunks) \in Nat
         /\ chunks[i] \in Chunks /\ chunks[i].id \in Nat /\ chunks[i].seq \in Seqs
<1>1. i \in 1..Len(chunks) /\ Len(chunks) \in Nat /\ chunks[i] \in Chunks
  OBVIOUS
<1> QED
  BY <1>1 DEF Chunks, Seqs

LEMMA SeqsNat == Seqs \subseteq Nat /\ 0 \in Seqs
BY Constants DEF Seqs

LEMMA NoChunksType == NoChunks \in Constructs /\ NoChunks.chunks = <<>>
<1>1. <<>> \in Seq(Chunks)
  OBVIOUS
<1> QED
  BY <1>1 DEF NoChunks, Constructs

LEMMA PacksNothing ==
  ASSUME NEW S \in Nat, NEW slack \in Nat
  PROVE  Packs(<<>>, S, slack) /\ Holds(<<>>, S)
BY Constants DEF Packs, Holds

LEMMA PacksHolds ==
  ASSUME NEW S \in Nat, NEW slack \in {0, 1}, NEW chunks \in Seq(Chunks),
         Packs(chunks, S, slack)
  PROVE  Holds(chunks, S)
<1>1. Len(chunks) <= PacketCap
  BY DEF Packs
<1>2. ASSUME NEW i \in DOMAIN chunks
      PROVE  Fits(chunks[i], S) /\ chunks[i].id >= S - Window - PacketCap + 1
  <2>1. Fits(chunks[i], S) /\ chunks[i].id >= S - Window + 1 - (Len(chunks) - i) - slack
    BY DEF Packs
  <2>2. i >= 1 /\ i \in Nat /\ Len(chunks) \in Nat /\ chunks[i].id \in Nat
    BY ChunkAt
  <2> DEFINE k == chunks[i].id
             n == Len(chunks)
  <2>3. /\ i \in Nat /\ n \in Nat /\ k \in Nat /\ 1 <= i /\ n <= PacketCap
        /\ k >= S - Window + 1 - (n - i) - slack
    BY <2>1, <2>2, <1>1
  <2> HIDE DEF k, n
  <2>4. k >= S - Window - PacketCap + 1
    BY <2>3, Sizes
  <2> QED
    BY <2>1, <2>4 DEF k
<1> QED
  BY <1>1, <1>2 DEF Holds

LEMMA ControlCarries ==
  ASSUME NEW S \in Nat, NEW c \in Conn, Tells(c, S), NEW msg \in {"keepalive", "close"}
  PROVE  /\ SendControl(c, msg) \in Conn /\ Same(c, SendControl(c, msg))
         /\ Tells(SendControl(c, msg), S)
         /\ SendControl(c, msg).state = c.state
         /\ SendControl(c, msg).construct = c.construct
<1> DEFINE m == Control(c, msg)
<1>1. m \in Sends /\ m.ack = c.ack /\ m.chunks = <<>>
  <2>1. <<>> \in Seq(Chunks)
    OBVIOUS
  <2> QED
    BY <2>1 DEF Control, Sends, Conn, Ctrls
<1> DEFINE d == [c EXCEPT !.out = c.out \cup {m}]
<1>2. SendControl(c, msg) = d
  BY DEF SendControl, Conn
<1> HIDE DEF m
<1>3. d \in Conn /\ d.out = c.out \cup {m} /\ d.state = c.state /\ d.construct = c.construct
  BY <1>1 DEF Conn
<1>4. Same(c, d)
  BY DEF Conn, Same
<1>5. Tells(d, S)
  BY <1>1, <1>3, <1>4, PacksNothing DEF Tells, Same
<1> QED
  BY <1>2, <1>3, <1>4, <1>5

LEMMA FlushCarries ==
  ASSUME NEW S \in Nat, NEW slack \in {0, 1}, NEW c, Carries(c, S, slack)
  PROVE  /\ Carries(Flush(c), S, 0) /\ Same(c, Flush(c))
         /\ Flush(c).construct.chunks = <<>>
<1> DEFINE m == [ctrl |-> "none", ack |-> c.ack, resend |-> c.construct.resend,
                 chunks |-> c.construct.chunks]
           d == [c EXCEPT !.construct = NoChunks, !.out = c.out \cup {m}]
<1>1. c \in Conn /\ c.construct \in Constructs
  BY DEF Carries, Conn
<1>2. m \in Sends /\ m.ack = c.ack /\ Holds(m.chunks, S)
  <2>1. Holds(c.construct.chunks, S)
    BY <1>1, PacksHolds DEF Carries, Constructs
  <2> QED
    BY <1>1, <2>1 DEF Sends, Ctrls, Conn, Constructs
<1>3. CASE c.construct = NoChunks
  <2>1. Flush(c) = c
    BY <1>3 DEF Flush
  <2>2. Packs(c.construct.chunks, S, 0)
    BY <1>3, NoChunksType, PacksNothing
  <2> QED
    BY <1>3, <2>1, <2>2, NoChunksType DEF Carries, Same
<1>4. CASE c.construct # NoChunks
  <2>1. Flush(c) = d
    BY <1>1, <1>4 DEF Flush, Conn
  <2> HIDE DEF m
  <2>2. /\ d \in Conn /\ d.out = c.out \cup {m} /\ d.state = c.state /\ d.ack = c.ack
        /\ d.construct = NoChunks
    BY <1>1, <1>2, NoChunksType DEF Conn
  <2>3. Same(c, d)
    BY <1>1 DEF Conn, Same
  <2> HIDE DEF d
  <2>4. Tells(d, S)
    BY <1>2, <2>2 DEF Tells, Carries
  <2> QED
    BY <2>1, <2>2, <2>3, <2>4, NoChunksType, PacksNothing DEF Carries
<1> QED
  BY <1>3, <1>4

(* A chunk of the window is queued, to a packet packed when at most a chunk less was sent. *)
LEMMA QueueCarries ==
  ASSUME NEW S \in Nat, NEW slack \in {0, 1}, NEW c, Carries(c, S, slack),
         NEW chunk \in Chunks, Fits(chunk, S), chunk.id >= S - Window + 1, NEW first \in BOOLEAN
  PROVE  LET q == QueueChunkEx(c, chunk, first)
         IN  /\ Carries(q, S, 0)
             /\ q.seq = c.seq /\ q.ack = c.ack /\ q.peerAck = c.peerAck
             /\ q.buffer = IF first /\ Len(c.buffer) < BufferCap
                             THEN Append(c.buffer, chunk) ELSE c.buffer
<1> DEFINE f == IF Len(c.construct.chunks) = PacketCap THEN Flush(c) ELSE c
<1>1. /\ Same(c, f) /\ f \in Conn /\ f.state = "online" /\ Tells(f, S)
      /\ Packs(f.construct.chunks, S, slack) /\ Len(f.construct.chunks) < PacketCap
  <2>1. CASE Len(c.construct.chunks) = PacketCap
    <3>1. Carries(Flush(c), S, 0) /\ Same(c, Flush(c)) /\ Flush(c).construct.chunks = <<>>
      BY FlushCarries
    <3>2. Len(<<>>) < PacketCap
      BY Constants
    <3> QED
      BY <2>1, <3>1, <3>2, PacksNothing DEF Carries
  <2>2. CASE Len(c.construct.chunks) # PacketCap
    <3>1. Len(c.construct.chunks) \in Nat
      BY DEF Carries, Conn, Constructs
    <3>2. Len(c.construct.chunks) < PacketCap
      BY <2>2, <3>1, Constants DEF Carries, Packs
    <3> QED
      BY <2>2, <3>2 DEF Carries, Same
  <2> QED
    BY <2>1, <2>2
<1> HIDE DEF f
<1> DEFINE old == f.construct.chunks
           k == [f.construct EXCEPT !.chunks = Append(old, chunk)]
           b == IF first /\ Len(f.buffer) < BufferCap THEN Append(f.buffer, chunk) ELSE f.buffer
           q == [f EXCEPT !.construct = k, !.buffer = b]
<1>2. QueueChunkEx(c, chunk, first) = q
  BY <1>1 DEF QueueChunkEx, f, Conn, Carries
<1>3. f.construct \in Constructs /\ old \in Seq(Chunks) /\ f.buffer \in Seq(Chunks)
  BY <1>1 DEF Conn, Constructs
<1>4. k \in Constructs /\ k.chunks = Append(old, chunk)
  <2>1. Append(old, chunk) \in Seq(Chunks)
    BY <1>3
  <2> QED
    BY <1>3, <2>1 DEF Constructs
<1>5. b \in Seq(Chunks)
  BY <1>3
<1>6. Packs(Append(old, chunk), S, 0)
  <2> DEFINE new == Append(old, chunk)
  <2>1. Len(new) = Len(old) + 1 /\ Len(old) \in Nat /\ Len(new) <= PacketCap
    BY <1>1, <1>3, Constants
  <2>2. ASSUME NEW i \in DOMAIN new
        PROVE  Fits(new[i], S) /\ new[i].id >= S - Window + 1 - (Len(new) - i) - 0
    <3>1. CASE i = Len(old) + 1
      <4>1. new[i] = chunk
        BY <1>3, <3>1
      <4> QED
        BY <2>1, <3>1, <4>1, Constants DEF Chunks
    <3>2. CASE i # Len(old) + 1
      <4>1. i \in DOMAIN old /\ new[i] = old[i]
        BY <1>3, <3>2
      <4>2. Fits(old[i], S) /\ old[i].id >= S - Window + 1 - (Len(old) - i) - slack
        BY <1>1, <4>1 DEF Packs
      <4>3. i \in Nat /\ old[i].id \in Nat
        BY <1>3, <4>1, ChunkAt
      <4> DEFINE n == Len(old)
                 x == old[i].id
      <4>4. n \in Nat /\ x \in Nat /\ x >= S - Window + 1 - (n - i) - slack
        BY <2>1, <4>2, <4>3
      <4> HIDE DEF n, x
      <4>5. x >= S - Window + 1 - ((n + 1) - i) - 0
        BY <4>3, <4>4, Sizes
      <4> QED
        BY <2>1, <4>1, <4>2, <4>5 DEF n, x
    <3> QED
      BY <3>1, <3>2
  <2> HIDE DEF new
  <2> QED
    BY <2>1, <2>2 DEF Packs, new
<1>7. /\ q \in Conn /\ q.out = f.out /\ q.ack = f.ack /\ q.state = "online"
      /\ q.construct = k /\ q.buffer = b /\ q.seq = f.seq /\ q.peerAck = f.peerAck
  <2> HIDE DEF k, b
  <2> QED
    BY <1>1, <1>4, <1>5 DEF Conn
<1>8. b = IF first /\ Len(c.buffer) < BufferCap THEN Append(c.buffer, chunk) ELSE c.buffer
  BY <1>1 DEF Same
<1> HIDE DEF q, k, b
<1>9. Carries(q, S, 0)
  BY <1>1, <1>4, <1>6, <1>7 DEF Carries, Tells
<1> QED
  BY <1>1, <1>2, <1>7, <1>8, <1>9 DEF Same

(* The next chunk is queued. *)
LEMMA QueueChunkCarries ==
  ASSUME NEW S \in Nat, NEW c, Carries(c, S, 0), c.out = {}, c.seq = S % MaxSeq, 1 <= Window
  PROVE  LET q     == QueueChunk(c, S + 1)
             chunk == [seq |-> (S + 1) % MaxSeq, id |-> S + 1]
         IN  /\ Carries(q, S + 1, 0)
             /\ q.seq = (S + 1) % MaxSeq /\ q.ack = c.ack /\ q.peerAck = c.peerAck
             /\ q.buffer = IF Len(c.buffer) < BufferCap
                             THEN Append(c.buffer, chunk) ELSE c.buffer
<1> DEFINE s == SeqAfter(c.seq)
           d == [c EXCEPT !.seq = s]
           chunk == [seq |-> s, id |-> S + 1]
<1>1. s = (S + 1) % MaxSeq
  BY NextNumber, Constants DEF SeqAfter
<1>2. s \in Seqs
  BY <1>1, Division, Constants DEF Seqs
<1>3. QueueChunk(c, S + 1) = QueueChunkEx(d, chunk, TRUE)
  BY DEF QueueChunk
<1>4. chunk \in Chunks /\ Fits(chunk, S + 1) /\ chunk.id = S + 1
  BY <1>1, <1>2 DEF Chunks, Fits, Seqs
<1> HIDE DEF s
<1>5. /\ d \in Conn /\ d.state = "online" /\ d.construct = c.construct /\ d.out = {}
      /\ d.seq = s /\ d.ack = c.ack /\ d.peerAck = c.peerAck /\ d.buffer = c.buffer
  BY <1>2 DEF Conn, Carries
<1> HIDE DEF d
<1>6. Packs(c.construct.chunks, S + 1, 1)
  <2> DEFINE k == c.construct.chunks
  <2>0. k \in Seq(Chunks) /\ Packs(k, S, 0)
    BY DEF Carries, Conn, Constructs
  <2> HIDE DEF k
  <2>1. ASSUME NEW i \in DOMAIN k
        PROVE  Fits(k[i], S + 1) /\ k[i].id >= (S + 1) - Window + 1 - (Len(k) - i) - 1
    <3>1. Fits(k[i], S) /\ k[i].id >= S - Window + 1 - (Len(k) - i) - 0
      BY <2>0 DEF Packs
    <3>2. i \in Nat /\ Len(k) \in Nat /\ k[i].id \in Nat
      BY <2>0, ChunkAt
    <3>3. Fits(k[i], S + 1)
      BY <3>1, <3>2 DEF Fits
    <3> QED
      BY <3>1, <3>2, <3>3, Constants
  <2> QED
    BY <2>0, <2>1 DEF Packs, k
<1>7. Carries(d, S + 1, 1)
  BY <1>5, <1>6 DEF Carries, Tells
<1>8. S + 1 \in Nat /\ S + 1 >= (S + 1) - Window + 1
  BY Constants
<1> HIDE DEF chunk
<1>9. LET q == QueueChunkEx(d, chunk, TRUE)
      IN  /\ Carries(q, S + 1, 0)
          /\ q.seq = d.seq /\ q.ack = d.ack /\ q.peerAck = d.peerAck
          /\ q.buffer = IF TRUE /\ Len(d.buffer) < BufferCap
                          THEN Append(d.buffer, chunk) ELSE d.buffer
  BY <1>4, <1>7, <1>8, QueueCarries
<1> QED
  BY <1>1, <1>3, <1>5, <1>9 DEF chunk
\* chunks that may be sent again: the newest of S
Waits(buffer, S) ==
  \A i \in DOMAIN buffer : Fits(buffer[i], S) /\ buffer[i].id >= S - Window + 1

LEMMA ResendChunkCarries ==
  ASSUME NEW S \in Nat, NEW c, Carries(c, S, 0), NEW chunk \in Chunks,
         Fits(chunk, S), chunk.id >= S - Window + 1
  PROVE  Carries(ResendChunk(c, chunk), S, 0) /\ Same(c, ResendChunk(c, chunk))
<1>1. LET q == QueueChunkEx(c, chunk, FALSE)
      IN  /\ Carries(q, S, 0)
          /\ q.seq = c.seq /\ q.ack = c.ack /\ q.peerAck = c.peerAck
          /\ q.buffer = IF FALSE /\ Len(c.buffer) < BufferCap
                          THEN Append(c.buffer, chunk) ELSE c.buffer
  BY QueueCarries
<1> QED
  BY <1>1 DEF ResendChunk, Same

LEMMA ResendCarries ==
  ASSUME NEW S \in Nat, NEW c, Carries(c, S, 0), Waits(c.buffer, S)
  PROVE  Carries(Resend(c), S, 0) /\ Same(c, Resend(c))
<1> DEFINE L == Len(c.buffer)
           K == {d \in Conn : Carries(d, S, 0) /\ Same(c, d)}
           H == [p \in K \X (1..L) |-> ResendChunk(p[1], c.buffer[p[2]])]
           r[n \in 0..L] == IF n = 0 THEN c ELSE ResendChunk(r[n - 1], c.buffer[n])
<1>1. L \in Nat /\ \A n \in 1..L : c.buffer[n] \in Chunks /\ n \in DOMAIN c.buffer
  BY DEF Carries, Conn
<1>2. c \in K
  BY DEF Same, Carries
<1>3. \A d \in K, n \in 1..L : ResendChunk(d, c.buffer[n]) \in K
  <2> SUFFICES ASSUME NEW d \in K, NEW n \in 1..L PROVE ResendChunk(d, c.buffer[n]) \in K
    OBVIOUS
  <2> HIDE DEF L
  <2>1. Fits(c.buffer[n], S) /\ c.buffer[n].id >= S - Window + 1 /\ c.buffer[n] \in Chunks
    BY <1>1 DEF Waits
  <2>2. Carries(ResendChunk(d, c.buffer[n]), S, 0) /\ Same(d, ResendChunk(d, c.buffer[n]))
    BY <2>1, ResendChunkCarries
  <2> QED
    BY <2>2 DEF Same, Carries
<1>4. Resend(c) = r[L]
  BY DEF Resend
<1> HIDE DEF K, L
<1>5. H \in [K \X (1..L) -> K]
  BY <1>3
<1>6. PICK g \in [0..L -> K] : Runs(g, L, c, H)
  <2> HIDE DEF H
  <2> QED
    BY <1>1, <1>2, <1>5, RunExists
<1>7. g = [n \in 0..L |-> IF n = 0 THEN c ELSE ResendChunk(g[n - 1], c.buffer[n])]
  <2>1. \A n \in 0..L : g[n] = IF n = 0 THEN c ELSE ResendChunk(g[n - 1], c.buffer[n])
    <3> SUFFICES ASSUME NEW n \in 0..L, n # 0 PROVE g[n] = ResendChunk(g[n - 1], c.buffer[n])
      BY <1>6 DEF Runs
    <3>1. n \in 1..L /\ n - 1 \in 0..L
      BY <1>1
    <3>2. g[n] = H[<<g[n - 1], n>>]
      BY <1>6, <3>1 DEF Runs
    <3>3. <<g[n - 1], n>> \in K \X (1..L)
      BY <1>6, <3>1
    <3> QED
      BY <3>2, <3>3
  <2> QED
    BY <2>1, <1>6
<1>8. r = [n \in 0..L |-> IF n = 0 THEN c ELSE ResendChunk(r[n - 1], c.buffer[n])]
  BY <1>7
<1> HIDE DEF r
<1>9. \A n \in 0..L : n \in {i \in 0..L : r[i] \in K}
  <2>1. 0 \in {i \in 0..L : r[i] \in K}
    BY <1>1, <1>2, <1>8
  <2>2. ASSUME NEW n \in 1..L, n - 1 \in {i \in 0..L : r[i] \in K}
        PROVE  n \in {i \in 0..L : r[i] \in K}
    <3>1. n \in 0..L /\ n # 0
      BY <1>1
    <3>2. r[n] = ResendChunk(r[n - 1], c.buffer[n])
      BY <1>8, <3>1
    <3> QED
      BY <3>1, <3>2, <2>2, <1>3
  <2> QED
    BY <1>1, <2>1, <2>2, Induction
<1>10. r[L] \in K
  BY <1>1, <1>9
<1> QED
  BY <1>4, <1>10 DEF K

LEMMA UpdatedCarries ==
  ASSUME NEW S \in Nat, NEW c, Carries(c, S, 0), Waits(c.buffer, S),
         NEW resend \in BOOLEAN, NEW idle \in {"no", "late", "idle"}
  PROVE  Carries(Updated(c, resend, idle), S, 0) /\ Same(c, Updated(c, resend, idle))
<1> DEFINE r == IF resend /\ c.buffer # <<>> THEN ResendChunk(c, Head(c.buffer)) ELSE c
           k == [r EXCEPT !.timedOut = FALSE]
<1>1. Carries(r, S, 0) /\ Same(c, r)
  <2>1. CASE resend /\ c.buffer # <<>>
    <3>1. Head(c.buffer) = c.buffer[1] /\ 1 \in DOMAIN c.buffer /\ c.buffer \in Seq(Chunks)
      BY <2>1 DEF Carries, Conn
    <3>2. c.buffer[1] \in Chunks
      BY <3>1
    <3>3. Fits(c.buffer[1], S) /\ c.buffer[1].id >= S - Window + 1
      BY <3>1 DEF Waits
    <3> QED
      BY <2>1, <3>1, <3>2, <3>3, ResendChunkCarries
  <2>2. CASE ~(resend /\ c.buffer # <<>>)
    BY <2>2 DEF Same
  <2> QED
    BY <2>1, <2>2
<1> HIDE DEF r
<1>2. /\ k \in Conn /\ k.state = "online" /\ k.construct = r.construct /\ k.out = r.out
      /\ Same(r, k)
  BY <1>1 DEF Carries, Conn, Same
<1>3. Carries(k, S, 0)
  BY <1>1, <1>2 DEF Carries, Tells, Same
<1> HIDE DEF k
<1>4. Carries(Flush(k), S, 0) /\ Same(k, Flush(k))
  BY <1>3, FlushCarries
<1>5. Carries(SendControl(k, "keepalive"), S, 0) /\ Same(k, SendControl(k, "keepalive"))
  BY <1>3, ControlCarries DEF Carries
<1>6. Updated(c, resend, idle) \in {k, Flush(k), SendControl(k, "keepalive")}
  <2>1. c.state = "online"
    BY DEF Carries
  <2> QED
    BY <2>1 DEF Updated, k, r
<1> QED
  BY <1>1, <1>2, <1>3, <1>4, <1>5, <1>6 DEF Same

LEMMA DisconnectTells ==
  ASSUME NEW S \in Nat, NEW c \in Conn, c.out = {}
  PROVE  /\ Disconnect(c) \in Conn /\ Disconnect(c).state = "offline"
         /\ \A m \in Disconnect(c).out : m.ack = c.ack /\ Holds(m.chunks, S)
<1>1. Tells(c, S)
  BY DEF Tells
<1> DEFINE d == IF c.remoteClosed \/ c.timedOut THEN c ELSE SendControl(c, "close")
<1>2. d \in Conn /\ d.ack = c.ack /\ Tells(d, S)
  <2>1. /\ SendControl(c, "close") \in Conn /\ Same(c, SendControl(c, "close"))
        /\ Tells(SendControl(c, "close"), S)
    BY <1>1, ControlCarries
  <2> QED
    BY <1>1, <2>1 DEF Same
<1>3. Disconnect(c) = IF c.state = "offline" THEN c ELSE Reset(d)
  BY DEF Disconnect
<1> HIDE DEF d
<1>4. Reset(d) \in Conn /\ Reset(d).state = "offline" /\ Reset(d).out = d.out
  <2>1. <<>> \in Seq(Chunks)
    OBVIOUS
  <2> QED
    BY <1>2, <2>1, NoChunksType, SeqsNat DEF Reset, Offline, Conn
<1> QED
  BY <1>2, <1>3, <1>4 DEF Tells
-----------------------------------------------------------------------------
(* Acknowledgements. *)

LEMMA SubSeqAt ==
  ASSUME NEW T, NEW s \in Seq(T), NEW m \in 1..(Len(s) + 1)
  PROVE  LET b == SubSeq(s, m, Len(s))
         IN  /\ b \in Seq(T) /\ Len(b) = Len(s) - m + 1
             /\ \A j \in DOMAIN b :
                  j \in Nat /\ 1 <= j /\ m + j - 1 \in DOMAIN s /\ b[j] = s[m + j - 1]
<1> DEFINE b == SubSeq(s, m, Len(s))
<1>1. b \in Seq(T) /\ Len(b) = Len(s) - m + 1 /\ \A j \in 1..Len(b) : b[j] = s[m + j - 1]
  OBVIOUS
<1>2. Len(s) \in Nat /\ m \in Nat /\ DOMAIN b = 1..Len(b) /\ DOMAIN s = 1..Len(s) /\ 1 <= m
  BY <1>1
<1> HIDE DEF b
<1>3. ASSUME NEW j \in DOMAIN b
      PROVE  j \in Nat /\ 1 <= j /\ m + j - 1 \in DOMAIN s /\ b[j] = s[m + j - 1]
  <2>1. j \in 1..Len(b) /\ j \in Nat
    BY <1>1, <1>2
  <2> QED
    BY <1>1, <1>2, <2>1
<1> QED
  BY <1>1, <1>3 DEF b

(* An ack that is valid is not older than the last one, if it is less than a lap old. *)
LEMMA ValidIsNewer ==
  ASSUME NEW c, NEW S \in Nat, NEW P \in Nat, NEW A \in Nat,
         c.seq = S % MaxSeq, c.peerAck = P % MaxSeq,
         P <= S, S - P < MaxSeq, A <= S, S - A < MaxSeq,
         AckIsValid(c, A % MaxSeq)
  PROVE  P <= A
<1>1. MaxSeq \in Nat \ {0} /\ S \in Int /\ P \in Int /\ A \in Int
  BY Constants
<1>2. SUFFICES ASSUME A < P PROVE FALSE
  BY <1>1
<1>3. PICK p, y \in 0..(MaxSeq - 1) :
        /\ P % MaxSeq = p /\ S % MaxSeq = y
        /\ (p <= y /\ y - p = S - P) \/ (p > y /\ y - p = S - P - MaxSeq)
  BY <1>1, Lap
<1>4. PICK a, z \in 0..(MaxSeq - 1) :
        /\ A % MaxSeq = a /\ S % MaxSeq = z
        /\ (a <= z /\ z - a = S - A) \/ (a > z /\ z - a = S - A - MaxSeq)
  BY <1>1, Lap
<1>5. z = y
  BY <1>3, <1>4
<1>6. IF y >= p THEN p <= a /\ a <= y ELSE p <= a \/ a <= y
  BY <1>3, <1>4 DEF AckIsValid
<1> QED
  BY <1>1, <1>2, <1>3, <1>4, <1>5, <1>6

(* Chunks that A covers leave the buffer, and no others. *)
LEMMA AckChunksKeeps ==
  ASSUME NEW c \in Conn, NEW S \in Nat, NEW P \in Nat, NEW A \in Nat,
         P <= A, A <= S, S - P <= Window,
         Rises(c.buffer, P, S), Saves(c.buffer, P, S)
  PROVE  LET d == AckChunks(c, A % MaxSeq)
         IN  /\ d \in Conn /\ d.state = c.state /\ d.seq = c.seq /\ d.ack = c.ack
             /\ d.peerAck = c.peerAck /\ d.construct = c.construct /\ d.out = c.out
             /\ Rises(d.buffer, A, S) /\ Saves(d.buffer, A, S)
<1> DEFINE old == c.buffer
           kept == {i \in DOMAIN old : ~IsSeqInBackroom(old[i].seq, A % MaxSeq)}
           b == IF kept = {} THEN <<>> ELSE SubSeq(old, Min(kept), Len(old))
           d == [c EXCEPT !.buffer = b]
<1>1. old \in Seq(Chunks)
  BY DEF Conn
<1>2. AckChunks(c, A % MaxSeq) = d
  BY DEF AckChunks, Conn
<1>3. ASSUME NEW i \in DOMAIN old PROVE i \in kept <=> old[i].id > A
  <2> DEFINE k == old[i].id
  <2>1. k \in Nat /\ old[i].seq = k % MaxSeq /\ k <= S /\ k > P
    BY <1>1, ChunkAt DEF Rises, Fits
  <2> HIDE DEF k
  <2>2. CASE k > A
    <3>1. 2 * (k - A + 1) <= MaxSeq /\ A < k /\ k \in Int /\ A \in Int
      BY <2>1, <2>2, Constants
    <3>2. ~IsSeqInBackroom(k % MaxSeq, A % MaxSeq)
      BY <3>1, Ahead
    <3> QED
      BY <2>1, <2>2, <3>2 DEF k
  <2>3. CASE k <= A
    <3>1. 2 * (A - k) <= MaxSeq /\ k \in Int /\ A \in Int
      BY <2>1, <2>3, Constants
    <3>2. IsSeqInBackroom(k % MaxSeq, A % MaxSeq)
      BY <2>3, <3>1, Behind
    <3> QED
      BY <2>1, <2>3, <3>2 DEF k
  <2> QED
    BY <2>1, <2>2, <2>3
<1>4. kept \in SUBSET Nat /\ kept \subseteq DOMAIN old
  BY <1>1
<1> HIDE DEF kept
<1>5. b \in Seq(Chunks) /\ Rises(b, A, S) /\ Saves(b, A, S)
  <2>1. CASE kept = {}
    <3>1. b = <<>> /\ DOMAIN b = {}
      BY <2>1
    <3>4. <<>> \in Seq(Chunks)
      OBVIOUS
    <3>2. Rises(b, A, S)
      BY <3>1 DEF Rises
    <3>3. Saves(b, A, S)
      <4> SUFFICES ASSUME Window <= BufferCap, NEW k \in (A + 1)..S PROVE FALSE
        BY DEF Saves
      <4>1. k \in (P + 1)..S /\ k > A
        OBVIOUS
      <4>2. PICK i \in DOMAIN old : old[i].id = k
        BY <4>1 DEF Saves
      <4> QED
        BY <4>1, <4>2, <1>3, <2>1
    <3> QED
      BY <3>1, <3>2, <3>3, <3>4
  <2>2. CASE kept # {}
    <3> DEFINE m == Min(kept)
               L == Len(old)
    <3>1. m \in kept /\ \A k \in kept : m <= k
      BY <1>4, <2>2, MinType
    <3> HIDE DEF m
    <3>2. m \in DOMAIN old /\ m \in 1..L /\ m \in Nat /\ L \in Nat /\ old[m].id > A
      <4>1. m \in DOMAIN old
        BY <1>4, <3>1
      <4>2. m \in 1..L /\ L \in Nat
        BY <1>1, <4>1
      <4> QED
        BY <4>1, <4>2, <1>3, <3>1
    <3>3. b = SubSeq(old, m, L)
      BY <2>2 DEF m
    <3> HIDE DEF b
    <3>4. /\ b \in Seq(Chunks) /\ Len(b) = L - m + 1
          /\ \A j \in DOMAIN b :
               j \in Nat /\ 1 <= j /\ m + j - 1 \in DOMAIN old /\ b[j] = old[m + j - 1]
      <4>1. m \in 1..(Len(old) + 1)
        BY <3>2
      <4> QED
        BY <1>1, <3>3, <4>1, SubSeqAt
    <3>5. Rises(b, A, S)
      <4>1. ASSUME NEW j \in DOMAIN b PROVE Fits(b[j], S) /\ b[j].id > A
        <5>1. m + j - 1 \in DOMAIN old /\ b[j] = old[m + j - 1] /\ m <= m + j - 1
          BY <3>2, <3>4
        <5>2. /\ Fits(old[m + j - 1], S)
              /\ old[m + j - 1].id - old[m].id >= (m + j - 1) - m
          BY <3>2, <5>1 DEF Rises
        <5>3. old[m + j - 1].id \in Nat /\ old[m].id \in Nat /\ j \in Nat /\ j >= 1
          BY <1>1, <3>2, <3>4, <5>1, ChunkAt
        <5> DEFINE x == old[m + j - 1].id
                   y == old[m].id
        <5>4. x \in Nat /\ y \in Nat /\ x - y >= (m + j - 1) - m /\ y > A
          BY <3>2, <5>2, <5>3
        <5> HIDE DEF x, y
        <5>5. x > A
          BY <3>2, <5>3, <5>4
        <5> QED
          BY <5>1, <5>2, <5>5 DEF x
      <4>2. ASSUME NEW i \in DOMAIN b, NEW j \in DOMAIN b, i <= j
            PROVE  b[j].id - b[i].id >= j - i
        <5>1. /\ m + i - 1 \in DOMAIN old /\ b[i] = old[m + i - 1]
              /\ m + j - 1 \in DOMAIN old /\ b[j] = old[m + j - 1]
              /\ i \in Nat /\ j \in Nat /\ m \in Nat
          BY <3>2, <3>4
        <5>2. m + i - 1 <= m + j - 1 /\ (m + j - 1) - (m + i - 1) = j - i
          BY <4>2, <5>1
        <5> QED
          BY <5>1, <5>2 DEF Rises
      <4> QED
        BY <4>1, <4>2 DEF Rises
    <3>6. Saves(b, A, S)
      <4> SUFFICES ASSUME Window <= BufferCap, NEW k \in (A + 1)..S
                   PROVE  \E j \in DOMAIN b : b[j].id = k
        BY DEF Saves
      <4>1. k \in (P + 1)..S /\ k > A
        OBVIOUS
      <4>2. PICK i \in DOMAIN old : old[i].id = k
        BY <4>1 DEF Saves
      <4>3. m <= i
        BY <4>1, <4>2, <1>3, <3>1
      <4>4. i \in 1..L
        BY <1>1
      <4>5. i - m + 1 \in DOMAIN b
        BY <3>2, <3>4, <4>3, <4>4
      <4>6. b[i - m + 1] = old[m + (i - m + 1) - 1] /\ m + (i - m + 1) - 1 = i
        BY <3>2, <3>4, <4>4, <4>5
      <4> QED
        BY <4>2, <4>5, <4>6
    <3> QED
      BY <3>4, <3>5, <3>6
  <2> QED
    BY <2>1, <2>2
<1> HIDE DEF b
<1>6. /\ d \in Conn /\ d.state = c.state /\ d.seq = c.seq /\ d.ack = c.ack
      /\ d.peerAck = c.peerAck /\ d.construct = c.construct /\ d.out = c.out /\ d.buffer = b
  BY <1>5 DEF Conn
<1> QED
  BY <1>2, <1>5, <1>6

LEMMA AckedWaits ==
  ASSUME NEW c \in Conn, NEW S \in Nat, NEW P \in Nat, Acked(c, P, S)
  PROVE  Waits(c.buffer, S)
<1>1. S - P <= Window /\ Rises(c.buffer, P, S) /\ c.buffer \in Seq(Chunks)
  BY DEF Acked, Conn
<1>2. ASSUME NEW i \in DOMAIN c.buffer
      PROVE  Fits(c.buffer[i], S) /\ c.buffer[i].id >= S - Window + 1
  <2>1. Fits(c.buffer[i], S) /\ c.buffer[i].id > P /\ c.buffer[i].id \in Nat
    BY <1>1, ChunkAt DEF Rises
  <2> QED
    BY <1>1, <2>1, Sizes
<1> QED
  BY <1>2 DEF Waits

(* A valid packet sent when A chunks were delivered is fed. *)
LEMMA FeedKeeps ==
  ASSUME NEW S \in Nat, NEW c, Carries(c, S, 0), c.seq = S % MaxSeq,
         NEW P \in Nat, Acked(c, P, S), NEW A \in Nat, A <= S, S - A < MaxSeq,
         NEW pk, pk.ack = A % MaxSeq, pk.ctrl \in Ctrls, pk.resend \in BOOLEAN,
         AckIsValid(c, pk.ack)
  PROVE  LET f == Feed(c, pk)
         IN  /\ f \in Conn /\ f.state \in {"online", "error"} /\ f.seq = c.seq /\ f.ack = c.ack
             /\ Tells(f, S)
             /\ f.state = "online" => Packs(f.construct.chunks, S, 0) /\ Acked(f, A, S)
<1>1. P <= S /\ S - P <= Window /\ S - P < MaxSeq /\ P <= A
  <2>1. P <= S /\ S - P <= Window /\ c.peerAck = P % MaxSeq
    BY DEF Acked
  <2>2. S - P < MaxSeq
    BY <2>1, Constants
  <2> QED
    BY <2>1, <2>2, ValidIsNewer
<1>2. pk.ack \in Seqs
  BY Constants, Division DEF Seqs
<1> DEFINE a == [c EXCEPT !.peerAck = pk.ack]
<1>3. /\ a \in Conn /\ a.state = "online" /\ a.construct = c.construct /\ a.out = c.out
      /\ a.seq = c.seq /\ a.ack = c.ack /\ a.peerAck = pk.ack /\ a.buffer = c.buffer
  BY <1>2 DEF Carries, Conn
<1> HIDE DEF a
<1>4. Carries(a, S, 0) /\ Waits(a.buffer, S)
  BY <1>3, AckedWaits DEF Carries, Tells
<1> DEFINE r == IF pk.resend THEN Resend(a) ELSE a
<1>5. Carries(r, S, 0) /\ Same(a, r)
  BY <1>4, ResendCarries DEF Same
<1> HIDE DEF r
<1> DEFINE e == [r EXCEPT !.state = "error", !.remoteClosed = TRUE]
<1>6. /\ e \in Conn /\ e.state = "error" /\ e.seq = r.seq /\ e.ack = r.ack /\ e.out = r.out
  BY <1>5 DEF Carries, Conn
<1>7. Tells(e, S)
  BY <1>5, <1>6 DEF Carries, Tells
<1> HIDE DEF e
<1> DEFINE d == AckChunks(r, A % MaxSeq)
<1>8. /\ d \in Conn /\ d.state = r.state /\ d.seq = r.seq /\ d.ack = r.ack
      /\ d.peerAck = r.peerAck /\ d.construct = r.construct /\ d.out = r.out
      /\ Rises(d.buffer, A, S) /\ Saves(d.buffer, A, S)
  <2>1. Rises(r.buffer, P, S) /\ Saves(r.buffer, P, S) /\ r \in Conn
    BY <1>3, <1>5 DEF Acked, Same, Carries
  <2> QED
    BY <1>1, <2>1, AckChunksKeeps
<1> HIDE DEF d
<1>9. Tells(d, S) /\ Packs(d.construct.chunks, S, 0)
  BY <1>5, <1>8 DEF Carries, Tells
<1>10. Acked(d, A, S)
  <2>1. S - A <= Window
    BY <1>1, Sizes
  <2>2. d.peerAck = A % MaxSeq
    BY <1>3, <1>5, <1>8 DEF Same
  <2> QED
    BY <2>1, <2>2, <1>8 DEF Acked
<1>11. Feed(c, pk) = IF pk.ctrl = "close" THEN e ELSE d
  <2>1. r.state = "online"
    BY <1>5 DEF Carries
  <2> QED
    BY <2>1 DEF Feed, a, r, e, d
<1>12. r.seq = c.seq /\ r.ack = c.ack /\ r.state = "online"
  BY <1>3, <1>5 DEF Same, Carries
<1> QED
  BY <1>6, <1>7, <1>8, <1>9, <1>10, <1>11, <1>12
-----------------------------------------------------------------------------
(* Unpacking. *)

LEMMA SeqAfterType == ASSUME NEW s \in Seqs PROVE SeqAfter(s) \in Seqs
BY NetAssumption DEF SeqAfter, Seqs

LEMMA SeqAfterIs ==
  ASSUME NEW c, NEW G \in Nat, c.ack = G % MaxSeq
  PROVE  SeqAfter(c.ack) = (G + 1) % MaxSeq
<1>1. MaxSeq \in Nat \ {0} /\ G \in Int
  BY Constants
<1>2. ((G % MaxSeq) + 1) % MaxSeq = (G + 1) % MaxSeq
  BY <1>1, NextNumber
<1> QED
  BY <1>2 DEF SeqAfter

LEMMA AfterUnpackIs ==
  ASSUME NEW c \in Conn, NEW chunks \in Seq(Chunks)
  PROVE  LET u == AfterUnpack(c, chunks)
         IN  /\ u \in Conn /\ u.state = c.state /\ u.seq = c.seq /\ u.peerAck = c.peerAck
             /\ u.buffer = c.buffer /\ u.out = c.out /\ u.construct.chunks = c.construct.chunks
             /\ u.ack = IF NextInSequence(c, chunks) = {} THEN c.ack ELSE SeqAfter(c.ack)
<1> DEFINE asks == \E i \in DOMAIN Skipped(c, chunks) : ~IsSeqInBackroom(chunks[i].seq, c.ack)
           k == [c.construct EXCEPT !.resend = c.construct.resend \/ asks]
           n == IF NextInSequence(c, chunks) = {} THEN c.ack ELSE SeqAfter(c.ack)
<1>1. n \in Seqs
  <2>1. SeqAfter(c.ack) \in Seqs
    BY SeqAfterType DEF Conn
  <2> QED
    BY <2>1 DEF Conn
<1>2. k \in Constructs /\ k.chunks = c.construct.chunks
  <2>1. c.construct \in Constructs
    BY DEF Conn
  <2>2. (c.construct.resend \/ asks) \in BOOLEAN
    OBVIOUS
  <2> HIDE DEF asks
  <2> QED
    BY <2>1, <2>2 DEF Constructs
<1>3. AfterUnpack(c, chunks) = [c EXCEPT !.ack = n, !.construct = k]
  BY DEF AfterUnpack, Conn
<1> DEFINE u == [c EXCEPT !.ack = n, !.construct = k]
<1> HIDE DEF k, n
<1>4. /\ u \in Conn /\ u.state = c.state /\ u.seq = c.seq /\ u.peerAck = c.peerAck
      /\ u.buffer = c.buffer /\ u.out = c.out /\ u.construct = k /\ u.ack = n
  BY <1>1, <1>2 DEF Conn
<1> QED
  BY <1>2, <1>3, <1>4 DEF n

LEMMA RemainingIs ==
  ASSUME NEW c, NEW chunks \in Seq(Chunks)
  PROVE  LET b == Remaining(c, chunks)
         IN  b \in Seq(Chunks) /\ \A j \in DOMAIN b : \E i \in DOMAIN chunks : b[j] = chunks[i]
<1> DEFINE hit == NextInSequence(c, chunks)
           L == Len(chunks)
<1>1. hit \in SUBSET Nat /\ hit \subseteq 1..L /\ L \in Nat
  BY DEF NextInSequence
<1> HIDE DEF hit
<1>2. CASE hit = {}
  <2>1. Remaining(c, chunks) = SubSeq(chunks, L + 2, L)
    BY <1>2 DEF Remaining, Skipped, hit
  <2>2. SubSeq(chunks, L + 2, L) = <<>>
    BY <1>1
  <2>3. <<>> \in Seq(Chunks) /\ DOMAIN <<>> = {}
    OBVIOUS
  <2> QED
    BY <2>1, <2>2, <2>3
<1>3. CASE hit # {}
  <2> DEFINE m == Min(hit)
  <2>1. m \in 1..L
    BY <1>1, <1>3, MinType
  <2>2. Skipped(c, chunks) = SubSeq(chunks, 1, m - 1)
    BY <1>3 DEF Skipped, hit
  <2> HIDE DEF m
  <2>3. Len(SubSeq(chunks, 1, m - 1)) = m - 1
    BY <1>1, <2>1
  <2>4. Remaining(c, chunks) = SubSeq(chunks, m + 1, L) /\ m + 1 \in 1..(L + 1)
    <3>1. (m - 1) + 2 = m + 1 /\ m + 1 \in 1..(L + 1)
      BY <1>1, <2>1
    <3> QED
      BY <2>2, <2>3, <3>1 DEF Remaining
  <2> QED
    BY <2>4, SubSeqAt
<1> QED
  BY <1>2, <1>3

\* what is left of a packet is as near as the packet was
LEMMA RemainingNear ==
  ASSUME NEW c, NEW chunks \in Seq(Chunks), NEW G \in Nat, NEW S \in Nat, Near(chunks, G, S)
  PROVE  Near(Remaining(c, chunks), G, S)
<1> DEFINE b == Remaining(c, chunks)
<1>1. b \in Seq(Chunks) /\ \A j \in DOMAIN b : \E i \in DOMAIN chunks : b[j] = chunks[i]
  BY RemainingIs
<1> HIDE DEF b
<1>2. ASSUME NEW i \in DOMAIN b PROVE Fits(b[i], S) /\ G - b[i].id <= MaxSeq - 2
  BY <1>1 DEF Near
<1>3. ASSUME NEW i \in DOMAIN b, NEW j \in DOMAIN b PROVE b[j].id - b[i].id <= MaxSeq - 2
  BY <1>1 DEF Near
<1> QED
  BY <1>2, <1>3 DEF Near, b

(* The numbers tell the chunk that is next. *)
LEMMA NextIs ==
  ASSUME NEW c, NEW chunks \in Seq(Chunks), NEW G \in Nat, NEW S \in Nat, Near(chunks, G, S),
         S - G <= Window, c.ack = G % MaxSeq, NEW i \in DOMAIN chunks
  PROVE  i \in NextInSequence(c, chunks) <=> chunks[i].id = G + 1
<1> DEFINE k == chunks[i].id
<1>1. k \in Nat /\ chunks[i].seq = k % MaxSeq /\ k <= S /\ G - k <= MaxSeq - 2
  BY ChunkAt DEF Near, Fits
<1>2. i \in NextInSequence(c, chunks) <=> chunks[i].seq = SeqAfter(c.ack)
  BY DEF NextInSequence
<1>3. SeqAfter(c.ack) = (G + 1) % MaxSeq
  BY SeqAfterIs
<1> HIDE DEF k
<1>4. ASSUME k % MaxSeq = (G + 1) % MaxSeq PROVE k = G + 1
  <2>1. k - (G + 1) < MaxSeq /\ (G + 1) - k < MaxSeq /\ k \in Int /\ G + 1 \in Int
    BY <1>1, Constants
  <2> QED
    BY <2>1, <1>4, SameNumber, Constants
<1> QED
  BY <1>1, <1>2, <1>3, <1>4 DEF k

(* A call either finds nothing, or delivers the next chunk and acknowledges it. *)
LEMMA UnpackKeeps ==
  ASSUME NEW c \in Conn, NEW chunks \in Seq(Chunks), NEW G \in Nat, NEW S \in Nat,
         Near(chunks, G, S), S - G <= Window, c.ack = G % MaxSeq
  PROVE  LET u == AfterUnpack(c, chunks)
             b == Remaining(c, chunks)
         IN  \/ Unpacked(c, chunks) = <<>> /\ u.ack = G % MaxSeq /\ Near(b, G, S)
             \/ /\ Unpacked(c, chunks) = <<G + 1>> /\ u.ack = (G + 1) % MaxSeq
                /\ Near(b, G + 1, S) /\ G + 1 <= S
<1> DEFINE hit == NextInSequence(c, chunks)
           b == Remaining(c, chunks)
<1>1. hit \in SUBSET Nat /\ hit \subseteq DOMAIN chunks
  BY DEF NextInSequence
<1>2. AfterUnpack(c, chunks).ack = IF hit = {} THEN c.ack ELSE SeqAfter(c.ack)
  BY AfterUnpackIs
<1>3. b \in Seq(Chunks) /\ (\A j \in DOMAIN b : \E i \in DOMAIN chunks : b[j] = chunks[i])
      /\ Near(b, G, S)
  BY RemainingIs, RemainingNear
<1> HIDE DEF b
<1>4. CASE hit = {}
  BY <1>2, <1>3, <1>4 DEF Unpacked, b
<1>5. CASE hit # {}
  <2> DEFINE m == Min(hit)
  <2>1. m \in hit /\ m \in DOMAIN chunks
    BY <1>1, <1>5, MinType
  <2>2. Unpacked(c, chunks) = <<chunks[m].id>>
    BY <1>5 DEF Unpacked
  <2> HIDE DEF m
  <2>3. chunks[m].id = G + 1
    BY <2>1, NextIs
  <2>4. SeqAfter(c.ack) = (G + 1) % MaxSeq
    BY SeqAfterIs
  <2>5. G + 1 <= S
    BY <2>1, <2>3 DEF Near, Fits
  <2>6. Near(b, G + 1, S)
    <3>1. ASSUME NEW j \in DOMAIN b PROVE (G + 1) - b[j].id <= MaxSeq - 2
      <4>1. PICK i \in DOMAIN chunks : b[j] = chunks[i]
        BY <1>3
      <4>2. chunks[m].id - chunks[i].id <= MaxSeq - 2
        BY <2>1 DEF Near
      <4> QED
        BY <4>1, <4>2, <2>3
    <3> QED
      BY <1>3, <3>1 DEF Near
  <2> QED
    BY <1>2, <1>5, <2>2, <2>3, <2>4, <2>5, <2>6 DEF b
<1> QED
  BY <1>4, <1>5
-----------------------------------------------------------------------------
(* A step of one end. *)

LEMMA Others ==
  ASSUME NEW p \in Peers
  PROVE  /\ Other(p) \in Peers /\ Other(p) # p /\ Other(Other(p)) = p
         /\ \A q \in Peers : q = p \/ q = Other(p)
<1>1. PICK a, b \in Peers : a # b /\ Peers = {a, b}
  BY ChannelAssumption
<1>2. \A q \in Peers : Other(q) \in Peers /\ Other(q) # q
  <2> SUFFICES ASSUME NEW q \in Peers PROVE Other(q) \in Peers /\ Other(q) # q
    OBVIOUS
  <2>1. \E r \in Peers : r # q
    BY <1>1
  <2> QED
    BY <2>1 DEF Other
<1> QED
  BY <1>1, <1>2

LEMMA EndType ==
  ASSUME TypeOK, NEW p \in Peers
  PROVE  /\ conn[p] \in Conn /\ conn[p].out = {} /\ inbox[p] \in Seq(Chunks)
         /\ sent[p] \in Nat /\ log[p] \in Seq(Nat) /\ Got(p) \in Nat
BY DEF TypeOK, ConnType, Conn, Constructs, Got, Seqs

(* The packets c has sent join those under way. *)
LEMMA TransmitKeeps ==
  ASSUME TypeOK, Underway, NEW p \in Peers, NEW c \in Conn, NEW underway \in SUBSET net,
         Transmit(p, c, underway),
         sent' \in [Peers -> Nat], log' \in [Peers -> Seq(Nat)],
         \A q \in Peers : sent[q] <= sent'[q] /\ Len(log[q]) <= Len(log'[q]),
         \A m \in c.out : m.ack = Got(p) % MaxSeq /\ Holds(m.chunks, sent'[p])
  PROVE  /\ conn' = [conn EXCEPT ![p] = [c EXCEPT !.out = {}]]
         /\ conn' \in [Peers -> ConnType]
         /\ \A pk \in net' :
              /\ pk.from \in Peers /\ pk.sent \in Nat /\ pk.got \in Nat /\ pk.ack \in Seqs
              /\ pk.ctrl \in Ctrls /\ pk.resend \in BOOLEAN
              /\ pk.chunks \in Seq(Chunks) /\ Len(pk.chunks) <= PacketCap
         /\ Underway'
<1> DEFINE fresh == {Stamped(p, pk) : pk \in c.out}
<1>1. /\ conn' = [conn EXCEPT ![p] = [c EXCEPT !.out = {}]]
      /\ \A pk \in net' : (pk \in underway \/ pk \in fresh) /\ Alive(pk)
  BY DEF Transmit
<1>2. [c EXCEPT !.out = {}] \in ConnType
  BY DEF Conn, ConnType, Constructs, Seqs
<1>3. conn' \in [Peers -> ConnType]
  BY <1>1, <1>2 DEF TypeOK
<1>4. ASSUME NEW pk \in net'
      PROVE  /\ pk.from \in Peers /\ pk.sent \in Nat /\ pk.got \in Nat /\ pk.ack \in Seqs
             /\ pk.ctrl \in Ctrls /\ pk.resend \in BOOLEAN
             /\ pk.chunks \in Seq(Chunks) /\ Len(pk.chunks) <= PacketCap
             /\ pk.sent <= sent'[pk.from] /\ sent'[pk.from] - pk.sent <= Lifetime
             /\ pk.got <= Len(log'[pk.from]) /\ Len(log'[pk.from]) - pk.got <= Lifetime
             /\ pk.ack = pk.got % MaxSeq /\ Holds(pk.chunks, pk.sent)
  <2>1. Alive(pk)
    BY <1>1
  <2>2. CASE pk \in underway
    <3>1. /\ pk \in net
          /\ pk.from \in Peers /\ pk.sent \in Nat /\ pk.got \in Nat /\ pk.ack \in Seqs
          /\ pk.ctrl \in Ctrls /\ pk.resend \in BOOLEAN
          /\ pk.chunks \in Seq(Chunks) /\ Len(pk.chunks) <= PacketCap
      BY <2>2 DEF TypeOK, Seqs, Ctrls
    <3>2. /\ pk.sent <= sent[pk.from] /\ pk.got <= Len(log[pk.from])
          /\ pk.ack = pk.got % MaxSeq /\ Holds(pk.chunks, pk.sent)
      BY <3>1 DEF Underway, Got
    <3>3. pk.sent <= sent'[pk.from] /\ pk.got <= Len(log'[pk.from])
      <4>1. /\ sent[pk.from] \in Nat /\ sent'[pk.from] \in Nat
            /\ Len(log[pk.from]) \in Nat /\ Len(log'[pk.from]) \in Nat
            /\ sent[pk.from] <= sent'[pk.from] /\ Len(log[pk.from]) <= Len(log'[pk.from])
        <5>1. log[pk.from] \in Seq(Nat) /\ log'[pk.from] \in Seq(Nat)
          BY <3>1 DEF TypeOK
        <5>2. sent[pk.from] \in Nat /\ sent'[pk.from] \in Nat
          BY <3>1 DEF TypeOK
        <5> QED
          BY <3>1, <5>1, <5>2
      <4> QED
        BY <3>1, <3>2, <4>1
    <3> QED
      BY <2>1, <3>1, <3>2, <3>3 DEF Alive
  <2>3. CASE pk \in fresh
    <3>1. PICK m \in c.out : pk = Stamped(p, m)
      BY <2>3
    <3>2. m \in Sends /\ m.ack = Got(p) % MaxSeq /\ Holds(m.chunks, sent'[p])
      BY DEF Conn
    <3>3. /\ pk.from = p /\ pk.sent = sent'[p] /\ pk.got = Len(log[p]) /\ pk.ack = m.ack
          /\ pk.ctrl = m.ctrl /\ pk.resend = m.resend /\ pk.chunks = m.chunks
      BY <3>1 DEF Stamped
    <3>4. pk.sent \in Nat /\ pk.got \in Nat /\ pk.got <= Len(log'[p])
      BY <3>3, EndType DEF Got
    <3>5. Len(pk.chunks) <= PacketCap
      BY <3>2, <3>3 DEF Holds
    <3>6. m.ack \in Seqs /\ m.ctrl \in Ctrls /\ m.resend \in BOOLEAN /\ m.chunks \in Seq(Chunks)
      BY <3>2 DEF Sends
    <3>7. pk.sent <= sent'[p]
      BY <3>3, <3>4
    <3> HIDE DEF fresh
    <3> QED
      BY <2>1, <3>2, <3>3, <3>4, <3>5, <3>6, <3>7 DEF Alive, Got
  <2> QED
    BY <1>1, <2>2, <2>3
<1> HIDE DEF fresh
<1>5. Underway'
  BY <1>4 DEF Underway, Got
<1> QED
  BY <1>1, <1>3, <1>4, <1>5

(* One end has sent S chunks and got G, has box left to unpack, and is now c. *)
LEMMA StepKeeps ==
  ASSUME IInv, NEW p \in Peers, NEW c \in Conn, NEW underway \in SUBSET net,
         Transmit(p, c, underway),
         NEW S \in Nat, NEW l \in Seq(Nat), NEW box \in Seq(Chunks), NEW G \in Nat, G = Len(l),
         sent' = [sent EXCEPT ![p] = S], log' = [log EXCEPT ![p] = l],
         inbox' = [inbox EXCEPT ![p] = box],
         sent[p] <= S, Got(p) <= G, S - Got(Other(p)) <= Window, G <= sent[Other(p)],
         Near(box, G, sent[Other(p)]),
         c.state # "offline" => c.seq = S % MaxSeq /\ c.ack = G % MaxSeq,
         c.state = "online" =>
           /\ Packs(c.construct.chunks, S, 0)
           /\ \E P \in Nat : P <= Got(Other(p)) /\ Acked(c, P, S),
         \A m \in c.out : m.ack = Got(p) % MaxSeq /\ Holds(m.chunks, S)
  PROVE  IInv'
<1> DEFINE q == Other(p)
           d == [c EXCEPT !.out = {}]
<1>1. q \in Peers /\ q # p /\ Other(q) = p /\ \A r \in Peers : r = p \/ r = q
  BY Others
<1>2. TypeOK /\ Bounded /\ Counts /\ Keeps /\ Underway /\ Unpacking
  BY DEF IInv
<1>3. /\ sent[p] \in Nat /\ sent[q] \in Nat /\ Got(p) \in Nat /\ Got(q) \in Nat
      /\ inbox[q] \in Seq(Chunks) /\ conn[q] \in Conn
  BY <1>1, <1>2, EndType
<1>4. sent' \in [Peers -> Nat] /\ log' \in [Peers -> Seq(Nat)]
      /\ inbox' \in [Peers -> Seq(Chunks)] /\ sent'[p] = S /\ sent'[q] = sent[q]
      /\ log'[p] = l /\ log'[q] = log[q] /\ inbox'[p] = box /\ inbox'[q] = inbox[q]
  BY <1>1, <1>2 DEF TypeOK
<1>5. Got(p)' = G /\ Got(q)' = Got(q)
  BY <1>4 DEF Got
<1>6. \A r \in Peers : sent[r] <= sent'[r] /\ Len(log[r]) <= Len(log'[r])
  BY <1>1, <1>3, <1>4, <1>5 DEF Got
<1> HIDE DEF q, d
<1>7. /\ conn' = [conn EXCEPT ![p] = [c EXCEPT !.out = {}]]
      /\ conn' \in [Peers -> ConnType]
      /\ \A pk \in net' :
           /\ pk.from \in Peers /\ pk.sent \in Nat /\ pk.got \in Nat /\ pk.ack \in Seqs
           /\ pk.ctrl \in Ctrls /\ pk.resend \in BOOLEAN
           /\ pk.chunks \in Seq(Chunks) /\ Len(pk.chunks) <= PacketCap
      /\ Underway'
  BY <1>2, <1>4, <1>6, TransmitKeeps
<1>8. conn'[p] = d /\ conn'[q] = conn[q]
  BY <1>1, <1>2, <1>7 DEF TypeOK, d
<1>9. /\ d.state = c.state /\ d.seq = c.seq /\ d.ack = c.ack /\ d.construct = c.construct
      /\ d.peerAck = c.peerAck /\ d.buffer = c.buffer
  BY DEF d, Conn
<1>10. TypeOK'
  BY <1>4, <1>7 DEF TypeOK, Seqs, Ctrls
<1>11. Bounded'
  <2>1. Got(q)' <= sent'[p] /\ sent'[p] - Got(q)' <= Window
    <3>1. Got(q) <= sent[p]
      BY <1>2 DEF Bounded, q
    <3> QED
      BY <1>3, <1>4, <1>5, <3>1 DEF q
  <2>2. Got(p)' <= sent'[q] /\ sent'[q] - Got(p)' <= Window
    <3>1. sent[q] - Got(p) <= Window
      BY <1>1, <1>2 DEF Bounded
    <3> QED
      BY <1>3, <1>4, <1>5, <3>1, Sizes DEF q
  <2>3. Other(p) = q
    BY DEF q
  <2> QED
    BY <1>1, <2>1, <2>2, <2>3 DEF Bounded
<1>12. Counts'
  <2>1. d.state # "offline" => d.seq = sent'[p] % MaxSeq /\ d.ack = Got(p)' % MaxSeq
    BY <1>4, <1>5, <1>9
  <2>2. conn[q].state # "offline" =>
          conn[q].seq = sent'[q] % MaxSeq /\ conn[q].ack = Got(q)' % MaxSeq
    BY <1>1, <1>2, <1>4, <1>5 DEF Counts
  <2> QED
    BY <1>1, <1>8, <2>1, <2>2 DEF Counts
<1>13. Keeps'
  <2>1. d.state = "online" =>
          /\ \E P \in Nat : P <= Got(q)' /\ Acked(d, P, sent'[p])
          /\ Packs(d.construct.chunks, sent'[p], 0)
    BY <1>4, <1>5, <1>9 DEF Acked, q
  <2>2. conn[q].state = "online" =>
          /\ \E P \in Nat : P <= Got(p)' /\ Acked(conn[q], P, sent'[q])
          /\ Packs(conn[q].construct.chunks, sent'[q], 0)
    <3> SUFFICES ASSUME conn[q].state = "online"
                 PROVE  /\ \E P \in Nat : P <= Got(p)' /\ Acked(conn[q], P, sent'[q])
                        /\ Packs(conn[q].construct.chunks, sent'[q], 0)
      OBVIOUS
    <3>1. /\ \E P \in Nat : P <= Got(p) /\ Acked(conn[q], P, sent[q])
          /\ Packs(conn[q].construct.chunks, sent[q], 0)
      BY <1>1, <1>2 DEF Keeps, Online
    <3>2. PICK P \in Nat : P <= Got(p) /\ Acked(conn[q], P, sent[q])
      BY <3>1
    <3>3. P <= Got(p)'
      BY <1>3, <1>5, <3>2
    <3> QED
      BY <1>4, <3>1, <3>2, <3>3
  <2>3. Other(p) = q
    BY DEF q
  <2> QED
    BY <1>1, <1>8, <2>1, <2>2, <2>3 DEF Keeps, Online
<1>14. Unpacking'
  <2>1. Near(box, Got(p)', sent'[q])
    BY <1>4, <1>5 DEF q
  <2>2. Near(inbox[q], Got(q)', sent'[p])
    <3>1. Near(inbox[q], Got(q), sent[p])
      BY <1>1, <1>2 DEF Unpacking
    <3>2. ASSUME NEW i \in DOMAIN inbox[q] PROVE Fits(inbox[q][i], S)
      <4>1. Fits(inbox[q][i], sent[p]) /\ inbox[q][i].id \in Nat
        BY <1>3, <3>1, ChunkAt DEF Near
      <4> QED
        BY <1>3, <4>1 DEF Fits
    <3> QED
      BY <1>4, <1>5, <3>1, <3>2 DEF Near
  <2>3. Other(p) = q
    BY DEF q
  <2> QED
    BY <1>1, <1>4, <2>1, <2>2, <2>3 DEF Unpacking
<1> QED
  BY <1>7, <1>10, <1>11, <1>12, <1>13, <1>14 DEF IInv
-----------------------------------------------------------------------------
(* The actions. *)

\* what the invariant says of one end
LEMMA EndHolds ==
  ASSUME IInv, NEW p \in Peers
  PROVE  /\ conn[p] \in Conn /\ conn[p].out = {} /\ inbox[p] \in Seq(Chunks)
         /\ sent[p] \in Nat /\ log[p] \in Seq(Nat) /\ Got(p) \in Nat /\ Got(p) = Len(log[p])
         /\ Other(p) \in Peers /\ sent[Other(p)] \in Nat /\ Got(Other(p)) \in Nat
         /\ Got(Other(p)) <= sent[p] /\ sent[p] - Got(Other(p)) <= Window
         /\ Got(p) <= sent[Other(p)] /\ sent[Other(p)] - Got(p) <= Window
         /\ Near(inbox[p], Got(p), sent[Other(p)])
         /\ conn[p].state # "offline" =>
              conn[p].seq = sent[p] % MaxSeq /\ conn[p].ack = Got(p) % MaxSeq
         /\ Tells(conn[p], sent[p])
         /\ conn[p].state = "online" =>
              /\ Carries(conn[p], sent[p], 0)
              /\ \E P \in Nat : P <= Got(Other(p)) /\ Acked(conn[p], P, sent[p])
<1>1. TypeOK /\ Bounded /\ Counts /\ Keeps /\ Unpacking
  BY DEF IInv
<1>2. Other(p) \in Peers /\ Other(Other(p)) = p
  BY Others
<1>3. /\ conn[p] \in Conn /\ conn[p].out = {} /\ inbox[p] \in Seq(Chunks)
      /\ sent[p] \in Nat /\ log[p] \in Seq(Nat) /\ Got(p) \in Nat
      /\ sent[Other(p)] \in Nat /\ Got(Other(p)) \in Nat
  BY <1>1, <1>2, EndType
<1>4. /\ Got(Other(p)) <= sent[p] /\ sent[p] - Got(Other(p)) <= Window
      /\ Got(p) <= sent[Other(p)] /\ sent[Other(p)] - Got(p) <= Window
  BY <1>1, <1>2 DEF Bounded
<1>5. Tells(conn[p], sent[p])
  BY <1>3 DEF Tells
<1>6. conn[p].state = "online" =>
        /\ Carries(conn[p], sent[p], 0)
        /\ \E P \in Nat : P <= Got(Other(p)) /\ Acked(conn[p], P, sent[p])
  BY <1>1, <1>3, <1>5 DEF Keeps, Online, Carries
<1>7. conn[p].state # "offline" =>
        conn[p].seq = sent[p] % MaxSeq /\ conn[p].ack = Got(p) % MaxSeq
  BY <1>1 DEF Counts
<1>8. Near(inbox[p], Got(p), sent[Other(p)])
  BY <1>1 DEF Unpacking
<1> QED
  BY <1>2, <1>3, <1>4, <1>5, <1>6, <1>7, <1>8 DEF Got

(* A step that neither sends a chunk of the program nor delivers one. *)
LEMMA QuietStep ==
  ASSUME IInv, NEW p \in Peers, NEW c \in Conn, NEW underway \in SUBSET net,
         Transmit(p, c, underway), UNCHANGED <<inbox, sent, log>>,
         c.state = "offline" \/ (Carries(c, sent[p], 0) /\ Same(conn[p], c) /\ Online(p)),
         \A m \in c.out : m.ack = Got(p) % MaxSeq /\ Holds(m.chunks, sent[p])
  PROVE  IInv'
<1>1. /\ sent' = [sent EXCEPT ![p] = sent[p]] /\ log' = [log EXCEPT ![p] = log[p]]
      /\ inbox' = [inbox EXCEPT ![p] = inbox[p]]
  BY DEF IInv, TypeOK
<1>2. c.state # "offline" =>
        /\ c.seq = sent[p] % MaxSeq /\ c.ack = Got(p) % MaxSeq
        /\ Packs(c.construct.chunks, sent[p], 0)
        /\ \E P \in Nat : P <= Got(Other(p)) /\ Acked(c, P, sent[p])
  <2> SUFFICES ASSUME Carries(c, sent[p], 0), Same(conn[p], c), Online(p)
               PROVE  /\ c.seq = sent[p] % MaxSeq /\ c.ack = Got(p) % MaxSeq
                      /\ Packs(c.construct.chunks, sent[p], 0)
                      /\ \E P \in Nat : P <= Got(Other(p)) /\ Acked(c, P, sent[p])
    OBVIOUS
  <2>1. /\ conn[p].seq = sent[p] % MaxSeq /\ conn[p].ack = Got(p) % MaxSeq
        /\ \E P \in Nat : P <= Got(Other(p)) /\ Acked(conn[p], P, sent[p])
    BY EndHolds DEF Online
  <2> QED
    BY <2>1 DEF Same, Acked, Carries
<1>3. /\ sent[p] \in Nat /\ log[p] \in Seq(Nat) /\ Got(p) \in Nat /\ Got(p) = Len(log[p])
      /\ inbox[p] \in Seq(Chunks) /\ sent[p] - Got(Other(p)) <= Window
      /\ Got(p) <= sent[Other(p)] /\ Near(inbox[p], Got(p), sent[Other(p)])
  BY EndHolds
<1>4. sent[p] <= sent[p] /\ Got(p) <= Got(p)
  BY <1>3
<1>5. c.state = "online" => c.state # "offline"
  OBVIOUS
<1> QED
  BY <1>1, <1>2, <1>3, <1>4, <1>5, StepKeeps

LEMMA LoseKeeps ==
  ASSUME IInv, NEW pk \in net, Lose(pk)
  PROVE  IInv'
<1>1. net' \subseteq net /\ UNCHANGED <<conn, inbox, sent, log>>
  BY DEF Lose
<1>2. TypeOK'
  BY <1>1 DEF IInv, TypeOK
<1>3. Bounded' /\ Counts' /\ Keeps' /\ Unpacking'
  BY <1>1 DEF IInv, Bounded, Counts, Keeps, Unpacking, Got, Online
<1>4. Underway'
  BY <1>1 DEF IInv, Underway, Got
<1> QED
  BY <1>2, <1>3, <1>4 DEF IInv

(* The chunk that is sent next is saved, if the window does not exceed the buffer. *)
LEMMA AppendKeeps ==
  ASSUME NEW S \in Nat, NEW P \in Nat, P <= S, S - P < Window,
         NEW buffer \in Seq(Chunks), Rises(buffer, P, S), Saves(buffer, P, S),
         NEW chunk, chunk = [seq |-> (S + 1) % MaxSeq, id |-> S + 1], chunk \in Chunks,
         NEW b, b = IF Len(buffer) < BufferCap THEN Append(buffer, chunk) ELSE buffer
  PROVE  Rises(b, P, S + 1) /\ Saves(b, P, S + 1)
<1> DEFINE L == Len(buffer)
<1>1. L \in Nat /\ \A i \in DOMAIN buffer : i \in 1..L
  OBVIOUS
<1>2. \A i \in DOMAIN buffer :
        /\ i \in Nat /\ 1 <= i /\ i <= L
        /\ buffer[i].id \in Nat /\ Fits(buffer[i], S) /\ buffer[i].id > P
  BY ChunkAt DEF Rises
<1>3. \A i, j \in DOMAIN buffer : i <= j => buffer[j].id - buffer[i].id >= j - i
  BY DEF Rises
<1>4. \A i \in DOMAIN buffer : Fits(buffer[i], S + 1) /\ buffer[i].id <= S
  BY <1>2 DEF Fits
<1>5. L > 0 => 1 \in DOMAIN buffer /\ L \in DOMAIN buffer
  BY <1>1
<1> HIDE DEF L
<1>6. L <= S - P
  <2>1. CASE L = 0
    BY <2>1
  <2>2. CASE L > 0
    <3>1. buffer[L].id - buffer[1].id >= L - 1 /\ buffer[L].id <= S /\ buffer[1].id > P
      BY <1>1, <1>2, <1>3, <1>4, <1>5, <2>2
    <3>2. buffer[L].id \in Nat /\ buffer[1].id \in Nat
      BY <1>2, <1>5, <2>2
    <3> DEFINE x == buffer[L].id
               y == buffer[1].id
    <3>3. x \in Nat /\ y \in Nat /\ x - y >= L - 1 /\ x <= S /\ y > P
      BY <3>1, <3>2
    <3> HIDE DEF x, y
    <3> QED
      BY <1>1, <3>3
  <2> QED
    BY <1>1, <2>1, <2>2
<1>7. CASE L < BufferCap
  <2>1. b = Append(buffer, chunk)
    BY <1>7 DEF L
  <2>2. /\ DOMAIN b = 1..(L + 1) /\ DOMAIN buffer = 1..L
        /\ b[L + 1] = chunk /\ \A i \in 1..L : b[i] = buffer[i]
    BY <2>1 DEF L
  <2>3. ASSUME NEW i \in DOMAIN b PROVE i = L + 1 \/ (i \in DOMAIN buffer /\ b[i] = buffer[i])
    BY <1>1, <2>2
  <2>4. Fits(chunk, S + 1) /\ chunk.id = S + 1
    BY DEF Fits
  <2>5. ASSUME NEW i \in DOMAIN b PROVE Fits(b[i], S + 1) /\ b[i].id > P
    BY <1>2, <1>4, <2>2, <2>3, <2>4
  <2>6. ASSUME NEW i \in DOMAIN b, NEW j \in DOMAIN b, i <= j PROVE b[j].id - b[i].id >= j - i
    <3>1. i \in Nat /\ j \in Nat /\ i <= L + 1 /\ j <= L + 1
      BY <1>1, <2>2
    <3>2. CASE i = L + 1
      <4>1. j = L + 1
        BY <1>1, <3>1, <3>2, <2>6
      <4> QED
        BY <2>2, <2>4, <3>2, <4>1, <1>1
    <3>3. CASE i \in DOMAIN buffer /\ j \in DOMAIN buffer
      BY <1>3, <2>2, <2>6, <3>3
    <3>4. CASE i \in DOMAIN buffer /\ j = L + 1
      <4>1. L > 0
        BY <1>1, <1>2, <3>4
      <4>2. buffer[L].id - buffer[i].id >= L - i /\ buffer[L].id <= S
        BY <1>2, <1>3, <1>4, <1>5, <3>4, <4>1
      <4>3. b[j].id = S + 1 /\ b[i].id = buffer[i].id
        BY <2>2, <2>4, <3>4
      <4>4. buffer[L].id \in Nat /\ buffer[i].id \in Nat
        BY <1>2, <1>5, <3>4, <4>1
      <4> DEFINE x == buffer[L].id
                 y == buffer[i].id
      <4>5. x \in Nat /\ y \in Nat /\ x - y >= L - i /\ x <= S
        BY <4>2, <4>4
      <4> HIDE DEF x, y
      <4>6. (S + 1) - y >= (L + 1) - i
        BY <1>1, <3>1, <4>5
      <4> QED
        BY <4>3, <4>6, <3>4 DEF y
    <3> QED
      BY <2>3, <3>2, <3>3, <3>4
  <2>7. Saves(b, P, S + 1)
    <3> SUFFICES ASSUME Window <= BufferCap, NEW k \in (P + 1)..(S + 1)
                 PROVE  \E i \in DOMAIN b : b[i].id = k
      BY DEF Saves
    <3>1. CASE k = S + 1
      <4>1. L + 1 \in DOMAIN b
        BY <1>1, <2>2
      <4> QED
        BY <4>1, <2>2, <2>4, <3>1
    <3>2. CASE k # S + 1
      <4>1. k \in (P + 1)..S
        BY <3>2
      <4>2. PICK i \in DOMAIN buffer : buffer[i].id = k
        BY <4>1 DEF Saves
      <4>3. i \in DOMAIN b /\ b[i] = buffer[i]
        BY <1>1, <2>2
      <4> QED
        BY <4>2, <4>3
    <3> QED
      BY <3>1, <3>2
  <2> QED
    BY <2>5, <2>6, <2>7 DEF Rises
<1>8. CASE ~(L < BufferCap)
  <2>1. b = buffer
    BY <1>8 DEF L
  <2>2. ~(Window <= BufferCap)
    BY <1>1, <1>6, <1>8, Constants
  <2> QED
    BY <1>2, <1>3, <1>4, <2>1, <2>2 DEF Rises, Saves
<1> QED
  BY <1>7, <1>8

\* of counters less than a lap apart
LEMMA UnackedIs ==
  ASSUME NEW c, NEW S \in Nat, NEW P \in Nat, P <= S, S - P < MaxSeq,
         c.seq = S % MaxSeq, c.peerAck = P % MaxSeq
  PROVE  Unacked(c) = S - P
<1>1. MaxSeq \in Nat \ {0} /\ S \in Int /\ P \in Int
  BY Constants
<1>2. PICK x, y \in 0..(MaxSeq - 1) :
        /\ P % MaxSeq = x /\ S % MaxSeq = y
        /\ (x <= y /\ y - x = S - P) \/ (x > y /\ y - x = S - P - MaxSeq)
  BY <1>1, Lap
<1>3. Unacked(c) = (y - x) % MaxSeq
  BY <1>2 DEF Unacked
<1> DEFINE n == S - P
<1>4. n \in 0..(MaxSeq - 1)
  BY <1>1
<1>5. y - x = n \/ y - x = n - MaxSeq
  BY <1>2
<1> HIDE DEF n
<1>6. MaxSeq * 0 + n = n /\ MaxSeq * (-1) + n = n - MaxSeq /\ 0 \in Int /\ (0 - 1) \in Int
  BY <1>1, <1>4
<1>7. (MaxSeq * 0 + n) % MaxSeq = n
  BY <1>1, <1>4, <1>6, ModIs
<1>8. (MaxSeq * (-1) + n) % MaxSeq = n
  BY <1>1, <1>4, <1>6, ModIs
<1> QED
  BY <1>3, <1>5, <1>6, <1>7, <1>8 DEF n

LEMMA SendKeeps ==
  ASSUME IInv, NEW p \in Peers, NEW flush \in BOOLEAN, Send(p, flush)
  PROVE  IInv'
<1> DEFINE S == sent[p]
           q == QueueChunk(conn[p], S + 1)
           c == IF flush THEN Flush(q) ELSE q
           chunk == [seq |-> (S + 1) % MaxSeq, id |-> S + 1]
<1>1. /\ conn[p] \in Conn /\ conn[p].out = {} /\ S \in Nat /\ conn[p].state = "online"
      /\ conn[p].seq = S % MaxSeq /\ conn[p].ack = Got(p) % MaxSeq /\ Carries(conn[p], S, 0)
  BY EndHolds DEF Send
<1>2. PICK P \in Nat : P <= Got(Other(p)) /\ Acked(conn[p], P, S)
  BY <1>1, EndHolds
<1>3. /\ conn[p].peerAck = P % MaxSeq /\ P <= S /\ S - P <= Window
      /\ Rises(conn[p].buffer, P, S) /\ Saves(conn[p].buffer, P, S)
  BY <1>2 DEF Acked
<1>4. S - P < Window
  <2>1. S - P < MaxSeq
    BY <1>1, <1>3, Constants
  <2>2. Unacked(conn[p]) = S - P
    BY <1>1, <1>3, <2>1, UnackedIs
  <2> QED
    BY <2>2 DEF Send
<1>5. 1 <= Window
  BY <1>1, <1>3, <1>4, Sizes
<1>6. /\ Carries(q, S + 1, 0) /\ q.seq = (S + 1) % MaxSeq
      /\ q.ack = conn[p].ack /\ q.peerAck = conn[p].peerAck
      /\ q.buffer = IF Len(conn[p].buffer) < BufferCap
                      THEN Append(conn[p].buffer, chunk) ELSE conn[p].buffer
  BY <1>1, <1>5, QueueChunkCarries
<1>7. Rises(q.buffer, P, S + 1) /\ Saves(q.buffer, P, S + 1)
  <2>1. (S + 1) % MaxSeq \in Seqs
    <3>1. S + 1 \in Int /\ MaxSeq \in Nat \ {0}
      BY <1>1, Constants
    <3> QED
      BY <3>1, Division DEF Seqs
  <2>2. chunk \in Chunks /\ conn[p].buffer \in Seq(Chunks)
    BY <1>1, <2>1 DEF Chunks, Seqs, Conn
  <2> HIDE DEF S, q
  <2> QED
    BY <1>1, <1>3, <1>4, <1>6, <2>2, AppendKeeps
<1>8. Carries(c, S + 1, 0) /\ Same(q, c)
  <2>1. Carries(Flush(q), S + 1, 0) /\ Same(q, Flush(q))
    BY <1>1, <1>6, FlushCarries
  <2> QED
    BY <1>6, <2>1 DEF Same
<1>9. sent' = [sent EXCEPT ![p] = S + 1] /\ Transmit(p, c, net) /\ UNCHANGED <<inbox, log>>
  BY DEF Send, IInv, TypeOK
<1> HIDE DEF q, c
<1>10. Acked(c, P, S + 1)
  <2>1. P <= S + 1 /\ (S + 1) - P <= Window
    BY <1>1, <1>3, <1>4, Sizes
  <2>2. c.peerAck = P % MaxSeq /\ Rises(c.buffer, P, S + 1) /\ Saves(c.buffer, P, S + 1)
    BY <1>3, <1>6, <1>7, <1>8 DEF Same
  <2> QED
    BY <2>1, <2>2 DEF Acked
<1>11. (S + 1) - Got(Other(p)) <= Window
  <2> DEFINE g == Got(Other(p))
  <2>1. g \in Nat /\ P <= g
    BY <1>2, EndHolds
  <2> HIDE DEF g, S
  <2>2. (S + 1) - g <= Window
    BY <1>1, <1>4, <2>1, Sizes
  <2> QED
    BY <2>2 DEF g
<1>12. /\ c \in Conn /\ c.state = "online" /\ c.seq = (S + 1) % MaxSeq /\ c.ack = Got(p) % MaxSeq
       /\ Packs(c.construct.chunks, S + 1, 0)
       /\ \A m \in c.out : m.ack = Got(p) % MaxSeq /\ Holds(m.chunks, S + 1)
  BY <1>1, <1>6, <1>8 DEF Carries, Same, Tells
<1>13. log' = [log EXCEPT ![p] = log[p]] /\ inbox' = [inbox EXCEPT ![p] = inbox[p]]
  BY <1>9 DEF IInv, TypeOK
<1>14. /\ log[p] \in Seq(Nat) /\ Got(p) \in Nat /\ Got(p) = Len(log[p])
       /\ inbox[p] \in Seq(Chunks) /\ Got(p) <= Got(p)
       /\ Got(p) <= sent[Other(p)] /\ Near(inbox[p], Got(p), sent[Other(p)])
  BY EndHolds
<1>15. S + 1 \in Nat /\ sent[p] <= S + 1 /\ net \in SUBSET net
  BY <1>1
<1> HIDE DEF S
<1> QED
  BY <1>2, <1>9, <1>10, <1>11, <1>12, <1>13, <1>14, <1>15, StepKeeps
(* A call of UnpackNextChunk for a connection that fed its packet, if there was one. *)
LEMMA UnpackNextKeeps ==
  ASSUME IInv, NEW p \in Peers, NEW c \in Conn, NEW chunks \in Seq(Chunks),
         NEW underway \in SUBSET net, UnpackNext(p, c, chunks, underway),
         Near(chunks, Got(p), sent[Other(p)]),
         c.state # "offline" => c.seq = sent[p] % MaxSeq /\ c.ack = Got(p) % MaxSeq,
         c.state = "online" =>
           /\ Packs(c.construct.chunks, sent[p], 0)
           /\ \E P \in Nat : P <= Got(Other(p)) /\ Acked(c, P, sent[p]),
         \A m \in c.out : m.ack = Got(p) % MaxSeq /\ Holds(m.chunks, sent[p])
  PROVE  /\ IInv'
         /\ sent' = sent
         /\ log' = log \/ log' = [log EXCEPT ![p] = Append(log[p], Got(p) + 1)]
<1> DEFINE u == AfterUnpack(c, chunks)
           b == Remaining(c, chunks)
           g == Got(p)
           s == sent[Other(p)]
<1>1. /\ g \in Nat /\ s \in Nat /\ g <= s /\ s - g <= Window /\ log[p] \in Seq(Nat)
      /\ g = Len(log[p]) /\ sent[p] \in Nat /\ sent[p] - Got(Other(p)) <= Window
  BY EndHolds
<1>2. /\ u \in Conn /\ u.state = c.state /\ u.seq = c.seq /\ u.peerAck = c.peerAck
      /\ u.buffer = c.buffer /\ u.out = c.out /\ u.construct.chunks = c.construct.chunks
  BY AfterUnpackIs
<1>3. b \in Seq(Chunks) /\ Near(b, g, s)
  BY <1>1, RemainingIs, RemainingNear
<1>4. /\ Transmit(p, u, underway) /\ sent' = sent /\ inbox' = [inbox EXCEPT ![p] = b]
      /\ log' = [log EXCEPT ![p] = IF c.state = "offline" THEN log[p]
                                                           ELSE log[p] \o Unpacked(c, chunks)]
  BY DEF UnpackNext, IInv, TypeOK
<1>5. sent' = [sent EXCEPT ![p] = sent[p]]
  BY <1>4 DEF IInv, TypeOK
<1> HIDE DEF u, b
<1>6. u.state = "online" =>
        /\ Packs(u.construct.chunks, sent[p], 0)
        /\ \E P \in Nat : P <= Got(Other(p)) /\ Acked(u, P, sent[p])
  BY <1>2 DEF Acked
<1>7. sent[p] <= sent[p] /\ g <= g /\ g <= g + 1 /\ g + 1 \in Nat
  BY <1>1
<1>8. CASE c.state = "offline"
  <2>1. log' = [log EXCEPT ![p] = log[p]] /\ log' = log
    BY <1>4, <1>8 DEF IInv, TypeOK
  <2>2. u.state # "offline" => u.seq = sent[p] % MaxSeq /\ u.ack = g % MaxSeq
    BY <1>2, <1>8
  <2>3. IInv'
    BY <1>1, <1>2, <1>3, <1>4, <1>5, <1>6, <1>7, <2>1, <2>2, StepKeeps
  <2> QED
    BY <1>4, <2>1, <2>3
<1>9. CASE c.state # "offline" /\ Unpacked(c, chunks) = <<>> /\ u.ack = g % MaxSeq
  <2>1. log[p] \o <<>> = log[p]
    BY <1>1
  <2>2. log' = [log EXCEPT ![p] = log[p]] /\ log' = log
    BY <1>4, <1>9, <2>1 DEF IInv, TypeOK
  <2>3. u.state # "offline" => u.seq = sent[p] % MaxSeq /\ u.ack = g % MaxSeq
    BY <1>2, <1>9
  <2>4. IInv'
    BY <1>1, <1>2, <1>3, <1>4, <1>5, <1>6, <1>7, <2>2, <2>3, StepKeeps
  <2> QED
    BY <1>4, <2>2, <2>4
<1>10. CASE /\ c.state # "offline" /\ Unpacked(c, chunks) = <<g + 1>>
            /\ u.ack = (g + 1) % MaxSeq /\ Near(b, g + 1, s) /\ g + 1 <= s
  <2> DEFINE l == Append(log[p], g + 1)
  <2>1. l \in Seq(Nat) /\ Len(l) = g + 1 /\ log[p] \o <<g + 1>> = l
    BY <1>1, <1>7
  <2>2. log' = [log EXCEPT ![p] = l]
    BY <1>4, <1>10, <2>1
  <2> HIDE DEF l, g
  <2>3. u.state # "offline" => u.seq = sent[p] % MaxSeq /\ u.ack = (g + 1) % MaxSeq
    BY <1>2, <1>10
  <2>4. Got(p) <= g + 1
    BY <1>7 DEF g
  <2>5. \A m \in u.out : m.ack = Got(p) % MaxSeq /\ Holds(m.chunks, sent[p])
    BY <1>2
  <2> HIDE DEF s
  <2>6. g + 1 <= sent[Other(p)] /\ Near(b, g + 1, sent[Other(p)])
    BY <1>10 DEF s
  <2>7. g + 1 = Len(l) /\ l \in Seq(Nat) /\ g + 1 \in Nat
    BY <1>7, <2>1
  <2>8. IInv'
    BY <1>1, <1>2, <1>3, <1>4, <1>5, <1>6, <1>7, <2>2, <2>3, <2>4, <2>5, <2>6, <2>7, StepKeeps
  <2> QED
    BY <1>4, <2>2, <2>8 DEF l, g
<1>11. c.state # "offline" =>
         \/ Unpacked(c, chunks) = <<>> /\ u.ack = g % MaxSeq
         \/ /\ Unpacked(c, chunks) = <<g + 1>> /\ u.ack = (g + 1) % MaxSeq
            /\ Near(b, g + 1, s) /\ g + 1 <= s
  BY <1>1, UnpackKeeps DEF u, b
<1> QED
  BY <1>8, <1>9, <1>10, <1>11

LEMMA UnpackStep ==
  ASSUME IInv, NEW p \in Peers, Unpack(p)
  PROVE  /\ IInv'
         /\ sent' = sent
         /\ log' = log \/ log' = [log EXCEPT ![p] = Append(log[p], Got(p) + 1)]
<1> DEFINE c == conn[p]
<1>1. /\ c \in Conn /\ inbox[p] \in Seq(Chunks) /\ c.out = {}
      /\ Near(inbox[p], Got(p), sent[Other(p)])
      /\ c.state # "offline" => c.seq = sent[p] % MaxSeq /\ c.ack = Got(p) % MaxSeq
      /\ c.state = "online" =>
           /\ Carries(c, sent[p], 0)
           /\ \E P \in Nat : P <= Got(Other(p)) /\ Acked(c, P, sent[p])
  BY EndHolds
<1>2. UnpackNext(p, c, inbox[p], net) /\ net \in SUBSET net
  BY DEF Unpack
<1> HIDE DEF c
<1>3. c.state = "online" =>
        /\ Packs(c.construct.chunks, sent[p], 0)
        /\ \E P \in Nat : P <= Got(Other(p)) /\ Acked(c, P, sent[p])
  BY <1>1 DEF Carries
<1> QED
  BY <1>1, <1>2, <1>3, UnpackNextKeeps

\* what the invariant says of a packet for p
LEMMA PacketHolds ==
  ASSUME IInv, NEW p \in Peers, NEW pk \in net, pk.from # p
  PROVE  /\ pk.got \in Nat /\ pk.got <= Got(Other(p)) /\ sent[p] - pk.got <= Window + Lifetime
         /\ pk.ack = pk.got % MaxSeq /\ pk.ctrl \in Ctrls /\ pk.resend \in BOOLEAN
         /\ pk.chunks \in Seq(Chunks) /\ Near(pk.chunks, Got(p), sent[Other(p)])
<1> DEFINE q == Other(p)
<1>1. pk.from = q
  BY Others DEF IInv, TypeOK
<1>2. /\ pk.sent \in Nat /\ pk.got \in Nat /\ pk.ctrl \in Ctrls /\ pk.resend \in BOOLEAN
      /\ pk.chunks \in Seq(Chunks) /\ Len(pk.chunks) <= PacketCap
  BY DEF IInv, TypeOK, Ctrls
<1>3. /\ pk.sent <= sent[q] /\ sent[q] - pk.sent <= Lifetime
      /\ pk.got <= Got(q) /\ Got(q) - pk.got <= Lifetime
      /\ Holds(pk.chunks, pk.sent)
  BY <1>1 DEF IInv, Underway
<1>9. pk.ack = pk.got % MaxSeq
  BY DEF IInv, Underway
<1>4. /\ sent[p] \in Nat /\ Got(p) \in Nat /\ sent[q] \in Nat /\ Got(q) \in Nat
      /\ sent[p] - Got(q) <= Window /\ Got(p) <= sent[q]
  BY EndHolds
<1> HIDE DEF q
<1>5. sent[p] - pk.got <= Window + Lifetime
  <2> DEFINE x == sent[p]
             y == Got(q)
             z == pk.got
  <2>1. x \in Nat /\ y \in Nat /\ z \in Nat /\ x - y <= Window /\ y - z <= Lifetime
    BY <1>2, <1>3, <1>4
  <2>2. Window \in Nat /\ Lifetime \in Nat
    BY Constants
  <2> HIDE DEF x, y, z
  <2>3. x - z <= Window + Lifetime
    BY <2>1, <2>2
  <2> QED
    BY <2>3 DEF x, z
<1>6. ASSUME NEW i \in DOMAIN pk.chunks
      PROVE  /\ Fits(pk.chunks[i], sent[q]) /\ Got(p) - pk.chunks[i].id <= MaxSeq - 2
             /\ pk.sent - pk.chunks[i].id <= MaxSeq - 2
  <2> DEFINE k == pk.chunks[i].id
  <2>1. /\ k \in Nat /\ k <= pk.sent /\ k >= pk.sent - Window - PacketCap + 1
        /\ Fits(pk.chunks[i], pk.sent)
    BY <1>2, <1>3, ChunkAt DEF Holds, Fits
  <2>2. k <= sent[q]
    BY <1>2, <1>3, <1>4, <2>1
  <2>3. Fits(pk.chunks[i], sent[q])
    BY <2>1, <2>2 DEF Fits
  <2> DEFINE g == Got(p)
             s == sent[q]
             n == pk.sent
  <2>4. /\ g \in Nat /\ s \in Nat /\ n \in Nat /\ k \in Nat
        /\ g <= s /\ s - n <= Lifetime /\ n <= s /\ k >= n - Window - PacketCap + 1
    BY <1>2, <1>3, <1>4, <2>1
  <2> HIDE DEF k, g, s, n
  <2>5. /\ Window + Lifetime + PacketCap + 1 <= MaxSeq
        /\ Window \in Nat /\ Lifetime \in Nat /\ PacketCap \in Nat /\ MaxSeq \in Nat
    BY Constants
  <2>6. g - k <= MaxSeq - 2 /\ n - k <= MaxSeq - 2
    BY <2>4, <2>5
  <2> QED
    BY <2>3, <2>6 DEF k, g, n
<1>7. ASSUME NEW i \in DOMAIN pk.chunks, NEW j \in DOMAIN pk.chunks
      PROVE  pk.chunks[j].id - pk.chunks[i].id <= MaxSeq - 2
  <2>1. pk.sent - pk.chunks[i].id <= MaxSeq - 2
    BY <1>6
  <2>2. pk.chunks[j].id <= pk.sent
    BY <1>3 DEF Holds, Fits
  <2>3. pk.chunks[j].id \in Nat /\ pk.chunks[i].id \in Nat
    BY <1>2, ChunkAt
  <2>4. pk.sent \in Nat /\ MaxSeq \in Nat
    BY <1>2, Constants
  <2> QED
    BY <2>1, <2>2, <2>3, <2>4
<1>8. Near(pk.chunks, Got(p), sent[q])
  BY <1>6, <1>7 DEF Near
<1> QED
  BY <1>2, <1>3, <1>5, <1>8, <1>9 DEF q

LEMMA RecvStep ==
  ASSUME IInv, NEW p \in Peers, NEW pk \in net, NEW keep \in BOOLEAN, Recv(p, pk, keep)
  PROVE  /\ IInv'
         /\ sent' = sent
         /\ log' = log \/ log' = [log EXCEPT ![p] = Append(log[p], Got(p) + 1)]
<1> DEFINE underway == IF keep THEN net ELSE net \ {pk}
           c == conn[p]
           f == Feed(c, pk)
<1>1. c.state = "online" /\ pk.from # p /\ underway \in SUBSET net
  BY DEF Recv
<1>2. /\ c \in Conn /\ Carries(c, sent[p], 0) /\ Tells(c, sent[p])
      /\ sent[p] \in Nat /\ Got(p) \in Nat /\ Got(Other(p)) \in Nat
      /\ Got(Other(p)) <= sent[p]
      /\ c.seq = sent[p] % MaxSeq /\ c.ack = Got(p) % MaxSeq
  BY <1>1, EndHolds
<1>3. PICK P \in Nat : P <= Got(Other(p)) /\ Acked(c, P, sent[p])
  BY <1>1, EndHolds
<1>4. /\ pk.got \in Nat /\ pk.got <= Got(Other(p)) /\ sent[p] - pk.got <= Window + Lifetime
      /\ pk.ack = pk.got % MaxSeq /\ pk.ctrl \in Ctrls /\ pk.resend \in BOOLEAN
      /\ pk.chunks \in Seq(Chunks) /\ Near(pk.chunks, Got(p), sent[Other(p)])
  BY <1>1, PacketHolds
<1>5. pk.got <= sent[p] /\ sent[p] - pk.got < MaxSeq
  BY <1>2, <1>4, Constants
<1> HIDE DEF c, underway, f
<1>6. CASE AckIsValid(c, pk.ack)
  <2>1. UnpackNext(p, f, pk.chunks, underway)
    BY <1>6 DEF Recv, underway, c, f
  <2>2. /\ f \in Conn /\ f.state \in {"online", "error"} /\ f.seq = c.seq /\ f.ack = c.ack
        /\ Tells(f, sent[p])
        /\ f.state = "online" =>
             Packs(f.construct.chunks, sent[p], 0) /\ Acked(f, pk.got, sent[p])
    BY <1>2, <1>3, <1>4, <1>5, <1>6, FeedKeeps DEF f
  <2>3. f.state # "offline" => f.seq = sent[p] % MaxSeq /\ f.ack = Got(p) % MaxSeq
    BY <1>2, <2>2
  <2>4. f.state = "online" =>
          /\ Packs(f.construct.chunks, sent[p], 0)
          /\ \E A \in Nat : A <= Got(Other(p)) /\ Acked(f, A, sent[p])
    BY <1>4, <2>2
  <2>5. \A m \in f.out : m.ack = Got(p) % MaxSeq /\ Holds(m.chunks, sent[p])
    BY <1>2, <2>2 DEF Tells
  <2> QED
    BY <1>1, <1>4, <2>1, <2>2, <2>3, <2>4, <2>5, UnpackNextKeeps
<1>7. CASE ~AckIsValid(c, pk.ack)
  <2>1. Transmit(p, c, underway) /\ UNCHANGED <<inbox, sent, log>>
    BY <1>7 DEF Recv, underway, c
  <2>2. Same(conn[p], c) /\ Online(p)
    BY <1>1 DEF Same, Online, c
  <2>3. \A m \in c.out : m.ack = Got(p) % MaxSeq /\ Holds(m.chunks, sent[p])
    BY <1>2 DEF Tells
  <2>4. IInv'
    BY <1>1, <1>2, <2>1, <2>2, <2>3, QuietStep
  <2> QED
    BY <2>1, <2>4
<1> QED
  BY <1>6, <1>7

LEMMA UpdateStep ==
  ASSUME IInv, NEW p \in Peers, NEW resend \in BOOLEAN, NEW idle \in {"no", "late", "idle"},
         Update(p, resend, idle)
  PROVE  IInv'
<1> DEFINE c == Updated(conn[p], resend, idle)
<1>1. /\ conn[p] \in Conn /\ sent[p] \in Nat /\ Carries(conn[p], sent[p], 0)
      /\ conn[p].ack = Got(p) % MaxSeq
  BY EndHolds DEF Update
<1>2. Waits(conn[p].buffer, sent[p])
  <2>1. PICK P \in Nat : P <= Got(Other(p)) /\ Acked(conn[p], P, sent[p])
    BY EndHolds DEF Update
  <2> QED
    BY <1>1, <2>1, AckedWaits
<1>3. Carries(c, sent[p], 0) /\ Same(conn[p], c)
  BY <1>1, <1>2, UpdatedCarries
<1>4. Transmit(p, c, net) /\ UNCHANGED <<inbox, sent, log>> /\ Online(p)
  BY DEF Update, Online
<1> HIDE DEF c
<1>5. c \in Conn /\ \A m \in c.out : m.ack = Got(p) % MaxSeq /\ Holds(m.chunks, sent[p])
  BY <1>1, <1>3 DEF Carries, Same, Tells
<1> QED
  BY <1>3, <1>4, <1>5, QuietStep

LEMMA DropStep ==
  ASSUME IInv, NEW p \in Peers, Drop(p) \/ UpdateEnds(p)
  PROVE  IInv'
<1>1. /\ conn[p] \in Conn /\ conn[p].out = {} /\ sent[p] \in Nat
      /\ conn[p].state # "offline" => conn[p].ack = Got(p) % MaxSeq
  BY EndHolds
<1>2. conn[p].state # "offline" /\ UNCHANGED <<inbox, sent, log>>
  BY DEF Drop, UpdateEnds
<1>3. TimedOut(conn[p]) \in Conn /\ TimedOut(conn[p]).out = {}
      /\ TimedOut(conn[p]).ack = conn[p].ack
  BY <1>1 DEF TimedOut, Conn
<1>4. PICK d \in {conn[p], TimedOut(conn[p])} : Transmit(p, Disconnect(d), net)
  BY DEF Drop, UpdateEnds
<1>5. d \in Conn /\ d.out = {} /\ d.ack = Got(p) % MaxSeq
  BY <1>1, <1>2, <1>3
<1>6. /\ Disconnect(d) \in Conn /\ Disconnect(d).state = "offline"
      /\ \A m \in Disconnect(d).out : m.ack = d.ack /\ Holds(m.chunks, sent[p])
  BY <1>1, <1>5, DisconnectTells
<1> QED
  BY <1>2, <1>4, <1>5, <1>6, QuietStep
-----------------------------------------------------------------------------
(* The invariant. *)

LEMMA InitHolds == Init => IInv
<1> SUFFICES ASSUME Init PROVE IInv
  OBVIOUS
<1>1. \A p \in Peers : /\ conn[p] = Accepted(Offline) /\ inbox[p] = <<>> /\ sent[p] = 0
                       /\ log[p] = <<>> /\ Got(p) = 0 /\ Other(p) \in Peers
  BY Others DEF Init, Got
<1> DEFINE c == Accepted(Offline)
<1>2. /\ c \in ConnType /\ c.state = "online" /\ c.seq = 0 /\ c.ack = 0 /\ c.peerAck = 0
      /\ c.buffer = <<>> /\ c.construct.chunks = <<>>
  <2>1. <<>> \in Seq(Chunks) /\ 0 \in 0..(MaxSeq - 1)
    BY Constants
  <2> QED
    BY <2>1 DEF Accepted, Reset, Offline, NoChunks, ConnType
<1> HIDE DEF c
<1>3. 0 % MaxSeq = 0
  <2>1. MaxSeq * 0 + 0 = 0 /\ 0 \in 0..(MaxSeq - 1) /\ 0 \in Int /\ MaxSeq \in Nat \ {0}
    BY Constants
  <2>2. (MaxSeq * 0 + 0) % MaxSeq = 0
    BY <2>1, ModIs
  <2> QED
    BY <2>1, <2>2
<1>4. TypeOK
  <2>1. <<>> \in Seq(Chunks) /\ <<>> \in Seq(Nat)
    OBVIOUS
  <2> QED
    BY <1>2, <2>1 DEF TypeOK, Init, c
<1>5. Bounded
  BY <1>1, Sizes DEF Bounded
<1>6. Counts
  BY <1>1, <1>2, <1>3 DEF Counts, c
<1>7. Keeps
  <2>1. Acked(c, 0, 0)
    <3>1. Rises(c.buffer, 0, 0)
      BY <1>2 DEF Rises
    <3>2. Saves(c.buffer, 0, 0)
      BY DEF Saves
    <3> QED
      BY <1>2, <1>3, <3>1, <3>2, Sizes DEF Acked
  <2>2. Packs(c.construct.chunks, 0, 0)
    BY <1>2, PacksNothing
  <2>3. \E P \in Nat : P <= 0 /\ Acked(c, P, 0)
    BY <2>1
  <2> QED
    BY <1>1, <2>2, <2>3 DEF Keeps, c
<1>8. Underway
  BY DEF Init, Underway
<1>9. Unpacking
  <2>1. Near(<<>>, 0, 0)
    BY DEF Near
  <2> QED
    BY <1>1, <2>1 DEF Unpacking
<1> QED
  BY <1>4, <1>5, <1>6, <1>7, <1>8, <1>9 DEF IInv

(* What a step does to the histories: nothing, or one end sends a chunk, or one end gets the
   next. *)
Moves ==
  \/ sent' = sent /\ log' = log
  \/ \E p \in Peers : sent' = [sent EXCEPT ![p] = sent[p] + 1] /\ log' = log
  \/ \E p \in Peers : sent' = sent /\ log' = [log EXCEPT ![p] = Append(log[p], Got(p) + 1)]

LEMMA NextKeeps ==
  ASSUME IInv, [Next]_vars
  PROVE  IInv' /\ Moves
<1>1. CASE Next
  <2>1. CASE \E pk \in net : Lose(pk)
    BY <2>1, LoseKeeps DEF Lose, Moves
  <2>2. ASSUME NEW p \in Peers, NEW flush \in BOOLEAN, Send(p, flush) PROVE IInv' /\ Moves
    <3>1. sent' = [sent EXCEPT ![p] = sent[p] + 1] /\ log' = log
      BY <2>2 DEF Send, IInv, TypeOK
    <3> QED
      BY <2>2, <3>1, SendKeeps DEF Moves
  <2>3. ASSUME NEW p \in Peers, NEW pk \in net, NEW keep \in BOOLEAN, Recv(p, pk, keep)
        PROVE  IInv' /\ Moves
    BY <2>3, RecvStep DEF Moves
  <2>4. ASSUME NEW p \in Peers, Unpack(p) PROVE IInv' /\ Moves
    BY <2>4, UnpackStep DEF Moves
  <2>5. ASSUME NEW p \in Peers, NEW resend \in BOOLEAN, NEW idle \in {"no", "late", "idle"},
               Update(p, resend, idle)
        PROVE  IInv' /\ Moves
    BY <2>5, UpdateStep DEF Update, Moves
  <2>6. ASSUME NEW p \in Peers, Drop(p) \/ UpdateEnds(p) PROVE IInv' /\ Moves
    BY <2>6, DropStep DEF Drop, UpdateEnds, Moves
  <2> QED
    BY <1>1, <2>1, <2>2, <2>3, <2>4, <2>5, <2>6 DEF Next
<1>2. CASE UNCHANGED vars
  <2>1. UNCHANGED <<conn, inbox, net, sent, log>>
    BY <1>2 DEF vars
  <2>2. IInv'
    BY <2>1 DEF IInv, TypeOK, Bounded, Counts, Keeps, Underway, Unpacking, Got, Online
  <2> QED
    BY <2>1, <2>2 DEF Moves
<1> QED
  BY <1>1, <1>2

(* The invariant holds: the acks, the buffers, and the packets under way are as near to what
   was delivered as the numbers need (the methods of CNetConnection, Recv and
   CPacketChunkUnpacker). *)
THEOREM ChannelInvariant == Spec => []IInv
<1>1. Init => IInv
  BY InitHolds
<1>2. IInv /\ [Next]_vars => IInv'
  BY NextKeeps
<1> QED
  BY <1>1, <1>2, PTL DEF Spec

(* A number stands for one place less than a lap back. *)
LEMMA PositionIs ==
  ASSUME NEW P \in Nat, NEW S \in Nat, P <= S, S - P < MaxSeq
  PROVE  Position(P % MaxSeq, S) = P
<1>1. P \in (S - MaxSeq + 1)..S /\ MaxSeq \in Nat \ {0}
  BY Constants
<1>2. ASSUME NEW k \in (S - MaxSeq + 1)..S, k % MaxSeq = P % MaxSeq PROVE k = P
  <2>1. k \in Int /\ P \in Int /\ k - P < MaxSeq /\ P - k < MaxSeq
    BY <1>1
  <2> QED
    BY <1>1, <1>2, <2>1, SameNumber
<1>3. \E k \in (S - MaxSeq + 1)..S : k % MaxSeq = P % MaxSeq
  BY <1>1
<1> DEFINE k == Position(P % MaxSeq, S)
<1>4. k \in (S - MaxSeq + 1)..S /\ k % MaxSeq = P % MaxSeq
  BY <1>3 DEF Position
<1> HIDE DEF k
<1>5. k = P
  BY <1>2, <1>4
<1> QED
  BY <1>5 DEF k

LEMMA AcksHold == IInv => AcksAreTrue
<1> SUFFICES ASSUME IInv, NEW p \in Peers, Online(p)
             PROVE  Position(conn[p].peerAck, sent[p]) <= Len(log[Other(p)])
  BY DEF AcksAreTrue
<1>1. PICK P \in Nat : P <= Got(Other(p)) /\ Acked(conn[p], P, sent[p])
  BY EndHolds DEF Online
<1>2. sent[p] \in Nat /\ P <= sent[p] /\ sent[p] - P <= Window
      /\ conn[p].peerAck = P % MaxSeq
  BY <1>1, EndHolds DEF Acked
<1>3. sent[p] - P < MaxSeq
  <2>1. sent[p] \in Nat /\ sent[p] - P <= Window
    BY <1>2
  <2> QED
    BY <2>1, Constants
<1>4. Position(conn[p].peerAck, sent[p]) = P
  BY <1>2, <1>3, PositionIs
<1> QED
  BY <1>1, <1>4 DEF Got

LEMMA OldHolds == IInv => OldMeansGot
<1> SUFFICES ASSUME IInv, NEW p \in Peers, Online(p),
                    NEW chunks \in {inbox[p]} \cup {pk.chunks : pk \in {q \in net : q.from # p}},
                    NEW i \in DOMAIN chunks, IsSeqInBackroom(chunks[i].seq, conn[p].ack)
             PROVE  chunks[i].id <= Len(log[p])
  BY DEF OldMeansGot
<1> DEFINE k == chunks[i].id
           g == Got(p)
           s == sent[Other(p)]
<1>1. /\ g \in Nat /\ s \in Nat /\ s - g <= Window /\ inbox[p] \in Seq(Chunks)
      /\ Near(inbox[p], g, s)
  BY EndHolds
<1>2. conn[p].ack = g % MaxSeq
  BY EndHolds DEF Online
<1>3. chunks \in Seq(Chunks) /\ Near(chunks, g, s)
  BY <1>1, PacketHolds
<1>4. k \in Nat /\ Fits(chunks[i], s)
  BY <1>3, ChunkAt DEF Near
<1>5. k <= s /\ chunks[i].seq = k % MaxSeq
  BY <1>4 DEF Fits
<1> HIDE DEF k, g, s
<1>6. k <= g
  <2>1. SUFFICES ASSUME g < k PROVE FALSE
    BY <1>1, <1>4
  <2>2. k <= s /\ s - g <= Window /\ g \in Nat /\ k \in Nat /\ s \in Nat
    BY <1>1, <1>4, <1>5
  <2>3. 2 * (k - g + 1) <= MaxSeq
    BY <2>2, Constants
  <2>4. ~IsSeqInBackroom(k % MaxSeq, g % MaxSeq)
    BY <2>1, <2>2, <2>3, Ahead
  <2> QED
    BY <1>2, <1>5, <2>4
<1> QED
  BY <1>6 DEF k, g, Got

(* A chunk that CPacketChunkUnpacker skips as old was delivered, and what CNetConnection takes
   for acknowledged the peer has got. *)
THEOREM AcksTell == Spec => []Inv
<1>1. IInv => Inv
  BY AcksHold, OldHolds DEF Inv, IInv
<1> QED
  BY <1>1, ChannelInvariant, PTL

LEMMA ResendableHolds == ASSUME Window <= BufferCap PROVE IInv => Resendable
<1> SUFFICES ASSUME IInv, NEW p \in Peers, Online(p),
                    NEW k \in (Len(log[Other(p)]) + 1)..sent[p]
             PROVE  \E i \in DOMAIN conn[p].buffer : conn[p].buffer[i].id = k
  BY DEF Resendable
<1>1. PICK P \in Nat : P <= Got(Other(p)) /\ Acked(conn[p], P, sent[p])
  BY EndHolds DEF Online
<1>2. Got(Other(p)) \in Nat /\ sent[p] \in Nat
  BY EndHolds
<1>3. k \in (P + 1)..sent[p]
  BY <1>1, <1>2 DEF Got
<1> QED
  BY <1>1, <1>3 DEF Acked, Saves

(* A chunk that the peer has not got is in m_Buffer for a resend, if the window never exceeds
   the buffer. *)
THEOREM NothingIsForgotten == ASSUME Window <= BufferCap PROVE Spec => []Resendable
<1>1. IInv => Resendable
  BY ResendableHolds
<1> QED
  BY <1>1, ChannelInvariant, PTL
-----------------------------------------------------------------------------
(* The streams. *)

\* the n numbers after g
After(g, n) == [i \in 1..n |-> g + i]

Pending == [p \in Peers |-> After(Got(Other(p)), sent[p] - Got(Other(p)))]
Delivered == [p \in Peers |-> log[Other(p)]]

LEMMA AfterAt ==
  ASSUME NEW g \in Nat, NEW n \in Nat
  PROVE  /\ After(g, n) \in Seq(Nat) /\ Len(After(g, n)) = n
         /\ \A i \in 1..n : After(g, n)[i] = g + i
BY DEF After

LEMMA AfterIs ==
  ASSUME NEW g \in Nat, NEW n \in Nat
  PROVE  /\ After(g, n) \in Seq(Nat) /\ Len(After(g, n)) = n
         /\ Append(After(g, n), g + n + 1) = After(g, n + 1)
         /\ n > 0 => /\ After(g, n) # <<>> /\ Head(After(g, n)) = g + 1
                     /\ Tail(After(g, n)) = After(g + 1, n - 1)
<1>1. /\ After(g, n) \in Seq(Nat) /\ Len(After(g, n)) = n
      /\ \A i \in 1..n : After(g, n)[i] = g + i
  BY AfterAt
<1>2. Append(After(g, n), g + n + 1) = After(g, n + 1)
  <2> DEFINE s == Append(After(g, n), g + n + 1)
             t == After(g, n + 1)
  <2>1. s \in Seq(Nat) /\ Len(s) = n + 1 /\ s[n + 1] = g + n + 1
    <3>1. g + n + 1 \in Nat
      OBVIOUS
    <3> QED
      BY <1>1, <3>1
  <2>4. t \in Seq(Nat) /\ Len(t) = n + 1 /\ \A i \in 1..(n + 1) : t[i] = g + i
    <3>1. n + 1 \in Nat
      OBVIOUS
    <3> QED
      BY <3>1, AfterAt
  <2>2. ASSUME NEW i \in 1..(n + 1) PROVE s[i] = t[i]
    <3>1. t[i] = g + i
      BY <2>4
    <3>2. CASE i = n + 1
      <4>1. s[i] = g + n + 1 /\ g + i = g + n + 1
        BY <2>1, <3>2
      <4> QED
        BY <3>1, <4>1
    <3>3. CASE i # n + 1
      <4>1. i \in 1..n
        BY <3>3
      <4>2. s[i] = After(g, n)[i]
        BY <1>1, <4>1
      <4> QED
        BY <1>1, <3>1, <4>1, <4>2
    <3> QED
      BY <3>2, <3>3
  <2> HIDE DEF s, t
  <2>3. s = t
    BY <2>1, <2>2, <2>4, SeqEqual
  <2> QED
    BY <2>3 DEF s, t
<1>3. ASSUME n > 0
      PROVE  /\ After(g, n) # <<>> /\ Head(After(g, n)) = g + 1
             /\ Tail(After(g, n)) = After(g + 1, n - 1)
  <2> DEFINE s == Tail(After(g, n))
             t == After(g + 1, n - 1)
  <2>1. After(g, n) # <<>> /\ Head(After(g, n)) = g + 1
    <3>1. Len(After(g, n)) > 0 /\ 1 \in 1..n
      BY <1>1, <1>3
    <3> QED
      BY <1>1, <3>1
  <2>2. s \in Seq(Nat) /\ Len(s) = n - 1
    BY <1>1, <1>3, <2>1
  <2>5. /\ t \in Seq(Nat) /\ Len(t) = n - 1
        /\ \A i \in 1..(n - 1) : t[i] = g + 1 + i
    <3>1. n - 1 \in Nat /\ g + 1 \in Nat
      BY <1>3
    <3> QED
      BY <3>1, AfterAt
  <2>3. ASSUME NEW i \in 1..(n - 1) PROVE s[i] = t[i]
    <3>1. i + 1 \in 1..n /\ i \in Nat
      BY <1>3
    <3>2. s[i] = After(g, n)[i + 1]
      BY <1>1, <2>1, <2>2
    <3>3. t[i] = g + 1 + i
      BY <2>5
    <3>4. After(g, n)[i + 1] = g + (i + 1)
      BY <1>1, <3>1
    <3>5. g + (i + 1) = g + 1 + i
      BY <3>1
    <3> HIDE DEF s, t
    <3> QED
      BY <3>2, <3>3, <3>4, <3>5
  <2> HIDE DEF s, t
  <2>4. s = t
    BY <2>2, <2>3, <2>5, SeqEqual
  <2> QED
    BY <2>1, <2>4 DEF s, t
<1> QED
  BY <1>1, <1>2, <1>3

LEMMA StreamsInit == Init => Streams!Init
<1> SUFFICES ASSUME Init PROVE Streams!Init
  OBVIOUS
<1>1. \A p \in Peers : Other(p) \in Peers
  BY Others
<1>2. \A p \in Peers : log[Other(p)] = <<>> /\ sent[p] = 0 /\ Got(Other(p)) = 0
  BY <1>1 DEF Init, Got
<1>3. \A p \in Peers : 1..(sent[p] - Got(Other(p))) = {}
  BY <1>2
<1>4. \A p \in Peers :
        [i \in 1..(sent[p] - Got(Other(p))) |-> Got(Other(p)) + i] = <<>>
  BY <1>3
<1> QED
  BY <1>2, <1>4 DEF Streams!Init, Got

\* a step of one end, on the histories
LEMMA MovesStream ==
  ASSUME IInv, IInv', Moves
  PROVE  [Streams!Next]_<<Pending, Delivered>>
<1>1. \A p \in Peers : /\ Other(p) \in Peers /\ Other(p) # p /\ Other(Other(p)) = p
                       /\ \A q \in Peers : q = p \/ q = Other(p)
  BY Others
<1>2. \A p \in Peers :
        /\ sent[p] \in Nat /\ Got(p) \in Nat /\ log[p] \in Seq(Nat)
        /\ sent'[p] \in Nat /\ Got(p)' \in Nat
  BY EndType DEF IInv, TypeOK, Got
<1>3. \A p \in Peers :
        /\ Got(Other(p)) <= sent[p] /\ Got(Other(p)) \in Nat
        /\ sent[p] - Got(Other(p)) \in Nat
  BY <1>1, <1>2 DEF IInv, Bounded
<1>4. \A p \in Peers : Got(Other(p))' <= sent'[p]
  BY DEF IInv, Bounded
<1>5. Pending \in [Peers -> Seq(Nat)] /\ Delivered \in [Peers -> Seq(Nat)]
  <2>1. \A p \in Peers : After(Got(Other(p)), sent[p] - Got(Other(p))) \in Seq(Nat)
    BY <1>3, AfterIs
  <2> QED
    BY <1>1, <1>2, <2>1 DEF Pending, Delivered
<1>6. /\ Streams!Next <=> \E p \in Peers : Streams!Send(p) \/ Streams!Deliver(p)
      /\ \A p \in Peers :
           /\ Streams!Send(p) <=>
                /\ Pending' = [Pending EXCEPT
                     ![p] = Append(Pending[p], Len(Delivered[p]) + Len(Pending[p]) + 1)]
                /\ UNCHANGED Delivered
           /\ Streams!Deliver(p) <=>
                /\ Pending[p] # <<>>
                /\ Delivered' =
                     [Delivered EXCEPT ![p] = Append(Delivered[p], Head(Pending[p]))]
                /\ Pending' = [Pending EXCEPT ![p] = Tail(Pending[p])]
  BY <1>5 DEF Streams!Next, Streams!Send, Streams!Deliver, Pending, Delivered, After, Got
<1>7. CASE sent' = sent /\ log' = log
  BY <1>7 DEF Pending, Delivered, Got
<1>8. ASSUME NEW p \in Peers, sent' = [sent EXCEPT ![p] = sent[p] + 1], log' = log
      PROVE  Streams!Next
  <2> DEFINE g == Got(Other(p))
             n == sent[p] - g
  <2>1. g \in Nat /\ n \in Nat /\ g + n + 1 = sent[p] + 1 /\ (sent[p] + 1) - g = n + 1
    BY <1>2, <1>3
  <2>2. Pending[p] = After(g, n) /\ Delivered[p] = log[Other(p)] /\ Len(Delivered[p]) = g
    BY DEF Pending, Delivered, Got
  <2>3. sent'[p] = sent[p] + 1 /\ \A q \in Peers \ {p} : sent'[q] = sent[q]
    BY <1>8 DEF IInv, TypeOK
  <2>4. \A q \in Peers : Got(q)' = Got(q)
    BY <1>8 DEF Got
  <2>5. Delivered' = Delivered
    BY <1>8 DEF Delivered
  <2>6. Append(Pending[p], Len(Delivered[p]) + Len(Pending[p]) + 1) = After(g, n + 1)
    <3>1. Len(After(g, n)) = n /\ Append(After(g, n), g + n + 1) = After(g, n + 1)
      BY <2>1, AfterIs
    <3> QED
      BY <2>2, <3>1
  <2>7. Pending' = [Pending EXCEPT ![p] = After(g, n + 1)]
    <3>1. \A q \in Peers \ {p} : After(Got(Other(q)), sent[q] - Got(Other(q)))'
                                 = After(Got(Other(q)), sent[q] - Got(Other(q)))
      BY <1>1, <2>3, <2>4 DEF After
    <3>2. After(Got(Other(p)), sent[p] - Got(Other(p)))' = After(g, n + 1)
      BY <1>1, <2>1, <2>3, <2>4 DEF After
    <3> HIDE DEF g, n
    <3> QED
      BY <3>1, <3>2 DEF Pending
  <2> QED
    BY <1>6, <2>5, <2>6, <2>7
<1>9. ASSUME NEW r \in Peers, sent' = sent, log' = [log EXCEPT ![r] = Append(log[r], Got(r) + 1)]
      PROVE  Streams!Next
  <2> DEFINE p == Other(r)
             g == Got(r)
             n == sent[p] - g
  <2>1. p \in Peers /\ Other(p) = r /\ p # r /\ \A q \in Peers : q = p \/ q = r
    BY <1>1
  <2> HIDE DEF p
  <2>2. log'[r] = Append(log[r], g + 1) /\ log'[p] = log[p] /\ sent'[p] = sent[p]
    BY <1>9, <2>1 DEF IInv, TypeOK
  <2>3. g \in Nat /\ log[r] \in Seq(Nat) /\ n \in Nat /\ sent[p] \in Nat /\ sent[r] \in Nat
    BY <1>2, <1>3, <2>1
  <2>4. Got(r)' = g + 1 /\ Got(p)' = Got(p)
    BY <2>2, <2>3 DEF Got
  <2>5. n > 0 /\ sent[p] - (g + 1) = n - 1
    <3>1. g + 1 <= sent[p]
      BY <1>4, <2>1, <2>2, <2>4
    <3> QED
      BY <2>3, <3>1
  <2>6. Pending[p] = After(g, n) /\ Delivered[p] = log[r]
    BY <2>1 DEF Pending, Delivered
  <2>7. Pending[p] # <<>> /\ Head(Pending[p]) = g + 1 /\ Tail(Pending[p]) = After(g + 1, n - 1)
    <3> HIDE DEF g, n
    <3>1. /\ After(g, n) # <<>> /\ Head(After(g, n)) = g + 1
          /\ Tail(After(g, n)) = After(g + 1, n - 1)
      BY <2>3, <2>5, AfterIs
    <3> QED
      BY <2>6, <3>1
  <2>8. Delivered' = [Delivered EXCEPT ![p] = Append(Delivered[p], Head(Pending[p]))]
    <3>1. log[Other(p)]' = Append(log[r], g + 1) /\ log[Other(r)]' = log[Other(r)]
      BY <2>1, <2>2 DEF p
    <3> HIDE DEF g, n
    <3> QED
      BY <2>1, <2>6, <2>7, <3>1 DEF Delivered
  <2>9. Pending' = [Pending EXCEPT ![p] = Tail(Pending[p])]
    <3>1. Other(r) = p
      BY DEF p
    <3>2. After(Got(Other(p)), sent[p] - Got(Other(p)))' = After(g + 1, n - 1)
      BY <2>1, <2>2, <2>4, <2>5 DEF After
    <3>3. After(Got(Other(r)), sent[r] - Got(Other(r)))'
          = After(Got(Other(r)), sent[r] - Got(Other(r)))
      BY <1>9, <2>1, <2>4, <3>1 DEF After
    <3> HIDE DEF g, n
    <3> QED
      BY <2>1, <2>7, <3>2, <3>3 DEF Pending
  <2> QED
    BY <1>6, <2>1, <2>7, <2>8, <2>9
<1> QED
  BY <1>7, <1>8, <1>9 DEF Moves

(* The channel is a reliable stream in each direction: chunks that the program queued are
   delivered once each, in order (QueueChunkEx, Feed and UnpackNextChunk over any network). *)
THEOREM ChannelIsAStream == Spec => StreamsImplemented
<1> USE DEF Pending, Delivered, After, Got
<1>1. Init => Streams!Init
  BY StreamsInit
<1>2. IInv /\ IInv' /\ [Next]_vars => [Streams!Next]_<<Pending, Delivered>>
  BY NextKeeps, MovesStream
<1> QED
  BY <1>1, <1>2, ChannelInvariant, PTL DEF StreamsImplemented, Streams!Spec, Spec

=============================================================================
