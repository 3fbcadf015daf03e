---------------------------- MODULE NetConnection ----------------------------
(***************************************************************************)
(* CNetConnection of src/src/engine/shared/network_conn.cpp as a value:    *)
(* what each of its methods makes of the connection and which packets it   *)
(* hands to the socket (the field out, emptied at the end of a step).      *)
(* A chunk is its sequence number and an identity that stands for its      *)
(* payload.  Times are left out: a timer is a choice of the caller.        *)
(***************************************************************************)
EXTENDS Integers, Sequences, FiniteSetsExt, SequencesExt

CONSTANTS
  MaxSeq,     \* NET_MAX_SEQUENCE
  BufferCap,  \* vital chunks that fit in m_Buffer
  PacketCap   \* chunks that fit in one packet

ASSUME NetAssumption ==
  /\ MaxSeq \in Nat \ {0} /\ MaxSeq % 2 = 0
  /\ BufferCap \in Nat
  /\ PacketCap \in Nat \ {0}

NoChunks == [chunks |-> <<>>, resend |-> FALSE]

\* a connection after Init
Offline ==
  [state |-> "offline", seq |-> 0, ack |-> 0, peerAck |-> 0, remoteClosed |-> FALSE,
   timedOut |-> FALSE, protected |-> FALSE, buffer |-> <<>>, construct |-> NoChunks, out |-> {}]

SeqAfter(s) == (s + 1) % MaxSeq

\* variant: the backroom reaches back a whole lap
IsSeqInLap(s, a) ==
  LET bottom == a - MaxSeq
  IN  IF bottom < 0 THEN s <= a \/ s >= bottom + MaxSeq ELSE s <= a /\ s >= bottom

\* CNetBase::IsSeqInBackroom: Seq is one of the numbers up to Ack, half a lap back
IsSeqInBackroom(s, a) ==
  LET bottom == a - MaxSeq \div 2
  IN  IF bottom < 0 THEN s <= a \/ s >= bottom + MaxSeq ELSE s <= a /\ s >= bottom

Reset(c) == [Offline EXCEPT !.out = c.out]

\* Reset(true): the state and the two flags of timeout protection survive a rejoin
ResetRejoin(c) ==
  [Offline EXCEPT !.out = c.out, !.state = c.state, !.timedOut = c.timedOut,
                  !.protected = c.protected]

\* DirectInit
Accepted(c) == [Reset(c) EXCEPT !.state = "online"]

-----------------------------------------------------------------------------
(* Sending. *)

Control(c, msg) == [ctrl |-> msg, ack |-> c.ack, resend |-> FALSE, chunks |-> <<>>]

SendControl(c, msg) == [c EXCEPT !.out = @ \cup {Control(c, msg)}]

Flush(c) ==
  IF c.construct = NoChunks
    THEN c
    ELSE [c EXCEPT !.construct = NoChunks,
                   !.out = @ \cup {[ctrl |-> "none", ack |-> c.ack, resend |-> c.construct.resend,
                                    chunks |-> c.construct.chunks]}]

\* a first transmission is saved for a resend if the buffer has room for it
QueueChunkEx(c, chunk, first) ==
  IF c.state \in {"offline", "error"}
    THEN c
    ELSE LET f == IF Len(c.construct.chunks) = PacketCap THEN Flush(c) ELSE c
         IN  [f EXCEPT !.construct.chunks = Append(@, chunk),
                       !.buffer = IF first /\ Len(@) < BufferCap THEN Append(@, chunk) ELSE @]

\* the sequence advances even when QueueChunkEx refuses the chunk
QueueChunk(c, id) ==
  LET s == SeqAfter(c.seq)
  IN  QueueChunkEx([c EXCEPT !.seq = s], [seq |-> s, id |-> id], TRUE)

ResendChunk(c, chunk) == QueueChunkEx(c, chunk, FALSE)

Resend(c) ==
  LET resent[n \in 0..Len(c.buffer)] ==
        IF n = 0 THEN c ELSE ResendChunk(resent[n - 1], c.buffer[n])
  IN  resent[Len(c.buffer)]

\* a close is announced unless the peer closed first or has timed out
Disconnect(c) ==
  IF c.state = "offline"
    THEN c
    ELSE Reset(IF c.remoteClosed \/ c.timedOut THEN c ELSE SendControl(c, "close"))

-----------------------------------------------------------------------------
(* Receiving. *)

\* the ack of a packet must lie between the last one and the own sequence
AckIsValid(c, a) ==
  IF c.seq >= c.peerAck
    THEN c.peerAck <= a /\ a <= c.seq
    ELSE c.peerAck <= a \/ a <= c.seq

\* variant: the first chunk that is not acknowledged goes with them
AckChunksTooMany(c, a) ==
  LET kept == {i \in DOMAIN c.buffer : ~IsSeqInBackroom(c.buffer[i].seq, a)}
  IN  [c EXCEPT !.buffer = IF kept = {} THEN <<>> ELSE SubSeq(@, Min(kept) + 1, Len(@))]

\* acknowledged chunks leave the buffer from its front
AckChunks(c, a) ==
  LET kept == {i \in DOMAIN c.buffer : ~IsSeqInBackroom(c.buffer[i].seq, a)}
  IN  [c EXCEPT !.buffer = IF kept = {} THEN <<>> ELSE SubSeq(@, Min(kept), Len(@))]

\* Feed from the ack check on, for a packet of the peer whose ack is valid
Feed(c, pk) ==
  LET a == [c EXCEPT !.peerAck = pk.ack]
      r == IF pk.resend THEN Resend(a) ELSE a
      s == IF r.state = "connect" /\ pk.ctrl = "connectAccept"
             THEN [SendControl(r, "accept") EXCEPT !.state = "online"]
             ELSE r
  IN  IF pk.ctrl = "close"
        THEN [r EXCEPT !.state = "error", !.remoteClosed = TRUE]
        ELSE IF s.state = "online" THEN AckChunks(s, pk.ack) ELSE s

\* One call of CPacketChunkUnpacker::UnpackNextChunk goes on to the first chunk
\* that is next in sequence; those it skips are old or ask for a resend.
NextInSequence(c, chunks) == {i \in DOMAIN chunks : chunks[i].seq = SeqAfter(c.ack)}

Skipped(c, chunks) ==
  LET hit == NextInSequence(c, chunks)
  IN  IF hit = {} THEN chunks ELSE SubSeq(chunks, 1, Min(hit) - 1)

\* the payload the call returns, as a sequence of at most one
Unpacked(c, chunks) ==
  LET hit == NextInSequence(c, chunks) IN IF hit = {} THEN <<>> ELSE <<chunks[Min(hit)].id>>

\* variant: a chunk is acknowledged by the next packet's only
AfterUnpackUnacked(c, chunks) ==
  [c EXCEPT
     !.construct.resend =
       @ \/ \E i \in DOMAIN Skipped(c, chunks) : ~IsSeqInBackroom(chunks[i].seq, c.ack)]

AfterUnpack(c, chunks) ==
  [c EXCEPT
     !.ack = IF NextInSequence(c, chunks) = {} THEN @ ELSE SeqAfter(@),
     !.construct.resend =
       @ \/ \E i \in DOMAIN Skipped(c, chunks) : ~IsSeqInBackroom(chunks[i].seq, c.ack)]

Remaining(c, chunks) ==
  SubSeq(chunks, Len(Skipped(c, chunks)) + 2, Len(chunks))

-----------------------------------------------------------------------------
(* Update: which of the timers have run out is the caller's choice. *)

\* nothing was received, or the oldest chunk not acknowledged, for ConnTimeout
TimedOut(c) == [c EXCEPT !.state = "error", !.timedOut = TRUE]

\* variant: the chunk waiting for its ack is left to the peer to ask for
UpdatedNoResend(c, resend, idle) ==
  LET k == [c EXCEPT !.timedOut = FALSE]
  IN  CASE c.state = "online" ->
             (CASE idle = "no" -> k
                [] idle = "late" -> Flush(k)
                [] idle = "idle" -> IF k.construct = NoChunks
                                      THEN SendControl(k, "keepalive") ELSE Flush(k))
        [] c.state = "connect" -> IF idle = "no" THEN k ELSE SendControl(k, "connect")
        [] OTHER -> c

\* resend: the oldest chunk has waited a second for its ack;
\* idle: nothing was sent for a second, so what is queued is flushed, and a
\* keep-alive sent if that was nothing;  late: the same for half a second
Updated(c, resend, idle) ==
  LET r == IF resend /\ c.buffer # <<>> THEN ResendChunk(c, Head(c.buffer)) ELSE c
      k == [r EXCEPT !.timedOut = FALSE]
  IN  CASE c.state = "online" ->
             (CASE idle = "no" -> k
                [] idle = "late" -> Flush(k)
                [] idle = "idle" -> IF k.construct = NoChunks
                                      THEN SendControl(k, "keepalive") ELSE Flush(k))
        [] c.state = "connect" -> IF idle = "no" THEN k ELSE SendControl(k, "connect")
        [] OTHER -> c
=============================================================================
