--------------------------- MODULE AsyncIoProofs ---------------------------
(***************************************************************************)
(* Proofs about AsyncIo for every size of the buffers, any number of        *)
(* loggers and any writes.  The ring is the heart of them: Ring says which  *)
(* byte is where, and each action that moves a position or replaces the    *)
(* buffer has a lemma that keeps it.                                       *)
(***************************************************************************)
EXTENDS AsyncIo, SequenceTheorems, TLAPS

(* The bytes not yet taken are in the ring, in order. *)
Ring ==
  /\ BufferLen <= accepted
  /\ \A k \in 1..BufferLen : buffer[Wrapped(readPos + k - 1)] = accepted - BufferLen + k

(* The bytes taken are in the file and in the hands of the thread. *)
Stream ==
  ~failed =>
    /\ Len(file) + Len(thread.local) + BufferLen = accepted
    /\ \A i \in DOMAIN file : file[i] = i
    /\ \A i \in DOMAIN thread.local : thread.local[i] = Len(file) + i

(* Who is where: the lock, the references, and what a thread that is gone left. *)
Ends ==
  /\ \A l \in Loggers : logger[l] \in {"locked", "wrote"} <=> owner = l
  /\ refcount = (IF thread.pc = "gone" THEN 0 ELSE 1) + (IF program = "freed" THEN 0 ELSE 1)
  /\ thread.pc # "write" => thread.local = <<>>
  /\ thread.result = failed
  /\ program = "open" <=> finish = "running"
  /\ mark <= accepted
  /\ program = "waited" => thread.pc = "gone"
  /\ thread.pc = "gone" =>
       /\ finish # "running"
       /\ error = failed
       /\ failed \/ Len(file) >= mark

IInv == TypeOK /\ Ring /\ Stream /\ Ends

-----------------------------------------------------------------------------
(* The ring. *)

(* The ring holds fewer bytes than it has places, none exactly when the two
   positions meet, and its two pieces together. *)
LEMMA RingLength ==
  ASSUME TypeOK
  PROVE  /\ BufferLen \in 0..(size - 1)
         /\ Len1 + Len2 = BufferLen /\ Len1 \in Nat /\ Len2 \in Nat
         /\ BufferLen = 0 <=> Empty
BY AsyncIoAssumption DEF TypeOK, BufferLen, Len1, Len2, Empty

(* A write that fits is stored behind the bytes that wait, over the end of the
   buffer if need be, and touches none of them. *)
LEMMA RingStored ==
  ASSUME TypeOK, Ring, NEW n \in Nat, Fits(n),
         buffer' = Stored(n), writePos' = Wrapped(writePos + n),
         size' = size, readPos' = readPos, accepted' = accepted + n
  PROVE  /\ BufferLen' = BufferLen + n
         /\ Ring'
         /\ writePos' \in 0..(size' - 1) /\ buffer' \in [0..(size' - 1) -> Nat]
<1>1. /\ size \in Nat \ {0} /\ readPos \in 0..(size - 1) /\ writePos \in 0..(size - 1)
      /\ accepted \in Nat /\ buffer \in [0..(size - 1) -> Nat]
  BY AsyncIoAssumption DEF TypeOK
<1>2. BufferLen' = BufferLen + n /\ writePos' \in 0..(size' - 1)
  BY <1>1 DEF BufferLen, Fits, Wrapped
<1>3. buffer' \in [0..(size' - 1) -> Nat]
  BY <1>1 DEF Stored, Byte, Offset
<1>4. ASSUME NEW k \in 1..(BufferLen + n)
      PROVE  buffer'[Wrapped(readPos + k - 1)] = accepted - BufferLen + k
  <2> DEFINE j == Wrapped(readPos + k - 1)
  <2>1. j \in 0..(size - 1)
    BY <1>1 DEF Wrapped, Fits, BufferLen
  <2>2. CASE k <= BufferLen
    <3>1. buffer'[j] = buffer[j]
      BY <1>1, <2>1, <2>2 DEF Wrapped, Fits, BufferLen, Stored, Offset
    <3> QED
      BY <2>2, <3>1 DEF Ring
  <2>3. CASE k > BufferLen
    <3>1. Offset(j) = k - BufferLen - 1
      BY <1>1, <2>3 DEF Wrapped, Fits, BufferLen, Offset
    <3>2. k - BufferLen - 1 < n
      BY <1>1, <2>3 DEF BufferLen
    <3>3. buffer'[j] = Byte(k - BufferLen - 1 + 1)
      BY <2>1, <3>1, <3>2 DEF Stored
    <3>4. BufferLen \in Nat
      BY <1>1 DEF BufferLen
    <3> QED
      BY <1>1, <3>3, <3>4 DEF Byte
  <2> QED
    BY <1>1, <2>2, <2>3 DEF BufferLen
<1>5. BufferLen + n <= accepted + n /\ accepted' - BufferLen' = accepted - BufferLen
  BY <1>1, <1>2 DEF Ring, BufferLen
<1> QED
  BY <1>1, <1>2, <1>3, <1>4, <1>5 DEF Ring, Wrapped

(* A buffer that grows keeps the waiting bytes, from its start on, and adds the
   new ones. *)
LEMMA RingGrown ==
  ASSUME TypeOK, Ring, NEW n \in Nat, NEW s \in Sizes, IsNextSize(s, BufferLen + n + 1),
         buffer' = Grown(s, n), writePos' = BufferLen + n,
         size' = s, readPos' = 0, accepted' = accepted + n
  PROVE  /\ BufferLen' = BufferLen + n
         /\ Ring'
         /\ writePos' \in 0..(size' - 1) /\ readPos' \in 0..(size' - 1)
         /\ buffer' \in [0..(size' - 1) -> Nat]
<1>1. /\ size \in Nat \ {0} /\ readPos \in 0..(size - 1) /\ writePos \in 0..(size - 1)
      /\ accepted \in Nat /\ buffer \in [0..(size - 1) -> Nat] /\ s \in Nat \ {0}
      /\ BufferLen + n + 1 <= s
  BY AsyncIoAssumption DEF TypeOK, IsNextSize
<1>2. /\ BufferLen' = BufferLen + n
      /\ writePos' \in 0..(size' - 1) /\ readPos' \in 0..(size' - 1)
  BY <1>1 DEF BufferLen
<1>3. ASSUME NEW i \in 0..(s - 1), i < BufferLen
      PROVE  buffer'[i] = buffer[Wrapped(readPos + i)]
  BY <1>1, <1>3 DEF Grown, Len1, Len2, BufferLen, Wrapped
<1>4. ASSUME NEW i \in 0..(s - 1), i >= BufferLen, i < BufferLen + n
      PROVE  buffer'[i] = accepted + i - BufferLen + 1
  BY <1>1, <1>4 DEF Grown, Len1, Len2, BufferLen, Byte
<1>5. buffer' \in [0..(size' - 1) -> Nat]
  BY <1>1 DEF Grown, Len1, Len2, Byte
<1>6. ASSUME NEW k \in 1..(BufferLen + n)
      PROVE  buffer'[k - 1] = accepted - BufferLen + k
  <2>1. k - 1 \in 0..(s - 1)
    BY <1>1 DEF BufferLen
  <2>2. CASE k <= BufferLen
    <3>1. buffer'[k - 1] = buffer[Wrapped(readPos + k - 1)]
      BY <1>1, <1>3, <2>1, <2>2 DEF BufferLen
    <3> QED
      BY <2>2, <3>1 DEF Ring
  <2>3. CASE k > BufferLen
    BY <1>1, <1>4, <2>1, <2>3 DEF BufferLen
  <2> QED
    BY <1>1, <2>2, <2>3 DEF BufferLen
<1>7. BufferLen \in Nat /\ BufferLen <= accepted
  BY <1>1 DEF BufferLen, Ring
<1>8. ASSUME NEW k \in 1..(BufferLen + n)
      PROVE  (Wrapped(readPos + k - 1))' = k - 1
  BY <1>1, <1>7 DEF Wrapped
<1>9. BufferLen' <= accepted' /\ accepted' - BufferLen' = accepted - BufferLen
  BY <1>1, <1>2, <1>7
<1>10. Ring'
  BY <1>2, <1>6, <1>8, <1>9 DEF Ring
<1> QED
  BY <1>2, <1>5, <1>10

(* What the thread takes are the oldest bytes, in order, and the others stay. *)
LEMMA RingTaken ==
  ASSUME TypeOK, Ring, readPos' = Wrapped(readPos + Cut1 + Cut2),
         buffer' = buffer, size' = size, writePos' = writePos, accepted' = accepted
  PROVE  /\ Cut1 + Cut2 \in 0..BufferLen
         /\ BufferLen' = BufferLen - (Cut1 + Cut2)
         /\ Ring'
         /\ readPos' \in 0..(size - 1)
         /\ Taken \in Seq(Nat) /\ Len(Taken) = Cut1 + Cut2
         /\ \A i \in 1..Len(Taken) : Taken[i] = accepted - BufferLen + i
<1>1. /\ size \in Nat \ {0} /\ readPos \in 0..(size - 1) /\ writePos \in 0..(size - 1)
      /\ accepted \in Nat /\ buffer \in [0..(size - 1) -> Nat] /\ LocalSize \in Nat \ {0}
  BY AsyncIoAssumption DEF TypeOK
<1>2. /\ Cut1 \in 0..Len1 /\ Cut2 \in 0..Len2
      /\ Cut2 > 0 => Cut1 = Len1
  BY <1>1 DEF Cut1, Cut2, Smaller, Len1, Len2
<1>3. /\ Len1 + Len2 = BufferLen /\ Len1 \in Nat /\ Len2 \in Nat /\ BufferLen \in 0..(size - 1)
  BY RingLength
<1> DEFINE c == Cut1 + Cut2
<1>4. c \in 0..BufferLen
  BY <1>2, <1>3
<1>5. /\ readPos' = IF readPos + c < size THEN readPos + c ELSE readPos + c - size
      /\ size' = size /\ writePos' = writePos
  BY <1>1, <1>2, <1>3 DEF Wrapped
<1> HIDE DEF c
<1>6. BufferLen' = BufferLen - c /\ readPos' \in 0..(size - 1)
  <2>1. CASE writePos >= readPos
    <3>1. readPos + c <= writePos /\ readPos' = readPos + c
      BY <1>1, <1>4, <1>5, <2>1 DEF BufferLen
    <3> QED
      BY <1>1, <1>4, <1>5, <2>1, <3>1 DEF BufferLen
  <2>2. CASE ~(writePos >= readPos) /\ readPos + c < size
    <3>1. c \in Nat /\ readPos' = readPos + c
      BY <1>3, <1>4, <1>5, <2>2
    <3>2. ~(writePos' >= readPos') /\ BufferLen = size + writePos - readPos
      BY <1>1, <1>5, <2>2, <3>1 DEF BufferLen
    <3>3. BufferLen' = size + writePos - (readPos + c)
      BY <1>5, <3>1, <3>2 DEF BufferLen
    <3> QED
      BY <1>1, <2>2, <3>1, <3>2, <3>3
  <2>3. CASE ~(writePos >= readPos) /\ ~(readPos + c < size)
    <3>1. readPos' = readPos + c - size /\ readPos + c - size <= writePos
      BY <1>1, <1>4, <1>5, <2>3 DEF BufferLen
    <3> QED
      BY <1>1, <1>4, <1>5, <2>3, <3>1 DEF BufferLen
  <2> QED
    BY <2>1, <2>2, <2>3
<1>7. ASSUME NEW k \in 1..(BufferLen - c)
       PROVE  (Wrapped(readPos + k - 1))' = Wrapped(readPos + (c + k) - 1)
  <2>1. k \in Nat /\ c \in Nat /\ c + k <= BufferLen /\ k >= 1
    BY <1>3, <1>4
  <2>2. CASE readPos + c < size
    BY <1>1, <1>3, <1>5, <2>1, <2>2 DEF Wrapped
  <2>3. CASE ~(readPos + c < size)
    BY <1>1, <1>3, <1>5, <2>1, <2>3 DEF Wrapped
  <2> QED
    BY <2>2, <2>3
<1>8. Ring'
  <2>1. ASSUME NEW k \in 1..(BufferLen - c)
        PROVE  buffer[Wrapped(readPos + (c + k) - 1)] = accepted - BufferLen + (c + k)
    BY <1>3, <1>4 DEF Ring
  <2>2. BufferLen <= accepted
    BY DEF Ring
  <2>3. BufferLen' <= accepted' /\ \A k \in Nat : accepted' - BufferLen' + k = accepted - BufferLen + (c + k)
    BY <1>1, <1>3, <1>4, <1>6, <2>2
  <2> QED
    BY <1>3, <1>4, <1>6, <1>7, <2>1, <2>3 DEF Ring
<1>9. Taken = [i \in 1..c |-> IF i <= Cut1 THEN buffer[readPos + i - 1] ELSE buffer[i - Cut1 - 1]]
  BY DEF Taken, c
<1>10. ASSUME NEW i \in 1..c
      PROVE  /\ Taken[i] = buffer[Wrapped(readPos + i - 1)]
             /\ Taken[i] \in Nat
  <2>1. CASE i <= Cut1
    <3>1. Wrapped(readPos + i - 1) = readPos + i - 1 /\ readPos + i - 1 \in 0..(size - 1)
      BY <1>1, <1>2, <2>1 DEF Wrapped, Len1
    <3> QED
      BY <1>1, <1>9, <2>1, <3>1
  <2>2. CASE ~(i <= Cut1)
    <3>1. Cut1 = Len1 /\ i - Cut1 \in 1..Len2
      BY <1>2, <1>3, <2>2 DEF c
    <3>2. Wrapped(readPos + i - 1) = i - Cut1 - 1 /\ i - Cut1 - 1 \in 0..(size - 1)
      BY <1>1, <3>1 DEF Wrapped, Len1, Len2
    <3> QED
      BY <1>1, <1>9, <2>2, <3>2
  <2> QED
    BY <2>1, <2>2
<1>11. Taken \in [1..c -> Nat] /\ c \in Nat
  BY <1>3, <1>4, <1>9, <1>10
<1>12. Taken \in Seq(Nat) /\ Len(Taken) = c
  <2> QED
    BY <1>11, SeqDef, LenProperties
<1>13. ASSUME NEW i \in 1..c
       PROVE  Taken[i] = accepted - BufferLen + i
  BY <1>3, <1>4, <1>10 DEF Ring
<1> QED
  BY <1>4, <1>6, <1>8, <1>12, <1>13 DEF c

(* Steps that move no byte. *)
LEMMA BytesKept ==
  ASSUME Ring, Stream, UNCHANGED <<ring, disk, accepted>>, thread'.local = thread.local
  PROVE  Ring' /\ Stream'
<1>1. BufferLen' = BufferLen
  BY DEF ring, BufferLen
<1>2. Ring'
  BY <1>1 DEF Ring, ring, Wrapped
<1>3. Stream'
  BY <1>1 DEF Stream, disk
<1> QED
  BY <1>2, <1>3

-----------------------------------------------------------------------------
(* The inductive invariant. *)

LEMMA InitInv == Init => IInv
<1> SUFFICES ASSUME Init PROVE IInv
  OBVIOUS
<1>1. BufSize \in Nat \ {0}
  BY AsyncIoAssumption
<1>2. TypeOK
  BY <1>1, AsyncIoAssumption DEF Init, TypeOK
<1>3. BufferLen = 0
  BY DEF Init, BufferLen
<1>4. Ring /\ Stream
  BY <1>1, <1>3 DEF Init, Ring, Stream
<1>5. Ends
  BY AsyncIoAssumption DEF Init, Ends
<1> QED
  BY <1>2, <1>4, <1>5 DEF IInv

(* A logger takes the lock, writes under it, gives it back and signals. *)
LEMMA LockStep == ASSUME IInv, NEW l \in Loggers, Lock(l) PROVE IInv'
<1> USE DEF IInv, Lock
<1>1. TypeOK'
  BY DEF TypeOK, ring, disk
<1>2. Ring' /\ Stream'
  BY BytesKept
<1>3. Ends'
  BY AsyncIoAssumption DEF TypeOK, Ends, disk
<1> QED
  BY <1>1, <1>2, <1>3

LEMMA WriteStep ==
  ASSUME IInv, NEW l \in Loggers, NEW n \in 1..MaxWrite, WriteUnlocked(l, n) PROVE IInv'
<1>1. n \in Nat /\ accepted \in Nat /\ MaxWrite \in Nat
  BY AsyncIoAssumption DEF IInv, TypeOK
<1>2. /\ BufferLen' = BufferLen + n
      /\ Ring'
      /\ size' \in Sizes
      /\ writePos' \in 0..(size' - 1) /\ readPos' \in 0..(size' - 1)
      /\ buffer' \in [0..(size' - 1) -> Nat]
  <2>1. CASE Fits(n)
    BY <1>1, <2>1, RingStored DEF WriteUnlocked, IInv, TypeOK
  <2>2. CASE ~Fits(n)
    BY <1>1, <2>2, RingGrown DEF WriteUnlocked, IInv
  <2> QED
    BY <2>1, <2>2
<1>3. TypeOK'
  <2>1. accepted' \in Nat
    BY <1>1 DEF WriteUnlocked
  <2>2. logger' \in [Loggers -> {"idle", "locked", "wrote", "signal"}]
    BY DEF WriteUnlocked, IInv, TypeOK
  <2> QED
    BY <1>2, <2>1, <2>2 DEF WriteUnlocked, IInv, TypeOK, disk
<1>4. BufferLen \in Nat
  BY RingLength, AsyncIoAssumption DEF IInv, TypeOK
<1>5. Stream'
  <2>1. UNCHANGED <<failed, file, thread>> /\ accepted' = accepted + n
    BY DEF WriteUnlocked, disk
  <2>2. Len(file) \in Nat /\ Len(thread.local) \in Nat
    BY DEF IInv, TypeOK
  <2>3. SUFFICES ASSUME ~failed PROVE Stream'
    BY <2>1 DEF Stream
  <2>4. Len(file) + Len(thread.local) + BufferLen = accepted
    BY <2>3 DEF IInv, Stream
  <2>5. Len(file') + Len(thread.local') + BufferLen' = accepted'
    <3> DEFINE out == Len(file) + Len(thread.local)
    <3>1. out \in Nat
      BY <2>2
    <3>2. out + BufferLen = accepted /\ out' = out
      BY <2>1, <2>4
    <3> HIDE DEF out
    <3>3. out + (BufferLen + n) = accepted + n
      BY <1>1, <1>4, <3>1, <3>2
    <3> QED
      BY <1>2, <2>1, <3>2, <3>3 DEF out
  <2>6. /\ \A i \in DOMAIN file' : file'[i] = i
        /\ \A i \in DOMAIN thread.local' : thread.local'[i] = Len(file') + i
    BY <2>1, <2>3 DEF IInv, Stream
  <2> QED
    BY <2>5, <2>6 DEF Stream
<1>6. Ends'
  BY <1>1 DEF WriteUnlocked, IInv, TypeOK, Ends, disk
<1> QED
  BY <1>2, <1>3, <1>5, <1>6 DEF IInv

LEMMA UnlockStep ==
  ASSUME IInv, NEW l \in Loggers, Unlock(l) \/ Signal(l) PROVE IInv'
<1> USE DEF IInv, Unlock, Signal
<1>1. TypeOK'
  <2>1. sem' \in Nat /\ owner' \in Loggers \cup {Nobody}
    BY DEF TypeOK
  <2>2. logger' \in [Loggers -> {"idle", "locked", "wrote", "signal"}]
    BY DEF TypeOK
  <2> QED
    BY <2>1, <2>2 DEF TypeOK, ring, disk
<1>2. Ring' /\ Stream'
  BY BytesKept
<1>3. Ends'
  BY AsyncIoAssumption DEF TypeOK, Ends, disk
<1> QED
  BY <1>1, <1>2, <1>3

(* The program asks for the end, signals, joins and frees. *)
LEMMA ProgramStep ==
  ASSUME IInv, Close \/ Wait \/ ProgramSignal \/ Join \/ Free PROVE IInv'
<1>1. TypeOK'
  <2>1. CASE Close \/ Wait
    BY <2>1 DEF IInv, TypeOK, Close, Wait, Finish, ring, disk
  <2>2. CASE ProgramSignal \/ Join
    BY <2>2 DEF IInv, TypeOK, ProgramSignal, Join, ring, disk
  <2>3. CASE Free
    BY <2>3 DEF IInv, TypeOK, Ends, Free, ring, disk
  <2> QED
    BY <2>1, <2>2, <2>3
<1>2. Ring' /\ Stream'
  BY BytesKept DEF IInv, Close, Wait, ProgramSignal, Join, Free
<1>3. Ends'
  <2>1. CASE Close \/ Wait
    BY <2>1 DEF IInv, TypeOK, Ends, Close, Wait, Finish, disk
  <2>2. CASE ProgramSignal \/ Join
    BY <2>2 DEF IInv, TypeOK, Ends, ProgramSignal, Join, disk
  <2>3. CASE Free
    BY <2>3 DEF IInv, TypeOK, Ends, Free, disk
  <2> QED
    BY <2>1, <2>2, <2>3
<1> QED
  BY <1>1, <1>2, <1>3 DEF IInv

(* The thread ends only with nothing left in its hands or in the ring. *)
LEMMA EndStep == ASSUME IInv, ThreadEnds PROVE IInv'
<1> USE DEF ThreadEnds
<1>1. TypeOK'
  <2>1. thread' = [pc |-> "gone", local |-> thread.local, result |-> thread.result]
    BY DEF IInv, TypeOK
  <2>2. refcount' \in 0..2
    BY DEF IInv, TypeOK, Ends
  <2> QED
    BY <2>1, <2>2 DEF IInv, TypeOK, ring, disk
<1>2. Ring' /\ Stream'
  BY BytesKept DEF IInv, TypeOK
<1>3. BufferLen = 0 /\ thread.local = <<>>
  BY RingLength DEF IInv, Ends
<1>4. failed \/ Len(file) = accepted
  BY <1>3 DEF IInv, TypeOK, Stream
<1>5. Ends'
  BY <1>4 DEF IInv, TypeOK, Ends, disk
<1> QED
  BY <1>1, <1>2, <1>5 DEF IInv

LEMMA SleepStep == ASSUME IInv, ThreadSleeps \/ ThreadWakes PROVE IInv'
<1> USE DEF IInv, ThreadSleeps, ThreadWakes
<1>1. TypeOK'
  <2>1. \E p \in {"top", "sleep"} :
          thread' = [pc |-> p, local |-> thread.local, result |-> thread.result]
    BY DEF TypeOK
  <2>2. sem' \in Nat /\ error' \in BOOLEAN
    BY DEF TypeOK
  <2> QED
    BY <2>1, <2>2 DEF TypeOK, ring, disk
<1>2. Ring' /\ Stream'
  BY BytesKept DEF TypeOK
<1>3. Ends'
  BY DEF TypeOK, Ends, disk
<1> QED
  BY <1>1, <1>2, <1>3

(* The bytes the thread takes go from the front of the ring into its hands ... *)
LEMMA TakeStep == ASSUME IInv, ThreadTakes PROVE IInv'
<1>1. /\ Cut1 + Cut2 \in 0..BufferLen /\ BufferLen' = BufferLen - (Cut1 + Cut2)
      /\ Ring' /\ readPos' \in 0..(size - 1)
      /\ Taken \in Seq(Nat) /\ Len(Taken) = Cut1 + Cut2
      /\ \A i \in 1..Len(Taken) : Taken[i] = accepted - BufferLen + i
  BY RingTaken DEF IInv, ThreadTakes
<1>2. thread' = [pc |-> "write", local |-> Taken, result |-> thread.result]
  BY DEF IInv, TypeOK, ThreadTakes
<1>3. TypeOK'
  BY <1>1, <1>2 DEF IInv, TypeOK, ThreadTakes, disk
<1>4. thread.local = <<>> /\ BufferLen \in Nat /\ accepted \in Nat /\ file \in Seq(Nat)
  BY RingLength, AsyncIoAssumption DEF IInv, TypeOK, Ends, ThreadTakes
<1>5. Stream'
  <2>1. SUFFICES ASSUME ~failed
        PROVE  /\ Len(file) + Len(Taken) + BufferLen' = accepted
               /\ \A i \in DOMAIN file : file[i] = i
               /\ \A i \in DOMAIN Taken : Taken[i] = Len(file) + i
    BY <1>2 DEF Stream, ThreadTakes, disk
  <2>2. Len(file) + BufferLen = accepted /\ \A i \in DOMAIN file : file[i] = i
    BY <1>4, <2>1 DEF IInv, Stream
  <2>3. Len(file) + Len(Taken) + BufferLen' = accepted
    <3>1. Len(file) \in Nat /\ Len(Taken) \in Nat
      BY <1>1, <1>4
    <3>2. BufferLen' = BufferLen - Len(Taken)
      BY <1>1
    <3> QED
      BY <1>4, <2>2, <3>1, <3>2
  <2>4. \A i \in DOMAIN Taken : Taken[i] = Len(file) + i
    <3>1. Len(file) \in Nat /\ DOMAIN Taken = 1..Len(Taken)
      BY <1>1, <1>4
    <3>2. accepted - BufferLen = Len(file)
      BY <1>4, <2>2, <3>1
    <3> QED
      BY <1>1, <3>1, <3>2
  <2> QED
    BY <2>2, <2>3, <2>4
<1>6. Ends'
  BY <1>2 DEF IInv, TypeOK, Ends, ThreadTakes, disk
<1> QED
  BY <1>1, <1>3, <1>5, <1>6 DEF IInv

(* ... and from there to the end of the file, or the file is in error. *)
LEMMA FileStep == ASSUME IInv, ThreadWrites PROVE IInv'
<1>1. BufferLen' = BufferLen /\ Ring'
  BY DEF IInv, Ring, ThreadWrites, ring, BufferLen, Wrapped
<1>2. /\ file \in Seq(Nat) /\ thread.local \in Seq(Nat) /\ BufferLen \in Nat
      /\ accepted \in Nat /\ failed' \in BOOLEAN
  <2>1. BufferLen \in Nat
    BY RingLength, AsyncIoAssumption DEF IInv, TypeOK
  <2> QED
    BY <2>1 DEF IInv, TypeOK, ThreadWrites
<1>3. TypeOK'
  <2>1. file' \in Seq(Nat)
    BY <1>2, ConcatProperties, EmptySeq DEF ThreadWrites
  <2> QED
    BY <1>2, <2>1 DEF IInv, TypeOK, ThreadWrites, ring
<1>4. Stream'
  <2>1. SUFFICES ASSUME ~failed'
        PROVE  /\ Len(file') + BufferLen' = accepted'
               /\ \A i \in DOMAIN file' : file'[i] = i
    BY <1>2 DEF Stream, ThreadWrites
  <2>2. ~failed /\ file' = file \o thread.local /\ accepted' = accepted
    BY <2>1, <1>2 DEF ThreadWrites, IInv, TypeOK
  <2>3. /\ Len(file) + Len(thread.local) + BufferLen = accepted
        /\ \A i \in 1..Len(file) : file[i] = i
        /\ \A i \in 1..Len(thread.local) : thread.local[i] = Len(file) + i
    BY <1>2, <2>2 DEF IInv, Stream
  <2>4. /\ Len(file') = Len(file) + Len(thread.local) /\ DOMAIN file' = 1..Len(file')
        /\ \A i \in 1..Len(file') :
             file'[i] = IF i <= Len(file) THEN file[i] ELSE thread.local[i - Len(file)]
    BY <1>2, <2>2, ConcatProperties
  <2> QED
    BY <1>1, <1>2, <2>2, <2>3, <2>4
<1>5. Ends'
  BY <1>2 DEF IInv, TypeOK, Ends, ThreadWrites
<1> QED
  BY <1>1, <1>3, <1>4, <1>5 DEF IInv

LEMMA StutterStep == ASSUME IInv, UNCHANGED vars PROVE IInv'
<1>1. Ring' /\ Stream'
  BY BytesKept DEF IInv, vars
<1> QED
  BY <1>1 DEF IInv, TypeOK, Ends, vars, ring, disk

(* IInv is an invariant: of the loggers, the program and the thread, in any order. *)
THEOREM Invariance == Spec => []IInv
<1>1. Init => IInv
  BY InitInv
<1>2. IInv /\ [Next]_vars => IInv'
  <2> SUFFICES ASSUME IInv, [Next]_vars PROVE IInv'
    OBVIOUS
  <2>1. CASE \E l \in Loggers : Lock(l)
    BY <2>1, LockStep
  <2>2. CASE \E l \in Loggers, n \in 1..MaxWrite : WriteUnlocked(l, n)
    BY <2>2, WriteStep
  <2>3. CASE \E l \in Loggers : Unlock(l) \/ Signal(l)
    BY <2>3, UnlockStep
  <2>4. CASE Close \/ Wait \/ ProgramSignal \/ Join \/ Free
    BY <2>4, ProgramStep
  <2>5. CASE ThreadEnds
    BY <2>5, EndStep
  <2>6. CASE ThreadSleeps \/ ThreadWakes
    BY <2>6, SleepStep
  <2>7. CASE ThreadTakes
    BY <2>7, TakeStep
  <2>8. CASE ThreadWrites
    BY <2>8, FileStep
  <2>9. CASE UNCHANGED vars
    BY <2>9, StutterStep
  <2> QED
    BY <2>1, <2>2, <2>3, <2>4, <2>5, <2>6, <2>7, <2>8, <2>9 DEF Next, Thread
<1> QED
  BY <1>1, <1>2, PTL DEF Spec

(* The types of AsyncIo's variables: the positions stay inside the buffer while it
   wraps and grows. *)
THEOREM TypeCorrect == Spec => []TypeOK
<1>1. IInv => TypeOK
  BY DEF IInv
<1> QED
  BY <1>1, Invariance, PTL

(* Every accepted byte is in the file, with the thread or in the ring, once and in
   order, or the file is in error. *)
THEOREM NothingLost == Spec => []NothingIsLost
<1>1. IInv => NothingIsLost
  BY DEF IInv, Ring, Stream, NothingIsLost
<1> QED
  BY <1>1, Invariance, PTL

(* When aio_wait returns, what was accepted before is in the file or aio_error tells. *)
THEOREM WaitedWritten == Spec => []WaitedIsWritten
<1>1. IInv => WaitedIsWritten
  BY DEF IInv, Ends, WaitedIsWritten
<1> QED
  BY <1>1, Invariance, PTL

(* The last of the thread and the program deletes the struct. *)
THEOREM FreedByLast == Spec => []FreedLast
<1>1. IInv => FreedLast
  BY DEF IInv, Ends, FreedLast
<1> QED
  BY <1>1, Invariance, PTL
=============================================================================
