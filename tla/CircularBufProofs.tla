--------------------------- MODULE CircularBufProofs ---------------------------
(***************************************************************************)
(* circular_buf.cpp, for every ring size, every set of byte values, chunks *)
(* of any length and moves by any offset.  The ring is a FIFO queue of     *)
(* bytes.  The cursor stays on a held byte, a move succeeds exactly when   *)
(* its target has been pushed, and what is read ahead is what a pop would  *)
(* return.                                                                 *)
(***************************************************************************)
EXTENDS CirCursor, SequenceTheorems, TLAPS

LEMMA ChunkIsSeq ==
  ASSUME NEW data \in Chunks
  PROVE  data \in Seq(Byte) /\ Len(data) \in 0..MaxChunk
<1>1. PICK n \in 0..MaxChunk : data \in [1..n -> Byte]
  BY DEF Chunks
<1>2. n \in Nat
  BY SizeAssumption
<1>3. data \in Seq(Byte)
  BY <1>1, <1>2, SeqDef
<1>4. DOMAIN data = 1..n /\ DOMAIN data = 1..Len(data) /\ Len(data) \in Nat
  BY <1>1, <1>3, LenProperties
<1> QED
  BY <1>1, <1>2, <1>3, <1>4

\* The positions of a ring that is never filled determine how much it holds.
LEMMA SizeBound ==
  ASSUME readPos \in Slots, writePos \in Slots
  PROVE  cirbuf_get_size \in 0..Size - 1
BY SizeAssumption DEF Slots, cirbuf_get_size

\* Reading n bytes from position p, once round the ring at most.
LEMMA BytesFromType ==
  ASSUME Buffer \in [Slots -> Byte], NEW p \in Slots, NEW n \in 0..Size
  PROVE  /\ BytesFrom(p, n) \in Seq(Byte)
         /\ Len(BytesFrom(p, n)) = n
         /\ \A i \in 1..n : BytesFrom(p, n)[i] = Buffer[Wrap(p + i - 1)]
<1>1. \A i \in 1..n : Wrap(p + i - 1) \in Slots
  BY SizeAssumption DEF Slots, Wrap
<1>2. BytesFrom(p, n) \in [1..n -> Byte] /\ n \in Nat
  BY <1>1, SizeAssumption DEF BytesFrom
<1>3. BytesFrom(p, n) \in Seq(Byte)
  BY <1>2, SeqDef
<1>4. DOMAIN BytesFrom(p, n) = 1..n /\ DOMAIN BytesFrom(p, n) = 1..Len(BytesFrom(p, n))
      /\ Len(BytesFrom(p, n)) \in Nat
  BY <1>2, <1>3, LenProperties
<1> QED
  BY <1>2, <1>3, <1>4 DEF BytesFrom

\* The bytes the ring holds, by their slots.
ContentsOK ==
  /\ Contents \in Seq(Byte)
  /\ Len(Contents) = cirbuf_get_size
  /\ cirbuf_get_size \in 0..Size - 1
  /\ \A i \in 1..cirbuf_get_size : Contents[i] = Buffer[Wrap(readPos + i - 1)]

LEMMA ContentsType == RingTypeOK => ContentsOK
<1> SUFFICES ASSUME RingTypeOK
             PROVE  ContentsOK
  OBVIOUS
<1>1. cirbuf_get_size \in 0..Size - 1
  BY SizeBound DEF RingTypeOK
<1>2. cirbuf_get_size \in 0..Size
  BY <1>1, SizeAssumption
<1>3. Buffer \in [Slots -> Byte] /\ readPos \in Slots
  BY DEF RingTypeOK
<1>4. /\ BytesFrom(readPos, cirbuf_get_size) \in Seq(Byte)
      /\ Len(BytesFrom(readPos, cirbuf_get_size)) = cirbuf_get_size
      /\ \A i \in 1..cirbuf_get_size :
            BytesFrom(readPos, cirbuf_get_size)[i] = Buffer[Wrap(readPos + i - 1)]
  BY <1>2, <1>3, BytesFromType
<1> QED
  BY <1>1, <1>4 DEF ContentsOK, Contents

-------------------------------------------------------------------------------
\* A push of fewer bytes than are free keeps the positions in the ring and
\* adds its length to what is held.
LEMMA PushPositions ==
  ASSUME RingTypeOK, NEW data \in Chunks, Len(data) < cirbuf_get_free_size,
         cirbuf_push(data)
  PROVE  /\ writePos' \in Slots /\ readPos' = readPos
         /\ cirbuf_get_size' = cirbuf_get_size + Len(data)
BY ChunkIsSeq, SizeAssumption
DEF RingTypeOK, Slots, cirbuf_push, Wrap, cirbuf_get_size, cirbuf_get_free_size

\* The two copies of a push leave its bytes at writePos and on, round the end.
LEMMA PushBytes ==
  ASSUME RingTypeOK, NEW data \in Chunks, Len(data) < cirbuf_get_free_size,
         cirbuf_push(data)
  PROVE  /\ Buffer' \in [Slots -> Byte]
         /\ \A i \in 1..cirbuf_get_size :
               Buffer'[Wrap(readPos + i - 1)] = Buffer[Wrap(readPos + i - 1)]
         /\ \A i \in cirbuf_get_size + 1..cirbuf_get_size + Len(data) :
               Buffer'[Wrap(readPos + i - 1)] = data[i - cirbuf_get_size]
<1> USE SizeAssumption DEF RingTypeOK, Slots
<1>1. data \in Seq(Byte) /\ Len(data) \in Nat /\ Len(data) < Size
  BY ChunkIsSeq, SizeBound DEF cirbuf_get_free_size
<1>2. Buffer' = Filled(data)
  BY DEF cirbuf_push
<1>3. \A k \in 1..Len(data) : data[k] \in Byte
  BY <1>1
<1>4. Filled(data) \in [Slots -> Byte]
  BY <1>1, <1>3 DEF Filled
<1>5. ASSUME NEW i \in 1..cirbuf_get_size
      PROVE  Filled(data)[Wrap(readPos + i - 1)] = Buffer[Wrap(readPos + i - 1)]
  BY <1>1, <1>5 DEF Filled, Wrap, cirbuf_get_size, cirbuf_get_free_size
<1>6. ASSUME NEW i \in cirbuf_get_size + 1..cirbuf_get_size + Len(data)
      PROVE  Filled(data)[Wrap(readPos + i - 1)] = data[i - cirbuf_get_size]
  BY <1>1, <1>6 DEF Filled, Wrap, cirbuf_get_size, cirbuf_get_free_size
<1> QED
  BY <1>2, <1>4, <1>5, <1>6

LEMMA PopPositions ==
  ASSUME RingTypeOK, NEW n \in 0..Size, NEW wanted \in BOOLEAN, cirbuf_pop(n, wanted)
  PROVE  /\ BytesToPop(n) \in 0..cirbuf_get_size
         /\ readPos' \in Slots /\ writePos' = writePos /\ Buffer' = Buffer
         /\ cirbuf_get_size' = cirbuf_get_size - BytesToPop(n)
         /\ \A i \in 1..cirbuf_get_size' :
               Wrap(readPos' + i - 1) = Wrap(readPos + (BytesToPop(n) + i) - 1)
BY SizeAssumption DEF RingTypeOK, Slots, cirbuf_pop, BytesToPop, Wrap, cirbuf_get_size

-------------------------------------------------------------------------------
\* The positions stay inside the ring.
THEOREM RingTypeCorrect == RingSpec => []RingTypeOK
<1> USE SizeAssumption
<1>1. cirbuf_init => RingTypeOK
  BY DEF cirbuf_init, RingTypeOK, Slots
<1>2. RingTypeOK /\ [RingNext]_ringVars => RingTypeOK'
  <2> SUFFICES ASSUME RingTypeOK, [RingNext]_ringVars
               PROVE  RingTypeOK'
    OBVIOUS
  <2>1. ASSUME NEW data \in Chunks, Len(data) < cirbuf_get_free_size,
               cirbuf_push(data), userBuf' = data
        PROVE  RingTypeOK'
    BY <2>1, ChunkIsSeq, PushPositions, PushBytes DEF RingTypeOK
  <2>2. ASSUME NEW n \in 0..Size, cirbuf_pop(n, TRUE)
        PROVE  RingTypeOK'
    <3>1. BytesToPop(n) \in 0..Size
      <4>1. BytesToPop(n) \in 0..cirbuf_get_size
        BY <2>2, PopPositions
      <4>2. cirbuf_get_size \in 0..Size - 1
        BY SizeBound DEF RingTypeOK
      <4> QED
        BY <4>1, <4>2
    <3>2. userBuf' \in Seq(Byte)
      BY <2>2, <3>1, BytesFromType DEF cirbuf_pop, RingTypeOK
    <3> QED
      BY <2>2, <3>2, PopPositions DEF RingTypeOK
  <2>3. CASE cirbuf_flush /\ UNCHANGED userBuf
    BY <2>3 DEF cirbuf_flush, RingTypeOK, Slots
  <2>4. CASE UNCHANGED ringVars
    BY <2>4 DEF ringVars, RingTypeOK
  <2> QED
    BY <2>1, <2>2, <2>3, <2>4 DEF RingNext
<1> QED
  BY <1>1, <1>2, PTL DEF RingSpec

\* The ring implements the FIFO queue of ByteQueue.
THEOREM RingImplementsQueue == RingSpec => ImplementsQueue
<1> USE SizeAssumption
<1>1. cirbuf_init => Queue!QueueInit
  <2> SUFFICES ASSUME cirbuf_init
               PROVE  Contents = <<>> /\ userBuf = <<>>
    BY DEF Queue!QueueInit
  <2>1. RingTypeOK /\ cirbuf_get_size = 0
    BY DEF cirbuf_init, RingTypeOK, Slots, cirbuf_get_size
  <2> QED
    BY <2>1, ContentsType, EmptySeq DEF cirbuf_init, ContentsOK
<1>2. RingTypeOK /\ RingTypeOK' /\ [RingNext]_ringVars
        => [Queue!QueueNext]_(Queue!queueVars)
  <2> SUFFICES ASSUME RingTypeOK, RingTypeOK', [RingNext]_ringVars
               PROVE  Queue!QueueNext \/ UNCHANGED <<Contents, userBuf>>
    BY DEF Queue!queueVars
  <2>0. ContentsOK /\ ContentsOK'
    BY ContentsType, PTL
  <2>1. ASSUME NEW data \in Chunks, Len(data) < cirbuf_get_free_size,
               cirbuf_push(data), userBuf' = data
        PROVE  Queue!Enqueue
    <3>1. data \in Seq(Byte) /\ Len(data) \in Nat /\ data \in Queue!Chunks
      BY ChunkIsSeq DEF Chunks, Queue!Chunks
    <3>2. /\ Contents \o data \in Seq(Byte)
          /\ Len(Contents \o data) = cirbuf_get_size + Len(data)
          /\ \A i \in 1..cirbuf_get_size + Len(data) :
                (Contents \o data)[i] = IF i <= cirbuf_get_size THEN Contents[i]
                                        ELSE data[i - cirbuf_get_size]
      BY <2>0, <3>1, ConcatProperties DEF ContentsOK
    <3>3. cirbuf_get_size' = cirbuf_get_size + Len(data) /\ readPos' = readPos
      BY <2>1, PushPositions
    <3>4. \A i \in 1..cirbuf_get_size + Len(data) : Contents'[i] = (Contents \o data)[i]
      <4> SUFFICES ASSUME NEW i \in 1..cirbuf_get_size + Len(data)
                   PROVE  Contents'[i] = (Contents \o data)[i]
        OBVIOUS
      <4>1. Contents'[i] = Buffer'[Wrap(readPos + i - 1)]
        BY <2>0, <3>3 DEF ContentsOK, Wrap
      <4>2. CASE i \in 1..cirbuf_get_size
        BY <2>0, <2>1, <3>1, <3>2, <4>1, <4>2, PushBytes DEF ContentsOK
      <4>3. CASE i \in cirbuf_get_size + 1..cirbuf_get_size + Len(data)
        <5>1. Buffer'[Wrap(readPos + i - 1)] = data[i - cirbuf_get_size]
          BY <2>1, <4>3, PushBytes
        <5>2. (Contents \o data)[i] = data[i - cirbuf_get_size]
          BY <2>0, <3>1, <3>2, <4>3 DEF ContentsOK
        <5> QED
          BY <4>1, <5>1, <5>2
      <4> QED
        BY <2>0, <3>1, <4>2, <4>3 DEF ContentsOK
    <3>5. Contents' = Contents \o data
      BY <2>0, <3>2, <3>3, <3>4, SeqEqual DEF ContentsOK
    <3>6. Len(Contents) + Len(data) <= Size - 1
      BY <2>1, <2>0, <3>1 DEF cirbuf_get_free_size, ContentsOK
    <3> QED
      BY <2>1, <3>1, <3>5, <3>6 DEF Queue!Enqueue
  <2>2. ASSUME NEW n \in 0..Size, cirbuf_pop(n, TRUE)
        PROVE  Queue!Dequeue
    <3> DEFINE k == BytesToPop(n)
    <3>1. /\ k \in 0..cirbuf_get_size
          /\ cirbuf_get_size' = cirbuf_get_size - k
          /\ Buffer' = Buffer
          /\ \A i \in 1..cirbuf_get_size' :
                Wrap(readPos' + i - 1) = Wrap(readPos + (k + i) - 1)
      BY <2>2, PopPositions
    <3> HIDE DEF k
    <3>2. /\ SubSeq(Contents, 1, k) \in Seq(Byte) /\ Len(SubSeq(Contents, 1, k)) = k
          /\ \A i \in 1..k : SubSeq(Contents, 1, k)[i] = Contents[i]
      BY <2>0, <3>1, SubSeqProperties DEF ContentsOK
    <3>3. /\ SubSeq(Contents, k + 1, Len(Contents)) \in Seq(Byte)
          /\ Len(SubSeq(Contents, k + 1, Len(Contents))) = cirbuf_get_size - k
          /\ \A i \in 1..cirbuf_get_size - k :
                SubSeq(Contents, k + 1, Len(Contents))[i] = Contents[k + i]
      BY <2>0, <3>1, SubSeqProperties DEF ContentsOK
    <3>4. Contents' = SubSeq(Contents, k + 1, Len(Contents))
      <4> DEFINE rest == SubSeq(Contents, k + 1, Len(Contents))
      <4>1. Len(Contents') = Len(rest)
        BY <2>0, <3>1, <3>3 DEF ContentsOK
      <4>2. ASSUME NEW i \in 1..Len(Contents')
            PROVE  Contents'[i] = rest[i]
        <5>1. i \in 1..cirbuf_get_size' /\ i \in 1..cirbuf_get_size - k
          BY <2>0, <3>1, <4>2 DEF ContentsOK
        <5>2. Contents'[i] = Buffer[Wrap(readPos' + i - 1)]
          BY <2>0, <3>1, <5>1 DEF ContentsOK, Wrap
        <5>3. Contents[k + i] = Buffer[Wrap(readPos + (k + i) - 1)]
          BY <2>0, <3>1, <5>1 DEF ContentsOK
        <5> QED
          BY <3>1, <3>3, <5>1, <5>2, <5>3
      <4> QED
        BY <2>0, <3>3, <4>1, <4>2, SeqEqual DEF ContentsOK
    <3>5. userBuf' = BytesFrom(readPos, k)
      BY <2>2 DEF cirbuf_pop, k
    <3>6. userBuf' = SubSeq(Contents, 1, k)
      <4>1. k \in 0..Size
        BY <2>0, <3>1 DEF ContentsOK
      <4>2. /\ userBuf' \in Seq(Byte) /\ Len(userBuf') = k
            /\ \A i \in 1..k : userBuf'[i] = Buffer[Wrap(readPos + i - 1)]
        BY <3>5, <4>1, BytesFromType DEF RingTypeOK
      <4>3. \A i \in 1..k : userBuf'[i] = SubSeq(Contents, 1, k)[i]
        BY <2>0, <3>1, <3>2, <4>2 DEF ContentsOK
      <4> QED
        BY <3>2, <4>2, <4>3, SeqEqual
    <3> QED
      BY <2>0, <3>1, <3>4, <3>6 DEF Queue!Dequeue, ContentsOK
  <2>3. CASE cirbuf_flush /\ UNCHANGED userBuf
    <3>1. cirbuf_get_size' = 0
      BY <2>3 DEF cirbuf_flush, cirbuf_get_size
    <3>2. Contents' = <<>>
      BY <2>0, <3>1, EmptySeq DEF ContentsOK
    <3> QED
      BY <2>3, <3>2 DEF Queue!QueueNext, Queue!Discard
  <2>4. CASE UNCHANGED ringVars
    BY <2>4 DEF ringVars, Contents, BytesFrom, cirbuf_get_size, Wrap
  <2> QED
    BY <2>1, <2>2, <2>3, <2>4 DEF RingNext, Queue!QueueNext
<1> QED
  BY <1>1, <1>2, RingTypeCorrect, PTL DEF RingSpec, ImplementsQueue, Queue!QueueSpec
-------------------------------------------------------------------------------
(***************************************************************************)
(* The cursor.                                                             *)
(***************************************************************************)

\* The inductive invariant.
CursorInv == RingTypeOK /\ cursor \in Slots /\ CursorInData

\* Where a placed cursor is, and how much is left from it on.
LEMMA CursorPlace ==
    ASSUME RingTypeOK, cursor \in Slots, Index < cirbuf_get_size
    PROVE  /\ Index \in 0..cirbuf_get_size - 1
           /\ cursor = Wrap(readPos + Index)
           /\ cirbuf_cursor_get_left = cirbuf_get_size - Index
BY SizeAssumption DEF RingTypeOK, Slots, Index, cirbuf_offset, cirbuf_get_size, Wrap,
   cirbuf_cursor_get_left

\* A move that succeeds lands offset held bytes on, and fails when that byte
\* has not been pushed.
LEMMA MoveLands ==
    ASSUME RingTypeOK, cursor \in Slots, Index < cirbuf_get_size, NEW offset \in Nat
    PROVE  MoveTarget(offset) = IF Index + offset < cirbuf_get_size
                                THEN Wrap(readPos + Index + offset) ELSE -1
<1> USE SizeAssumption DEF RingTypeOK, Slots, Index, cirbuf_offset, cirbuf_get_size, Wrap,
    MoveTarget, PastData
<1>1. CASE readPos < writePos
  BY <1>1
<1>2. CASE readPos > writePos
  <2>1. CASE cursor >= readPos
    BY <1>2, <2>1
  <2>2. CASE cursor < readPos
    BY <1>2, <2>2
  <2> QED
    BY <2>1, <2>2
<1>3. CASE readPos = writePos
  BY <1>3
<1> QED
  BY <1>1, <1>2, <1>3

LEMMA CursorInit_Inv == CursorInit => CursorInv
BY SizeAssumption, EmptySeq DEF CursorInit, cirbuf_init, CursorInv, RingTypeOK, Slots, CursorInData

LEMMA CursorStep == CursorInv /\ [CursorNext]_cursorVars => CursorInv'
<1> SUFFICES ASSUME CursorInv, [CursorNext]_cursorVars PROVE CursorInv'
  OBVIOUS
<1> USE SizeAssumption
<1>0. /\ RingTypeOK /\ cursor \in Slots /\ cirbuf_get_size \in 0..Size - 1
      /\ placed => Index < cirbuf_get_size
  BY SizeBound DEF CursorInv, RingTypeOK, CursorInData
<1>1. ASSUME NEW data \in Chunks, Put(data)
      PROVE  CursorInv'
  <2>1. /\ Len(data) < cirbuf_get_free_size /\ cirbuf_push(data) /\ userBuf' = data
        /\ UNCHANGED <<cursor, placed>>
    BY <1>1 DEF Put
  <2>2. /\ writePos' \in Slots /\ readPos' = readPos
        /\ cirbuf_get_size' = cirbuf_get_size + Len(data)
        /\ Buffer' \in [Slots -> Byte]
    BY <1>0, <2>1, PushPositions, PushBytes
  <2>3. data \in Seq(Byte) /\ Len(data) \in Nat
    BY ChunkIsSeq
  <2>4. RingTypeOK'
    BY <1>0, <2>1, <2>2, <2>3 DEF RingTypeOK
  <2>5. Index' = Index /\ Index \in Int
    BY <1>0, <2>1, <2>2 DEF Index, cirbuf_offset, RingTypeOK, Slots
  <2>6. placed' => Index' < cirbuf_get_size'
    BY <1>0, <2>1, <2>2, <2>3, <2>5
  <2> QED
    BY <1>0, <2>1, <2>4, <2>6 DEF CursorInv, CursorInData
<1>2. ASSUME NEW n \in 0..Size, Take(n)
      PROVE  CursorInv'
  <2>1. cirbuf_pop(n, TRUE) /\ cursor' = cursor /\ placed' = (placed /\ n = 0)
    BY <1>2 DEF Take
  <2>2. /\ BytesToPop(n) \in 0..cirbuf_get_size
        /\ readPos' \in Slots /\ writePos' = writePos /\ Buffer' = Buffer
    BY <1>0, <2>1, PopPositions
  <2>3. userBuf' \in Seq(Byte)
    <3>1. BytesToPop(n) \in 0..Size
      BY <1>0, <2>2
    <3> QED
      BY <1>0, <2>1, <3>1, BytesFromType DEF cirbuf_pop, RingTypeOK
  <2>4. RingTypeOK'
    BY <1>0, <2>2, <2>3 DEF RingTypeOK
  <2>5. CASE n = 0
    <3>1. readPos' = readPos
      BY <1>0, <2>1, <2>5 DEF cirbuf_pop, BytesToPop, Wrap, RingTypeOK, Slots
    <3>2. Index' = Index /\ cirbuf_get_size' = cirbuf_get_size
      BY <2>1, <2>2, <3>1 DEF Index, cirbuf_offset, cirbuf_get_size
    <3> QED
      BY <1>0, <2>1, <2>4, <3>2 DEF CursorInv, CursorInData
  <2>6. CASE n # 0
    BY <1>0, <2>1, <2>4, <2>6 DEF CursorInv, CursorInData
  <2> QED
    BY <2>5, <2>6
<1>3. CASE Drop
  BY <1>0, <1>3 DEF Drop, cirbuf_flush, CursorInv, CursorInData, RingTypeOK, Slots
<1>4. CASE cirbuf_cursor_move_first
  <2>1. readPos # writePos /\ cursor' = readPos /\ UNCHANGED ringVars
    BY <1>4 DEF cirbuf_cursor_move_first
  <2>2. RingTypeOK'
    BY <1>0, <2>1 DEF RingTypeOK, ringVars
  <2>3. Index' = 0 /\ cirbuf_get_size' > 0 /\ cursor' \in Slots
    BY <1>0, <2>1 DEF Index, cirbuf_offset, cirbuf_get_size, ringVars, RingTypeOK, Slots
  <2>4. Index' < cirbuf_get_size'
    BY <1>0, <2>1, <2>3 DEF cirbuf_get_size, ringVars
  <2> QED
    BY <2>2, <2>3, <2>4 DEF CursorInv, CursorInData
<1>5. ASSUME placed, NEW offset \in Offsets, cirbuf_cursor_move_next(offset)
      PROVE  CursorInv'
  <2>1. UNCHANGED <<Buffer, readPos, writePos, userBuf>>
    BY <1>5 DEF cirbuf_cursor_move_next, ringVars
  <2>2. RingTypeOK'
    BY <1>0, <2>1 DEF RingTypeOK
  <2>3. /\ offset \in Nat /\ Index < cirbuf_get_size
        /\ MoveTarget(offset) = IF Index + offset < cirbuf_get_size
                                THEN Wrap(readPos + Index + offset) ELSE -1
    BY <1>0, <1>5, MoveLands, OffsetsAssumption
  <2>4. Index \in 0..cirbuf_get_size - 1
    BY <1>0, <2>3, CursorPlace
  <2>5. cursor' = IF MoveTarget(offset) = -1 THEN cursor ELSE MoveTarget(offset)
    BY <1>5 DEF cirbuf_cursor_move_next
  <2>6. CASE Index + offset < cirbuf_get_size
    <3>1. Wrap(readPos + Index + offset) \in Slots
      BY <1>0, <2>3, <2>4, <2>6 DEF Wrap, RingTypeOK, Slots
    <3>2. cursor' = Wrap(readPos + Index + offset)
      BY <2>3, <2>5, <2>6, <3>1 DEF Slots
    <3>3. Index' = Index + offset
      BY <1>0, <2>1, <2>3, <2>4, <2>6, <3>2
      DEF Wrap, RingTypeOK, Slots, Index, cirbuf_offset
    <3>4. Index' < cirbuf_get_size'
      BY <2>1, <2>6, <3>3 DEF cirbuf_get_size
    <3> QED
      BY <2>2, <3>1, <3>2, <3>4 DEF CursorInv, CursorInData
  <2>7. CASE ~(Index + offset < cirbuf_get_size)
    <3>1. cursor' = cursor
      BY <2>3, <2>5, <2>7
    <3>2. Index' = Index /\ cirbuf_get_size' = cirbuf_get_size
      BY <2>1, <3>1 DEF Index, cirbuf_offset, cirbuf_get_size
    <3> QED
      BY <1>0, <2>2, <2>3, <3>1, <3>2 DEF CursorInv, CursorInData
  <2> QED
    BY <2>6, <2>7
<1>6. ASSUME placed, NEW n \in 1..Size, cirbuf_cursor_read_data(n)
      PROVE  CursorInv'
  <2>1. /\ UNCHANGED <<Buffer, readPos, writePos, cursor, placed>>
        /\ userBuf' = BytesFrom(cursor, BytesToRead(n))
    BY <1>6 DEF cirbuf_cursor_read_data
  <2>2. BytesToRead(n) \in 0..Size
    BY <1>0 DEF BytesToRead, cirbuf_cursor_get_left, RingTypeOK, Slots
  <2>3. RingTypeOK'
    BY <1>0, <2>1, <2>2, BytesFromType DEF RingTypeOK
  <2>4. Index' = Index /\ cirbuf_get_size' = cirbuf_get_size
    BY <2>1 DEF Index, cirbuf_offset, cirbuf_get_size
  <2> QED
    BY <1>0, <2>1, <2>3, <2>4 DEF CursorInv, CursorInData
<1>7. CASE placed /\ cirbuf_pop_to_cursor
  <2>1. cirbuf_pop(Index, FALSE) /\ UNCHANGED <<cursor, placed>>
    BY <1>7 DEF cirbuf_pop_to_cursor, Index
  <2>2. Index \in 0..cirbuf_get_size - 1 /\ cursor = Wrap(readPos + Index)
    BY <1>0, <1>7, CursorPlace
  <2>3. BytesToPop(Index) = Index
    BY <1>0, <2>2 DEF BytesToPop
  <2>4. /\ readPos' = cursor /\ writePos' = writePos /\ Buffer' = Buffer
        /\ userBuf' = userBuf
    BY <2>1, <2>2, <2>3 DEF cirbuf_pop
  <2>5. RingTypeOK'
    BY <1>0, <2>4 DEF RingTypeOK
  <2>6. Index' = 0
    BY <1>0, <2>1, <2>4 DEF Index, cirbuf_offset, Slots
  <2>7. cirbuf_get_size' > 0
    BY <1>0, <2>2, <2>4 DEF cirbuf_get_size, Wrap, RingTypeOK, Slots
  <2>8. Index' < cirbuf_get_size'
    BY <1>0, <2>4, <2>6, <2>7 DEF cirbuf_get_size
  <2> QED
    BY <1>0, <2>1, <2>5, <2>8 DEF CursorInv, CursorInData
<1>8. CASE UNCHANGED cursorVars
  BY <1>0, <1>8 DEF cursorVars, ringVars, CursorInv, CursorInData, Index, cirbuf_offset,
     cirbuf_get_size, RingTypeOK
<1> QED
  BY <1>1, <1>2, <1>3, <1>4, <1>5, <1>6, <1>7, <1>8 DEF CursorNext

LEMMA CursorInvariant == CursorSpec => []CursorInv
BY CursorInit_Inv, CursorStep, PTL DEF CursorSpec

\* A cursor placed in the data stays on a held byte through pushes that wrap,
\* moves and pop_to_cursor: the range circular_buf.cpp:170 states.
THEOREM CursorStaysInData == CursorSpec => []CursorInData
<1>1. CursorInv => CursorInData
  BY DEF CursorInv
<1> QED
  BY CursorInvariant, <1>1, PTL

\* cirbuf_cursor_move_next succeeds exactly when its target has been pushed,
\* and then lands that many held bytes on, on either side of the wrap.
THEOREM MovesAreExact == CursorSpec => []MoveExact
<1>1. CursorInv => MoveExact
  BY MoveLands, OffsetsAssumption DEF CursorInv, CursorInData, MoveExact
<1> QED
  BY CursorInvariant, <1>1, PTL

\* What cirbuf_cursor_read_data delivers is what popping up to there would.
THEOREM ReadsAhead == CursorSpec => ReadAheadIsPop
<1> DEFINE ReadsAheadStep ==
      \A n \in 1..Size :
         placed /\ cirbuf_cursor_read_data(n) =>
            userBuf' = SubSeq(Contents, Index + 1,
                          IF Index + n < cirbuf_get_size THEN Index + n
                                                         ELSE cirbuf_get_size)
<1>1. ASSUME CursorInv, NEW n \in 1..Size, placed, cirbuf_cursor_read_data(n)
      PROVE  userBuf' = SubSeq(Contents, Index + 1,
                           IF Index + n < cirbuf_get_size THEN Index + n
                                                          ELSE cirbuf_get_size)
  <2> DEFINE end == IF Index + n < cirbuf_get_size THEN Index + n ELSE cirbuf_get_size
             m   == BytesToRead(n)
  <2>1. RingTypeOK /\ cursor \in Slots /\ Index < cirbuf_get_size
    BY <1>1 DEF CursorInv, CursorInData
  <2>2. /\ Index \in 0..cirbuf_get_size - 1 /\ cursor = Wrap(readPos + Index)
        /\ cirbuf_cursor_get_left = cirbuf_get_size - Index
    BY <2>1, CursorPlace
  <2>3. ContentsOK
    BY <2>1, ContentsType
  <2>4. cirbuf_get_size \in 0..Size - 1 /\ Size \in Nat /\ n \in Nat
    BY <2>3, SizeAssumption DEF ContentsOK
  <2>5. /\ end \in Index + 1..cirbuf_get_size /\ m = end - Index /\ m \in 0..Size
    BY <2>2, <2>4 DEF BytesToRead
  <2> HIDE DEF end, m
  <2>6. userBuf' = BytesFrom(cursor, m)
    BY <1>1 DEF cirbuf_cursor_read_data, m
  <2>7. /\ userBuf' \in Seq(Byte) /\ Len(userBuf') = m
        /\ \A k \in 1..m : userBuf'[k] = Buffer[Wrap(cursor + k - 1)]
    BY <2>1, <2>5, <2>6, BytesFromType DEF RingTypeOK
  <2> DEFINE ahead == SubSeq(Contents, Index + 1, end)
  <2>8. /\ ahead \in Seq(Byte) /\ Len(ahead) = m
        /\ \A k \in 1..m : ahead[k] = Contents[Index + k]
    <3>1. Contents \in Seq(Byte) /\ Len(Contents) = cirbuf_get_size
      BY <2>3 DEF ContentsOK
    <3>2. \A k \in Index + 1..end : Contents[k] \in Byte
      BY <2>2, <2>4, <2>5, <3>1
    <3>3. Index + 1 \in Int /\ end \in Int /\ end - (Index + 1) + 1 = m /\ Index + 1 <= end
      BY <2>2, <2>4, <2>5
    <3>4. /\ ahead \in Seq(Byte) /\ Len(ahead) = m
          /\ \A k \in 1..m : ahead[k] = Contents[(Index + 1) + k - 1]
      BY <3>2, <3>3, SubSeqProperties
    <3>5. \A k \in 1..m : (Index + 1) + k - 1 = Index + k
      BY <2>2, <2>4, <2>5
    <3> QED
      BY <3>4, <3>5
  <2> HIDE DEF ahead
  <2>9. ASSUME NEW k \in 1..m
        PROVE  userBuf'[k] = ahead[k]
    <3>1. Index + k \in 1..cirbuf_get_size
      BY <2>2, <2>4, <2>5
    <3>2. Contents[Index + k] = Buffer[Wrap(readPos + (Index + k) - 1)]
      BY <2>3, <3>1 DEF ContentsOK
    <3>3. Wrap(readPos + (Index + k) - 1) = Wrap(cursor + k - 1)
      BY <2>1, <2>2, <2>4, <2>5, <3>1 DEF Wrap, RingTypeOK, Slots
    <3> QED
      BY <2>7, <2>8, <3>2, <3>3
  <2>10. userBuf' = ahead
    BY <2>7, <2>8, <2>9, SeqEqual
  <2> QED
    BY <2>10 DEF ahead, end
<1>2. CursorInv /\ [CursorNext]_cursorVars => [ReadsAheadStep]_cursorVars
  BY <1>1
<1> QED
  BY CursorInvariant, <1>2, PTL DEF CursorSpec, ReadAheadIsPop
===============================================================================
