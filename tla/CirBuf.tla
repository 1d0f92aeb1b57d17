-------------------------------- MODULE CirBuf --------------------------------
(***************************************************************************)
(* The ring buffer of circular_buf.cpp: CIR_BUFFER and the operations that *)
(* push, pop and flush.  Positions are indices into Buffer; the ring looks *)
(* empty exactly when readPos = writePos, so it can hold at most Size - 1  *)
(* bytes, and cirbuf_push checks nothing.  CirCursor adds the cursor.      *)
(***************************************************************************)
EXTENDS Integers, Sequences

CONSTANTS Byte,      \* the values a byte takes
          Size,      \* the size given to cirbuf_init
          MaxChunk   \* the most bytes one call pushes (bound of the model)

ASSUME SizeAssumption == Size \in Nat \ {0} /\ MaxChunk \in Nat

VARIABLES Buffer,    \* the bytes of the ring
          readPos, writePos,
          userBuf    \* the caller's buffer: what the last call was given
                     \* to push or filled
ringVars == <<Buffer, readPos, writePos, userBuf>>

Slots  == 0..Size - 1
Chunks == UNION {[1..n -> Byte] : n \in 0..MaxChunk}
\* mutant of Wrap: a position may stop just behind the last slot
WrapLate(p) == IF p > Size THEN p - Size ELSE p
Wrap(p) == IF p >= Size THEN p - Size ELSE p

\* cirbuf_init leaves the memory as malloc gave it.
cirbuf_init == /\ Buffer \in [Slots -> Byte]
               /\ readPos = 0 /\ writePos = 0
               /\ userBuf = <<>>

cirbuf_get_size == IF writePos >= readPos THEN writePos - readPos
                                          ELSE Size - readPos + writePos

cirbuf_get_free_size == Size - cirbuf_get_size

\* The two memcpy of a push that wraps, and one that does not (mutant: the
\* second copy starts from the front of the data again).
FilledFromFront(data) ==
    LET nextWritePos == writePos + Len(data)
    IN  [p \in Slots |->
           IF writePos <= p /\ p < nextWritePos THEN data[p - writePos + 1]
           ELSE IF p < nextWritePos - Size      THEN data[p + 1]
           ELSE Buffer[p]]
Filled(data) ==
    LET nextWritePos == writePos + Len(data)
    IN  [p \in Slots |->
           IF writePos <= p /\ p < nextWritePos THEN data[p - writePos + 1]
           ELSE IF p < nextWritePos - Size      THEN data[Size - writePos + p + 1]
           ELSE Buffer[p]]

cirbuf_push(data) == /\ Buffer' = Filled(data)
                     /\ writePos' = Wrap(writePos + Len(data))
                     /\ UNCHANGED readPos

\* n bytes of the ring from position p on
BytesFrom(p, n) == [i \in 1..n |-> Buffer[Wrap(p + i - 1)]]

BytesToPop(n) == IF cirbuf_get_size > n THEN n ELSE cirbuf_get_size

\* A NULL buffer (wanted = FALSE) advances without copying.
cirbuf_pop(n, wanted) ==
    /\ userBuf' = IF wanted THEN BytesFrom(readPos, BytesToPop(n)) ELSE userBuf
    /\ readPos' = Wrap(readPos + BytesToPop(n))
    /\ UNCHANGED <<Buffer, writePos>>

\* mutant of cirbuf_flush: the read position is left where it is
FlushedWriteOnly == writePos' = 0 /\ UNCHANGED <<Buffer, readPos>>
cirbuf_flush == /\ writePos' = 0 /\ readPos' = 0
                /\ UNCHANGED Buffer

\* Callers that keep one byte free, as a ring that tells empty by
\* readPos = writePos needs them to.
RingNext == \/ \E data \in Chunks : /\ Len(data) < cirbuf_get_free_size
                                    /\ cirbuf_push(data)
                                    /\ userBuf' = data
            \/ \E n \in 0..Size : cirbuf_pop(n, TRUE)
            \/ cirbuf_flush /\ UNCHANGED userBuf

RingSpec == cirbuf_init /\ [][RingNext]_ringVars

-------------------------------------------------------------------------------
\* The bytes the ring holds, oldest first.
Contents == BytesFrom(readPos, cirbuf_get_size)

\* Positions stay inside the ring and what was handed over is bytes.
RingTypeOK == /\ Buffer \in [Slots -> Byte]
              /\ readPos \in Slots /\ writePos \in Slots
              /\ userBuf \in Seq(Byte)

Queue == INSTANCE ByteQueue WITH queue <- Contents, Capacity <- Size - 1

\* circular_buf.cpp implements a FIFO queue of bytes: across every wrap of
\* the two positions a push appends, a pop takes from the front and hands
\* over exactly what it takes, and a flush empties.
ImplementsQueue == Queue!QueueSpec
===============================================================================
