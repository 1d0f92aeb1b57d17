------------------------------- MODULE FrameRx -------------------------------
(***************************************************************************)
(* Receiving one answer: the loop of CommTransceive that pushes what the   *)
(* serial port has into the ring and lets ParseIncomeData look for a frame *)
(*     SOF, length, ... , checksum                                         *)
(* where the length byte counts from itself to the end of the checksum.    *)
(* `userBuf' is h->rcvBuf[0 .. h->rcvLen-1]; the cursor of the parser      *)
(* lives inside one step.  The device's bytes are chosen when an exchange  *)
(* begins and arrive in pieces of any length.                              *)
(***************************************************************************)
EXTENDS CirBuf, FiniteSetsExt

CONSTANTS T1_SOF,
          T1_MINI_FRAME_SIZE,  \* the shortest frame, SOF included
          ChecksumSize,        \* bytes of the checksum (2 in the code)
          Streams,             \* what the device may send in one exchange
          MaxExchanges         \* bound of the model

ASSUME FrameAssumption ==
    /\ Byte = Slots                        \* a length byte can name the whole ring
    /\ T1_SOF \in Byte
    /\ ChecksumSize \in Nat /\ ChecksumSize + 2 <= T1_MINI_FRAME_SIZE
    /\ T1_MINI_FRAME_SIZE \in Nat
    /\ Streams \subseteq Seq(Byte)
    /\ MaxChunk <= Size                   \* a tmpbuf is no longer than the ring
    /\ MaxExchanges \in Nat \ {0}

VARIABLES phase,     \* "read" | "parse" | "done" | "timeout"
          stream,    \* the bytes the device sends in this exchange
          nread,     \* how many of them UART_READ has returned
          overrun,   \* a push left no free byte in the ring
          exchanges
rxVars == <<ringVars, phase, stream, nread, overrun, exchanges>>

\* The checksum of a run of bytes, as ChecksumSize bytes.  All the receiver
\* needs of a CRC is that it depends on every byte and on their order.
cal_crc16_ext(bytes) ==
    LET crc == MapThenSumSet(LAMBDA i : (i + 1) * (bytes[i] + 1), 1..Len(bytes))
    IN  [i \in 1..ChecksumSize |-> crc % Size]

\* The frame CommTransceive (and the device) builds around inf.
Frame(inf) == LET body == <<Len(inf) + 1 + ChecksumSize>> \o inf
              IN  <<T1_SOF>> \o body \o cal_crc16_ext(body)

-------------------------------------------------------------------------------
\* The bytes between the parser's read position and writePos, by distance.
At(i)     == Wrap(readPos + i)
ByteAt(i) == Buffer[At(i)]
Left(i)   == cirbuf_get_size - i                    \* CBCS_GET_LEN at distance i

\* A complete frame whose checksum matches starts at distance i.
Complete(i) ==
    /\ ByteAt(i) = T1_SOF
    /\ Left(i) > 1
    /\ ByteAt(i + 1) >= T1_MINI_FRAME_SIZE - 1
    /\ ByteAt(i + 1) <= Left(i + 1)
    /\ LET covered == ByteAt(i + 1) - ChecksumSize
       IN  cal_crc16_ext(BytesFrom(At(i + 1), covered))
              = BytesFrom(At(i + 1 + covered), ChecksumSize)

\* What starts at distance i may still become a frame (sets implePos).
\* Mutant: a SOF that is the last byte is not remembered.
IncompleteWithLength(i) ==
    /\ ByteAt(i) = T1_SOF
    /\ Left(i) > 1
    /\ ByteAt(i + 1) >= T1_MINI_FRAME_SIZE - 1
    /\ ByteAt(i + 1) > Left(i + 1)
Incomplete(i) ==
    /\ ByteAt(i) = T1_SOF
    /\ Left(i) > 1 => /\ ByteAt(i + 1) >= T1_MINI_FRAME_SIZE - 1
                      /\ ByteAt(i + 1) > Left(i + 1)

First(D) == CHOOSE i \in D : \A j \in D : i <= j

\* Where reading goes on after a frame that ended at newPos: a frame that
\* reached the end of the ring keeps what follows it, any other drops it
\* (mutant: the position is not wrapped).
AfterUnwrapped(newPos) == newPos
AfterFrame(newPos) == IF newPos >= Size THEN newPos - Size ELSE writePos

\* Every `continue' of the scan leaves the cursor one byte further on, so the
\* scan takes the first complete frame, whatever incomplete ones lie before.
ParseIncomeData ==
    LET held       == 0..cirbuf_get_size - 1
        complete   == {i \in held : Complete(i)}
        incomplete == {i \in held : Incomplete(i)}
    IN
    /\ phase = "parse"
    /\ \/ /\ complete # {}
          /\ LET start  == First(complete)
                 frmlen == ByteAt(start + 1)
                 newPos == At(start + 1) + frmlen
             IN  /\ userBuf' = BytesFrom(At(start), frmlen + 1 - ChecksumSize)
                 /\ readPos' = AfterFrame(newPos)
          /\ phase' = "done"
       \/ /\ complete = {}
          /\ readPos' = IF incomplete = {} THEN writePos ELSE At(First(incomplete))
          /\ phase' = "read"
          /\ UNCHANGED userBuf
    /\ UNCHANGED <<Buffer, writePos, stream, nread, overrun, exchanges>>

-------------------------------------------------------------------------------
\* UART_READ returns what has arrived, at most a tmpbuf full; 0 pushes nothing.
Read == /\ phase = "read"
        /\ \E n \in 0..MaxChunk :
             /\ nread + n <= Len(stream)
             /\ cirbuf_push(SubSeq(stream, nread + 1, nread + n))
             /\ nread' = nread + n
             /\ overrun' = (overrun \/ n >= cirbuf_get_free_size)
        /\ phase' = "parse"
        /\ UNCHANGED <<userBuf, stream, exchanges>>

\* TIMER_TRANSC_IS_FREE is tested at the head of every round of the loop.
Timeout == /\ phase = "read"
           /\ phase' = "timeout"
           /\ UNCHANGED <<ringVars, stream, nread, overrun, exchanges>>

\* INIT_SEND of the next exchange empties the ring; UART_PURGECOMM has
\* dropped what had arrived, so the next exchange reads a stream of its own.
INIT_SEND == /\ phase \in {"done", "timeout"}
             /\ exchanges < MaxExchanges
             /\ cirbuf_flush
             /\ userBuf' = <<>>
             /\ phase' = "read"
             /\ stream' \in Streams
             /\ nread' = 0
             /\ overrun' = FALSE
             /\ exchanges' = exchanges + 1

RxInit == /\ cirbuf_init
          /\ phase = "read"
          /\ stream \in Streams
          /\ nread = 0
          /\ overrun = FALSE
          /\ exchanges = 1

RxNext == Read \/ ParseIncomeData \/ Timeout \/ INIT_SEND

RxSpec == RxInit /\ [][RxNext]_rxVars

-------------------------------------------------------------------------------
\* Reference definition over the bytes themselves: a well-formed frame is the
\* part of s that starts at i and ends at j.
WellFormed(s, i, j) ==
    /\ s[i] = T1_SOF
    /\ j - i + 1 >= T1_MINI_FRAME_SIZE
    /\ SubSeq(s, i, j) = Frame(SubSeq(s, i + 2, j - ChecksumSize))
Received == SubSeq(stream, 1, nread)
FramesReceived == {p \in (1..nread) \X (1..nread) : WellFormed(Received, p[1], p[2])}

RxTypeOK == /\ RingTypeOK
            /\ phase \in {"read", "parse", "done", "timeout"}
            /\ stream \in Streams
            /\ nread \in 0..Len(stream)
            /\ overrun \in BOOLEAN
            /\ exchanges \in 1..MaxExchanges

\* However the answer is cut into reads, and whatever noise (false SOFs
\* included) precedes it: once all bytes of a well-formed frame have been
\* read, the exchange does not go on waiting for one, as long as no push
\* filled the ring.
FrameNotMissed == phase = "read" /\ ~overrun => FramesReceived = {}

\* The same without the proviso.  rl8000_comm.h:11 lets a frame carry
\* T1_MAX_INF_SIZE bytes, the most its length byte can count.
AnswerNotMissed == phase = "read" => FramesReceived = {}

\* What an exchange hands on is a well-formed frame made of bytes read in this
\* exchange, in their order and without the checksum: never bytes left in the
\* ring by an earlier exchange.
OnlyReceivedFrames ==
    phase = "done" /\ ~overrun =>
        \E p \in FramesReceived : userBuf = SubSeq(Received, p[1], p[2] - ChecksumSize)
===============================================================================
