------------------------------ MODULE ByteQueue ------------------------------
(***************************************************************************)
(* What the ring of circular_buf.cpp promises to its users: a FIFO queue   *)
(* of bytes.  `userBuf' is the caller's buffer as the last call that was   *)
(* given one left it.                                                      *)
(***************************************************************************)
EXTENDS Integers, Sequences

CONSTANTS Byte,      \* the values a byte takes
          Capacity,  \* the most bytes the queue holds
          MaxChunk   \* the most bytes one call pushes

VARIABLES queue, userBuf
queueVars == <<queue, userBuf>>

Chunks == UNION {[1..n -> Byte] : n \in 0..MaxChunk}

QueueInit == queue = <<>> /\ userBuf = <<>>

Enqueue == \E data \in Chunks :
             /\ Len(queue) + Len(data) <= Capacity
             /\ queue' = queue \o data
             /\ userBuf' = data

\* Take k bytes from the front, handing them over or (pop_to_cursor) not.
Dequeue == \E k \in 0..Len(queue) :
             /\ queue' = SubSeq(queue, k + 1, Len(queue))
             /\ userBuf' \in {SubSeq(queue, 1, k), userBuf}

\* Look at bytes in the middle without taking them.
Peek == \E i \in 1..Len(queue), k \in 0..Len(queue) :
             /\ userBuf' = SubSeq(queue, i, k)
             /\ queue' = queue

Discard == queue' = <<>> /\ userBuf' = userBuf

QueueNext == Enqueue \/ Dequeue \/ Peek \/ Discard
QueueSpec == QueueInit /\ [][QueueNext]_queueVars
==============================================================================
