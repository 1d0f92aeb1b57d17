------------------------------ MODULE CirCursor ------------------------------
(***************************************************************************)
(* The cursor operations of circular_buf.cpp: a position inside the data   *)
(* of the ring from which a parser reads ahead without popping.  The       *)
(* header comment: "the range is from read position to (write position     *)
(* -1)" (circular_buf.cpp:170).  `placed' is the model's record that       *)
(* cirbuf_cursor_move_first succeeded since the data was last taken away.  *)
(***************************************************************************)
EXTENDS CirBuf

CONSTANT Offsets     \* the arguments of cirbuf_cursor_move_next
ASSUME OffsetsAssumption == Offsets \subseteq Nat

VARIABLES cursor, placed
cursorVars == <<ringVars, cursor, placed>>

cirbuf_offset(start, end) == IF end - start < 0 THEN Size + (end - start)
                                                ELSE end - start

\* (mutant: also on an empty ring)
MoveFirstUnchecked == /\ cursor' = readPos
                      /\ placed' = TRUE
                      /\ UNCHANGED ringVars
cirbuf_cursor_move_first ==
    /\ readPos # writePos
    /\ cursor' = readPos
    /\ placed' = TRUE
    /\ UNCHANGED ringVars

\* No pushed byte is there (mutant: one byte too early).
PastEarly(newpos) == newpos + 1 >= writePos
PastData(newpos)  == newpos >= writePos

\* The position offset bytes on, or -1 for the failing return.
MoveTarget(offset) ==
    LET newpos == cursor + offset IN
    CASE readPos = writePos -> -1
      [] readPos < writePos ->
           IF PastData(newpos) \/ newpos < readPos THEN -1 ELSE newpos
      [] OTHER ->
           IF cursor >= readPos /\ cursor < Size
           THEN IF newpos < Size THEN newpos
                ELSE IF PastData(newpos - Size) THEN -1 ELSE newpos - Size
           ELSE IF PastData(newpos) THEN -1 ELSE newpos

cirbuf_cursor_move_next(offset) ==
    /\ cursor' = IF MoveTarget(offset) = -1 THEN cursor ELSE MoveTarget(offset)
    /\ UNCHANGED <<ringVars, placed>>

\* (mutant: what lies behind the wrap is forgotten)
LeftBeforeWrap == IF cursor <= writePos THEN writePos - cursor ELSE Size - cursor
cirbuf_cursor_get_left == IF cursor <= writePos THEN writePos - cursor
                                                ELSE Size - cursor + writePos

BytesToRead(n) == IF n = 1 THEN 1
                  ELSE IF cirbuf_cursor_get_left > n THEN n
                  ELSE cirbuf_cursor_get_left

cirbuf_cursor_read_data(n) == /\ userBuf' = BytesFrom(cursor, BytesToRead(n))
                              /\ UNCHANGED <<Buffer, readPos, writePos, cursor, placed>>

cirbuf_pop_to_cursor == /\ cirbuf_pop(cirbuf_offset(readPos, cursor), FALSE)
                        /\ UNCHANGED <<cursor, placed>>

\* Taking or dropping the bytes under the cursor leaves it behind.
Take(n) == /\ cirbuf_pop(n, TRUE)
           /\ placed' = (placed /\ n = 0)
           /\ UNCHANGED cursor
Drop    == cirbuf_flush /\ placed' = FALSE /\ UNCHANGED <<userBuf, cursor>>
Put(data) == /\ Len(data) < cirbuf_get_free_size
             /\ cirbuf_push(data)
             /\ userBuf' = data
             /\ UNCHANGED <<cursor, placed>>

CursorInit == cirbuf_init /\ cursor = 0 /\ placed = FALSE

\* The cursor calls are made after cirbuf_cursor_move_first succeeded.
CursorNext ==
    \/ \E data \in Chunks : Put(data)
    \/ \E n \in 0..Size : Take(n)
    \/ Drop
    \/ cirbuf_cursor_move_first
    \/ placed /\ \E offset \in Offsets : cirbuf_cursor_move_next(offset)
    \/ placed /\ \E n \in 1..Size : cirbuf_cursor_read_data(n)
    \/ placed /\ cirbuf_pop_to_cursor

CursorSpec == CursorInit /\ [][CursorNext]_cursorVars

------------------------------------------------------------------------------
\* How many held bytes lie before the cursor.
Index == cirbuf_offset(readPos, cursor)

\* The comment's range: a cursor placed in the data stays on a held byte
\* through pushes that wrap, moves and pop_to_cursor.
CursorInData == placed => Index < cirbuf_get_size

\* A move lands exactly offset held bytes on when that byte has been pushed
\* and fails otherwise, on either side of the wrap.
MoveExact ==
    placed => \A offset \in Offsets :
                MoveTarget(offset) = IF Index + offset < cirbuf_get_size
                                     THEN Wrap(readPos + Index + offset) ELSE -1

\* Reading ahead delivers the same bytes that popping up to there would.
ReadAheadIsPop ==
    [][\A n \in 1..Size :
         placed /\ cirbuf_cursor_read_data(n) =>
            userBuf' = SubSeq(Contents, Index + 1,
                          IF Index + n < cirbuf_get_size THEN Index + n
                                                         ELSE cirbuf_get_size)]_cursorVars
==============================================================================
