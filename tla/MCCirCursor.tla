----------------------------- MODULE MCCirCursor -----------------------------
(* CirCursor on a ring of four bytes with two byte values: every pair of   *)
(* positions, chunks up to the largest that fits, every read and move.     *)
EXTENDS CirCursor

\* Bytes of the ring are read only after a push wrote them, so one content of
\* the fresh memory stands for all.
MCInit == /\ Buffer = [p \in Slots |-> 0]
          /\ CursorInit
MCSpec == MCInit /\ [][CursorNext]_cursorVars
==============================================================================
