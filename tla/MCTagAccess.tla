----------------------------- MODULE MCTagAccess -----------------------------
(* TagAccess with counts around the two-byte lengths (a request of 128      *)
(* bytes) and around the largest frame h->sndBuf holds, and answers from    *)
(* empty to longer than every buffer.                                       *)
EXTENDS TagAccess

Bytes(n) == [i \in 1..n |-> i % 256]
MCData   == {Bytes(n) : n \in {0, 1, 3, 12, 130}}
MCCounts == {0, 1, 14, 60, 61, 121, 122, 128, 240, 242, 246}
==============================================================================
