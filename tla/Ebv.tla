--------------------------------- MODULE Ebv ---------------------------------
(***************************************************************************)
(* The extensible bit vectors of tool.cpp: a length as 7-bit groups, least *)
(* significant first, the top bit saying that another group follows.  The  *)
(* code's u32_t lengths stay below 2^28 here (a frame has 256 bytes), so   *)
(* the fifth group of EBV_Set is never written.                            *)
(***************************************************************************)
EXTENDS Integers, Sequences

u8_t == 0..255

\* (mutant: the first group is not masked with 0x7f)
EBV_SetUnmasked(dw) == IF dw < 128 THEN <<dw>> ELSE <<128 + dw, dw \div 128>>
EBV_Set(dw) ==
    LET d2 == dw \div 128      \* dw = dw >> 7, once for each further group
        d3 == d2 \div 128
        d4 == d3 \div 128
    IN  IF      d2 = 0 THEN <<dw>>
        ELSE IF d3 = 0 THEN <<128 + (dw % 128), d2>>
        ELSE IF d4 = 0 THEN <<128 + (dw % 128), 128 + (d2 % 128), d3>>
        ELSE                <<128 + (dw % 128), 128 + (d2 % 128), 128 + (d3 % 128), d4>>

\* How many bytes of buf EBV_Get takes; 0 when buf ends inside the vector.
\* The fifth byte ends the vector whatever its top bit says.
EbvBytes(buf) ==
    LET ends(n) == n <= Len(buf) /\ (n = 5 \/ buf[n] < 128)
    IN  IF ends(1) THEN 1 ELSE IF ends(2) THEN 2 ELSE IF ends(3) THEN 3
        ELSE IF ends(4) THEN 4 ELSE IF ends(5) THEN 5 ELSE 0

\* The value EBV_Get returns.  In C `EBV[3] & 0x7f << 21' shifts the mask and
\* not the byte, so the fourth and fifth groups contribute nothing.
EBV_Get(buf) ==
    LET group(n) == IF n <= EbvBytes(buf) THEN buf[n] % 128 ELSE 0
    IN  group(1) + 128 * (group(2) + 128 * group(3))
==============================================================================
