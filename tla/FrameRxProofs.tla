---------------------------- MODULE FrameRxProofs ----------------------------
(***************************************************************************)
(* What CommTransceive hands on and what it waits for, for every size of   *)
(* the ring, every stream of the device and every way it is cut into reads.*)
(***************************************************************************)
EXTENDS FrameRx, CircularBufProofs, WellFoundedInduction

\* A set of numbers that is not empty has a first.
LEMMA FirstIsIn ==
  ASSUME NEW D, D \subseteq Nat, D # {}
  PROVE  First(D) \in D /\ \A k \in D : First(D) <= k
<1> DEFINE R == OpToRel(<, Nat)
<1>1. IsWellFoundedOn(R, Nat)
  BY NatLessThanWellFounded
<1>2. \A x, y \in Nat : y < x => <<y, x>> \in R
  BY DEF OpToRel
<1> HIDE DEF R
<1>3. PICK x \in D : \A y \in D : ~(<<y, x>> \in R)
  BY <1>1, WFMin
<1>4. \A y \in D : x \in Nat /\ y \in Nat /\ ~(y < x)
  BY <1>2, <1>3
<1>5. \A y \in D : x <= y
  BY <1>4
<1> QED
  BY <1>3, <1>5 DEF First

-------------------------------------------------------------------------------
(***************************************************************************)
(* A well-formed frame, by its bytes: SOF, the distance from its length    *)
(* byte to its end, and behind the bytes covered their checksum.           *)
(***************************************************************************)
FrameAt(s, i, j) ==
  /\ s[i] = T1_SOF
  /\ j - i + 1 >= T1_MINI_FRAME_SIZE
  /\ s[i + 1] = j - i
  /\ cal_crc16_ext(SubSeq(s, i + 1, j - ChecksumSize)) = SubSeq(s, j - ChecksumSize + 1, j)

\* The checksum is ChecksumSize times some value: which one does not matter.
LEMMA ChecksumIs ==
  ASSUME NEW bytes
  PROVE  \E T : cal_crc16_ext(bytes) \in Seq(T) /\ Len(cal_crc16_ext(bytes)) = ChecksumSize
<1> DEFINE e == MapThenSumSet(LAMBDA i : (i + 1) * (bytes[i] + 1), 1..Len(bytes)) % Size
           c == cal_crc16_ext(bytes)
<1>1. c = [i \in 1..ChecksumSize |-> e]
  BY DEF cal_crc16_ext
<1> HIDE DEF e, c
<1>2. ChecksumSize \in Nat
  BY FrameAssumption
<1>3. c \in [1..ChecksumSize -> {e}]
  BY <1>1
<1>4. c \in Seq({e})
  BY <1>2, <1>3, SeqDef
<1>5. DOMAIN c = 1..ChecksumSize /\ DOMAIN c = 1..Len(c) /\ Len(c) \in Nat
  BY <1>3, <1>4, LenProperties
<1>6. Len(c) = ChecksumSize
  BY <1>2, <1>5
<1> QED
  BY <1>4, <1>6 DEF c

LEMMA LargerSeq ==
  ASSUME NEW S, NEW S2, S \subseteq S2, NEW s \in Seq(S)
  PROVE  s \in Seq(S2)
<1>1. \A k \in 1..Len(s) : s[k] \in S
  OBVIOUS
<1>2. \A k \in 1..Len(s) : s[k] \in S2
  BY <1>1
<1> QED
  BY <1>2

LEMMA BytesAreNat == Byte \subseteq Nat
BY FrameAssumption, SizeAssumption DEF Slots

\* A part of a sequence of bytes.
LEMMA Part ==
  ASSUME NEW S, NEW s \in Seq(S), NEW a \in Nat \ {0}, NEW b \in Nat, b <= Len(s), a <= b + 1
  PROVE  /\ SubSeq(s, a, b) \in Seq(S) /\ Len(SubSeq(s, a, b)) = b - a + 1
         /\ \A k \in 1..b - a + 1 : SubSeq(s, a, b)[k] = s[a + k - 1]
<1>1. \A k \in a..b : s[k] \in S
  <2>1. \A k \in a..b : k \in 1..Len(s)
    BY LenProperties
  <2> QED
    BY <2>1
<1> DEFINE u == SubSeq(s, a, b)
<1>2. /\ u \in Seq(S) /\ Len(u) = (IF a <= b THEN b - a + 1 ELSE 0)
      /\ \A k \in 1..b - a + 1 : u[k] = s[a + k - 1]
  BY <1>1, SubSeqProperties
<1> HIDE DEF u
<1>3. Len(u) = b - a + 1
  BY <1>2
<1> QED
  BY <1>2, <1>3 DEF u

\* The two descriptions agree.
LEMMA ByItsBytes ==
  ASSUME NEW s \in Seq(Byte), NEW i \in 1..Len(s), NEW j \in 1..Len(s)
  PROVE  WellFormed(s, i, j) <=> FrameAt(s, i, j)
<1> USE FrameAssumption
<1> DEFINE C     == ChecksumSize
           inf   == SubSeq(s, i + 2, j - C)
           body  == SubSeq(s, i + 1, j - C)
           rest  == SubSeq(s, j - C + 1, j)
           whole == SubSeq(s, i, j)
           b0    == <<Len(inf) + 1 + C>> \o inf
<1>0. C \in Nat /\ T1_MINI_FRAME_SIZE \in Nat /\ C + 2 <= T1_MINI_FRAME_SIZE
  OBVIOUS
<1>1. Len(s) \in Nat /\ i \in Nat \ {0} /\ j \in Nat /\ j <= Len(s) /\ i <= Len(s)
  BY LenProperties
<1> SUFFICES ASSUME j - i + 1 >= T1_MINI_FRAME_SIZE
             PROVE  WellFormed(s, i, j) <=> FrameAt(s, i, j)
  BY DEF WellFormed, FrameAt
<1>2. i + 1 <= j - C /\ j - C \in Nat /\ j - C <= Len(s) /\ j - C + 1 <= j + 1
  BY <1>0, <1>1
<1> HIDE DEF C
<1>3. /\ inf \in Seq(Byte) /\ Len(inf) = j - C - (i + 2) + 1
      /\ \A k \in 1..j - C - (i + 2) + 1 : inf[k] = s[i + 2 + k - 1]
  <2>1. i + 2 \in Nat \ {0} /\ i + 2 <= j - C + 1
    BY <1>1, <1>2
  <2> QED
    BY <1>2, <2>1, Part
<1>4. /\ body \in Seq(Byte) /\ Len(body) = j - C - (i + 1) + 1
      /\ \A k \in 1..j - C - (i + 1) + 1 : body[k] = s[i + 1 + k - 1]
  <2>1. i + 1 \in Nat \ {0} /\ i + 1 <= j - C + 1
    BY <1>1, <1>2
  <2> QED
    BY <1>2, <2>1, Part
<1>5. rest \in Seq(Byte) /\ Len(rest) = C
  <2>1. j - C + 1 \in Nat \ {0} /\ j - (j - C + 1) + 1 = C
    BY <1>0, <1>1, <1>2
  <2> QED
    BY <1>1, <1>2, <2>1, Part
<1> HIDE DEF inf, body, rest, whole
<1>6. whole = (<<s[i]>> \o body) \o rest
  <2>1. SubSeq(s, i, i) \o SubSeq(s, i + 1, j - C) = SubSeq(s, i, j - C)
    <3>1. i \in 1..Len(s) + 1 /\ i \in i - 1..Len(s) /\ j - C \in i..Len(s)
      BY <1>0, <1>1, <1>2
    <3> QED
      BY <3>1, ConcatAdjacentSubSeq
  <2>2. SubSeq(s, i, j - C) \o SubSeq(s, j - C + 1, j) = SubSeq(s, i, j)
    <3>1. i \in 1..Len(s) + 1 /\ j - C \in i - 1..Len(s) /\ j \in j - C..Len(s)
      BY <1>0, <1>1, <1>2
    <3> QED
      BY <3>1, ConcatAdjacentSubSeq
  <2>3. SubSeq(s, i, i) = <<s[i]>>
    <3> DEFINE one == SubSeq(s, i, i)
    <3>1. one \in Seq(Byte) /\ Len(one) = i - i + 1 /\ \A k \in 1..i - i + 1 : one[k] = s[i + k - 1]
      BY <1>1, Part
    <3>2. s[i] \in Byte
      OBVIOUS
    <3> HIDE DEF one
    <3>3. Len(one) = 1 /\ one[1] = s[i]
      BY <1>1, <3>1
    <3>4. one = <<s[i]>>
      BY <3>1, <3>2, <3>3
    <3> QED
      BY <3>4 DEF one
  <2> QED
    BY <2>1, <2>2, <2>3 DEF whole, body, rest
<1>7. Len(inf) + 1 + C = j - i /\ Len(inf) \in Nat
  BY <1>0, <1>1, <1>2, <1>3
<1>8. b0 = <<j - i>> \o inf
  BY <1>7
<1> HIDE DEF b0
<1> DEFINE n == j - i
<1>9. /\ b0 \in Seq(Nat) /\ Len(b0) = 1 + Len(inf) /\ b0[1] = n
      /\ \A k \in 2..1 + Len(inf) : b0[k] = inf[k - 1]
  <2>1. n \in Nat
    BY <1>0, <1>1
  <2>2. inf \in Seq(Nat)
    BY <1>3, BytesAreNat, LargerSeq
  <2>3. <<n>> \in Seq(Nat) /\ Len(<<n>>) = 1 /\ <<n>>[1] = n
    BY <2>1
  <2> DEFINE h == <<n>>
  <2> HIDE DEF n, h
  <2>4. /\ h \o inf \in Seq(Nat) /\ Len(h \o inf) = Len(h) + Len(inf)
        /\ \A k \in 1..Len(h) + Len(inf) :
              (h \o inf)[k] = IF k <= Len(h) THEN h[k] ELSE inf[k - Len(h)]
    BY <2>2, <2>3, ConcatProperties DEF h
  <2>5. b0 = h \o inf
    BY <1>8 DEF h, n
  <2>6. /\ b0 \in Seq(Nat) /\ Len(b0) = Len(h) + Len(inf)
        /\ \A k \in 1..Len(h) + Len(inf) : b0[k] = IF k <= Len(h) THEN h[k] ELSE inf[k - Len(h)]
    BY <2>4, <2>5
  <2>7. Len(h) = 1 /\ h[1] = n
    BY <2>3 DEF h
  <2> QED
    BY <1>7, <2>6, <2>7
<1> HIDE DEF n
<1>10. s[i + 1] = n => b0 = body
  <2> SUFFICES ASSUME s[i + 1] = n PROVE b0 = body
    OBVIOUS
  <2>1. Len(b0) = Len(body)
    BY <1>0, <1>1, <1>2, <1>3, <1>4, <1>9
  <2>2. \A k \in 1..Len(b0) : b0[k] = body[k]
    <3>1. ASSUME NEW k \in 1..Len(b0) PROVE b0[k] = body[k]
      <4>1. k \in 1..j - C - (i + 1) + 1 /\ i + 1 + k - 1 = i + k
        BY <1>0, <1>1, <1>2, <1>4, <2>1
      <4>2. body[k] = s[i + k]
        BY <1>4, <4>1
      <4>3. CASE k = 1
        BY <1>9, <4>2, <4>3
      <4>4. CASE k # 1
        <5>1. k \in 2..1 + Len(inf) /\ k - 1 \in 1..j - C - (i + 2) + 1 /\ i + 2 + (k - 1) - 1 = i + k
          BY <1>0, <1>1, <1>2, <1>3, <1>9, <4>1, <4>4
        <5> QED
          BY <1>3, <1>9, <4>2, <5>1
      <4> QED
        BY <4>3, <4>4
    <3> QED
      BY <3>1
  <2>3. b0 \in Seq(Nat) /\ body \in Seq(Nat)
    BY <1>4, <1>9, BytesAreNat, LargerSeq
  <2> QED
    BY <2>1, <2>2, <2>3, SeqEqual
<1> DEFINE crc  == cal_crc16_ext(b0)
           sof  == <<T1_SOF>>
           head == sof \o b0
<1>11. Frame(inf) = head \o crc
  BY DEF Frame, b0, C
<1>12. PICK T : crc \in Seq(T) /\ Len(crc) = C
  BY ChecksumIs DEF C
<1>13. /\ WellFormed(s, i, j) <=> s[i] = T1_SOF /\ whole = Frame(inf)
       /\ FrameAt(s, i, j) <=> s[i] = T1_SOF /\ s[i + 1] = n /\ cal_crc16_ext(body) = rest
  BY DEF WellFormed, FrameAt, whole, inf, n, body, rest, C
<1>14. ASSUME s[i] = T1_SOF, s[i + 1] = n, cal_crc16_ext(body) = rest
       PROVE  whole = Frame(inf)
  BY <1>6, <1>10, <1>11, <1>14
<1> HIDE DEF crc
<1>15. ASSUME s[i] = T1_SOF, whole = Frame(inf)
       PROVE  s[i + 1] = n /\ cal_crc16_ext(body) = rest
  <2> DEFINE S2 == Nat \cup T
  <2>1. b0 \in Seq(S2) /\ crc \in Seq(S2) /\ rest \in Seq(S2) /\ body \in Seq(S2)
    <3>1. Nat \subseteq S2 /\ T \subseteq S2 /\ Byte \subseteq S2
      BY BytesAreNat
    <3> HIDE DEF S2
    <3> QED
      BY <1>4, <1>5, <1>9, <1>12, <3>1, LargerSeq
  <2>2. sof \in Seq(S2) /\ Len(sof) = 1
    <3>1. T1_SOF \in S2
      BY BytesAreNat
    <3> HIDE DEF S2
    <3> QED
      BY <3>1
  <2> HIDE DEF S2, sof
  <2>3. /\ head \in Seq(S2) /\ Len(head) = Len(sof) + Len(b0)
        /\ \A k \in 1..Len(sof) + Len(b0) : head[k] = IF k <= Len(sof) THEN sof[k] ELSE b0[k - Len(sof)]
    BY <2>1, <2>2, ConcatProperties
  <2> HIDE DEF head
  <2>4. Len(head) = 2 + Len(inf) /\ head[2] = n
    <3>1. Len(b0) = 1 + Len(inf) /\ b0[1] = n /\ Len(sof) = 1
      BY <1>9, <2>2
    <3>2. 2 \in 1..Len(sof) + Len(b0) /\ ~(2 <= Len(sof)) /\ 2 - Len(sof) = 1
      BY <1>7, <3>1
    <3> QED
      BY <1>7, <2>3, <3>1, <3>2
  <2>5. /\ head \o crc \in Seq(S2)
        /\ \A k \in 1..Len(head) + Len(crc) :
              (head \o crc)[k] = IF k <= Len(head) THEN head[k] ELSE crc[k - Len(head)]
    BY <2>1, <2>3, ConcatProperties
  <2>6. whole[2] = n
    <3> DEFINE all == head \o crc
    <3>1. 2 \in 1..Len(head) + Len(crc) /\ 2 <= Len(head)
      BY <1>0, <1>7, <1>12, <2>4
    <3>2. all[2] = head[2]
      BY <2>5, <3>1
    <3>3. whole = all
      BY <1>11, <1>15
    <3> HIDE DEF all
    <3> QED
      BY <2>4, <3>2, <3>3
  <2>7. s[i + 1] = n
    <3>1. \A k \in 1..j - i + 1 : whole[k] = s[i + k - 1]
      BY <1>0, <1>1, <1>2, Part DEF whole
    <3>2. 2 \in 1..j - i + 1 /\ i + 2 - 1 = i + 1
      BY <1>0, <1>1
    <3> QED
      BY <2>6, <3>1, <3>2
  <2>8. b0 = body
    BY <1>10, <2>7
  <2>9. head \o crc = head \o rest
    BY <1>6, <1>11, <1>15, <2>8 DEF head, sof
  <2>10. crc = rest
    BY <2>1, <2>3, <2>9, ConcatSimplifications
  <2> QED
    BY <2>7, <2>8, <2>10 DEF crc
<1> QED
  BY <1>13, <1>14, <1>15
-------------------------------------------------------------------------------
(***************************************************************************)
(* The bytes read and the bytes held.                                      *)
(***************************************************************************)
LEMMA PartOfPrefix ==
  ASSUME NEW S, NEW s \in Seq(S), NEW n \in Nat, n <= Len(s),
         NEW a \in Nat \ {0}, NEW b \in Nat, b <= n, a <= b + 1
  PROVE  SubSeq(SubSeq(s, 1, n), a, b) = SubSeq(s, a, b)
<1> DEFINE t == SubSeq(s, 1, n)
           u == SubSeq(t, a, b)
           v == SubSeq(s, a, b)
<1>0. Len(s) \in Nat /\ b <= Len(s)
  BY LenProperties
<1>1. t \in Seq(S) /\ Len(t) = n - 1 + 1 /\ \A k \in 1..n - 1 + 1 : t[k] = s[1 + k - 1]
  BY Part
<1>2. v \in Seq(S) /\ Len(v) = b - a + 1 /\ \A k \in 1..b - a + 1 : v[k] = s[a + k - 1]
  BY <1>0, Part
<1> HIDE DEF t, v
<1>3. b <= Len(t)
  BY <1>1
<1>4. u \in Seq(S) /\ Len(u) = b - a + 1 /\ \A k \in 1..b - a + 1 : u[k] = t[a + k - 1]
  BY <1>1, <1>3, Part
<1> HIDE DEF u
<1>5. ASSUME NEW k \in 1..b - a + 1 PROVE u[k] = v[k]
  <2>1. a + k - 1 \in 1..n - 1 + 1 /\ 1 + (a + k - 1) - 1 = a + k - 1
    OBVIOUS
  <2> QED
    BY <1>1, <1>2, <1>4, <2>1
<1>6. u = v
  BY <1>2, <1>4, <1>5, SeqEqual
<1> QED
  BY <1>6 DEF t, u, v

\* A frame among the bytes received is one of the stream.
LEMMA ReceivedFrame ==
  ASSUME stream \in Seq(Byte), nread \in 0..Len(stream), NEW i \in 1..nread, NEW j \in 1..nread
  PROVE  /\ WellFormed(Received, i, j) <=> FrameAt(stream, i, j)
         /\ FrameAt(stream, i, j) =>
               SubSeq(Received, i, j - ChecksumSize) = SubSeq(stream, i, j - ChecksumSize)
<1> DEFINE C == ChecksumSize
<1>0. /\ C \in Nat /\ C + 2 <= T1_MINI_FRAME_SIZE /\ T1_MINI_FRAME_SIZE \in Nat
      /\ Len(stream) \in Nat /\ nread \in Nat /\ nread <= Len(stream)
      /\ i \in Nat \ {0} /\ j \in Nat /\ i <= nread /\ j <= nread
  BY FrameAssumption, LenProperties
<1>1. /\ Received \in Seq(Byte) /\ Len(Received) = nread
      /\ \A k \in 1..nread : Received[k] = stream[k]
  <2>1. /\ Received \in Seq(Byte) /\ Len(Received) = nread - 1 + 1
        /\ \A k \in 1..nread - 1 + 1 : Received[k] = stream[1 + k - 1]
    BY <1>0, Part DEF Received
  <2>2. nread - 1 + 1 = nread /\ \A k \in 1..nread : 1 + k - 1 = k
    BY <1>0
  <2> QED
    BY <2>1, <2>2
<1>2. WellFormed(Received, i, j) <=> FrameAt(Received, i, j)
  BY <1>1, ByItsBytes
<1> HIDE DEF C
<1>3. CASE ~(j - i + 1 >= T1_MINI_FRAME_SIZE)
  BY <1>2, <1>3 DEF FrameAt
<1>4. CASE j - i + 1 >= T1_MINI_FRAME_SIZE
  <2>1. /\ i + 1 <= j - C /\ j - C \in Nat /\ j - C <= nread /\ i + 1 \in 1..nread
        /\ i + 1 \in Nat \ {0} /\ i + 1 <= j - C + 1 /\ i <= j - C + 1
        /\ j - C + 1 \in Nat \ {0} /\ j - C + 1 <= j + 1
    BY <1>0, <1>4
  <2>2. Received[i] = stream[i] /\ Received[i + 1] = stream[i + 1]
    BY <1>1, <2>1
  <2>3. /\ SubSeq(Received, i, j - C) = SubSeq(stream, i, j - C)
        /\ SubSeq(Received, i + 1, j - C) = SubSeq(stream, i + 1, j - C)
        /\ SubSeq(Received, j - C + 1, j) = SubSeq(stream, j - C + 1, j)
    BY <1>0, <2>1, PartOfPrefix DEF Received
  <2> QED
    BY <1>2, <2>2, <2>3 DEF FrameAt, C
<1> QED
  BY <1>3, <1>4

\* What the ring holds are the bytes received behind the first d.
Holding(d) ==
  /\ cirbuf_get_size = nread - d
  /\ \A k \in 1..nread - d : Buffer[Wrap(readPos + k - 1)] = stream[d + k]

\* What the lemmas on the scan need of a state.
ScanOK(d) ==
  /\ RingTypeOK /\ stream \in Seq(Byte) /\ nread \in 0..Len(stream)
  /\ d \in 0..nread /\ Holding(d)

LEMMA ScanNumbers ==
  ASSUME NEW d, ScanOK(d)
  PROVE  /\ Len(stream) \in Nat /\ nread \in Nat /\ nread <= Len(stream)
         /\ d \in Nat /\ d <= nread
         /\ cirbuf_get_size \in Nat /\ cirbuf_get_size = nread - d /\ cirbuf_get_size < Size
         /\ Size \in Nat \ {0} /\ readPos \in Nat /\ readPos < Size
<1>1. cirbuf_get_size \in 0..Size - 1 /\ Size \in Nat \ {0}
  BY SizeBound, SizeAssumption DEF ScanOK, RingTypeOK
<1>2. Len(stream) \in Nat
  BY LenProperties DEF ScanOK
<1>3. readPos \in Slots /\ nread \in 0..Len(stream) /\ d \in 0..nread /\ cirbuf_get_size = nread - d
  BY DEF ScanOK, RingTypeOK, Holding
<1> QED
  BY <1>1, <1>2, <1>3 DEF Slots

\* The byte and the run of bytes at a distance from readPos.
LEMMA HeldByte ==
  ASSUME NEW d, ScanOK(d), NEW i \in Nat, i < cirbuf_get_size
  PROVE  ByteAt(i) = stream[d + 1 + i] /\ ByteAt(i) \in Nat /\ ByteAt(i) < Size
<1>1. i + 1 \in 1..nread - d /\ readPos + (i + 1) - 1 = readPos + i /\ d + (i + 1) = d + 1 + i
      /\ d + 1 + i \in 1..Len(stream)
  BY ScanNumbers
<1>2. ByteAt(i) = stream[d + 1 + i]
  <2>1. \A k \in 1..nread - d : Buffer[Wrap(readPos + k - 1)] = stream[d + k]
    BY DEF ScanOK, Holding
  <2> QED
    BY <1>1, <2>1 DEF ByteAt, At
<1>3. stream[d + 1 + i] \in Byte
  BY <1>1 DEF ScanOK
<1>4. ByteAt(i) \in Slots
  BY <1>2, <1>3, FrameAssumption
<1> QED
  BY <1>2, <1>4, SizeAssumption DEF Slots

LEMMA HeldRun ==
  ASSUME NEW d, ScanOK(d), NEW a \in Nat, NEW n \in Nat, a + n <= cirbuf_get_size
  PROVE  /\ At(a) \in Slots
         /\ BytesFrom(At(a), n) = SubSeq(stream, d + a + 1, d + a + n)
         /\ BytesFrom(At(a), n) \in Seq(Byte)
<1> DEFINE run  == BytesFrom(At(a), n)
           part == SubSeq(stream, d + a + 1, d + a + n)
<1>1. At(a) \in Slots
  BY ScanNumbers DEF At, Wrap, Slots
<1>2. run \in Seq(Byte) /\ Len(run) = n /\ \A k \in 1..n : run[k] = Buffer[Wrap(At(a) + k - 1)]
  <2>1. n \in 0..Size
    BY ScanNumbers
  <2>2. Buffer \in [Slots -> Byte]
    BY DEF ScanOK, RingTypeOK
  <2> QED
    BY <1>1, <2>1, <2>2, BytesFromType
<1>3. /\ part \in Seq(Byte) /\ Len(part) = n
      /\ \A k \in 1..n : part[k] = stream[d + a + k]
  <2>1. /\ d + a + 1 \in Nat \ {0} /\ d + a + n \in Nat /\ d + a + n <= Len(stream)
        /\ d + a + 1 <= d + a + n + 1 /\ (d + a + n) - (d + a + 1) + 1 = n
        /\ \A k \in 1..n : (d + a + 1) + k - 1 = d + a + k
    <3>1. /\ Len(stream) \in Nat /\ nread \in Nat /\ nread <= Len(stream) /\ d \in Nat
          /\ a + n <= nread - d
      BY ScanNumbers
    <3>2. d + a + n <= nread
      BY <3>1
    <3> QED
      BY <3>1, <3>2
  <2>2. stream \in Seq(Byte)
    BY DEF ScanOK
  <2>3. /\ part \in Seq(Byte) /\ Len(part) = (d + a + n) - (d + a + 1) + 1
        /\ \A k \in 1..(d + a + n) - (d + a + 1) + 1 : part[k] = stream[(d + a + 1) + k - 1]
    BY <2>1, <2>2, Part
  <2> HIDE DEF part
  <2> QED
    BY <2>1, <2>3
<1>4. ASSUME NEW k \in 1..n PROVE Buffer[Wrap(At(a) + k - 1)] = stream[d + a + k]
  <2>1. Wrap(At(a) + k - 1) = Wrap(readPos + (a + k) - 1)
    BY ScanNumbers DEF At, Wrap
  <2>2. a + k \in 1..nread - d /\ d + (a + k) = d + a + k
    BY ScanNumbers
  <2>3. \A m \in 1..nread - d : Buffer[Wrap(readPos + m - 1)] = stream[d + m]
    BY DEF ScanOK, Holding
  <2>4. Buffer[Wrap(readPos + (a + k) - 1)] = stream[d + (a + k)]
    BY <2>2, <2>3
  <2> QED
    BY <2>1, <2>2, <2>4
<1> HIDE DEF run, part
<1>5. \A k \in 1..n : run[k] = part[k]
  BY <1>2, <1>3, <1>4
<1>6. run = part
  BY <1>2, <1>3, <1>5, SeqEqual
<1> QED
  BY <1>1, <1>2, <1>6 DEF run, part

\* The parser calls complete what the bytes received make a frame.
LEMMA CompleteIff ==
  ASSUME NEW d, ScanOK(d), NEW i \in Nat, i + 1 < cirbuf_get_size
  PROVE  LET at == d + 1 + i
             to == at + ByteAt(i + 1)
         IN  /\ at \in 1..nread /\ to \in Nat /\ stream[at + 1] = to - at
             /\ Complete(i) <=> to <= nread /\ FrameAt(stream, at, to)
<1> DEFINE C  == ChecksumSize
           M  == T1_MINI_FRAME_SIZE
           f  == ByteAt(i + 1)
           at == d + 1 + i
           to == at + f
           g  == cirbuf_get_size
<1>0. C \in Nat /\ M \in Nat /\ C + 2 <= M
  BY FrameAssumption
<1>1. /\ nread \in Nat /\ d \in Nat /\ g \in Nat /\ g = nread - d
  BY ScanNumbers
<1>2. ByteAt(i) = stream[at]
  BY <1>1, HeldByte
<1>3. f \in Nat /\ f = stream[at + 1]
  <2>1. i + 1 \in Nat /\ d + 1 + (i + 1) = at + 1
    BY <1>1
  <2>2. ByteAt(i + 1) = stream[d + 1 + (i + 1)] /\ ByteAt(i + 1) \in Nat
    BY <2>1, HeldByte
  <2> HIDE DEF at
  <2> QED
    BY <2>1, <2>2
<1>4. Complete(i) <=> /\ ByteAt(i) = T1_SOF /\ g - i > 1
                      /\ f >= M - 1 /\ f <= g - (i + 1)
                      /\ cal_crc16_ext(BytesFrom(At(i + 1), f - C))
                            = BytesFrom(At(i + 1 + (f - C)), C)
  BY DEF Complete, Left
<1>5. FrameAt(stream, at, to) <=> /\ stream[at] = T1_SOF /\ to - at + 1 >= M
                                  /\ stream[at + 1] = to - at
                                  /\ cal_crc16_ext(SubSeq(stream, at + 1, to - C))
                                        = SubSeq(stream, to - C + 1, to)
  BY DEF FrameAt
<1> HIDE DEF f, g, C, M
<1>6. /\ at \in 1..nread /\ to \in Nat /\ to - at = f
      /\ (to <= nread <=> f <= g - (i + 1)) /\ (to - at + 1 >= M <=> f >= M - 1)
      /\ g - i > 1
  BY <1>0, <1>1, <1>3 DEF g
<1>7. ASSUME f >= M - 1, f <= g - (i + 1)
      PROVE  /\ BytesFrom(At(i + 1), f - C) = SubSeq(stream, at + 1, to - C)
             /\ BytesFrom(At(i + 1 + (f - C)), C) = SubSeq(stream, to - C + 1, to)
  <2> DEFINE n == f - C
             a == i + 1
             b == i + 1 + n
  <2>1. a \in Nat /\ n \in Nat /\ b \in Nat /\ a + n <= g /\ b + C <= g
    BY <1>0, <1>1, <1>3, <1>7
  <2>2. d + a + 1 = at + 1 /\ d + a + n = to - C /\ d + b + 1 = to - C + 1 /\ d + b + C = to
    BY <1>0, <1>1, <1>3
  <2> HIDE DEF a, b, n, at, to
  <2>3. /\ BytesFrom(At(a), n) = SubSeq(stream, d + a + 1, d + a + n)
        /\ BytesFrom(At(b), C) = SubSeq(stream, d + b + 1, d + b + C)
    BY <1>0, <2>1, HeldRun DEF g
  <2>4. BytesFrom(At(a), n) = SubSeq(stream, at + 1, to - C)
    BY <2>2, <2>3
  <2>5. BytesFrom(At(b), C) = SubSeq(stream, to - C + 1, to)
    BY <2>2, <2>3
  <2> QED
    BY <2>4, <2>5 DEF a, b, n
<1> HIDE DEF at, to
<1>8. Complete(i) <=> to <= nread /\ FrameAt(stream, at, to)
  <2>1. CASE f >= M - 1 /\ f <= g - (i + 1)
    <3>1. /\ BytesFrom(At(i + 1), f - C) = SubSeq(stream, at + 1, to - C)
          /\ BytesFrom(At(i + 1 + (f - C)), C) = SubSeq(stream, to - C + 1, to)
      BY <1>7, <2>1
    <3>2. stream[at + 1] = to - at /\ to <= nread /\ to - at + 1 >= M /\ g - i > 1
      BY <1>3, <1>6, <2>1
    <3> QED
      BY <1>2, <1>4, <1>5, <2>1, <3>1, <3>2
  <2>2. CASE ~(f >= M - 1 /\ f <= g - (i + 1))
    BY <1>4, <1>5, <1>6, <2>2
  <2> QED
    BY <2>1, <2>2
<1>9. at \in 1..nread /\ to \in Nat /\ stream[at + 1] = to - at
  BY <1>3, <1>6
<1> QED
  BY <1>8, <1>9 DEF at, to, f

\* A frame that ends among the bytes received is found, and what is neither
\* complete nor incomplete starts none, whatever is still to come.
LEMMA FoundWhenReceived ==
  ASSUME NEW d, ScanOK(d), NEW i \in Nat, i < cirbuf_get_size,
         NEW j \in Nat, j <= nread, FrameAt(stream, d + 1 + i, j)
  PROVE  Complete(i)
<1> DEFINE at == d + 1 + i
           to == at + ByteAt(i + 1)
<1>1. nread \in Nat /\ d \in Nat /\ cirbuf_get_size = nread - d
  BY ScanNumbers
<1>2. j - at + 1 >= 2 /\ stream[at + 1] = j - at
  BY <1>1, FrameAssumption DEF FrameAt
<1>3. i + 1 < cirbuf_get_size /\ at \in Nat
  BY <1>1, <1>2
<1>4. to \in Nat /\ stream[at + 1] = to - at /\ (Complete(i) <=> to <= nread /\ FrameAt(stream, at, to))
  BY <1>3, CompleteIff
<1> HIDE DEF to
<1>5. to = j
  BY <1>2, <1>3, <1>4
<1> QED
  BY <1>4, <1>5

LEMMA NoneWhenDropped ==
  ASSUME NEW d, ScanOK(d), NEW i \in Nat, i < cirbuf_get_size,
         ~Complete(i), ~Incomplete(i), NEW j \in Nat
  PROVE  ~FrameAt(stream, d + 1 + i, j)
<1> DEFINE at == d + 1 + i
           to == at + ByteAt(i + 1)
<1> SUFFICES ASSUME FrameAt(stream, at, j) PROVE FALSE
  OBVIOUS
<1>1. nread \in Nat /\ d \in Nat /\ cirbuf_get_size = nread - d
  BY ScanNumbers
<1>2. stream[at] = T1_SOF /\ j - at + 1 >= T1_MINI_FRAME_SIZE /\ stream[at + 1] = j - at
  BY DEF FrameAt
<1>3. ByteAt(i) = T1_SOF
  BY <1>2, HeldByte
<1>4. /\ cirbuf_get_size - i > 1
      /\ ByteAt(i + 1) >= T1_MINI_FRAME_SIZE - 1 => ~(ByteAt(i + 1) > cirbuf_get_size - (i + 1))
  BY <1>3 DEF Incomplete, Left
<1>5. i + 1 < cirbuf_get_size
  BY <1>1, <1>4
<1>6. to \in Nat /\ stream[at + 1] = to - at /\ (Complete(i) <=> to <= nread /\ FrameAt(stream, at, to))
  BY <1>5, CompleteIff
<1>7. ByteAt(i + 1) \in Nat
  BY <1>5, HeldByte
<1>8. to = j
  <2> HIDE DEF to
  <2> QED
    BY <1>1, <1>2, <1>6
<1>9. ByteAt(i + 1) >= T1_MINI_FRAME_SIZE - 1
  <2>1. j = at + ByteAt(i + 1)
    BY <1>8
  <2> QED
    BY <1>1, <1>2, <1>7, <2>1, FrameAssumption
<1>10. to <= nread
  BY <1>1, <1>4, <1>7, <1>9
<1>11. FrameAt(stream, at, to)
  <2> HIDE DEF to
  <2> QED
    BY <1>8
<1> QED
  BY <1>6, <1>10, <1>11
-------------------------------------------------------------------------------
(***************************************************************************)
(* The invariant.  While the receiver waits, the ring holds what was read  *)
(* behind some byte d, and no frame starts at or before d, whatever is     *)
(* still to come: what a scan dropped is never missed.                     *)
(***************************************************************************)
NoFrameBefore(d) == \A i \in 1..d, j \in Nat : ~FrameAt(stream, i, j)
HeldBehind(d)    == Holding(d) /\ NoFrameBefore(d)
Scanning     == phase \in {"read", "parse"} /\ ~overrun => \E d \in 0..nread : HeldBehind(d)
NoneWaits    == phase = "read" /\ ~overrun => \A i, j \in 1..nread : ~FrameAt(stream, i, j)
RxInv        == RxTypeOK /\ Scanning /\ NoneWaits /\ OnlyReceivedFrames

LEMMA StreamBytes == RxTypeOK => stream \in Seq(Byte) /\ nread \in 0..Len(stream) /\ RingTypeOK
BY FrameAssumption DEF RxTypeOK

\* An empty ring before the first byte of an exchange.
LEMMA EmptyHolds ==
  ASSUME RingTypeOK, readPos = writePos, NEW d \in Nat, d = nread
  PROVE  Holding(d)
BY DEF Holding, cirbuf_get_size, RingTypeOK, Slots

LEMMA FreshScan ==
  ASSUME RxTypeOK, phase = "read", nread = 0, readPos = 0, writePos = 0
  PROVE  RxInv
<1>1. Holding(0)
  BY EmptyHolds DEF RxTypeOK
<1>2. HeldBehind(0) /\ 0 \in 0..nread
  BY <1>1 DEF HeldBehind, NoFrameBefore
<1>3. Scanning
  BY <1>2 DEF Scanning
<1>4. NoneWaits /\ OnlyReceivedFrames
  BY DEF NoneWaits, OnlyReceivedFrames
<1> QED
  BY <1>3, <1>4 DEF RxInv

LEMMA RxInvInit == RxInit => RxInv
<1> SUFFICES ASSUME RxInit PROVE RxInv
  OBVIOUS
<1>1. /\ Buffer \in [Slots -> Byte] /\ readPos = 0 /\ writePos = 0 /\ userBuf = <<>>
      /\ phase = "read" /\ stream \in Streams /\ nread = 0 /\ overrun = FALSE /\ exchanges = 1
  BY DEF RxInit, cirbuf_init
<1>2. 0 \in Slots /\ <<>> \in Seq(Byte)
  BY SizeAssumption DEF Slots
<1>3. 0 \in 0..Len(stream)
  BY <1>1, FrameAssumption, LenProperties
<1>4. 1 \in 1..MaxExchanges
  BY FrameAssumption
<1>5. RxTypeOK
  BY <1>1, <1>2, <1>3, <1>4 DEF RxTypeOK, RingTypeOK
<1> QED
  BY <1>1, <1>5, FreshScan

\* A push of any length up to the ring's size keeps the positions in it.
LEMMA PushTypes ==
  ASSUME RingTypeOK, NEW data \in Seq(Byte), Len(data) <= Size, cirbuf_push(data)
  PROVE  Buffer' \in [Slots -> Byte] /\ writePos' \in Slots /\ readPos' = readPos
<1>1. Len(data) \in Nat
  BY LenProperties
<1>2. \A k \in 1..Len(data) : data[k] \in Byte
  OBVIOUS
<1>3. Filled(data) \in [Slots -> Byte]
  BY <1>1, <1>2, SizeAssumption DEF Filled, RingTypeOK, Slots
<1>4. Wrap(writePos + Len(data)) \in Slots
  BY <1>1, SizeAssumption DEF Wrap, RingTypeOK, Slots
<1> QED
  BY <1>3, <1>4 DEF cirbuf_push

LEMMA ReadKeeps == ASSUME RxInv, Read PROVE RxInv'
<1>1. PICK n \in 0..MaxChunk :
         /\ nread + n <= Len(stream)
         /\ cirbuf_push(SubSeq(stream, nread + 1, nread + n))
         /\ nread' = nread + n
         /\ overrun' = (overrun \/ n >= cirbuf_get_free_size)
  BY DEF Read
<1>2. /\ phase = "read" /\ phase' = "parse" /\ userBuf' = userBuf /\ stream' = stream
      /\ exchanges' = exchanges
  BY DEF Read
<1> DEFINE data == SubSeq(stream, nread + 1, nread + n)
<1>3. RxTypeOK /\ RingTypeOK /\ stream \in Seq(Byte) /\ nread \in 0..Len(stream)
  BY StreamBytes DEF RxInv
<1>4. Len(stream) \in Nat /\ nread \in Nat /\ n \in Nat /\ n <= MaxChunk /\ n <= Size
  BY <1>1, <1>3, LenProperties, SizeAssumption, FrameAssumption
<1>5. /\ data \in Seq(Byte) /\ Len(data) = n
      /\ \A k \in 1..n : data[k] = stream[nread + k]
  <2>1. /\ nread + 1 \in Nat \ {0} /\ nread + n \in Nat /\ nread + 1 <= nread + n + 1
        /\ nread + n - (nread + 1) + 1 = n
        /\ \A k \in 1..n : nread + 1 + k - 1 = nread + k
    BY <1>4
  <2>2. /\ data \in Seq(Byte) /\ Len(data) = nread + n - (nread + 1) + 1
        /\ \A k \in 1..nread + n - (nread + 1) + 1 : data[k] = stream[nread + 1 + k - 1]
    BY <1>1, <1>3, <2>1, Part
  <2> HIDE DEF data
  <2> QED
    BY <2>1, <2>2
<1>6. cirbuf_push(data)
  BY <1>1
<1> HIDE DEF data
<1>7. Buffer' \in [Slots -> Byte] /\ writePos' \in Slots /\ readPos' = readPos
  BY <1>3, <1>4, <1>5, <1>6, PushTypes
<1>8. RxTypeOK'
  <2>1. nread' \in 0..Len(stream') /\ overrun' \in BOOLEAN
    BY <1>1, <1>2, <1>3, <1>4 DEF RxTypeOK
  <2> QED
    BY <1>2, <1>3, <1>7, <2>1 DEF RxTypeOK, RingTypeOK
<1>9. ASSUME ~overrun' PROVE \E d \in 0..nread' : HeldBehind(d)'
  <2>1. ~overrun /\ ~(n >= cirbuf_get_free_size)
    BY <1>1, <1>9
  <2>2. PICK d \in 0..nread : HeldBehind(d)
    BY <1>2, <2>1 DEF RxInv, Scanning
  <2>3. ScanOK(d)
    BY <1>3, <2>2 DEF ScanOK, HeldBehind
  <2> DEFINE g == cirbuf_get_size
  <2>4. g \in Nat /\ g = nread - d /\ d \in Nat /\ Size \in Nat
    BY <2>3, ScanNumbers
  <2>5. Len(data) < cirbuf_get_free_size
    BY <1>4, <1>5, <2>1, <2>4 DEF cirbuf_get_free_size
  <2>6. data \in Chunks
    <3>1. data \in [1..n -> Byte]
      BY <1>4, <1>5
    <3> QED
      BY <1>1, <3>1 DEF Chunks
  <2>7. g' = g + n
    BY <1>3, <1>5, <1>6, <2>5, <2>6, PushPositions
  <2>8. /\ \A k \in 1..g : Buffer'[Wrap(readPos + k - 1)] = Buffer[Wrap(readPos + k - 1)]
        /\ \A k \in g + 1..g + n : Buffer'[Wrap(readPos + k - 1)] = data[k - g]
    BY <1>3, <1>5, <1>6, <2>5, <2>6, PushBytes
  <2> HIDE DEF g
  <2>9. \A k \in 1..g : Buffer[Wrap(readPos + k - 1)] = stream[d + k]
    BY <2>2, <2>4 DEF HeldBehind, Holding
  <2>10. ASSUME NEW k \in 1..g + n PROVE Buffer'[Wrap(readPos + k - 1)] = stream[d + k]
    <3>1. CASE k \in 1..g
      BY <2>8, <2>9, <3>1
    <3>2. CASE k \notin 1..g
      <4>1. k \in g + 1..g + n /\ k - g \in 1..n /\ nread + (k - g) = d + k
        BY <1>4, <2>4, <3>2
      <4> QED
        BY <1>5, <2>8, <4>1
    <3> QED
      BY <3>1, <3>2
  <2>11. g' = nread' - d /\ nread' - d = g + n
    BY <1>1, <1>4, <2>4, <2>7
  <2>12. \A k \in 1..nread' - d : Buffer'[Wrap(readPos' + k - 1)] = stream'[d + k]
    BY <1>2, <1>7, <2>10, <2>11
  <2>13. Holding(d)'
    BY <2>11, <2>12 DEF Holding, g, Wrap
  <2>14. NoFrameBefore(d)'
    BY <1>2, <2>2 DEF HeldBehind, NoFrameBefore
  <2>15. d \in 0..nread'
    BY <1>1, <1>4, <2>4
  <2> QED
    BY <2>13, <2>14, <2>15 DEF HeldBehind
<1>10. Scanning'
  BY <1>9 DEF Scanning
<1>11. NoneWaits' /\ OnlyReceivedFrames'
  BY <1>2 DEF NoneWaits, OnlyReceivedFrames
<1> QED
  BY <1>8, <1>10, <1>11 DEF RxInv

\* A scan finds the first complete frame and hands it on, or goes on behind
\* what cannot become a frame.
Held        == 0..cirbuf_get_size - 1
CompleteAt   == {i \in Held : Complete(i)}
IncompleteAt == {i \in Held : Incomplete(i)}

LEMMA ScanSteps ==
  ASSUME ParseIncomeData
  PROVE  /\ phase = "parse"
         /\ Buffer' = Buffer /\ writePos' = writePos /\ stream' = stream /\ nread' = nread
         /\ overrun' = overrun /\ exchanges' = exchanges
         /\ CompleteAt # {} =>
              LET start  == First(CompleteAt)
                  frmlen == ByteAt(start + 1)
              IN  /\ userBuf' = BytesFrom(At(start), frmlen + 1 - ChecksumSize)
                  /\ readPos' = AfterFrame(At(start + 1) + frmlen)
                  /\ phase' = "done"
         /\ CompleteAt = {} =>
              /\ readPos' = IF IncompleteAt = {} THEN writePos ELSE At(First(IncompleteAt))
              /\ phase' = "read" /\ userBuf' = userBuf
BY DEF ParseIncomeData, CompleteAt, IncompleteAt, Held

\* A slot at a distance within what is held, and the byte there.
LEMMA SlotAt ==
  ASSUME RingTypeOK, NEW i \in Nat, i <= cirbuf_get_size
  PROVE  At(i) \in Slots /\ ByteAt(i) \in Nat /\ ByteAt(i) < Size
<1>1. cirbuf_get_size \in 0..Size - 1 /\ Size \in Nat \ {0}
  BY SizeBound, SizeAssumption DEF RingTypeOK
<1>2. At(i) \in Slots
  BY <1>1 DEF At, Wrap, RingTypeOK, Slots
<1>3. ByteAt(i) \in Slots
  BY <1>2, FrameAssumption DEF ByteAt, RingTypeOK
<1> QED
  BY <1>2, <1>3, SizeAssumption DEF Slots

LEMMA CompleteType ==
  ASSUME RingTypeOK, NEW i \in Held, Complete(i)
  PROVE  LET frmlen == ByteAt(i + 1)
         IN  /\ frmlen + 1 - ChecksumSize \in 0..Size
             /\ i + 1 < cirbuf_get_size /\ frmlen <= cirbuf_get_size - (i + 1)
             /\ frmlen >= ChecksumSize + 1
             /\ BytesFrom(At(i), frmlen + 1 - ChecksumSize) \in Seq(Byte)
             /\ AfterFrame(At(i + 1) + frmlen) \in Slots
<1> DEFINE f == ByteAt(i + 1)
           n == f + 1 - ChecksumSize
<1>1. cirbuf_get_size \in 0..Size - 1 /\ Size \in Nat \ {0}
  BY SizeBound, SizeAssumption DEF RingTypeOK
<1>2. /\ ChecksumSize \in Nat /\ T1_MINI_FRAME_SIZE \in Nat
      /\ ChecksumSize + 2 <= T1_MINI_FRAME_SIZE
  BY FrameAssumption
<1>3. /\ cirbuf_get_size - i > 1 /\ f >= T1_MINI_FRAME_SIZE - 1
      /\ f <= cirbuf_get_size - (i + 1)
  BY DEF Complete, Left
<1>4. i \in Nat /\ i <= cirbuf_get_size /\ i + 1 \in Nat /\ i + 1 < cirbuf_get_size
      /\ i + 1 <= cirbuf_get_size
  BY <1>1, <1>3 DEF Held
<1>5. f \in Nat /\ f < Size /\ At(i + 1) \in Slots /\ At(i) \in Slots
  BY <1>4, SlotAt
<1> HIDE DEF f
<1>6. n \in 0..Size /\ f >= ChecksumSize + 1
  BY <1>1, <1>2, <1>3, <1>5
<1>7. BytesFrom(At(i), n) \in Seq(Byte)
  <2> HIDE DEF n
  <2> QED
    BY <1>5, <1>6, BytesFromType DEF RingTypeOK
<1>8. AfterFrame(At(i + 1) + f) \in Slots
  <2> DEFINE a == At(i + 1)
  <2>1. a \in Slots /\ writePos \in Slots
    BY <1>5 DEF RingTypeOK
  <2> HIDE DEF a
  <2>2. AfterFrame(a + f) \in Slots
    BY <1>1, <1>5, <2>1 DEF AfterFrame, Slots
  <2> QED
    BY <2>2 DEF a
<1> QED
  BY <1>3, <1>4, <1>6, <1>7, <1>8 DEF f

\* What a complete frame hands on is a frame of the bytes received.
LEMMA HandsOnFrame ==
  ASSUME NEW d, ScanOK(d), NEW i \in Held, Complete(i)
  PROVE  \E p \in FramesReceived :
            BytesFrom(At(i), ByteAt(i + 1) + 1 - ChecksumSize)
               = SubSeq(Received, p[1], p[2] - ChecksumSize)
<1> DEFINE C  == ChecksumSize
           f  == ByteAt(i + 1)
           n  == f + 1 - C
           at == d + 1 + i
           to == at + f
<1>1. /\ nread \in Nat /\ d \in Nat /\ cirbuf_get_size \in Nat /\ cirbuf_get_size = nread - d
      /\ C \in Nat
  BY ScanNumbers, FrameAssumption
<1>2. RingTypeOK /\ stream \in Seq(Byte) /\ nread \in 0..Len(stream)
  BY DEF ScanOK
<1>3. n \in 0..Size /\ i + 1 < cirbuf_get_size /\ f <= cirbuf_get_size - (i + 1) /\ f >= C + 1
  BY <1>2, CompleteType
<1>4. i \in Nat
  BY <1>1 DEF Held
<1>5. f \in Nat
  <2>1. i + 1 \in Nat /\ i + 1 <= cirbuf_get_size
    BY <1>1, <1>3, <1>4
  <2> QED
    BY <1>2, <2>1, SlotAt
<1>6. at \in 1..nread /\ to \in Nat /\ to <= nread /\ FrameAt(stream, at, to)
  BY <1>3, <1>4, CompleteIff
<1> HIDE DEF f
<1>7. to \in 1..nread
  BY <1>1, <1>4, <1>5, <1>6
<1>8. BytesFrom(At(i), n) = SubSeq(stream, at, to - C)
  <2>1. n \in Nat /\ i + n <= cirbuf_get_size /\ d + i + 1 = at /\ d + i + n = to - C
    BY <1>1, <1>3, <1>4, <1>5
  <2> HIDE DEF n, at, to, C
  <2>2. BytesFrom(At(i), n) = SubSeq(stream, d + i + 1, d + i + n)
    BY <1>4, <2>1, HeldRun
  <2> QED
    BY <2>1, <2>2
<1> HIDE DEF n, at, to
<1>9. /\ WellFormed(Received, at, to)
      /\ SubSeq(Received, at, to - C) = SubSeq(stream, at, to - C)
  BY <1>2, <1>6, <1>7, ReceivedFrame
<1> DEFINE p == <<at, to>>
<1>10. p \in FramesReceived
  BY <1>6, <1>7, <1>9 DEF FramesReceived
<1>11. BytesFrom(At(i), n) = SubSeq(Received, p[1], p[2] - C)
  BY <1>8, <1>9
<1> QED
  BY <1>10, <1>11 DEF n, f

LEMMA ParseKeeps == ASSUME RxInv, ParseIncomeData PROVE RxInv'
<1>1. RxTypeOK /\ RingTypeOK /\ stream \in Seq(Byte) /\ nread \in 0..Len(stream)
  BY StreamBytes DEF RxInv
<1>2. /\ phase = "parse" /\ Buffer' = Buffer /\ writePos' = writePos /\ stream' = stream
      /\ nread' = nread /\ overrun' = overrun /\ exchanges' = exchanges
  BY ScanSteps
<1>3. cirbuf_get_size \in 0..Size - 1 /\ Size \in Nat \ {0}
  BY <1>1, SizeBound, SizeAssumption DEF RingTypeOK
<1>4. CompleteAt \subseteq Nat /\ IncompleteAt \subseteq Nat
  BY <1>3 DEF CompleteAt, IncompleteAt, Held
<1>5. ASSUME ~overrun PROVE \E d \in 0..nread : ScanOK(d) /\ HeldBehind(d)
  <2>1. PICK d \in 0..nread : HeldBehind(d)
    BY <1>2, <1>5 DEF RxInv, Scanning
  <2> QED
    BY <1>1, <2>1 DEF ScanOK, HeldBehind
<1>6. CASE CompleteAt # {}
  <2> DEFINE start  == First(CompleteAt)
             frmlen == ByteAt(start + 1)
  <2>1. /\ userBuf' = BytesFrom(At(start), frmlen + 1 - ChecksumSize)
        /\ readPos' = AfterFrame(At(start + 1) + frmlen)
        /\ phase' = "done"
    BY <1>6, ScanSteps
  <2>2. start \in Held /\ Complete(start)
    <3>1. start \in CompleteAt
      BY <1>4, <1>6, FirstIsIn
    <3> QED
      BY <3>1 DEF CompleteAt
  <2> HIDE DEF start
  <2>3. userBuf' \in Seq(Byte) /\ readPos' \in Slots
    BY <1>1, <2>1, <2>2, CompleteType
  <2>4. RxTypeOK'
    BY <1>1, <1>2, <2>1, <2>3 DEF RxTypeOK, RingTypeOK
  <2>5. Scanning' /\ NoneWaits'
    BY <2>1 DEF Scanning, NoneWaits
  <2>6. ASSUME ~overrun
        PROVE  \E p \in FramesReceived :
                  userBuf' = SubSeq(Received, p[1], p[2] - ChecksumSize)
    BY <1>5, <2>1, <2>2, <2>6, HandsOnFrame
  <2>7. Received' = Received /\ FramesReceived' = FramesReceived
    BY <1>2 DEF Received, FramesReceived
  <2>8. OnlyReceivedFrames'
    BY <1>2, <2>6, <2>7 DEF OnlyReceivedFrames
  <2> QED
    BY <2>4, <2>5, <2>8 DEF RxInv
<1>7. CASE CompleteAt = {}
  <2> DEFINE k == IF IncompleteAt = {} THEN cirbuf_get_size ELSE First(IncompleteAt)
             g == cirbuf_get_size
  <2>1. /\ readPos' = IF IncompleteAt = {} THEN writePos ELSE At(First(IncompleteAt))
        /\ phase' = "read" /\ userBuf' = userBuf
    BY <1>7, ScanSteps
  <2>2. k \in 0..g /\ \A i \in Nat : i < k => i \in Held /\ i \notin IncompleteAt
    <3>1. CASE IncompleteAt = {}
      BY <1>3, <3>1 DEF Held
    <3>2. CASE IncompleteAt # {}
      <4>1. First(IncompleteAt) \in IncompleteAt /\ \A i \in IncompleteAt : First(IncompleteAt) <= i
        BY <1>4, <3>2, FirstIsIn
      <4>2. k = First(IncompleteAt)
        BY <3>2
      <4> HIDE DEF k
      <4>3. k \in Held /\ \A i \in IncompleteAt : k <= i
        BY <4>1, <4>2 DEF IncompleteAt
      <4> QED
        BY <1>3, <4>3 DEF Held
    <3> QED
      BY <3>1, <3>2
  <2>3. readPos' = Wrap(readPos + k)
    <3>1. CASE IncompleteAt = {}
      BY <1>1, <1>3, <2>1, <3>1 DEF Wrap, RingTypeOK, Slots, cirbuf_get_size
    <3>2. CASE IncompleteAt # {}
      BY <2>1, <3>2 DEF At
    <3> QED
      BY <3>1, <3>2
  <2> HIDE DEF k
  <2>4. readPos' \in Slots
    BY <1>1, <1>3, <2>2, <2>3 DEF Wrap, RingTypeOK, Slots
  <2>5. RxTypeOK'
    BY <1>1, <1>2, <2>1, <2>4 DEF RxTypeOK, RingTypeOK
  <2>6. g' = g - k /\ \A i \in 1..g - k : Wrap(readPos' + i - 1) = Wrap(readPos + (k + i) - 1)
    BY <1>1, <1>2, <1>3, <2>2, <2>3 DEF Wrap, RingTypeOK, Slots, cirbuf_get_size
  <2>7. ASSUME ~overrun
        PROVE  /\ \E e \in 0..nread' : HeldBehind(e)'
               /\ \A i, j \in 1..nread' : ~FrameAt(stream', i, j)
    <3>1. PICK d \in 0..nread : ScanOK(d) /\ HeldBehind(d)
      BY <1>5, <2>7
    <3>2. /\ nread \in Nat /\ d \in Nat /\ g \in Nat /\ g = nread - d /\ k \in Nat /\ k <= g
      <4>1. /\ nread \in Nat /\ d \in Nat /\ g \in Nat /\ g = nread - d
        BY <3>1, ScanNumbers
      <4> QED
        BY <2>2, <4>1
    <3>3. PICK e \in Nat : e = d + k
      BY <3>2
    <3>4. e \in 0..nread' /\ g' = nread' - e /\ nread' - e = g - k
      <4> HIDE DEF g
      <4> QED
        BY <1>2, <2>6, <3>2, <3>3
    <3>5. ASSUME NEW i \in 1..g - k
          PROVE  Buffer'[Wrap(readPos' + i - 1)] = stream'[e + i]
      <4>1. \A m \in 1..nread - d : Buffer[Wrap(readPos + m - 1)] = stream[d + m]
        BY <3>1 DEF ScanOK, Holding
      <4>2. k + i \in 1..nread - d /\ d + (k + i) = e + i
        BY <3>2, <3>3
      <4>3. Buffer[Wrap(readPos + (k + i) - 1)] = stream[e + i]
        BY <4>1, <4>2
      <4> QED
        BY <1>2, <2>6, <4>3
    <3>6. Holding(e)'
      <4>1. \A i \in 1..nread' - e : Buffer'[Wrap(readPos' + i - 1)] = stream'[e + i]
        BY <3>4, <3>5
      <4> QED
        BY <3>4, <4>1 DEF Holding, Wrap
    <3>7. ASSUME NEW i \in 1..e, NEW j \in Nat PROVE ~FrameAt(stream, i, j)
      <4>1. CASE i \in 1..d
        BY <3>1, <4>1 DEF HeldBehind, NoFrameBefore
      <4>2. CASE i \notin 1..d
        <5> DEFINE m == i - d - 1
        <5>1. m \in Nat /\ m < k /\ m < g /\ d + 1 + m = i
          BY <3>2, <3>3, <4>2
        <5> HIDE DEF m
        <5>2. ~Complete(m) /\ ~Incomplete(m)
          BY <1>7, <2>2, <5>1 DEF CompleteAt, IncompleteAt
        <5>3. ~FrameAt(stream, d + 1 + m, j)
          BY <3>1, <5>1, <5>2, NoneWhenDropped
        <5> QED
          BY <5>1, <5>3
      <4> QED
        BY <4>1, <4>2
    <3>8. NoFrameBefore(e)'
      <4> QED
        BY <1>2, <3>7 DEF NoFrameBefore
    <3>9. ASSUME NEW i \in 1..nread, NEW j \in 1..nread PROVE ~FrameAt(stream, i, j)
      <4>1. CASE i \in 1..d
        BY <3>1, <4>1 DEF HeldBehind, NoFrameBefore
      <4>2. CASE i \notin 1..d
        <5> DEFINE m == i - d - 1
        <5>1. m \in Nat /\ m < g /\ d + 1 + m = i /\ m \in Held /\ j \in Nat /\ j <= nread
          BY <3>2, <4>2 DEF Held
        <5> HIDE DEF m
        <5>2. ~Complete(m)
          BY <1>7, <5>1 DEF CompleteAt
        <5>3. ~FrameAt(stream, d + 1 + m, j)
          BY <3>1, <5>1, <5>2, FoundWhenReceived
        <5> QED
          BY <5>1, <5>3
      <4> QED
        BY <4>1, <4>2
    <3> QED
      BY <1>2, <3>4, <3>6, <3>8, <3>9 DEF HeldBehind
  <2>8. Scanning' /\ NoneWaits'
    BY <1>2, <2>7 DEF Scanning, NoneWaits
  <2>9. OnlyReceivedFrames'
    BY <2>1 DEF OnlyReceivedFrames
  <2> QED
    BY <2>5, <2>8, <2>9 DEF RxInv
<1> QED
  BY <1>6, <1>7

LEMMA RxInvStep == RxInv /\ [RxNext]_rxVars => RxInv'
<1> SUFFICES ASSUME RxInv, [RxNext]_rxVars PROVE RxInv'
  OBVIOUS
<1>1. CASE Read
  BY <1>1, ReadKeeps
<1>2. CASE ParseIncomeData
  BY <1>2, ParseKeeps
<1>3. CASE Timeout
  <2>1. /\ phase' = "timeout" /\ Buffer' = Buffer /\ readPos' = readPos /\ writePos' = writePos
        /\ userBuf' = userBuf /\ stream' = stream /\ nread' = nread /\ overrun' = overrun
        /\ exchanges' = exchanges
    BY <1>3 DEF Timeout, ringVars
  <2>2. RxTypeOK'
    BY <2>1 DEF RxInv, RxTypeOK, RingTypeOK
  <2>3. Scanning' /\ NoneWaits' /\ OnlyReceivedFrames'
    BY <2>1 DEF Scanning, NoneWaits, OnlyReceivedFrames
  <2> QED
    BY <2>2, <2>3 DEF RxInv
<1>4. CASE INIT_SEND
  <2>1. /\ exchanges < MaxExchanges /\ writePos' = 0 /\ readPos' = 0 /\ Buffer' = Buffer
        /\ userBuf' = <<>> /\ phase' = "read" /\ stream' \in Streams /\ nread' = 0
        /\ overrun' = FALSE /\ exchanges' = exchanges + 1
    BY <1>4 DEF INIT_SEND, cirbuf_flush
  <2>2. 0 \in Slots /\ <<>> \in Seq(Byte)
    BY SizeAssumption DEF Slots
  <2>3. 0 \in 0..Len(stream')
    BY <2>1, FrameAssumption, LenProperties
  <2>4. exchanges' \in 1..MaxExchanges
    BY <2>1, FrameAssumption DEF RxInv, RxTypeOK
  <2>5. RxTypeOK'
    BY <2>1, <2>2, <2>3, <2>4 DEF RxInv, RxTypeOK, RingTypeOK
  <2>6. (RxTypeOK /\ phase = "read" /\ nread = 0 /\ readPos = 0 /\ writePos = 0 => RxInv)'
    BY FreshScan, PTL
  <2> QED
    BY <2>1, <2>5, <2>6
<1>5. CASE UNCHANGED rxVars
  <2>1. /\ Buffer' = Buffer /\ readPos' = readPos /\ writePos' = writePos /\ userBuf' = userBuf
        /\ phase' = phase /\ stream' = stream /\ nread' = nread /\ overrun' = overrun
        /\ exchanges' = exchanges
    BY <1>5 DEF rxVars, ringVars
  <2>2. RxTypeOK' /\ NoneWaits'
    BY <2>1 DEF RxInv, RxTypeOK, RingTypeOK, NoneWaits
  <2>3. \A d \in 0..nread : HeldBehind(d) => HeldBehind(d)'
    BY <2>1 DEF HeldBehind, Holding, NoFrameBefore, cirbuf_get_size, Wrap
  <2>4. Scanning'
    BY <2>1, <2>3 DEF RxInv, Scanning
  <2>5. OnlyReceivedFrames'
    BY <2>1 DEF RxInv, OnlyReceivedFrames, FramesReceived, Received
  <2> QED
    BY <2>2, <2>4, <2>5 DEF RxInv
<1> QED
  BY <1>1, <1>2, <1>3, <1>4, <1>5 DEF RxNext

\* In every behaviour, whatever the device sends and however it is cut.
THEOREM RxInvariant == RxSpec => []RxInv
BY RxInvInit, RxInvStep, PTL DEF RxSpec

\* The positions stay in the ring, and what is handed on is bytes, also when
\* a push has overrun it.
THEOREM RxTyped == RxSpec => []RxTypeOK
<1>1. RxInv => RxTypeOK
  BY DEF RxInv
<1> QED
  BY <1>1, RxInvariant, PTL

\* An exchange hands on a well-formed frame of the bytes of this exchange.
THEOREM HandsOnReceived == RxSpec => []OnlyReceivedFrames
<1>1. RxInv => OnlyReceivedFrames
  BY DEF RxInv
<1> QED
  BY <1>1, RxInvariant, PTL

\* Once a well-formed frame has been read completely, the exchange does not
\* wait for another, as long as no push filled the ring.
THEOREM NotMissed == RxSpec => []FrameNotMissed
<1>1. RxInv => FrameNotMissed
  <2> SUFFICES ASSUME RxInv, phase = "read", ~overrun, NEW p \in FramesReceived
               PROVE  FALSE
    BY DEF FrameNotMissed
  <2>1. p[1] \in 1..nread /\ p[2] \in 1..nread /\ WellFormed(Received, p[1], p[2])
    BY DEF FramesReceived
  <2>2. FrameAt(stream, p[1], p[2])
    BY <2>1, StreamBytes, ReceivedFrame DEF RxInv
  <2> QED
    BY <2>1, <2>2 DEF RxInv, NoneWaits
<1> QED
  BY <1>1, RxInvariant, PTL
===============================================================================
