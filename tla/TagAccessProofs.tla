--------------------------- MODULE TagAccessProofs ---------------------------
(***************************************************************************)
(* Theorems about the length coding and the command functions, for every   *)
(* number of bytes, blocks and pages a request that fits h->sndBuf can     *)
(* have, every buffer of the caller and every answer: the lengths in a     *)
(* request are true, and what a call returns and copies is in its answer.  *)
(***************************************************************************)
EXTENDS TagAccess, SequenceTheorems, TLAPS

(***************************************************************************)
(* What EBV_Set writes, EBV_Get reads, wherever the vector is followed by  *)
(* other bytes.  The bound is the first length the code reads wrongly: the *)
(* fourth group is lost in EBV_Get.                                        *)
(***************************************************************************)

\* A byte is an integer from 0 to 255; so are the bytes of a buffer.
LEMMA ByteRange == ASSUME NEW x \in u8_t PROVE x \in Int /\ 0 <= x /\ x <= 255
BY DEF u8_t

LEMMA BufByte ==
  ASSUME NEW buf \in Seq(u8_t), NEW n \in Nat, n >= 1, n <= Len(buf)
  PROVE  buf[n] \in Int /\ 0 <= buf[n] /\ buf[n] <= 255
<1>1. n \in 1..Len(buf)
  OBVIOUS
<1>2. buf[n] \in u8_t
  BY <1>1
<1> QED
  BY <1>2, ByteRange

\* A group and its continuation bit fit a byte and come apart again.
LEMMA GroupByte ==
  ASSUME NEW g \in 0..127
  PROVE  g \in u8_t /\ 128 + g \in u8_t /\ 128 + g >= 128 /\ (128 + g) % 128 = g
BY DEF u8_t

LEMMA SingleByte == ASSUME NEW g \in 0..127 PROVE g \in u8_t /\ g < 128
BY DEF u8_t

LEMMA Shifted ==
  ASSUME NEW n \in Nat
  PROVE  n % 128 \in 0..127 /\ n \div 128 \in Nat /\ n = (n % 128) + 128 * (n \div 128)
OBVIOUS

\* The last group is what is left when nothing is left above it.
LEMMA LastGroup ==
  ASSUME NEW g \in 0..127, NEW rest \in Nat, NEW n \in Nat, n = g + 128 * rest
  PROVE  (rest = 0 => n \in 0..127) /\ (n < 128 => rest = 0)
OBVIOUS

\* Vectors of one, two and three groups, read from the front of a buffer.
LEMMA OneGroup ==
  ASSUME NEW buf \in Seq(u8_t), Len(buf) >= 1, buf[1] < 128
  PROVE  EbvBytes(buf) = 1 /\ EBV_Get(buf) = buf[1]
<1>1. EbvBytes(buf) = 1
  BY DEF EbvBytes
<1>2. buf[1] \in Int /\ 0 <= buf[1]
  BY BufByte
<1>3. buf[1] % 128 = buf[1]
  BY <1>2
<1> QED
  BY <1>1, <1>2, <1>3 DEF EBV_Get

LEMMA TwoGroups ==
  ASSUME NEW buf \in Seq(u8_t), Len(buf) >= 2, buf[1] >= 128, buf[2] < 128
  PROVE  EbvBytes(buf) = 2 /\ EBV_Get(buf) = (buf[1] % 128) + 128 * buf[2]
<1>1. buf[1] \in Int /\ buf[2] \in Int /\ 0 <= buf[2]
  BY BufByte, LenProperties
<1>2. ~(buf[1] < 128) /\ buf[2] % 128 = buf[2] /\ buf[1] % 128 \in Int
  BY <1>1
<1>3. EbvBytes(buf) = 2
  BY <1>2, LenProperties DEF EbvBytes
<1> QED
  BY <1>1, <1>2, <1>3 DEF EBV_Get

LEMMA ThreeGroups ==
  ASSUME NEW buf \in Seq(u8_t), Len(buf) >= 3,
         buf[1] >= 128, buf[2] >= 128, buf[3] < 128
  PROVE  /\ EbvBytes(buf) = 3
         /\ EBV_Get(buf) = (buf[1] % 128) + 128 * ((buf[2] % 128) + 128 * buf[3])
<1>1. buf[1] \in Int /\ buf[2] \in Int /\ buf[3] \in Int /\ 0 <= buf[3]
  BY BufByte, LenProperties
<1>2. /\ ~(buf[1] < 128) /\ ~(buf[2] < 128)
      /\ buf[3] % 128 = buf[3] /\ buf[2] % 128 \in Int /\ buf[1] % 128 \in Int
  BY <1>1
<1>3. EbvBytes(buf) = 3
  BY <1>2, LenProperties DEF EbvBytes
<1> QED
  BY <1>1, <1>2, <1>3 DEF EBV_Get

\* A vector in front of other bytes: its groups come first.
LEMMA Behind ==
  ASSUME NEW s \in Seq(u8_t), NEW rest \in Seq(u8_t)
  PROVE  /\ s \o rest \in Seq(u8_t) /\ Len(s \o rest) >= Len(s)
         /\ \A n \in 1..Len(s) : (s \o rest)[n] = s[n]
BY ConcatProperties, LenProperties

\* Reading back a length gives the length and ends where the vector ends, for
\* every length below 2^21 and whatever follows it: the lengths EBV_Set puts
\* into requests are the ones a reader with EBV_Get finds there.
THEOREM EbvRoundTrip ==
  ASSUME NEW dw \in Nat, (dw \div 128) \div 128 < 128, NEW rest \in Seq(u8_t)
  PROVE  /\ EbvBytes(EBV_Set(dw) \o rest) = Len(EBV_Set(dw))
         /\ EBV_Get(EBV_Set(dw) \o rest) = dw
<1> DEFINE d2 == dw \div 128
           d3 == d2 \div 128
           g1 == dw % 128
           g2 == d2 % 128
           g3 == d3 % 128
           d4 == d3 \div 128
<1>1. d2 \in Nat /\ d3 \in Nat /\ d4 \in Nat
  BY Shifted
<1>2. g1 \in 0..127 /\ g2 \in 0..127 /\ g3 \in 0..127
  BY Shifted, <1>1
<1>3. dw = g1 + 128 * d2 /\ d2 = g2 + 128 * d3 /\ d3 = g3 + 128 * d4
  BY Shifted, <1>1
<1>4. EBV_Set(dw) = IF d2 = 0 THEN <<dw>>
                    ELSE IF d3 = 0 THEN <<128 + g1, d2>>
                    ELSE IF d4 = 0 THEN <<128 + g1, 128 + g2, d3>>
                    ELSE <<128 + g1, 128 + g2, 128 + g3, d4>>
  BY DEF EBV_Set
<1>5. d3 < 128
  OBVIOUS
<1> HIDE DEF d2, d3, d4, g1, g2, g3
<1>6. d4 = 0 /\ d3 \in 0..127
  BY <1>1, <1>2, <1>3, <1>5, LastGroup
<1>7. CASE d2 = 0
  <2>1. EBV_Set(dw) = <<dw>> /\ dw \in 0..127
    BY <1>1, <1>2, <1>3, <1>4, <1>7, LastGroup
  <2>2. dw \in u8_t /\ dw < 128
    BY <2>1, SingleByte
  <2>3. <<dw>> \in Seq(u8_t) /\ Len(<<dw>>) = 1
    BY <2>2
  <2> DEFINE buf == <<dw>> \o rest
  <2>4. buf \in Seq(u8_t) /\ Len(buf) >= 1 /\ buf[1] = dw
    BY <2>3, Behind
  <2> HIDE DEF buf
  <2>5. EbvBytes(buf) = 1 /\ EBV_Get(buf) = dw
    BY <2>2, <2>4, OneGroup
  <2> QED
    BY <2>1, <2>3, <2>5 DEF buf
<1>8. CASE d2 # 0 /\ d3 = 0
  <2>1. EBV_Set(dw) = <<128 + g1, d2>>
    BY <1>4, <1>8
  <2>2. d2 \in 0..127
    BY <1>1, <1>2, <1>3, <1>8, LastGroup
  <2>3. /\ 128 + g1 \in u8_t /\ 128 + g1 >= 128 /\ (128 + g1) % 128 = g1
        /\ d2 \in u8_t /\ d2 < 128
    BY <1>2, <2>2, GroupByte, SingleByte
  <2>4. <<128 + g1, d2>> \in Seq(u8_t) /\ Len(<<128 + g1, d2>>) = 2
    BY <2>3
  <2> DEFINE buf == <<128 + g1, d2>> \o rest
  <2>5. buf \in Seq(u8_t) /\ Len(buf) >= 2 /\ buf[1] = 128 + g1 /\ buf[2] = d2
    BY <2>4, Behind
  <2> HIDE DEF buf
  <2>6. EbvBytes(buf) = 2 /\ EBV_Get(buf) = ((128 + g1) % 128) + 128 * d2
    BY <2>3, <2>5, TwoGroups
  <2>7. EBV_Get(buf) = dw
    BY <1>3, <2>3, <2>6
  <2> QED
    BY <2>1, <2>4, <2>6, <2>7 DEF buf
<1>9. CASE d2 # 0 /\ d3 # 0
  <2>1. EBV_Set(dw) = <<128 + g1, 128 + g2, d3>>
    BY <1>4, <1>6, <1>9
  <2>2. /\ 128 + g1 \in u8_t /\ 128 + g1 >= 128 /\ (128 + g1) % 128 = g1
        /\ 128 + g2 \in u8_t /\ 128 + g2 >= 128 /\ (128 + g2) % 128 = g2
        /\ d3 \in u8_t
    BY <1>2, <1>6, GroupByte
  <2>3. /\ <<128 + g1, 128 + g2, d3>> \in Seq(u8_t)
        /\ Len(<<128 + g1, 128 + g2, d3>>) = 3
    BY <2>2
  <2> DEFINE buf == <<128 + g1, 128 + g2, d3>> \o rest
  <2>4. /\ buf \in Seq(u8_t) /\ Len(buf) >= 3
        /\ buf[1] = 128 + g1 /\ buf[2] = 128 + g2 /\ buf[3] = d3
    BY <2>3, Behind
  <2> HIDE DEF buf
  <2>5. /\ EbvBytes(buf) = 3
        /\ EBV_Get(buf) = ((128 + g1) % 128) + 128 * (((128 + g2) % 128) + 128 * d3)
    BY <1>5, <2>2, <2>4, ThreeGroups
  <2>6. EBV_Get(buf) = dw
    <3>1. EBV_Get(buf) = g1 + 128 * (g2 + 128 * d3)
      BY <2>2, <2>5
    <3> QED
      BY <1>3, <3>1
  <2> QED
    BY <2>1, <2>3, <2>5, <2>6 DEF buf
<1> QED
  BY <1>7, <1>8, <1>9
-------------------------------------------------------------------------------
(***************************************************************************)
(* The requests.                                                           *)
(***************************************************************************)

\* s is n bytes.
IsBytes(s, n) == s \in Seq(u8_t) /\ n \in Nat /\ Len(s) = n

LEMMA CatBytes ==
  ASSUME NEW s, NEW t, NEW m, NEW n, IsBytes(s, m), IsBytes(t, n)
  PROVE  IsBytes(s \o t, m + n)
BY ConcatProperties DEF IsBytes

LEMMA BytesNat == ASSUME NEW s, NEW n, IsBytes(s, n) PROVE s \in Seq(Nat) /\ Len(s) = n
<1>1. s \in Seq(u8_t) /\ Len(s) = n
  BY DEF IsBytes
<1>2. \A i \in 1..Len(s) : s[i] \in u8_t
  BY <1>1
<1>3. u8_t \subseteq Nat
  BY DEF u8_t
<1>4. \A i \in 1..Len(s) : s[i] \in Nat
  BY <1>2, <1>3
<1> QED
  BY <1>1, <1>4

\* What the PUSH macros push.
LEMMA ByteBytes == ASSUME NEW v \in Int PROVE IsBytes(Byte(v), 1)
BY DEF IsBytes, Byte, u8_t

LEMMA WordBytes == ASSUME NEW v \in Int PROVE IsBytes(Word(v), 2)
<1>1. v % 256 \in u8_t /\ (v \div 256) % 256 \in u8_t
  BY DEF u8_t
<1> QED
  BY <1>1 DEF IsBytes, Word

LEMMA DWordBytes == ASSUME NEW v \in Int PROVE IsBytes(DWord(v), 4)
<1>1. v \div 65536 \in Int
  OBVIOUS
<1>2. IsBytes(Word(v), 2) /\ IsBytes(Word(v \div 65536), 2)
  BY <1>1, WordBytes
<1>3. IsBytes(Word(v) \o Word(v \div 65536), 2 + 2)
  BY <1>2, CatBytes
<1> QED
  BY <1>3 DEF DWord

LEMMA PtrBytes == ASSUME NEW n \in Nat PROVE IsBytes(Ptr(n), n)
<1>1. Ptr(n) \in [1..n -> u8_t]
  BY DEF Ptr, u8_t
<1>2. Ptr(n) \in Seq(u8_t)
  BY <1>1, SeqDef
<1>3. DOMAIN Ptr(n) = 1..n /\ DOMAIN Ptr(n) = 1..Len(Ptr(n)) /\ Len(Ptr(n)) \in Nat
  BY <1>1, <1>2, LenProperties
<1> QED
  BY <1>2, <1>3 DEF IsBytes

LEMMA FlagBytes == ASSUME NEW b \in BOOLEAN PROVE IsBytes(Flag(b), 1)
BY ByteBytes DEF Flag

\* A length is one to four numbers, and up to two groups they are bytes.
LEMMA EbvLength ==
  ASSUME NEW dw \in Nat
  PROVE  EBV_Set(dw) \in Seq(Nat) /\ Len(EBV_Set(dw)) \in 1..4
<1> DEFINE d2 == dw \div 128
           d3 == d2 \div 128
           d4 == d3 \div 128
           g1 == 128 + (dw % 128)
           g2 == 128 + (d2 % 128)
           g3 == 128 + (d3 % 128)
<1>1. d2 \in Nat /\ d3 \in Nat /\ d4 \in Nat
  BY Shifted
<1>2. g1 \in Nat /\ g2 \in Nat /\ g3 \in Nat
  BY <1>1
<1>3. EBV_Set(dw) = IF d2 = 0 THEN <<dw>>
                    ELSE IF d3 = 0 THEN <<g1, d2>>
                    ELSE IF d4 = 0 THEN <<g1, g2, d3>>
                    ELSE <<g1, g2, g3, d4>>
  BY DEF EBV_Set
<1> HIDE DEF d2, d3, d4, g1, g2, g3
<1> QED
  BY <1>1, <1>2, <1>3

LEMMA EbvBytesSet ==
  ASSUME NEW dw \in Nat, dw < 16384
  PROVE  IsBytes(EBV_Set(dw), IF dw < 128 THEN 1 ELSE 2)
<1> DEFINE d2 == dw \div 128
           g1 == 128 + (dw % 128)
<1>1. d2 \in 0..127 /\ (d2 = 0 <=> dw < 128) /\ d2 \div 128 = 0
  OBVIOUS
<1>2. g1 \in 128..255
  OBVIOUS
<1>3. EBV_Set(dw) = IF d2 = 0 THEN <<dw>> ELSE <<g1, d2>>
  BY <1>1 DEF EBV_Set
<1> HIDE DEF d2, g1
<1>4. CASE dw < 128
  <2>1. EBV_Set(dw) = <<dw>> /\ dw \in u8_t
    BY <1>1, <1>3, <1>4 DEF u8_t
  <2> QED
    BY <1>4, <2>1 DEF IsBytes
<1>5. CASE ~(dw < 128)
  <2>1. EBV_Set(dw) = <<g1, d2>> /\ g1 \in u8_t /\ d2 \in u8_t
    BY <1>1, <1>2, <1>3, <1>5 DEF u8_t
  <2> QED
    BY <1>5, <2>1 DEF IsBytes
<1> QED
  BY <1>4, <1>5

\* A request that says, in front of its last bytes, how many they are.
Declaring(cmd, h, rest) == <<cmd, h>> \o EBV_Set(Len(rest)) \o rest
Declares(msg) ==
  \E cmd \in u8_t, h \in u8_t, rest \in Seq(u8_t) :
     Len(rest) < 16384 /\ msg = Declaring(cmd, h, rest)

\* What a request that fits the send buffer is.
RequestOK(c) ==
  /\ c.msg \in Seq(u8_t) /\ Len(c.msg) \in 1..250
  /\ c.msg[1] \in {52, 54} => Declares(c.msg)
  /\ c.access \in 0..80
  /\ c.reads \in {"nothing", "devInf", "handle", "disconnect", "rest", "blocks"}
  /\ c.access # 0 => c.reads \in {"nothing", "rest", "blocks"}
Sound(c) == FitsSndBuf(c.msg) => RequestOK(c)

\* A request without a length, of n numbers: it fits, and they are bytes.
LEMMA PlainSound ==
  ASSUME NEW msg, NEW n \in Nat \ {0}, IsBytes(msg, n), msg[1] \notin {52, 54},
         NEW reads \in {"nothing", "devInf", "handle", "disconnect"}
  PROVE  Sound(Request(msg, 0, reads))
<1> DEFINE c == Request(msg, 0, reads)
<1>1. c.msg = msg /\ c.access = 0 /\ c.reads = reads
  BY DEF Request
<1>2. FitsSndBuf(msg) => Len(msg) \in 1..250
  BY DEF FitsSndBuf, SndBufSize, SIZEOF_FRAMEHEADER, IsBytes
<1> HIDE DEF c
<1>3. FitsSndBuf(c.msg) => RequestOK(c)
  <2>1. c.msg \in Seq(u8_t) /\ c.msg[1] \notin {52, 54} /\ c.access = 0
    BY <1>1 DEF IsBytes
  <2>2. c.reads \in {"nothing", "devInf", "handle", "disconnect", "rest", "blocks"}
    BY <1>1
  <2>3. FitsSndBuf(c.msg) => Len(c.msg) \in 1..250
    BY <1>1, <1>2
  <2> QED
    BY <2>1, <2>2, <2>3 DEF RequestOK
<1> QED
  BY <1>3 DEF Sound, c

\* A request of the form <cmd, h, length, rest> that fits.
LEMMA DeclaredSound ==
  ASSUME NEW cmd \in u8_t, NEW h \in u8_t, NEW dw \in Nat, NEW rest, IsBytes(rest, dw),
         FitsSndBuf(<<cmd, h>> \o EBV_Set(dw) \o rest)
  PROVE  LET msg == <<cmd, h>> \o EBV_Set(dw) \o rest
         IN  msg \in Seq(u8_t) /\ Len(msg) \in 1..250 /\ msg[1] = cmd /\ Declares(msg)
<1> DEFINE msg == <<cmd, h>> \o EBV_Set(dw) \o rest
<1>1. IsBytes(<<cmd, h>>, 2)
  BY DEF IsBytes
<1>2. <<cmd, h>> \in Seq(Nat) /\ Len(<<cmd, h>>) = 2
  BY DEF u8_t
<1>3. rest \in Seq(Nat) /\ Len(rest) = dw
  BY BytesNat
<1>4. EBV_Set(dw) \in Seq(Nat) /\ Len(EBV_Set(dw)) \in 1..4
  BY EbvLength
<1>5. Len(<<cmd, h>> \o EBV_Set(dw)) = 2 + Len(EBV_Set(dw))
      /\ <<cmd, h>> \o EBV_Set(dw) \in Seq(Nat)
  BY <1>2, <1>4, ConcatProperties
<1>6. Len(msg) = 2 + Len(EBV_Set(dw)) + dw
  <2> DEFINE head == <<cmd, h>> \o EBV_Set(dw)
  <2>1. head \in Seq(Nat) /\ Len(head) = 2 + Len(EBV_Set(dw)) /\ msg = head \o rest
    BY <1>5
  <2> HIDE DEF head, msg
  <2>2. Len(head \o rest) = Len(head) + Len(rest)
    BY <1>3, <2>1, ConcatProperties
  <2> QED
    BY <1>3, <2>1, <2>2
<1>7. 4 + Len(msg) + 2 <= 256
  BY DEF FitsSndBuf, SIZEOF_FRAMEHEADER, SndBufSize
<1> DEFINE k == IF dw < 128 THEN 1 ELSE 2
<1>8. dw < 16384 /\ IsBytes(EBV_Set(dw), k) /\ k \in 1..2
  BY <1>4, <1>6, <1>7, EbvBytesSet
<1> HIDE DEF k
<1>9. IsBytes(msg, (2 + k) + dw) /\ IsBytes(<<cmd, h>> \o EBV_Set(dw), 2 + k)
  BY <1>1, <1>8, CatBytes
<1>10. (<<cmd, h>> \o EBV_Set(dw))[1] = cmd
  BY <1>1, <1>8, ConcatProperties DEF IsBytes
<1>11. msg[1] = cmd
  BY <1>8, <1>9, <1>10, ConcatProperties DEF IsBytes
<1>12. Declares(msg)
  <2>1. rest \in Seq(u8_t) /\ Len(rest) = dw
    BY DEF IsBytes
  <2>2. Len(rest) < 16384 /\ msg = Declaring(cmd, h, rest)
    BY <1>8, <2>1 DEF Declaring
  <2> HIDE DEF msg
  <2> QED
    BY <2>1, <2>2 DEF Declares
<1>13. Len(msg) \in 1..250
  <2>1. Len(msg) = (2 + k) + dw
    BY <1>9 DEF IsBytes
  <2> HIDE DEF msg
  <2> QED
    BY <1>7, <1>8, <2>1
<1> QED
  BY <1>9, <1>11, <1>12, <1>13 DEF IsBytes

\* A request to a tag whose parameters have the length it computes.
LEMMA AccessSound ==
  ASSUME hTag \in u8_t, NEW accCode \in 1..80, NEW parmLen, NEW params,
         IsBytes(params, parmLen), NEW reads \in {"nothing", "rest", "blocks"}
  PROVE  Sound(TagAccess(accCode, parmLen, params, reads))
<1> DEFINE c    == TagAccess(accCode, parmLen, params, reads)
           rest == Word(accCode) \o params
           len  == EBV_Set(2 + parmLen)
<1> SUFFICES ASSUME FitsSndBuf(c.msg)
             PROVE  RequestOK(c)
  BY DEF Sound
<1>2. IsBytes(rest, 2 + parmLen) /\ 2 + parmLen \in Nat /\ IsBytes(Word(accCode), 2)
  <2>1. IsBytes(Word(accCode), 2)
    BY WordBytes
  <2>2. IsBytes(rest, 2 + parmLen)
    BY <2>1, CatBytes
  <2> QED
    BY <2>1, <2>2 DEF IsBytes
<1>3. c.msg = ((<<52, hTag>> \o len) \o Word(accCode)) \o params
      /\ c.access = accCode /\ c.reads = reads
  BY DEF TagAccess, Request, PUSH_SEND_TAG_ACCESS_HEAD
<1>4. c.msg = <<52, hTag>> \o len \o rest
  <2>1. len \in Seq(Nat)
    BY <1>2, EbvLength
  <2>2. <<52, hTag>> \in Seq(Nat) /\ Word(accCode) \in Seq(Nat) /\ params \in Seq(Nat)
    <3>1. IsBytes(<<52, hTag>>, 2)
      BY DEF IsBytes, u8_t
    <3> QED
      BY <1>2, <3>1, BytesNat
  <2> HIDE DEF len
  <2>3. <<52, hTag>> \o len \in Seq(Nat)
    BY <2>1, <2>2, ConcatProperties
  <2> DEFINE head == <<52, hTag>> \o len
  <2>4. (head \o Word(accCode)) \o params = head \o (Word(accCode) \o params)
    <3> HIDE DEF head
    <3> QED
      BY <2>2, <2>3, ConcatAssociative
  <2> QED
    BY <1>3, <2>4
<1>5. 52 \in u8_t
  BY DEF u8_t
<1>6. c.msg \in Seq(u8_t) /\ Len(c.msg) \in 1..250 /\ c.msg[1] = 52 /\ Declares(c.msg)
  <2> HIDE DEF rest
  <2>1. FitsSndBuf(<<52, hTag>> \o len \o rest)
    BY <1>4
  <2>2. LET msg == <<52, hTag>> \o len \o rest
        IN  msg \in Seq(u8_t) /\ Len(msg) \in 1..250 /\ msg[1] = 52 /\ Declares(msg)
    BY <1>2, <1>5, <2>1, DeclaredSound
  <2> QED
    BY <1>4, <2>2
<1> HIDE DEF c, rest
<1> QED
  BY <1>3, <1>6 DEF RequestOK

\* The same in two parts, of which the first is the command.
LEMMA PlainPartsSound ==
  ASSUME NEW head, NEW m \in Nat \ {0}, IsBytes(head, m), head[1] \notin {52, 54},
         NEW tail, NEW n, IsBytes(tail, n),
         NEW reads \in {"nothing", "devInf", "handle", "disconnect"}
  PROVE  Sound(Request(head \o tail, 0, reads))
<1>1. IsBytes(head \o tail, m + n)
  BY CatBytes
<1>2. (head \o tail)[1] = head[1]
  BY ConcatProperties DEF IsBytes
<1>3. m + n \in Nat \ {0}
  BY DEF IsBytes
<1> QED
  BY <1>1, <1>2, <1>3, PlainSound

\* The commands without parameters of their own length.
LEMMA DeviceSound ==
  ASSUME hTag \in u8_t
  PROVE  /\ Sound(RL8000_CMD_GetDeviceInfo) /\ Sound(RL8000_CMD_Reset)
         /\ Sound(RL8000_CMD_RFReset) /\ Sound(RL8000_CMD_TagDisconnect)
         /\ Sound(ISO15693_TagConnect(7, 1))
         /\ \A b \in BOOLEAN : Sound(RL8000_CMD_RFSwitch(b))
<1>1. \A v \in {4, 5, 6, 10, 51} : IsBytes(Byte(v), 1) /\ Byte(v)[1] = v
  <2>1. ASSUME NEW v \in {4, 5, 6, 10, 51}
        PROVE  IsBytes(Byte(v), 1) /\ Byte(v)[1] = v
    <3>1. v \in Int /\ v % 256 = v
      OBVIOUS
    <3> QED
      BY <3>1, ByteBytes DEF Byte
  <2> QED
    BY <2>1
<1>2. IsBytes(Byte(0), 1) /\ IsBytes(Byte(hTag), 1)
  BY ByteBytes DEF u8_t
<1>3. \A b \in BOOLEAN : IsBytes(Flag(b), 1)
  BY FlagBytes
<1>4. IsBytes(<<50, 0, 1, 7, 9, 1>>, 6) /\ <<50, 0, 1, 7, 9, 1>>[1] = 50
  <2>1. <<50, 0, 1, 7, 9, 1>> \in Seq(u8_t)
    BY DEF u8_t
  <2> QED
    BY <2>1 DEF IsBytes
<1>5. IsBytes(Ptr(8), 8)
  BY PtrBytes
<1>6. Sound(RL8000_CMD_GetDeviceInfo) /\ Sound(RL8000_CMD_RFReset)
  BY <1>1, PlainSound DEF RL8000_CMD_GetDeviceInfo, RL8000_CMD_RFReset
<1>7. Sound(RL8000_CMD_Reset) /\ Sound(RL8000_CMD_TagDisconnect)
  BY <1>1, <1>2, PlainPartsSound DEF RL8000_CMD_Reset, RL8000_CMD_TagDisconnect
<1>8. \A b \in BOOLEAN : Sound(RL8000_CMD_RFSwitch(b))
  BY <1>1, <1>3, PlainPartsSound DEF RL8000_CMD_RFSwitch
<1>9. Sound(ISO15693_TagConnect(7, 1))
  BY <1>4, <1>5, PlainPartsSound DEF ISO15693_TagConnect
<1> QED
  BY <1>6, <1>7, <1>8, <1>9

\* The commands whose uid or data have the length the caller says.
LEMMA SizedSound ==
  ASSUME hTag \in u8_t, NEW n \in Nat
  PROVE  Sound(ISO14443A_TagConnect(2, n)) /\ Sound(ISO14443p4_Transceive(n))
<1>1. IsBytes(Ptr(n), n)
  BY PtrBytes
<1>2. Sound(ISO14443A_TagConnect(2, n))
  <2> DEFINE head == <<50, 0, 2, 2, n>>
             c    == ISO14443A_TagConnect(2, n)
  <2>1. c = Request(head \o Ptr(n), 0, "handle")
    BY DEF ISO14443A_TagConnect
  <2>2. c.msg = head \o Ptr(n)
    BY <2>1 DEF Request
  <2>3. head \in Seq(Nat) /\ Len(head) = 5 /\ head[1] = 50
    OBVIOUS
  <2>4. Ptr(n) \in Seq(Nat) /\ Len(Ptr(n)) = n
    BY <1>1, BytesNat
  <2>5. ASSUME FitsSndBuf(c.msg) PROVE RequestOK(c)
    <3>1. Len(c.msg) = 5 + n
      <4> HIDE DEF head, c
      <4>1. Len(head \o Ptr(n)) = Len(head) + Len(Ptr(n))
        BY <2>3, <2>4, ConcatProperties
      <4> QED
        BY <2>2, <2>3, <2>4, <4>1
    <3>2. 4 + Len(c.msg) + 2 <= 256
      BY <2>5 DEF FitsSndBuf, SIZEOF_FRAMEHEADER, SndBufSize
    <3>3. n \in 0..255
      <4> HIDE DEF c
      <4> QED
        BY <3>1, <3>2
    <3>4. head \in Seq(u8_t)
      BY <3>3 DEF u8_t
    <3>5. IsBytes(head, 5)
      BY <2>3, <3>4 DEF IsBytes
    <3>6. Sound(c)
      <4> HIDE DEF head
      <4> QED
        BY <1>1, <2>1, <2>3, <3>5, PlainPartsSound
    <3> HIDE DEF c
    <3> QED
      BY <2>5, <3>6 DEF Sound
  <2> HIDE DEF c
  <2>6. Sound(c)
    BY <2>5 DEF Sound
  <2> QED
    BY <2>6 DEF c
<1>3. Sound(ISO14443p4_Transceive(n))
  <2> DEFINE c == ISO14443p4_Transceive(n)
  <2>1. c.msg = <<54, hTag>> \o EBV_Set(n) \o Ptr(n) /\ c.access = 0 /\ c.reads = "rest"
    BY DEF ISO14443p4_Transceive, Request
  <2>2. 54 \in u8_t
    BY DEF u8_t
  <2>3. ASSUME FitsSndBuf(c.msg) PROVE RequestOK(c)
    <3>1. FitsSndBuf(<<54, hTag>> \o EBV_Set(n) \o Ptr(n))
      BY <2>1, <2>3
    <3>2. LET msg == <<54, hTag>> \o EBV_Set(n) \o Ptr(n)
          IN  msg \in Seq(u8_t) /\ Len(msg) \in 1..250 /\ Declares(msg)
      BY <1>1, <2>2, <3>1, DeclaredSound
    <3>3. c.msg \in Seq(u8_t) /\ Len(c.msg) \in 1..250 /\ Declares(c.msg)
      BY <2>1, <3>2
    <3> HIDE DEF c
    <3> QED
      BY <2>1, <3>3 DEF RequestOK
  <2> HIDE DEF c
  <2>4. Sound(c)
    BY <2>3 DEF Sound
  <2> QED
    BY <2>4 DEF c
<1> QED
  BY <1>2, <1>3

LEMMA NoBytes == IsBytes(<<>>, 0)
BY EmptySeq DEF IsBytes

\* The optional key and authentication have the lengths that are counted.
LEMMA KeyBytesCounted ==
  ASSUME NEW k \in {0, 1}, NEW n \in Nat
  PROVE  IsBytes(KeyBytes(k, n), KeyLen(k, n))
BY PtrBytes, NoBytes DEF KeyBytes, KeyLen

LEMMA AuthCounted ==
  ASSUME NEW b \in BOOLEAN, NEW k \in {0, 1}
  PROVE  AuthLen(b, k) \in Nat /\ IsBytes(Auth(b, k), 1 + AuthLen(b, k))
<1>1. IsBytes(KeyBytes(k, 6), KeyLen(k, 6)) /\ KeyLen(k, 6) \in Nat
  BY KeyBytesCounted DEF IsBytes
<1>2. IsBytes(Byte(1), 1) /\ IsBytes(Byte(96), 1) /\ IsBytes(Byte(k), 1) /\ IsBytes(Byte(0), 1)
  BY ByteBytes
<1>3. CASE b
  <2>1. IsBytes(Byte(1) \o Byte(96), 1 + 1)
    BY <1>2, CatBytes
  <2>2. IsBytes(Byte(1) \o Byte(96) \o Byte(k), (1 + 1) + 1)
    BY <1>2, <2>1, CatBytes
  <2>3. IsBytes(Byte(1) \o Byte(96) \o Byte(k) \o KeyBytes(k, 6), ((1 + 1) + 1) + KeyLen(k, 6))
    BY <1>1, <2>2, CatBytes
  <2>4. ((1 + 1) + 1) + KeyLen(k, 6) = 1 + AuthLen(b, k) /\ AuthLen(b, k) \in Nat
    BY <1>1, <1>3 DEF AuthLen
  <2> QED
    BY <1>3, <2>3, <2>4 DEF Auth
<1>4. CASE ~b
  BY <1>2, <1>4 DEF Auth, AuthLen
<1> QED
  BY <1>3, <1>4

\* The commands to a tag: their parameters have the length in the header.
LEMMA Iso15693Sound ==
  ASSUME hTag \in u8_t, NEW n \in Nat, NEW b \in BOOLEAN
  PROVE  /\ Sound(ISO15693_Reset) /\ Sound(ISO15693_LockAFI) /\ Sound(ISO15693_LockDSFID)
         /\ Sound(ISO15693_GetTagSysInfor)
         /\ Sound(ISO15693_WriteAFI(0)) /\ Sound(ISO15693_WriteDSFID(0))
         /\ Sound(ISO15693_ReadSingleBlock(b, 258))
         /\ Sound(ISO15693_WriteSingleBlock(258, n))
         /\ Sound(ISO15693_ReadMultipleBlocks(b, 258, 1))
         /\ Sound(ISO15693_WriteMultipleBlocks(258, 1, n))
         /\ Sound(ISO15693_LockMultipleBlocks(258, 1))
         /\ Sound(ISO15693_GetBlockSecuritySta(258, 1))
<1>1. IsBytes(Byte(0), 1) /\ IsBytes(Flag(b), 1) /\ IsBytes(Ptr(n), n)
  BY ByteBytes, FlagBytes, PtrBytes
<1>2. IsBytes(Word(258), 2) /\ IsBytes(Word(1), 2)
  BY WordBytes
<1>3. Sound(ISO15693_Reset) /\ Sound(ISO15693_LockAFI) /\ Sound(ISO15693_LockDSFID)
      /\ Sound(ISO15693_GetTagSysInfor)
  BY NoBytes, AccessSound
  DEF ISO15693_Reset, ISO15693_LockAFI, ISO15693_LockDSFID, ISO15693_GetTagSysInfor
<1>4. Sound(ISO15693_WriteAFI(0)) /\ Sound(ISO15693_WriteDSFID(0))
  BY <1>1, AccessSound DEF ISO15693_WriteAFI, ISO15693_WriteDSFID
<1>5. Sound(ISO15693_ReadSingleBlock(b, 258))
  <2>1. IsBytes(Flag(b) \o Word(258), 1 + 2)
    BY <1>1, <1>2, CatBytes
  <2> QED
    BY <2>1, AccessSound DEF ISO15693_ReadSingleBlock
<1>6. Sound(ISO15693_WriteSingleBlock(258, n))
  <2>1. IsBytes(Word(258) \o Ptr(n), 2 + n)
    BY <1>1, <1>2, CatBytes
  <2>2. Sound(TagAccess(80, 2 + n, Word(258) \o Ptr(n), "nothing"))
    BY <2>1, AccessSound
  <2> QED
    BY <2>2 DEF ISO15693_WriteSingleBlock
<1>7. Sound(ISO15693_ReadMultipleBlocks(b, 258, 1))
  <2>1. IsBytes(Flag(b) \o Word(258), 1 + 2)
    BY <1>1, <1>2, CatBytes
  <2>2. IsBytes(Flag(b) \o Word(258) \o Word(1), (1 + 2) + 2)
    BY <1>2, <2>1, CatBytes
  <2> QED
    BY <2>2, AccessSound DEF ISO15693_ReadMultipleBlocks
<1>8. IsBytes(Word(258) \o Word(1), 2 + 2)
  BY <1>2, CatBytes
<1>9. Sound(ISO15693_WriteMultipleBlocks(258, 1, n))
  <2>1. IsBytes(Word(258) \o Word(1) \o Ptr(n), (2 + 2) + n)
    BY <1>1, <1>8, CatBytes
  <2>2. (2 + 2) + n = 4 + n
    OBVIOUS
  <2> QED
    BY <2>1, <2>2, AccessSound DEF ISO15693_WriteMultipleBlocks
<1>10. Sound(ISO15693_LockMultipleBlocks(258, 1)) /\ Sound(ISO15693_GetBlockSecuritySta(258, 1))
  BY <1>8, AccessSound DEF ISO15693_LockMultipleBlocks, ISO15693_GetBlockSecuritySta
<1> QED
  BY <1>3, <1>4, <1>5, <1>6, <1>7, <1>9, <1>10

LEMMA MifareS50Sound ==
  ASSUME hTag \in u8_t, NEW n \in Nat, NEW b \in BOOLEAN, NEW k \in {0, 1}
  PROVE  /\ Sound(MifareS50_Authenticate(1, k))
         /\ Sound(MifareS50_Read(1, 1, b, k)) /\ Sound(MifareS50_Write(1, n, b, k))
         /\ Sound(MifareS50_Increment(1, 65536, b)) /\ Sound(MifareS50_Decrement(1, 65536, b))
         /\ Sound(MifareS50_Restore(1)) /\ Sound(MifareS50_Transfer(1))
<1>1. /\ IsBytes(Byte(0), 1) /\ IsBytes(Byte(1), 1) /\ IsBytes(Byte(96), 1)
      /\ IsBytes(Byte(k), 1) /\ IsBytes(Byte(n), 1) /\ IsBytes(Flag(b), 1)
  BY ByteBytes, FlagBytes
<1>2. IsBytes(KeyBytes(k, 6), KeyLen(k, 6)) /\ KeyLen(k, 6) \in Nat
  BY KeyBytesCounted DEF IsBytes
<1>3. AuthLen(b, k) \in Nat /\ IsBytes(Auth(b, k), 1 + AuthLen(b, k))
  BY AuthCounted
<1>4. IsBytes(DWord(65536), 4) /\ IsBytes(DWord(0), 4)
  BY DWordBytes
<1>5. Sound(MifareS50_Authenticate(1, k))
  <2>1. IsBytes(Byte(1) \o Byte(96), 1 + 1)
    BY <1>1, CatBytes
  <2>2. IsBytes(Byte(1) \o Byte(96) \o Byte(k), (1 + 1) + 1)
    BY <1>1, <2>1, CatBytes
  <2>3. IsBytes(Byte(1) \o Byte(96) \o Byte(k) \o KeyBytes(k, 6), ((1 + 1) + 1) + KeyLen(k, 6))
    BY <1>2, <2>2, CatBytes
  <2>4. ((1 + 1) + 1) + KeyLen(k, 6) = 3 + KeyLen(k, 6)
    BY <1>2
  <2> QED
    BY <2>3, <2>4, AccessSound DEF MifareS50_Authenticate
<1>6. Sound(MifareS50_Read(1, 1, b, k))
  <2>1. IsBytes(Byte(1) \o Byte(1), 1 + 1)
    BY <1>1, CatBytes
  <2>2. IsBytes(Byte(1) \o Byte(1) \o Auth(b, k), (1 + 1) + (1 + AuthLen(b, k)))
    BY <1>3, <2>1, CatBytes
  <2>3. (1 + 1) + (1 + AuthLen(b, k)) = 3 + AuthLen(b, k)
    BY <1>3
  <2> QED
    BY <2>2, <2>3, AccessSound DEF MifareS50_Read
<1>7. Sound(MifareS50_Write(1, n, b, k))
  <2>1. IsBytes(Byte(1) \o Byte(n), 1 + 1)
    BY <1>1, CatBytes
  <2>2. IsBytes(Byte(1) \o Byte(n) \o Auth(b, k), (1 + 1) + (1 + AuthLen(b, k)))
    BY <1>3, <2>1, CatBytes
  <2>3. 16 * n \in Nat
    OBVIOUS
  <2>4. IsBytes(Byte(1) \o Byte(n) \o Auth(b, k) \o Ptr(16 * n),
                ((1 + 1) + (1 + AuthLen(b, k))) + 16 * n)
    BY <2>2, <2>3, PtrBytes, CatBytes
  <2>5. ((1 + 1) + (1 + AuthLen(b, k))) + 16 * n = 3 + 16 * n + AuthLen(b, k)
    BY <1>3, <2>3
  <2> QED
    BY <2>4, <2>5, AccessSound DEF MifareS50_Write
<1>8. Sound(MifareS50_Increment(1, 65536, b)) /\ Sound(MifareS50_Decrement(1, 65536, b))
  <2>1. IsBytes(Byte(1) \o DWord(65536), 1 + 4)
    BY <1>1, <1>4, CatBytes
  <2>2. IsBytes(Byte(1) \o DWord(65536) \o Flag(b), (1 + 4) + 1)
    BY <1>1, <2>1, CatBytes
  <2> QED
    BY <2>2, AccessSound DEF MifareS50_Increment, MifareS50_Decrement
<1>9. Sound(MifareS50_Restore(1))
  <2>1. IsBytes(Byte(1) \o DWord(0), 1 + 4)
    BY <1>1, <1>4, CatBytes
  <2>2. IsBytes(Byte(1) \o DWord(0) \o Byte(0), (1 + 4) + 1)
    BY <1>1, <2>1, CatBytes
  <2> QED
    BY <2>2, AccessSound DEF MifareS50_Restore
<1>10. Sound(MifareS50_Transfer(1))
  BY <1>1, AccessSound DEF MifareS50_Transfer
<1> QED
  BY <1>5, <1>6, <1>7, <1>8, <1>9, <1>10

LEMMA UltralightSound ==
  ASSUME hTag \in u8_t, NEW n \in Nat, NEW k \in {0, 1}
  PROVE  /\ Sound(MFUltralight_Authenticate(k)) /\ Sound(MFUltralight_ReadPages(258, 1))
         /\ Sound(MFUltralight_WritePages(258, n)) /\ Sound(MFUltralight_UpdatePassword)
         /\ Sound(MFUltralight_UpdateAuthCfg)
<1>1. Sound(MFUltralight_Authenticate(k))
  <2>1. IsBytes(KeyBytes(k, 16), KeyLen(k, 16)) /\ IsBytes(Byte(k), 1)
    BY KeyBytesCounted, ByteBytes
  <2>2. IsBytes(Byte(k) \o KeyBytes(k, 16), 1 + KeyLen(k, 16))
    BY <2>1, CatBytes
  <2> QED
    BY <2>2, AccessSound DEF MFUltralight_Authenticate
<1>2. Sound(MFUltralight_ReadPages(258, 1))
  <2>1. IsBytes(Word(258) \o Word(1), 2 + 2)
    BY WordBytes, CatBytes
  <2> QED
    BY <2>1, AccessSound DEF MFUltralight_ReadPages
<1>3. Sound(MFUltralight_WritePages(258, n))
  <2>1. IsBytes(Word(258) \o Word(n), 2 + 2)
    BY WordBytes, CatBytes
  <2>2. 4 * n \in Nat
    OBVIOUS
  <2>3. IsBytes(Word(258) \o Word(n) \o Ptr(4 * n), (2 + 2) + 4 * n)
    BY <2>1, <2>2, PtrBytes, CatBytes
  <2>4. (2 + 2) + 4 * n = 4 + 4 * n
    BY <2>2
  <2> QED
    BY <2>3, <2>4, AccessSound DEF MFUltralight_WritePages
<1>4. Sound(MFUltralight_UpdatePassword)
  BY PtrBytes, AccessSound DEF MFUltralight_UpdatePassword
<1>5. Sound(MFUltralight_UpdateAuthCfg)
  <2>1. IsBytes(<<0, 0>>, 2)
    BY DEF IsBytes, u8_t
  <2> QED
    BY <2>1, AccessSound DEF MFUltralight_UpdateAuthCfg
<1> QED
  BY <1>1, <1>2, <1>3, <1>4, <1>5

\* Every call that fits: its request is bytes, and what it declares is true.
LEMMA CallsSound ==
  ASSUME hTag \in u8_t, NEW c \in Calls
  PROVE  Sound(c)
<1> USE AccessAssumption
<1>0. Counts \subseteq Nat
  OBVIOUS
<1> PICK n0 \in Nat, b0 \in BOOLEAN, k0 \in {0, 1} : TRUE
  OBVIOUS
<1>1. CASE c \in DeviceCalls
  <2>1. \A n \in Counts : Sound(ISO14443A_TagConnect(2, n)) /\ Sound(ISO14443p4_Transceive(n))
    BY <1>0, SizedSound
  <2> QED
    BY <1>1, <2>1, DeviceSound DEF DeviceCalls
<1>2. CASE c \in ISO15693Calls
  <2>1. /\ Sound(ISO15693_Reset) /\ Sound(ISO15693_LockAFI) /\ Sound(ISO15693_LockDSFID)
        /\ Sound(ISO15693_GetTagSysInfor)
        /\ Sound(ISO15693_WriteAFI(0)) /\ Sound(ISO15693_WriteDSFID(0))
        /\ Sound(ISO15693_LockMultipleBlocks(258, 1))
        /\ Sound(ISO15693_GetBlockSecuritySta(258, 1))
    BY Iso15693Sound
  <2>2. \A b \in BOOLEAN : /\ Sound(ISO15693_ReadSingleBlock(b, 258))
                           /\ Sound(ISO15693_ReadMultipleBlocks(b, 258, 1))
    BY Iso15693Sound
  <2>3. \A n \in Counts : /\ Sound(ISO15693_WriteSingleBlock(258, n))
                          /\ Sound(ISO15693_WriteMultipleBlocks(258, 1, n))
    BY <1>0, Iso15693Sound
  <2> QED
    BY <1>2, <2>1, <2>2, <2>3 DEF ISO15693Calls
<1>3. CASE c \in MifareS50Calls
  <2>1. Sound(MifareS50_Restore(1)) /\ Sound(MifareS50_Transfer(1))
    BY MifareS50Sound
  <2>2. \A b \in BOOLEAN : /\ Sound(MifareS50_Increment(1, 65536, b))
                           /\ Sound(MifareS50_Decrement(1, 65536, b))
    BY MifareS50Sound
  <2>3. \A k \in {0, 1} : Sound(MifareS50_Authenticate(1, k))
    BY MifareS50Sound
  <2>4. \A b \in BOOLEAN, k \in {0, 1} :
           /\ Sound(MifareS50_Read(1, 1, b, k))
           /\ \A n \in Counts : Sound(MifareS50_Write(1, n, b, k))
    BY <1>0, MifareS50Sound
  <2> QED
    BY <1>3, <2>1, <2>2, <2>3, <2>4 DEF MifareS50Calls
<1>4. CASE c \in MFUltralightCalls
  <2>1. /\ Sound(MFUltralight_ReadPages(258, 1)) /\ Sound(MFUltralight_UpdatePassword)
        /\ Sound(MFUltralight_UpdateAuthCfg)
    BY UltralightSound
  <2>2. \A k \in {0, 1} : Sound(MFUltralight_Authenticate(k))
    BY UltralightSound
  <2>3. \A n \in Counts : Sound(MFUltralight_WritePages(258, n))
    BY <1>0, UltralightSound
  <2> QED
    BY <1>4, <2>1, <2>2, <2>3 DEF MFUltralightCalls
<1> QED
  BY <1>1, <1>2, <1>3, <1>4 DEF Calls
-------------------------------------------------------------------------------
(***************************************************************************)
(* The frame around a request.                                             *)
(***************************************************************************)

LEMMA AtMostMsg == ASSUME NEW k \in 1..250 PROVE k \in Nat /\ 1 <= k /\ k >= 1 /\ k <= 250
OBVIOUS

LEMMA AtMostFour == ASSUME NEW k \in 1..4 PROVE k \in Nat /\ 1 <= k /\ k <= 4
OBVIOUS

\* What stands between a head and a tail.
LEMMA Middle ==
  ASSUME NEW a \in Seq(u8_t), NEW m \in Seq(u8_t), NEW t \in Seq(u8_t), Len(m) >= 1
  PROVE  /\ a \o m \o t \in Seq(u8_t) /\ Len(a \o m \o t) = Len(a) + Len(m) + Len(t)
         /\ SubSeq(a \o m \o t, Len(a) + 1, Len(a) + Len(m)) = m
<1> DEFINE am == a \o m
           lo == Len(a) + 1
           hi == Len(a) + Len(m)
<1>1. am \in Seq(u8_t) /\ Len(am) = Len(a) + Len(m)
  BY ConcatProperties
<1>2. Len(a) \in Nat /\ Len(m) \in Nat /\ Len(t) \in Nat
  BY LenProperties
<1>3. lo \in 1..Len(am) /\ hi \in 1..Len(am)
  BY <1>1, <1>2
<1>4. lo \in Len(a) + 1..Len(a) + Len(m) /\ hi \in Len(a) + 1..Len(a) + Len(m)
      /\ lo - Len(a) = 1 /\ hi - Len(a) = Len(m)
  BY <1>2
<1> HIDE DEF lo, hi
<1>5. SubSeq(am, lo, hi) = SubSeq(m, 1, Len(m))
  <2>1. SubSeq(a \o m, lo, hi) = SubSeq(m, lo - Len(a), hi - Len(a))
    BY <1>4, SubSeqOfConcat2
  <2> QED
    BY <1>4, <2>1
<1> HIDE DEF am
<1>6. SubSeq(am \o t, lo, hi) = SubSeq(am, lo, hi)
  BY <1>1, <1>3, SubSeqOfConcat1
<1>7. SubSeq(m, 1, Len(m)) = m
  BY SubSeqFull
<1>8. am \o t \in Seq(u8_t) /\ Len(am \o t) = Len(am) + Len(t)
  BY <1>1, ConcatProperties
<1> QED
  BY <1>1, <1>5, <1>6, <1>7, <1>8 DEF am, lo, hi

LEMMA Regroup ==
  ASSUME NEW x1 \in Seq(u8_t), NEW x2 \in Seq(u8_t), NEW x3 \in Seq(u8_t),
         NEW x4 \in Seq(u8_t)
  PROVE  x1 \o (x2 \o x3 \o x4) = (x1 \o x2) \o (x3 \o x4)
<1> DEFINE y == x3 \o x4
<1>1. y \in Seq(u8_t)
  BY ConcatProperties
<1>2. (x2 \o x3) \o x4 = x2 \o y
  BY ConcatAssociative
<1> HIDE DEF y
<1>3. (x1 \o x2) \o y = x1 \o (x2 \o y)
  BY <1>1, ConcatAssociative
<1>4. x1 \o (x2 \o x3 \o x4) = (x1 \o x2) \o y
  BY <1>2, <1>3
<1> QED
  BY <1>4 DEF y

LEMMA FrameLenByte ==
  ASSUME NEW k \in 1..250
  PROVE  FrameLen(SIZEOF_FRAMEHEADER + k) = k + 5 /\ FrameLen(SIZEOF_FRAMEHEADER + k) \in u8_t
BY DEF FrameLen, SIZEOF_FRAMEHEADER, u8_t

\* The frame of a request that fits: its length byte does not wrap.
LEMMA FrameOK ==
  ASSUME NEW msg \in Seq(u8_t), Len(msg) \in 1..250
  PROVE  /\ Frame(msg) \in Seq(u8_t) /\ Len(Frame(msg)) = Len(msg) + 6
         /\ Frame(msg)[2] = Len(msg) + 5
<1> DEFINE n    == FrameLen(SIZEOF_FRAMEHEADER + Len(msg))
           head == <<250, n, 0, 0>>
           tail == <<0, 0>>
<1>1. n = Len(msg) + 5 /\ n \in u8_t
  BY FrameLenByte
<1>2. Frame(msg) = head \o msg \o tail
  BY DEF Frame
<1> HIDE DEF n
<1>3. head \in Seq(u8_t) /\ Len(head) = 4 /\ head[2] = n
  <2>1. 250 \in u8_t /\ 0 \in u8_t
    BY DEF u8_t
  <2> QED
    BY <1>1, <2>1
<1>4. tail \in Seq(u8_t) /\ Len(tail) = 2
  BY DEF u8_t
<1> HIDE DEF head, tail
<1>5. /\ head \o msg \o tail \in Seq(u8_t)
      /\ Len(head \o msg \o tail) = Len(head) + Len(msg) + Len(tail)
  <2>1. Len(msg) >= 1
    BY AtMostMsg
  <2> QED
    BY <1>3, <1>4, <2>1, Middle
<1> DEFINE hm == head \o msg
<1>6. hm \in Seq(u8_t) /\ Len(hm) = 4 + Len(msg) /\ hm[2] = n
  <2>1. hm \in Seq(u8_t) /\ Len(hm) = Len(head) + Len(msg)
    BY <1>3, ConcatProperties
  <2>2. 2 \in 1..Len(head)
    BY <1>3
  <2>3. hm[2] = head[2]
    BY <1>3, <2>2, Behind
  <2> QED
    BY <1>3, <2>1, <2>3
<1> HIDE DEF hm
<1>7. (hm \o tail)[2] = n
  <2>1. 2 \in 1..Len(hm)
    BY <1>6
  <2> QED
    BY <1>4, <1>6, <2>1, Behind
<1> DEFINE ms == Frame(msg)
<1>8. ms = hm \o tail
  BY <1>2 DEF hm
<1>9. ms \in Seq(u8_t) /\ Len(ms) = 4 + Len(msg) + 2 /\ ms[2] = n
  BY <1>3, <1>4, <1>5, <1>7, <1>8 DEF hm
<1> HIDE DEF ms
<1>10. ms \in Seq(u8_t) /\ Len(ms) = Len(msg) + 6 /\ ms[2] = Len(msg) + 5
  BY <1>1, <1>9
<1> QED
  BY <1>10 DEF ms

\* The bytes behind command and handle, up to the checksum.
Body(buf)     == SubSeq(buf, SIZEOF_FRAMEHEADER + 3, Len(buf) - 2)
Counted(rest) == EBV_Set(Len(rest)) \o rest
LEMMA FrameBody ==
  ASSUME NEW msg \in Seq(u8_t), Len(msg) \in 1..250, Declares(msg)
  PROVE  \E rest \in Seq(u8_t) : Len(rest) < 16384 /\ Body(Frame(msg)) = Counted(rest)
<1>1. PICK cmd \in u8_t, h \in u8_t, rest \in Seq(u8_t) :
         Len(rest) < 16384 /\ msg = Declaring(cmd, h, rest)
  BY DEF Declares
<1> DEFINE ebv  == EBV_Set(Len(rest))
           n    == FrameLen(SIZEOF_FRAMEHEADER + Len(msg))
           f    == <<250, n, 0, 0>>
           two  == <<cmd, h>>
           tail == <<0, 0>>
           body == ebv \o rest
           head == f \o two
<1>2. ebv \in Seq(u8_t) /\ Len(ebv) \in 1..4
  <2>1. Len(rest) \in Nat
    BY LenProperties
  <2> QED
    BY <1>1, <2>1, EbvBytesSet, EbvLength DEF IsBytes
<1>3. n \in u8_t
  BY FrameLenByte
<1>4. Frame(msg) = f \o msg \o tail /\ msg = two \o ebv \o rest
  BY <1>1 DEF Frame, Declaring
<1> HIDE DEF ebv, n
<1>5. f \in Seq(u8_t) /\ Len(f) = 4 /\ two \in Seq(u8_t) /\ Len(two) = 2
      /\ tail \in Seq(u8_t) /\ Len(tail) = 2
  <2>1. 250 \in u8_t /\ 0 \in u8_t
    BY DEF u8_t
  <2> QED
    BY <1>3, <2>1
<1> HIDE DEF f, two, tail
<1>6. body \in Seq(u8_t) /\ Len(body) = Len(ebv) + Len(rest)
  BY <1>2, ConcatProperties
<1>7. head \in Seq(u8_t) /\ Len(head) = 6
  <2>1. head \in Seq(u8_t) /\ Len(head) = Len(f) + Len(two)
    BY <1>5, ConcatProperties
  <2> HIDE DEF head
  <2> QED
    BY <1>5, <2>1
<1>8. f \o msg = head \o body
  <2>1. f \o (two \o ebv \o rest) = (f \o two) \o (ebv \o rest)
    <3>1. f \in Seq(u8_t) /\ two \in Seq(u8_t) /\ ebv \in Seq(u8_t) /\ rest \in Seq(u8_t)
      BY <1>2, <1>5
    <3> HIDE DEF body, head
    <3> QED
      BY <3>1, Regroup, SMTT(90)
  <2> QED
    BY <1>4, <2>1
<1>9. Len(body) \in Nat /\ Len(body) >= 1
  <2> HIDE DEF body
  <2>1. Len(rest) \in Nat
    BY LenProperties
  <2>2. Len(body) = Len(ebv) + Len(rest) /\ Len(ebv) \in Nat /\ 1 <= Len(ebv)
    BY <1>2, <1>6, AtMostFour
  <2> QED
    BY <2>1, <2>2
<1> HIDE DEF body, head
<1>10. /\ Len(head \o body \o tail) = Len(head) + Len(body) + Len(tail)
       /\ SubSeq(head \o body \o tail, Len(head) + 1, Len(head) + Len(body)) = body
  BY <1>5, <1>6, <1>7, <1>9, Middle
<1> DEFINE ms == Frame(msg)
<1>11. ms = head \o body \o tail
  BY <1>4, <1>8
<1> HIDE DEF ms
<1>12. Len(ms) = Len(head) + Len(body) + Len(tail)
  BY <1>10, <1>11
<1>13. SIZEOF_FRAMEHEADER + 3 = Len(head) + 1 /\ Len(ms) - 2 = Len(head) + Len(body)
  BY <1>5, <1>7, <1>9, <1>12 DEF SIZEOF_FRAMEHEADER
<1>14. SubSeq(ms, SIZEOF_FRAMEHEADER + 3, Len(ms) - 2) = body
  BY <1>10, <1>11, <1>13
<1>15. Body(Frame(msg)) = Counted(rest)
  BY <1>14 DEF body, ebv, ms, Body, Counted
<1>16. Len(rest) < 16384 /\ rest \in Seq(u8_t)
  BY <1>1
<1> QED
  BY <1>15, <1>16
-------------------------------------------------------------------------------
(***************************************************************************)
(* The answers.                                                            *)
(***************************************************************************)

\* What stands behind a head.
LEMMA Behindmost ==
  ASSUME NEW x \in Seq(u8_t), NEW y \in Seq(u8_t)
  PROVE  SubSeq(x \o y, Len(x) + 1, Len(x) + Len(y)) = y
<1>1. Len(x) \in Nat /\ Len(y) \in Nat
  BY LenProperties
<1>2. CASE Len(y) = 0
  <2>1. y = <<>>
    BY <1>2, EmptySeq
  <2>2. Len(x) + 1 \in Int /\ Len(x) + Len(y) \in Int /\ Len(x) + Len(y) < Len(x) + 1
    BY <1>1, <1>2
  <2> QED
    BY <2>1, <2>2, SubSeqEmpty
<1>3. CASE Len(y) # 0
  <2> DEFINE lo == Len(x) + 1
             hi == Len(x) + Len(y)
  <2>1. lo \in Len(x) + 1..Len(x) + Len(y) /\ hi \in Len(x) + 1..Len(x) + Len(y)
        /\ lo - Len(x) = 1 /\ hi - Len(x) = Len(y)
    BY <1>1, <1>3
  <2> HIDE DEF lo, hi
  <2>2. SubSeq(x \o y, lo, hi) = SubSeq(y, lo - Len(x), hi - Len(x))
    BY <2>1, SubSeqOfConcat2
  <2>3. SubSeq(y, 1, Len(y)) = y
    BY SubSeqFull
  <2>4. SubSeq(x \o y, lo, hi) = y
    BY <2>1, <2>2, <2>3
  <2> QED
    BY <2>4 DEF lo, hi
<1> QED
  BY <1>2, <1>3

\* An answer: a length, an access code, a status and data.
Ans(dw, code, sta, data) == EBV_Set(dw) \o Word(code) \o Byte(sta) \o data
Ebvs(dw) == Len(EBV_Set(dw))

ReadsAs(ans, dw, code, sta, data) ==
  /\ ans \in Seq(u8_t) /\ Len(ans) = Ebvs(dw) + 3 + Len(data)
  /\ Ebvs(dw) \in Nat \ {0}
  /\ EbvBytes(ans) = Ebvs(dw) /\ EBV_Get(ans) = dw
  /\ SubSeq(ans, Ebvs(dw) + 1, Ebvs(dw) + 2) = Word(code)
  /\ ans[Ebvs(dw) + 3] = sta
  /\ SubSeq(ans, Ebvs(dw) + 4, Len(ans)) = data

LEMMA AnswerRead ==
  ASSUME NEW dw \in Nat, dw < 16384, NEW code \in Nat, NEW sta \in u8_t,
         NEW data \in Seq(u8_t)
  PROVE  ReadsAs(Ans(dw, code, sta, data), dw, code, sta, data)
<1> DEFINE e   == EBV_Set(dw)
           w   == Word(code)
           b   == Byte(sta)
           ew  == e \o w
           ewb == ew \o b
           bd  == b \o data
           wbd == w \o bd
           ans == Ans(dw, code, sta, data)
<1>1. e \in Seq(u8_t) /\ Len(e) \in Nat \ {0}
  <2>1. e \in Seq(u8_t) /\ Len(e) = (IF dw < 128 THEN 1 ELSE 2)
    BY EbvBytesSet DEF IsBytes
  <2> HIDE DEF e
  <2> QED
    BY <2>1
<1>2. w \in Seq(u8_t) /\ Len(w) = 2
  BY WordBytes DEF IsBytes
<1>3. b \in Seq(u8_t) /\ Len(b) = 1 /\ b[1] = sta
  <2>1. b = <<sta>>
    BY DEF Byte, u8_t
  <2>2. sta \in u8_t
    OBVIOUS
  <2> HIDE DEF b
  <2> QED
    BY <2>1, <2>2
<1>4. ans = ewb \o data
  BY DEF Ans
<1>5. Ebvs(dw) = Len(e)
  BY DEF Ebvs
<1>6. Len(data) \in Nat
  BY LenProperties
<1> HIDE DEF e, w, b
<1>0. e \in Seq(u8_t) /\ w \in Seq(u8_t) /\ b \in Seq(u8_t)
  BY <1>1, <1>2, <1>3
<1>7. ew \in Seq(u8_t) /\ Len(ew) = Len(e) + Len(w)
  BY <1>0, ConcatProperties
<1>70. ew \in Seq(u8_t)
  BY <1>7
<1>8. bd \in Seq(u8_t)
  BY <1>3, ConcatProperties
<1>9. wbd \in Seq(u8_t)
  BY <1>2, <1>8, ConcatProperties DEF wbd
<1>10. /\ ewb \in Seq(u8_t) /\ Len(ewb) = Len(ew) + Len(b)
       /\ ewb[Len(ew) + 1] = b[1]
  <2> HIDE DEF ew
  <2>1. /\ ewb \in Seq(u8_t) /\ Len(ewb) = Len(ew) + Len(b)
        /\ \A i \in 1..Len(ew) + Len(b) : ewb[i] = IF i <= Len(ew) THEN ew[i] ELSE b[i - Len(ew)]
    BY <1>0, <1>70, ConcatProperties
  <2>2. Len(ew) \in Nat
    BY <1>7, LenProperties
  <2> HIDE DEF ewb
  <2>3. Len(ew) + 1 \in 1..Len(ew) + Len(b) /\ ~(Len(ew) + 1 <= Len(ew)) /\ Len(ew) + 1 - Len(ew) = 1
    BY <1>3, <2>2
  <2> QED
    BY <2>1, <2>3
<1>11. ans = ew \o bd
  <2> HIDE DEF ew
  <2>1. (ew \o b) \o data = ew \o (b \o data)
    BY <1>3, <1>7, ConcatAssociative
  <2> QED
    BY <1>4, <2>1
<1>12. ans = e \o wbd
  <2> HIDE DEF bd
  <2>1. (e \o w) \o bd = e \o (w \o bd)
    BY <1>1, <1>2, <1>8, ConcatAssociative
  <2> QED
    BY <1>11, <2>1
<1> HIDE DEF ew, ewb, bd, wbd, ans
<1>13. ans \in Seq(u8_t) /\ Len(ans) = Len(ewb) + Len(data)
  <2>1. ewb \in Seq(u8_t)
    BY <1>10
  <2>2. ewb \o data \in Seq(u8_t) /\ Len(ewb \o data) = Len(ewb) + Len(data)
    BY <2>1, ConcatProperties
  <2> QED
    BY <1>4, <2>2
<1>14. Len(ew) = Len(e) + 2 /\ Len(ewb) = Len(e) + 3 /\ Len(ans) = Len(e) + 3 + Len(data)
  BY <1>1, <1>2, <1>3, <1>6, <1>7, <1>10, <1>13
<1>15. EbvBytes(ans) = Len(e) /\ EBV_Get(ans) = dw
  <2>1. (dw \div 128) \div 128 < 128
    OBVIOUS
  <2>2. EbvBytes(e \o wbd) = Len(e) /\ EBV_Get(e \o wbd) = dw
    BY <1>9, <2>1, EbvRoundTrip DEF e
  <2> QED
    BY <1>12, <2>2
<1>16. SubSeq(ans, Len(e) + 1, Len(e) + 2) = w
  <2>1. Len(w) >= 1
    BY <1>2
  <2>2. SubSeq(e \o w \o bd, Len(e) + 1, Len(e) + Len(w)) = w
    BY <1>0, <1>8, <2>1, Middle
  <2> DEFINE lo == Len(e) + 1
             hi == Len(e) + Len(w)
  <2>3. hi = Len(e) + 2
    BY <1>2
  <2>4. ans = e \o w \o bd
    BY <1>11 DEF ew
  <2>5. SubSeq(ans, lo, hi) = w
    BY <2>2, <2>4
  <2> HIDE DEF hi
  <2> QED
    BY <2>3, <2>5
<1>17. ans[Len(e) + 3] = sta
  <2>1. Len(e) + 3 \in 1..Len(ewb) /\ Len(e) + 3 = Len(ew) + 1
    BY <1>1, <1>14
  <2>2. (ewb \o data)[Len(e) + 3] = ewb[Len(e) + 3]
    BY <1>10, <2>1, Behind
  <2> QED
    BY <1>3, <1>4, <1>10, <2>1, <2>2
<1>18. SubSeq(ans, Len(e) + 4, Len(ans)) = data
  <2>1. SubSeq(ewb \o data, Len(ewb) + 1, Len(ewb) + Len(data)) = data
    BY <1>10, Behindmost
  <2> DEFINE lo == Len(ewb) + 1
  <2>2. lo = Len(e) + 4
    BY <1>1, <1>14
  <2>3. Len(ans) = Len(ewb) + Len(data)
    BY <1>13
  <2>4. SubSeq(ans, lo, Len(ans)) = data
    BY <1>4, <2>1, <2>3
  <2> HIDE DEF lo
  <2> QED
    BY <2>2, <2>4
<1> QED
  <2>1. ReadsAs(ans, dw, code, sta, data)
    BY <1>1, <1>5, <1>13, <1>14, <1>15, <1>16, <1>17, <1>18 DEF w, ReadsAs
  <2> QED
    BY <2>1 DEF ans

LEMMA AnswerBytes ==
  ASSUME NEW dw \in Nat, dw < 16384, NEW code \in Nat, NEW sta \in u8_t,
         NEW data \in Seq(u8_t)
  PROVE  Ans(dw, code, sta, data) \in Seq(u8_t)
<1>1. ReadsAs(Ans(dw, code, sta, data), dw, code, sta, data)
  BY AnswerRead
<1> QED
  BY <1>1 DEF ReadsAs

\* A prefix of what may be copied, which stands in the answer behind `skipped'.
LEMMA Prefix ==
  ASSUME NEW x \in Seq(u8_t), NEW n \in Nat, n <= Len(x)
  PROVE  SubSeq(x, 1, n) \in Seq(u8_t) /\ Len(SubSeq(x, 1, n)) = n
<1>1. \A i \in 1..n : x[i] \in u8_t
  <2>1. \A i \in 1..n : i \in 1..Len(x)
    BY LenProperties
  <2> QED
    BY <2>1
<1> DEFINE a == SubSeq(x, 1, n)
<1>2. /\ a \in Seq(u8_t) /\ Len(a) = (IF 1 <= n THEN n - 1 + 1 ELSE 0)
      /\ \A i \in 1..n - 1 + 1 : a[i] = x[1 + i - 1]
  BY <1>1, SubSeqProperties
<1> HIDE DEF a
<1>3. a \in Seq(u8_t) /\ Len(a) = n
  BY <1>2
<1> QED
  BY <1>3 DEF a

LEMMA Rest ==
  ASSUME NEW x \in Seq(u8_t), Len(x) >= 2
  PROVE  /\ SubSeq(x, 3, Len(x)) \in Seq(u8_t)
         /\ \A n \in Nat : n <= Len(SubSeq(x, 3, Len(x))) =>
               SubSeq(SubSeq(x, 3, Len(x)), 1, n) = SubSeq(x, 3, 2 + n)
<1> DEFINE k == Len(x)
           y == SubSeq(x, 3, k)
<1>1. k \in Nat /\ k >= 2
  BY LenProperties
<1>2. \A i \in 3..k : x[i] \in u8_t
  <2>1. \A i \in 3..k : i \in 1..k
    BY <1>1
  <2> QED
    BY <2>1
<1> HIDE DEF k
<1>3. /\ y \in Seq(u8_t) /\ Len(y) = (IF 3 <= k THEN k - 3 + 1 ELSE 0)
      /\ \A i \in 1..k - 3 + 1 : y[i] = x[3 + i - 1]
  BY <1>1, <1>2, SubSeqProperties
<1> HIDE DEF y
<1>4. ASSUME NEW n \in Nat, n <= Len(y)
      PROVE  SubSeq(y, 1, n) = SubSeq(x, 3, 2 + n)
  <2> DEFINE a == SubSeq(y, 1, n)
             z == SubSeq(x, 3, 2 + n)
  <2>1. n <= k - 2
    BY <1>1, <1>3, <1>4
  <2>2. \A i \in 1..n : y[i] = x[i + 2] /\ y[i] \in u8_t
    <3>1. ASSUME NEW i \in 1..n PROVE y[i] = x[i + 2] /\ y[i] \in u8_t
      <4>1. i \in 1..k - 3 + 1 /\ 3 + i - 1 = i + 2 /\ i + 2 \in 3..k
        BY <1>1, <2>1
      <4> QED
        BY <1>2, <1>3, <4>1
    <3> QED
      BY <3>1
  <2>3. \A i \in 3..2 + n : x[i] \in u8_t
    <3>1. \A i \in 3..2 + n : i \in 3..k
      BY <1>1, <2>1
    <3> QED
      BY <1>2, <3>1
  <2>4. /\ a \in Seq(u8_t) /\ Len(a) = (IF 1 <= n THEN n - 1 + 1 ELSE 0)
        /\ \A i \in 1..n - 1 + 1 : a[i] = y[1 + i - 1]
    BY <2>2, SubSeqProperties
  <2>5. /\ z \in Seq(u8_t) /\ Len(z) = (IF 3 <= 2 + n THEN 2 + n - 3 + 1 ELSE 0)
        /\ \A i \in 1..2 + n - 3 + 1 : z[i] = x[3 + i - 1]
    <3>1. 2 + n \in Int
      OBVIOUS
    <3> QED
      BY <2>3, <3>1, SubSeqProperties
  <2> HIDE DEF a, z
  <2>6. Len(a) = n /\ Len(z) = n
    BY <2>4, <2>5
  <2>7. \A i \in 1..n : a[i] = z[i]
    <3>1. ASSUME NEW i \in 1..n PROVE a[i] = z[i]
      <4>1. i \in 1..n - 1 + 1 /\ i \in 1..2 + n - 3 + 1 /\ 1 + i - 1 = i /\ 3 + i - 1 = i + 2
        OBVIOUS
      <4> QED
        BY <2>2, <2>4, <2>5, <4>1
    <3> QED
      BY <3>1
  <2>8. a = z
    BY <2>4, <2>5, <2>6, <2>7, SeqEqual
  <2> QED
    BY <2>8 DEF a, z
<1>5. y \in Seq(u8_t)
  BY <1>3
<1> QED
  BY <1>4, <1>5 DEF y, k

\* What an answer to an access is, of which nothing else is told apart.
Answering(acc, ans) ==
  \E dw \in Nat, code \in {acc, acc + 256}, sta \in u8_t, data \in Data :
     dw < 16384 /\ ans = Ans(dw, code, sta, data)
Accepted(acc, ans) ==
  \E data \in Data, sta \in u8_t \ {0} : \E ebvLen \in 3..3 + Len(data) :
     /\ ans = EBV_Set(ebvLen) \o Word(acc) \o Byte(sta) \o data
     /\ SubSeq(ans, HeadLen(ans) + 1, Len(ans)) = data

LEMMA DataLength ==
  ASSUME NEW data \in Data
  PROVE  data \in Seq(u8_t) /\ Len(data) \in Nat /\ Len(data) < 256
<1>1. data \in Seq(u8_t) /\ Len(data) < 256
  BY AccessAssumption DEF AccessAssumption
<1> QED
  BY <1>1, LenProperties

LEMMA AnswersAre ==
  ASSUME NEW c, c.access \in 0..80, NEW ans \in Answers(c)
  PROVE  /\ ans \in Seq(u8_t)
         /\ c.access # 0 => Answering(c.access, ans) \/ ans = <<>> \/ ans = << 128 >>
<1> DEFINE acc == c.access
           right == {Ans(3 + Len(data) + more, acc, sta, data) :
                        more \in {0, 1}, sta \in Statuses, data \in Data}
           other == {Ans(ebvLen, code, sta, data) :
                        ebvLen \in {2, 3}, code \in {acc, acc + 256}, sta \in Statuses, data \in Data}
<1>0. acc \in Nat
  OBVIOUS
<1>1. CASE acc = 0
  BY <1>1, DataLength DEF Answers
<1>2. CASE acc # 0
  <2>0. Answers(c) = {<<>>, << 128 >>} \cup other \cup right
    BY <1>2 DEF Answers, Ans
  <2>1. ans \in {<<>>, << 128 >>} \/ ans \in other \/ ans \in right
    <3> HIDE DEF other, right
    <3> QED
      BY <2>0
  <2> HIDE DEF acc
  <2>2. CASE ans \in {<<>>, << 128 >>}
    <3>1. 128 \in u8_t
      BY DEF u8_t
    <3>2. <<>> \in Seq(u8_t) /\ << 128 >> \in Seq(u8_t)
      BY <3>1
    <3>3. ans \in Seq(u8_t)
      BY <2>2, <3>2
    <3> QED
      BY <2>2, <3>3
  <2>3. CASE ans \in other
    <3>1. PICK ebvLen \in {2, 3}, code \in {acc, acc + 256}, sta \in Statuses, data \in Data :
             ans = Ans(ebvLen, code, sta, data)
      BY <2>3
    <3>0. sta \in u8_t
      BY <3>1, AccessAssumption DEF AccessAssumption
    <3>2. ebvLen \in Nat /\ ebvLen < 16384
      BY <3>1
    <3>3. code \in Nat
      BY <1>0, <3>1
    <3>4. data \in Seq(u8_t)
      BY <3>1, DataLength
    <3>5. ans \in Seq(u8_t)
      BY <3>0, <3>1, <3>2, <3>3, <3>4, AnswerBytes
    <3>6. Answering(acc, ans)
      BY <3>0, <3>1, <3>2 DEF Answering
    <3> QED
      BY <3>5, <3>6 DEF acc
  <2>4. CASE ans \in right
    <3>1. PICK more \in {0, 1}, sta \in Statuses, data \in Data :
             ans = Ans(3 + Len(data) + more, acc, sta, data)
      BY <2>4
    <3>0. sta \in u8_t
      BY <3>1, AccessAssumption DEF AccessAssumption
    <3> DEFINE dw == 3 + Len(data) + more
    <3>2. data \in Seq(u8_t) /\ Len(data) \in Nat /\ Len(data) < 256
      BY <3>1, DataLength
    <3>3. dw \in Nat /\ dw < 16384
      <4>1. more \in Nat /\ more <= 1
        BY <3>1
      <4> QED
        BY <3>2, <4>1
    <3>4. ans = Ans(dw, acc, sta, data)
      BY <3>1
    <3> HIDE DEF dw
    <3>5. ans \in Seq(u8_t)
      BY <1>0, <3>0, <3>2, <3>3, <3>4, AnswerBytes
    <3>6. Answering(acc, ans)
      BY <3>0, <3>1, <3>3, <3>4 DEF Answering
    <3> QED
      BY <3>5, <3>6 DEF acc
  <2> HIDE DEF other, right
  <2> QED
    BY <2>1, <2>2, <2>3, <2>4
<1> QED
  BY <1>1, <1>2

\* The header is accepted only with the code and a status that is not 0, behind
\* a length that the answer has.
LEMMA CodeDiffers == ASSUME NEW acc \in 0..80 PROVE Word(acc + 256) # Word(acc)
<1>1. (acc + 256) \div 256 = 1 /\ acc \div 256 = 0
  OBVIOUS
<1>2. ((acc + 256) \div 256) % 256 # (acc \div 256) % 256
  BY <1>1
<1> QED
  BY <1>2 DEF Word

LEMMA NoVector == EbvBytes(<<>>) = 0 /\ EbvBytes(<< 128 >>) = 0
BY DEF EbvBytes

LEMMA HeadAccepts ==
  ASSUME NEW acc \in 0..80, NEW ans \in Seq(u8_t), HeadResult(ans, acc) = "OK",
         Answering(acc, ans) \/ ans = <<>> \/ ans = << 128 >>
  PROVE  Accepted(acc, ans)
<1>1. /\ EbvBytes(ans) # 0
      /\ ~(EBV_Get(ans) < 3)
      /\ ~(Len(ans) - EbvBytes(ans) < EBV_Get(ans))
      /\ SubSeq(ans, HeadLen(ans) - 2, HeadLen(ans) - 1) = Word(acc)
      /\ ans[HeadLen(ans)] # 0
  BY DEF HeadResult, SIZEOF_RESPTAGACCESSCMDHEADER
<1>2. Answering(acc, ans)
  BY <1>1, NoVector
<1>3. PICK dw \in Nat, code \in {acc, acc + 256}, sta \in u8_t, data \in Data :
         dw < 16384 /\ ans = Ans(dw, code, sta, data)
  BY <1>2 DEF Answering
<1> DEFINE k  == Ebvs(dw)
           hl == HeadLen(ans)
<1>4. data \in Seq(u8_t) /\ Len(data) \in Nat
  BY <1>3, DataLength
<1>5. /\ Len(ans) = k + 3 + Len(data) /\ k \in Nat \ {0}
      /\ EbvBytes(ans) = k /\ EBV_Get(ans) = dw
      /\ SubSeq(ans, k + 1, k + 2) = Word(code) /\ ans[k + 3] = sta
      /\ SubSeq(ans, k + 4, Len(ans)) = data
  <2>1. code \in Nat
    BY <1>3
  <2>2. dw \in Nat /\ dw < 16384 /\ sta \in u8_t
    BY <1>3
  <2>3. data \in Seq(u8_t)
    BY <1>4
  <2>4. ans = Ans(dw, code, sta, data)
    BY <1>3
  <2>5. ReadsAs(ans, dw, code, sta, data)
    BY <2>1, <2>2, <2>3, <2>4, AnswerRead
  <2> QED
    BY <1>4, <2>5 DEF ReadsAs
<1> HIDE DEF k
<1>6. hl = k + 3
  BY <1>5 DEF HeadLen, SIZEOF_RESPTAGACCESSCMDHEADER
<1>7. hl - 2 = k + 1 /\ hl - 1 = k + 2 /\ hl + 1 = k + 4
  BY <1>5, <1>6
<1> HIDE DEF hl
<1>8. dw \in 3..3 + Len(data)
  BY <1>1, <1>3, <1>4, <1>5
<1>9. Word(code) = Word(acc)
  BY <1>1, <1>5, <1>7 DEF hl
<1>10. code = acc
  <2>1. code = acc \/ code = acc + 256
    BY <1>3
  <2>2. Word(acc + 256) # Word(acc)
    BY CodeDiffers
  <2> QED
    BY <1>9, <2>1, <2>2
<1>11. sta \in u8_t \ {0}
  BY <1>1, <1>3, <1>5, <1>6 DEF hl
<1>12. ans = EBV_Set(dw) \o Word(acc) \o Byte(sta) \o data
  BY <1>3, <1>10 DEF Ans
<1>13. SubSeq(ans, HeadLen(ans) + 1, Len(ans)) = data
  BY <1>5, <1>7 DEF hl
<1>14. \E ebvLen \in 3..3 + Len(data) :
          /\ ans = EBV_Set(ebvLen) \o Word(acc) \o Byte(sta) \o data
          /\ SubSeq(ans, HeadLen(ans) + 1, Len(ans)) = data
  BY <1>8, <1>12, <1>13
<1>15. data \in Data
  BY <1>3
<1> QED
  BY <1>11, <1>14, <1>15 DEF Accepted
-------------------------------------------------------------------------------
(***************************************************************************)
(* The invariant.  What a property says of an idle function was decided    *)
(* while its call was out: the frame is the one of the call, nothing has   *)
(* been copied, and the caller's size has not been touched.                *)
(***************************************************************************)
CallOut == phase = "sent" => sndBuf = Frame(call.msg) /\ copied = <<>> /\ nSize = given
AccessInv == AccessTypeOK /\ RequestOK(call) /\ CallOut /\ OkAnswer /\ BufferRespected

LEMMA AccessInvInit == AccessInit => AccessInv
<1> SUFFICES ASSUME AccessInit PROVE AccessInv
  OBVIOUS
<1> DEFINE reset == RL8000_CMD_Reset
<1>1. /\ hTag = 0 /\ sndBuf = <<>> /\ call = reset /\ phase = "idle" /\ answer = <<>>
      /\ copied = <<>> /\ given \in BufSizes /\ nSize = given /\ result = "none"
  BY AccessAssumption DEF AccessInit, AccessAssumption
<1>2. hTag \in u8_t /\ given \in Nat
  BY <1>1, AccessAssumption DEF AccessAssumption, u8_t
<1>3. Len(<<>>) = 0 /\ <<>> \in Seq(u8_t)
  BY EmptySeq
<1>4. RequestOK(reset)
  <2>1. Sound(reset)
    BY <1>2, DeviceSound
  <2>2. reset.msg = Byte(5) \o Byte(0)
    BY DEF RL8000_CMD_Reset, Request
  <2>3. IsBytes(Byte(5) \o Byte(0), 1 + 1)
    BY ByteBytes, CatBytes
  <2>4. Len(reset.msg) = 2
    BY <2>2, <2>3 DEF IsBytes
  <2> HIDE DEF reset
  <2>5. FitsSndBuf(reset.msg)
    BY <2>4 DEF FitsSndBuf, SIZEOF_FRAMEHEADER, SndBufSize
  <2> QED
    BY <2>1, <2>5 DEF Sound
<1> HIDE DEF reset
<1>5. AccessTypeOK
  BY <1>1, <1>2, <1>3 DEF AccessTypeOK, SndBufSize
<1>6. RequestOK(call) /\ CallOut /\ OkAnswer
  BY <1>1, <1>4 DEF CallOut, OkAnswer
<1>7. BufferRespected
  BY <1>1, <1>2, <1>3 DEF BufferRespected
<1> QED
  BY <1>5, <1>6, <1>7 DEF AccessInv

LEMMA CallKeeps ==
  ASSUME AccessInv, NEW c \in Calls, Call(c)
  PROVE  AccessInv'
<1>1. /\ FitsSndBuf(c.msg) /\ call' = c /\ sndBuf' = Frame(c.msg)
      /\ given' \in BufSizes /\ nSize' = given' /\ answer' = <<>> /\ copied' = <<>>
      /\ result' = "none" /\ phase' = "sent" /\ hTag' = hTag
  BY DEF Call
<1>2. hTag \in u8_t
  BY DEF AccessInv, AccessTypeOK
<1>3. RequestOK(c)
  BY <1>1, <1>2, CallsSound DEF Sound
<1>4. Frame(c.msg) \in Seq(u8_t) /\ Len(Frame(c.msg)) <= 256
  <2>1. c.msg \in Seq(u8_t) /\ Len(c.msg) \in 1..250
    BY <1>3 DEF RequestOK
  <2>2. Frame(c.msg) \in Seq(u8_t) /\ Len(Frame(c.msg)) = Len(c.msg) + 6
    BY <2>1, FrameOK
  <2>3. Len(c.msg) \in Nat /\ Len(c.msg) <= 250
    BY <2>1, AtMostMsg
  <2> QED
    BY <2>2, <2>3
<1>5. <<>> \in Seq(u8_t)
  OBVIOUS
<1>6. given' \in Nat
  BY <1>1, AccessAssumption DEF AccessAssumption
<1>7. AccessTypeOK'
  BY <1>1, <1>2, <1>4, <1>5, <1>6 DEF AccessTypeOK, SndBufSize
<1>8. CallOut' /\ OkAnswer' /\ BufferRespected'
  BY <1>1 DEF CallOut, OkAnswer, BufferRespected
<1>9. RequestOK(call)'
  BY <1>1, <1>3 DEF RequestOK
<1> QED
  BY <1>7, <1>8, <1>9 DEF AccessInv

LEMMA NoAnswerKeeps ==
  ASSUME AccessInv, NoAnswer
  PROVE  AccessInv'
<1>1. /\ phase = "sent" /\ result' = "LINK" /\ phase' = "idle" /\ hTag' = hTag
      /\ sndBuf' = sndBuf /\ call' = call /\ answer' = answer /\ given' = given
      /\ copied' = copied /\ nSize' = nSize
  BY DEF NoAnswer
<1>2. copied = <<>> /\ nSize = given
  BY <1>1 DEF AccessInv, CallOut
<1>3. given \in Nat
  BY AccessAssumption DEF AccessInv, AccessTypeOK, AccessAssumption
<1>4. AccessTypeOK'
  BY <1>1 DEF AccessInv, AccessTypeOK
<1>5. RequestOK(call)'
  BY <1>1 DEF AccessInv, RequestOK
<1>6. CallOut' /\ OkAnswer'
  BY <1>1 DEF CallOut, OkAnswer
<1>7. BufferRespected'
  <2>1. Len(<<>>) = 0
    BY EmptySeq
  <2> QED
    BY <1>1, <1>2, <1>3, <2>1 DEF BufferRespected
<1> QED
  BY <1>4, <1>5, <1>6, <1>7 DEF AccessInv

\* What a call that returns 0 may copy: bytes of the answer.
LEMMA OkCopyable ==
  ASSUME AccessInv, NEW ans \in Answers(call), FunctionResult(ans) = "OK"
  PROVE  /\ ans \in Seq(u8_t)
         /\ Popped(ans) \in Seq(u8_t) /\ Len(Popped(ans)) >= Needed
         /\ call.access # 0 => Accepted(call.access, ans)
         /\ call.reads \in {"devInf", "rest", "blocks"} => Copyable(ans) \in Seq(u8_t)
<1>1. call.access \in 0..80 /\ RequestOK(call)
  BY DEF AccessInv, RequestOK
<1>2. /\ ans \in Seq(u8_t)
      /\ call.access # 0 => Answering(call.access, ans) \/ ans = <<>> \/ ans = << 128 >>
  BY <1>1, AnswersAre
<1>3. /\ call.access # 0 => HeadResult(ans, call.access) = "OK"
      /\ ~(Len(Popped(ans)) < Needed)
  BY DEF FunctionResult
<1>4. call.access # 0 => Accepted(call.access, ans)
  BY <1>1, <1>2, <1>3, HeadAccepts
<1>5. Popped(ans) \in Seq(u8_t)
  <2>1. CASE call.access = 0
    BY <1>2, <2>1 DEF Popped
  <2>2. CASE call.access # 0
    <3>1. \E data \in Data : SubSeq(ans, HeadLen(ans) + 1, Len(ans)) = data
      BY <1>4, <2>2 DEF Accepted
    <3> QED
      BY <2>2, <3>1, DataLength DEF Popped
  <2> QED
    BY <2>1, <2>2
<1>6. Needed \in Nat
  BY DEF Needed, SIZEOF_RESPDEVINF
<1>7. Len(Popped(ans)) \in Nat /\ Len(Popped(ans)) >= Needed
  BY <1>3, <1>5, <1>6, LenProperties
<1>8. ASSUME call.reads \in {"devInf", "rest", "blocks"}
      PROVE  Copyable(ans) \in Seq(u8_t)
  <2>1. CASE call.reads = "devInf"
    <3>1. Needed = 12
      BY <2>1 DEF Needed, SIZEOF_RESPDEVINF
    <3>2. 12 \in Nat /\ 12 <= Len(Popped(ans))
      BY <1>7, <3>1
    <3>3. SubSeq(Popped(ans), 1, 12) \in Seq(u8_t)
      BY <1>5, <3>2, Prefix
    <3> QED
      BY <2>1, <3>3 DEF Copyable, SIZEOF_RESPDEVINF
  <2>2. CASE call.reads = "rest"
    BY <1>5, <2>2 DEF Copyable
  <2>3. CASE call.reads = "blocks"
    <3>1. Needed = 2
      BY <2>3 DEF Needed
    <3>2. Len(Popped(ans)) >= 2
      BY <1>7, <3>1
    <3>3. SubSeq(Popped(ans), 3, Len(Popped(ans))) \in Seq(u8_t)
      BY <1>5, <3>2, Rest
    <3> QED
      BY <2>3, <3>3 DEF Copyable
  <2> QED
    BY <1>8, <2>1, <2>2, <2>3
<1> QED
  BY <1>2, <1>4, <1>5, <1>7, <1>8

LEMMA ReplyKeeps ==
  ASSUME AccessInv, NEW ans \in Answers(call), Reply(ans)
  PROVE  AccessInv'
<1> DEFINE fr     == FunctionResult(ans)
           copies == fr = "OK" /\ call.reads \in {"devInf", "rest", "blocks"}
           left   == Copyable(ans)
           n      == NCopy(Len(left))
<1>1. /\ phase = "sent" /\ answer' = ans /\ result' = fr /\ phase' = "idle"
      /\ sndBuf' = sndBuf /\ call' = call /\ given' = given
  BY DEF Reply
<1>2. copies => nSize' = n /\ copied' = SubSeq(left, 1, n)
  BY DEF Reply
<1>3. ~copies => nSize' = nSize /\ copied' = copied
  BY DEF Reply
<1>4. hTag' = IF fr # "OK" THEN hTag
              ELSE IF call.reads = "handle" THEN ans[1]
              ELSE IF call.reads = "disconnect" THEN 0 ELSE hTag
  BY AccessAssumption DEF Reply, AccessAssumption
<1>5. /\ copied = <<>> /\ nSize = given /\ given \in Nat /\ hTag \in u8_t
      /\ call.access \in 0..80
      /\ call.access # 0 => call.reads \in {"nothing", "rest", "blocks"}
  BY <1>1, AccessAssumption
  DEF AccessInv, CallOut, AccessTypeOK, RequestOK, AccessAssumption
<1>6. fr \in {"OK", "MSGSIZE", "MSGDATA", "TAGACCESS"}
  <2>1. \A acc : HeadResult(ans, acc) \in {"OK", "MSGSIZE", "MSGDATA", "TAGACCESS"}
    BY DEF HeadResult
  <2> QED
    BY <2>1 DEF FunctionResult
<1>7. ans \in Seq(u8_t)
  BY <1>5, AnswersAre
<1>8. fr = "OK" => /\ Popped(ans) \in Seq(u8_t) /\ Len(Popped(ans)) >= Needed
                   /\ call.access # 0 => Accepted(call.access, ans)
  BY OkCopyable
<1>9. copies => left \in Seq(u8_t)
  BY OkCopyable
<1> HIDE DEF fr
<1>10. copies => /\ n \in Nat /\ n <= given /\ n <= Len(left)
                 /\ copied' \in Seq(u8_t) /\ Len(copied') = n
  <2> SUFFICES ASSUME copies
               PROVE  /\ n \in Nat /\ n <= given /\ n <= Len(left)
                      /\ copied' \in Seq(u8_t) /\ Len(copied') = n
    OBVIOUS
  <2>1. left \in Seq(u8_t)
    BY <1>9
  <2>2. Len(left) \in Nat
    BY <2>1, LenProperties
  <2> HIDE DEF left
  <2>3. n \in Nat /\ n <= given /\ n <= Len(left)
    BY <1>5, <2>2 DEF NCopy
  <2> HIDE DEF n
  <2>4. copied' = SubSeq(left, 1, n)
    BY <1>2
  <2>5. SubSeq(left, 1, n) \in Seq(u8_t) /\ Len(SubSeq(left, 1, n)) = n
    BY <2>1, <2>3, Prefix
  <2> QED
    BY <2>3, <2>4, <2>5
<1> HIDE DEF n, left
<1>11. ~copies => Len(copied') = 0 /\ copied' \in Seq(u8_t) /\ nSize' = given
  <2>1. Len(<<>>) = 0 /\ <<>> \in Seq(u8_t)
    BY EmptySeq
  <2> QED
    BY <1>3, <1>5, <2>1
<1>12. hTag' \in u8_t
  <2>1. CASE fr = "OK" /\ call.reads = "handle"
    <3>1. Needed = 1 /\ call.access = 0
      BY <1>5, <2>1 DEF Needed
    <3>2. Len(ans) >= 1
      BY <1>8, <2>1, <3>1 DEF Popped
    <3>3. 1 \in 1..Len(ans)
      BY <1>7, <3>2, LenProperties
    <3>4. ans[1] \in u8_t
      BY <1>7, <3>3
    <3> QED
      BY <1>4, <2>1, <3>4
  <2>2. CASE ~(fr = "OK" /\ call.reads = "handle")
    <3>1. 0 \in u8_t
      BY DEF u8_t
    <3> QED
      BY <1>4, <1>5, <2>2, <3>1
  <2> QED
    BY <2>1, <2>2
<1>13. copied' \in Seq(u8_t) /\ nSize' \in Nat
  BY <1>2, <1>5, <1>10, <1>11
<1>14. AccessTypeOK'
  BY <1>1, <1>6, <1>7, <1>12, <1>13 DEF AccessInv, AccessTypeOK
<1>15. RequestOK(call)' /\ CallOut'
  BY <1>1 DEF AccessInv, RequestOK, CallOut
<1>16. BufferRespected'
  <2>1. Len(copied') <= given'
    BY <1>1, <1>5, <1>10, <1>11
  <2>2. nSize' = IF copies THEN Len(copied') ELSE given'
    BY <1>1, <1>2, <1>10, <1>11
  <2>3. nSize' = IF result' = "OK" /\ call'.reads \in {"devInf", "rest", "blocks"}
                 THEN Len(copied') ELSE given'
    BY <1>1, <2>2
  <2> QED
    BY <2>1, <2>3 DEF BufferRespected
<1>17. OkAnswer'
  <2> SUFFICES ASSUME fr = "OK", call.access # 0
               PROVE  OkAnswer'
    BY <1>1 DEF OkAnswer
  <2> DEFINE skipped == IF call.reads = "blocks" THEN 2 ELSE 0
  <2>1. PICK data \in Data, sta \in u8_t \ {0} : \E ebvLen \in 3..3 + Len(data) :
           /\ ans = EBV_Set(ebvLen) \o Word(call.access) \o Byte(sta) \o data
           /\ SubSeq(ans, HeadLen(ans) + 1, Len(ans)) = data
    BY <1>8 DEF Accepted
  <2>2. data \in Seq(u8_t) /\ Popped(ans) = data
    BY <2>1, DataLength DEF Popped
  <2>3. copied' = SubSeq(data, skipped + 1, skipped + Len(copied'))
    <3>1. CASE call.reads = "nothing"
      <4>1. copied' = <<>> /\ Len(copied') = 0
        BY <1>3, <1>5, <1>11, <3>1
      <4>2. SubSeq(data, 1, 0) = <<>>
        BY SubSeqEmpty
      <4>3. skipped = 0
        BY <3>1
      <4> HIDE DEF skipped
      <4>4. skipped + 1 = 1 /\ skipped + Len(copied') = 0
        BY <4>1, <4>3
      <4> QED
        BY <4>1, <4>2, <4>4
    <3>2. CASE call.reads = "rest"
      <4>1. copies /\ skipped = 0 /\ left = data
        BY <2>2, <3>2 DEF left, Copyable
      <4>2. Len(copied') = n /\ n \in Nat /\ copied' = SubSeq(data, 1, n)
        BY <1>2, <1>10, <4>1
      <4> HIDE DEF skipped
      <4>3. skipped + 1 = 1 /\ skipped + Len(copied') = n
        BY <4>1, <4>2
      <4> QED
        BY <4>2, <4>3
    <3>3. CASE call.reads = "blocks"
      <4>1. copies /\ skipped = 2 /\ left = SubSeq(data, 3, Len(data))
        BY <2>2, <3>3 DEF left, Copyable
      <4>2. Len(data) >= 2
        BY <1>8, <2>2, <3>3 DEF Needed
      <4>3. Len(copied') = n /\ n \in Nat /\ n <= Len(left) /\ copied' = SubSeq(left, 1, n)
        BY <1>2, <1>10, <4>1
      <4>4. SubSeq(left, 1, n) = SubSeq(data, 3, 2 + n)
        BY <2>2, <4>1, <4>2, <4>3, Rest
      <4> HIDE DEF skipped
      <4>5. skipped + 1 = 3 /\ skipped + Len(copied') = 2 + n
        BY <4>1, <4>3
      <4> QED
        BY <4>3, <4>4, <4>5
    <3> QED
      BY <1>5, <3>1, <3>2, <3>3
  <2>4. \E ebvLen \in 3..3 + Len(data) :
           ans = EBV_Set(ebvLen) \o Word(call.access) \o Byte(sta) \o data
    BY <2>1
  <2>5. \E ebvLen \in 3..3 + Len(data) :
           /\ answer' = EBV_Set(ebvLen) \o Word(call'.access) \o Byte(sta) \o data
           /\ copied' = SubSeq(data, (IF call'.reads = "blocks" THEN 2 ELSE 0) + 1,
                               (IF call'.reads = "blocks" THEN 2 ELSE 0) + Len(copied'))
    BY <1>1, <2>3, <2>4
  <2> QED
    BY <2>1, <2>5 DEF OkAnswer
<1> QED
  BY <1>14, <1>15, <1>16, <1>17 DEF AccessInv

LEMMA AccessInvStep == AccessInv /\ [AccessNext]_accessVars => AccessInv'
<1> SUFFICES ASSUME AccessInv, [AccessNext]_accessVars PROVE AccessInv'
  OBVIOUS
<1>1. CASE \E c \in Calls : Call(c)
  BY <1>1, CallKeeps
<1>2. CASE NoAnswer
  BY <1>2, NoAnswerKeeps
<1>3. CASE \E ans \in Answers(call) : Reply(ans)
  BY <1>3, ReplyKeeps
<1>4. CASE UNCHANGED accessVars
  <2>1. /\ hTag' = hTag /\ sndBuf' = sndBuf /\ call' = call /\ phase' = phase
        /\ answer' = answer /\ given' = given /\ copied' = copied /\ nSize' = nSize
        /\ result' = result
    BY <1>4 DEF accessVars
  <2> QED
    BY <2>1 DEF AccessInv, AccessTypeOK, RequestOK, CallOut, OkAnswer, BufferRespected
<1> QED
  BY <1>1, <1>2, <1>3, <1>4 DEF AccessNext

\* In every behaviour, for every number of bytes, blocks and pages, every
\* buffer of the caller and every data of an answer.
THEOREM AccessInvariant == AccessSpec => []AccessInv
BY AccessInvInit, AccessInvStep, PTL DEF AccessSpec

\* The variables keep their types: no frame is longer than h->sndBuf.
THEOREM AccessTyped == AccessSpec => []AccessTypeOK
<1>1. AccessInv => AccessTypeOK
  BY DEF AccessInv
<1> QED
  BY <1>1, AccessInvariant, PTL

\* While a request is out, the length it declares is that of its parameters.
LEMMA DeclaredFromInv == AccessInv => DeclaredLengthTrue
<1> SUFFICES ASSUME AccessInv, phase = "sent", call.msg[1] \in {52, 54}
             PROVE  /\ EbvBytes(Body(sndBuf)) > 0
                    /\ EBV_Get(Body(sndBuf)) = Len(Body(sndBuf)) - EbvBytes(Body(sndBuf))
  BY DEF DeclaredLengthTrue, Body
<1>1. /\ sndBuf = Frame(call.msg) /\ call.msg \in Seq(u8_t) /\ Len(call.msg) \in 1..250
      /\ Declares(call.msg)
  BY DEF AccessInv, CallOut, RequestOK
<1>2. PICK rest \in Seq(u8_t) : Len(rest) < 16384 /\ Body(sndBuf) = Counted(rest)
  BY <1>1, FrameBody
<1> DEFINE n    == Len(rest)
           e    == EBV_Set(n)
           body == e \o rest
<1>3. n \in Nat /\ n < 16384
  BY <1>2, LenProperties
<1>4. (n \div 128) \div 128 < 128
  <2> HIDE DEF n
  <2> QED
    BY <1>3
<1>5. EbvBytes(body) = Len(e) /\ EBV_Get(body) = n
  BY <1>3, <1>4, EbvRoundTrip
<1>6. e \in Seq(u8_t) /\ Len(e) \in 1..4
  BY <1>3, EbvBytesSet, EbvLength DEF IsBytes
<1>7. Len(e) \in Nat /\ 1 <= Len(e)
  BY <1>6, AtMostFour
<1> HIDE DEF e
<1>8. Len(body) = Len(e) + n
  BY <1>6, ConcatProperties
<1>9. Body(sndBuf) = body
  BY <1>2 DEF Counted, e
<1> HIDE DEF body, n
<1> QED
  BY <1>3, <1>5, <1>7, <1>8, <1>9

\* The parameter length in every access is that of the bytes pushed after it,
\* for every number of bytes, blocks and pages.
THEOREM DeclaredLengths == AccessSpec => []DeclaredLengthTrue
BY DeclaredFromInv, AccessInvariant, PTL

\* While a request is out, its length byte finds the end of its checksum.
LEMMA FrameFromInv == AccessInv => FrameLengthTrue
<1> SUFFICES ASSUME AccessInv, phase = "sent" PROVE sndBuf[2] = Len(sndBuf) - 1
  BY DEF FrameLengthTrue
<1> DEFINE msg == call.msg
<1>1. sndBuf = Frame(msg) /\ msg \in Seq(u8_t) /\ Len(msg) \in 1..250
  BY DEF AccessInv, CallOut, RequestOK
<1> HIDE DEF msg
<1>2. Len(Frame(msg)) = Len(msg) + 6 /\ Frame(msg)[2] = Len(msg) + 5 /\ Len(msg) \in Nat
  BY <1>1, FrameOK, AtMostMsg
<1> QED
  BY <1>1, <1>2

\* The one length byte of a frame counts what is really sent, for every request
\* that fits h->sndBuf.
THEOREM FrameLengths == AccessSpec => []FrameLengthTrue
BY FrameFromInv, AccessInvariant, PTL

\* A tag access returns 0 only for an answer to this access, with a status that
\* is not 0 and all the bytes it declares, and what it copies is in that
\* answer's data, whatever statuses a reader answers with.
THEOREM OkAnswers == AccessSpec => []OkAnswer
<1>1. AccessInv => OkAnswer
  BY DEF AccessInv
<1> QED
  BY <1>1, AccessInvariant, PTL

\* No call writes beyond the caller's buffer, and *nSize tells what it wrote.
THEOREM BuffersRespected == AccessSpec => []BufferRespected
<1>1. AccessInv => BufferRespected
  BY DEF AccessInv
<1> QED
  BY <1>1, AccessInvariant, PTL
===============================================================================
