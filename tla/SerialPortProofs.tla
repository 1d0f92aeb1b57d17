--------------------------- MODULE SerialPortProofs ---------------------------
(***************************************************************************)
(* Theorems about SerialPort, for every size of the buffers, every number  *)
(* of tries, however many bytes arrive and however often system calls      *)
(* fail: type correctness, that reads hand over the bytes that arrived in  *)
(* their order, and that a write reports the full length exactly when all  *)
(* of the data was sent.                                                   *)
(***************************************************************************)
EXTENDS SerialPort, FiniteSetTheorems, SequenceTheorems, TLAPS

Reading == {"drain", "select", "poll", "read"}

\* A call that is to read again.
ToRead == pc \in {"drain", "select", "read"} \/ (pc = "poll" /\ iLen > 0)

\* The type invariant with the sizes inside a call, in the parts that the
\* actions disturb one at a time.
Descriptors ==
    /\ fds \subseteq 1..MaxFds + 2 /\ m_iFD \in fds \cup {Null, ERR_KEY}
    /\ Cardinality(fds) <= MaxFds + 1
    /\ pc # "idle" => IsOpen

Sizes ==
    /\ pc \in {"idle", "write"} \cup Reading
    /\ length \in Int /\ iTotal \in Int /\ iLen \in Int /\ iTryTime \in 0..MaxTry
    /\ pc = "write" => iTryTime < MaxTry
    /\ pc \in Reading => iTotal \in -1..Want
    /\ ToRead => iTotal \in 0..Want
    /\ pc = "drain" => iTotal < Want

Bytes == /\ pData \in [1..Want -> Nat] /\ line \in Seq(Int)
         /\ input \in Seq(Nat) /\ arrived \in Nat /\ delivered \in Seq(Nat)

Flags == /\ hungUp \in BOOLEAN /\ staleErrno \in BOOLEAN
         /\ readErrors \in 0..MaxReadErrors

SerTypeInv == Descriptors /\ Sizes /\ Bytes /\ Flags

-------------------------------------------------------------------------------
(* Descriptors.                                                             *)

Numbers == 1..MaxFds + 2

\* Every set of descriptors is finite.
LEMMA FdsFinite ==
    /\ Cardinality(Numbers) = MaxFds + 2
    /\ \A S \in SUBSET Numbers : IsFiniteSet(S) /\ Cardinality(S) \in Nat
<1>1. MaxFds + 2 \in Int /\ MaxFds + 2 - 1 + 1 = MaxFds + 2 /\ 1 <= MaxFds + 2
  BY SerialAssumption
<1>2. IsFiniteSet(Numbers) /\ Cardinality(Numbers) = MaxFds + 2
  BY <1>1, FS_Interval DEF Numbers
<1>3. ASSUME NEW S \in SUBSET Numbers
      PROVE  IsFiniteSet(S) /\ Cardinality(S) \in Nat
  <2>1. IsFiniteSet(S)
    BY <1>2, FS_Subset
  <2> QED
    BY <2>1, FS_CardinalityType
<1> QED
  BY <1>2, <1>3

\* With fewer than all numbers in use open(2) finds one.
LEMMA UnusedExists ==
    ASSUME NEW S \in SUBSET Numbers, Cardinality(S) <= MaxFds + 1
    PROVE  Unused(S) \in Numbers \ S
<1>1. Cardinality(Numbers) = MaxFds + 2
  BY FdsFinite
<1>2. S # Numbers
  BY <1>1, SerialAssumption
<1>3. \E f \in Numbers : f \notin S
  BY <1>2
<1> QED
  BY <1>3 DEF Unused, Numbers

\* What one open() adds.
LEMMA OneOpen ==
    ASSUME NEW S \in SUBSET Numbers, Cardinality(S) <= MaxFds + 1, NEW ok \in BOOLEAN
    PROVE  /\ With(S, ok) \in SUBSET Numbers
           /\ Handle(S, ok) \in With(S, ok) \cup {ERR_KEY}
           /\ Cardinality(With(S, ok)) <= Cardinality(S) + 1
           /\ Cardinality(S) \in Nat
<1>1. Unused(S) \in Numbers \ S
  BY UnusedExists
<1>2. IsFiniteSet(S) /\ Cardinality(S) \in Nat
  BY FdsFinite
<1>4. Cardinality(S \cup {Unused(S)}) = Cardinality(S) + 1
  BY <1>1, <1>2, FS_AddElement
<1> QED
  BY <1>1, <1>2, <1>4 DEF With, Handle

LEMMA OpenKeepsFds ==
    ASSUME fds \subseteq Numbers, Cardinality(fds) < MaxFds,
           NEW noIni \in BOOLEAN, NEW first \in BOOLEAN, NEW second \in BOOLEAN,
           OpenCom(noIni, first, second)
    PROVE  /\ fds' \subseteq Numbers /\ m_iFD' \in fds' \cup {ERR_KEY}
           /\ Cardinality(fds') <= MaxFds + 1
<1>1. /\ Cardinality(fds) \in Nat
      /\ With(fds, first) \in SUBSET Numbers
      /\ Handle(fds, first) \in With(fds, first) \cup {ERR_KEY}
      /\ Cardinality(With(fds, first)) <= Cardinality(fds) + 1
  <2>1. Cardinality(fds) \in Nat
    BY FdsFinite
  <2>2. Cardinality(fds) <= MaxFds + 1
    BY <2>1, SerialAssumption
  <2> QED
    BY <2>1, <2>2, OneOpen
<1>2. Cardinality(With(fds, first)) \in Nat
  BY <1>1, FdsFinite
<1>3. /\ Cardinality(With(fds, first)) <= MaxFds
      /\ MaxFds \in Nat
  BY <1>1, <1>2, SerialAssumption
<1>4. /\ With(With(fds, first), second) \in SUBSET Numbers
      /\ Handle(With(fds, first), second) \in With(With(fds, first), second) \cup {ERR_KEY}
      /\ Cardinality(With(With(fds, first), second)) <= Cardinality(With(fds, first)) + 1
  <2>1. Cardinality(With(fds, first)) <= MaxFds + 1
    BY <1>2, <1>3
  <2> QED
    BY <1>1, <2>1, OneOpen
<1>5. Cardinality(With(With(fds, first), second)) \in Nat
  BY <1>4, FdsFinite
<1>6. CASE Again(noIni, first)
  <2>1. /\ m_iFD' = Handle(With(fds, first), second)
        /\ fds' = With(With(fds, first), second)
    BY <1>6 DEF OpenCom
  <2>2. Cardinality(fds') <= MaxFds + 1
    BY <2>1, <1>2, <1>3, <1>4, <1>5
  <2> QED
    BY <1>4, <2>1, <2>2
<1>7. CASE ~Again(noIni, first)
  <2>1. m_iFD' = Handle(fds, first) /\ fds' = With(fds, first)
    BY <1>7 DEF OpenCom
  <2>2. Cardinality(fds') <= MaxFds + 1
    BY <2>1, <1>2, <1>3
  <2> QED
    BY <1>1, <2>1, <2>2
<1> QED
  BY <1>6, <1>7

\* Closing one leaves no more than before.
LEMMA CloseKeepsFds ==
    ASSUME fds \subseteq Numbers, Cardinality(fds) <= MaxFds + 1, fds' = fds \ {m_iFD}
    PROVE  fds' \subseteq Numbers /\ Cardinality(fds') <= MaxFds + 1
<1>1. IsFiniteSet(fds) /\ fds' \subseteq fds
  BY FdsFinite
<1>2. /\ Cardinality(fds') \in Nat /\ Cardinality(fds) \in Nat
      /\ Cardinality(fds') <= Cardinality(fds)
  BY <1>1, FdsFinite, FS_Subset
<1> QED
  BY <1>1, <1>2, SerialAssumption

-------------------------------------------------------------------------------
(* What a system call of a read and a return of a read do to the sequences. *)

Buffers == /\ pData \in [1..Want -> Nat] /\ input \in Seq(Nat)
           /\ iTotal \in 0..Want

\* read() moves the first n bytes of the queue behind those read before.
LEMMA GetsMoves ==
    ASSUME Buffers, NEW n \in 0..Want, Gets(n)
    PROVE  /\ pData' \in [1..Want -> Nat] /\ input' \in Seq(Nat)
           /\ iTotal' = iTotal + n /\ iTotal' \in 0..Want /\ iLen' = n
           /\ n <= Len(input) /\ Len(input') = Len(input) - n
           /\ \A k \in 1..Len(input') : input'[k] = input[k + n]
           /\ \A k \in 1..Want : pData'[k] = IF iTotal < k /\ k <= iTotal + n
                                             THEN input[k - iTotal] ELSE pData[k]
<1>1. /\ n <= Len(input) /\ n <= Want - iTotal /\ Want \in Nat
      /\ pData' = Stored(n) /\ input' = SubSeq(input, n + 1, Len(input))
      /\ iLen' = n /\ iTotal' = iTotal + n
  BY SerialAssumption DEF Gets
<1>2. Len(input) \in Nat /\ \A k \in 1..Len(input) : input[k] \in Nat
  BY DEF Buffers
<1>3. iTotal' \in 0..Want
  BY <1>1 DEF Buffers
<1>4. \A k \in 1..Want : iTotal < k /\ k <= iTotal + n => k - iTotal \in 1..Len(input)
  BY <1>1, <1>2 DEF Buffers
<1>5. pData' \in [1..Want -> Nat]
  BY <1>1, <1>2, <1>4 DEF Buffers, Stored
<1>6. \A k \in 1..Want : pData'[k] = IF iTotal < k /\ k <= iTotal + n
                                     THEN input[k - iTotal] ELSE pData[k]
  BY <1>1 DEF Stored
<1>7. /\ input' \in Seq(Nat) /\ Len(input') = Len(input) - n
      /\ \A k \in 1..Len(input') : input'[k] = input[k + n]
  <2>1. n + 1 \in Int /\ Len(input) \in Int /\ n + 1 <= Len(input) + 1
    BY <1>1, <1>2
  <2> QED
    BY <1>1, <1>2, <2>1 DEF Buffers
<1> QED
  BY <1>1, <1>3, <1>5, <1>6, <1>7

\* What a return hands over: nothing when the total is -1.
LEMMA Joined ==
    ASSUME NEW d \in Seq(Nat), NEW b \in [1..Want -> Nat], NEW n \in -1..Want
    PROVE  LET e == d \o SubSeq(b, 1, n)
               g == IF n > 0 THEN n ELSE 0
           IN  /\ e \in Seq(Nat) /\ Len(e) = Len(d) + g
               /\ \A k \in 1..Len(d) : e[k] = d[k]
               /\ \A k \in 1..g : e[Len(d) + k] = b[k]
<1> DEFINE e == d \o SubSeq(b, 1, n)
           g == IF n > 0 THEN n ELSE 0
<1>1. Want \in Nat /\ b \in Seq(Nat) /\ Len(b) = Want
  BY SerialAssumption
<1>2. g \in 0..Want /\ n \in Int
  BY <1>1
<1>3. /\ SubSeq(b, 1, n) \in Seq(Nat) /\ Len(SubSeq(b, 1, n)) = g
      /\ \A k \in 1..g : SubSeq(b, 1, n)[k] = b[k]
  <2>1. CASE n > 0
    <3>1. n \in 1..Want /\ g = n
      BY <2>1, <1>1
    <3> QED
      BY <3>1, <1>1
  <2>2. CASE ~ n > 0
    <3>1. g = 0 /\ n < 1
      BY <2>2
    <3>2. SubSeq(b, 1, n) = << >>
      BY <3>1, <1>1, <1>2, SubSeqProperties
    <3> QED
      BY <3>1, <3>2
  <2> QED
    BY <2>1, <2>2
<1> HIDE DEF g
<1>4. /\ e \in Seq(Nat) /\ Len(e) = Len(d) + g
      /\ \A k \in 1..Len(e) : e[k] = IF k <= Len(d) THEN d[k] ELSE SubSeq(b, 1, n)[k - Len(d)]
  BY <1>3, ConcatProperties
<1>5. Len(d) \in Nat
  OBVIOUS
<1>6. \A k \in 1..Len(d) : e[k] = d[k]
  BY <1>2, <1>4, <1>5
<1>7. ASSUME NEW k \in 1..g
      PROVE  e[Len(d) + k] = b[k]
  <2>1. /\ Len(d) + k \in 1..Len(e) /\ ~(Len(d) + k <= Len(d))
        /\ (Len(d) + k) - Len(d) = k
    BY <1>2, <1>4, <1>5
  <2> QED
    BY <1>3, <1>4, <2>1
<1> HIDE DEF e
<1> QED
  BY <1>4, <1>6, <1>7 DEF e, g

\* What it hands over when the total is not -1.
LEMMA JoinedBytes ==
    ASSUME NEW d \in Seq(Nat), NEW b \in [1..Want -> Nat], NEW n \in 0..Want
    PROVE  /\ Len(d \o SubSeq(b, 1, n)) = Len(d) + n
           /\ \A k \in 1..Len(d) : (d \o SubSeq(b, 1, n))[k] = d[k]
           /\ \A k \in 1..n : (d \o SubSeq(b, 1, n))[Len(d) + k] = b[k]
<1>1. n \in -1..Want /\ (IF n > 0 THEN n ELSE 0) = n
  BY SerialAssumption
<1> QED
  BY <1>1, Joined

-------------------------------------------------------------------------------
(* Type correctness.                                                        *)

\* While a call reads on, the buffers are as GetsMoves needs them.
LEMMA ReadingBuffers ==
    Sizes /\ Bytes /\ ToRead => Buffers
BY DEF Sizes, Bytes, Buffers

LEMMA SerTypeInit == SerialInit => SerTypeInv
<1> SUFFICES ASSUME SerialInit PROVE SerTypeInv
  OBVIOUS
<1>1. Descriptors
  BY FS_EmptySet, SerialAssumption DEF SerialInit, Descriptors
<1>2. Sizes
  BY SerialAssumption DEF SerialInit, Sizes, Reading, ToRead
<1>3. Bytes
  BY SerialAssumption DEF SerialInit, Bytes
<1>4. Flags
  <2>1. hungUp \in BOOLEAN /\ staleErrno \in BOOLEAN
    BY DEF SerialInit
  <2>2. readErrors \in 0..MaxReadErrors
    BY SerialAssumption DEF SerialInit
  <2> QED
    BY <2>1, <2>2 DEF Flags
<1> QED
  BY <1>1, <1>2, <1>3, <1>4 DEF SerTypeInv

LEMMA FlagsStep == Flags /\ [SerialNext]_serVars => Flags'
<1> SUFFICES ASSUME Flags, [SerialNext]_serVars PROVE Flags'
  OBVIOUS
<1> USE SerialAssumption
<1>1. CASE RL8000_WinOpenCom
  BY <1>1 DEF RL8000_WinOpenCom, ttyVars, Flags
<1>2. CASE RL8000_WinClosePort
  BY <1>2 DEF RL8000_WinClosePort, Flush, ttyVars, Flags
<1>3. CASE WinSerial_PurgeComm
  BY <1>3 DEF WinSerial_PurgeComm, Flush, Flags
<1>4. CASE (\E len \in Lens : WinSerial_Write(len)) \/ WinSerial_Read
  BY <1>4 DEF WinSerial_Write, WinSerial_Read, ttyVars, Flags
<1>5. CASE Written \/ NotWritten \/ WriteError
  BY <1>5 DEF Written, NotWritten, WriteError, ttyVars, Flags
<1>6. CASE Drain \/ Drained \/ Ready \/ TimedOut \/ Read \/ ReadEnd \/ ReadError
  BY <1>6 DEF Drain, Drained, Ready, TimedOut, Read, ReadEnd, ReadError, ttyVars, Flags
<1>7. CASE Arrive \/ HangUp
  BY <1>7 DEF Arrive, HangUp, Flags
<1>8. CASE UNCHANGED serVars
  BY <1>8 DEF serVars, ttyVars, Flags
<1> QED
  BY <1>1, <1>2, <1>3, <1>4, <1>5, <1>6, <1>7, <1>8 DEF SerialNext, InCall, Program

\* Only opening and closing change descriptors; a call begins on an open port.
LEMMA DescriptorsStep == Descriptors /\ [SerialNext]_serVars => Descriptors'
<1> SUFFICES ASSUME Descriptors, [SerialNext]_serVars PROVE Descriptors'
  OBVIOUS
<1>1. ASSUME UNCHANGED portVars, pc' # "idle" => pc # "idle" \/ IsOpen
      PROVE  Descriptors'
  BY <1>1 DEF Descriptors, portVars, IsOpen
<1>2. CASE RL8000_WinOpenCom
  <2>1. PICK noIni, first, second \in BOOLEAN : OpenCom(noIni, first, second)
    BY <1>2 DEF RL8000_WinOpenCom
  <2>2. fds \subseteq Numbers /\ Cardinality(fds) < MaxFds
    BY <1>2 DEF RL8000_WinOpenCom, Numbers, Descriptors
  <2>3. /\ fds' \subseteq Numbers /\ m_iFD' \in fds' \cup {ERR_KEY}
        /\ Cardinality(fds') <= MaxFds + 1
    BY <2>1, <2>2, OpenKeepsFds
  <2>4. pc' = "idle"
    BY <1>2 DEF RL8000_WinOpenCom, callVars
  <2> QED
    BY <2>3, <2>4 DEF Descriptors, Numbers
<1>3. CASE RL8000_WinClosePort
  <2>1. fds \subseteq Numbers /\ Cardinality(fds) <= MaxFds + 1 /\ fds' = fds \ {m_iFD}
    BY <1>3 DEF RL8000_WinClosePort, Numbers, Descriptors
  <2>2. fds' \subseteq Numbers /\ Cardinality(fds') <= MaxFds + 1
    BY <2>1, CloseKeepsFds
  <2>3. pc' = "idle" /\ m_iFD' = ERR_KEY
    BY <1>3 DEF RL8000_WinClosePort, callVars
  <2> QED
    BY <2>2, <2>3 DEF Descriptors, Numbers
<1>4. CASE WinSerial_PurgeComm \/ (\E len \in Lens : WinSerial_Write(len)) \/ WinSerial_Read
  BY <1>1, <1>4 DEF WinSerial_PurgeComm, WinSerial_Write, WinSerial_Read, callVars
<1>5. CASE InCall
  BY <1>1, <1>5 DEF InCall, Written, NotWritten, WriteError, Drain, Drained, Ready,
     TimedOut, Read, ReadEnd, ReadError
<1>6. CASE Arrive \/ HangUp \/ UNCHANGED serVars
  BY <1>1, <1>6 DEF Arrive, HangUp, serVars, callVars
<1> QED
  BY <1>2, <1>3, <1>4, <1>5, <1>6 DEF SerialNext, Program

LEMMA SizesBytesStep ==
    Sizes /\ Bytes /\ [SerialNext]_serVars => Sizes' /\ Bytes'
<1> SUFFICES ASSUME Sizes, Bytes, [SerialNext]_serVars PROVE Sizes' /\ Bytes'
  OBVIOUS
<1> USE SerialAssumption
<1>1. ASSUME UNCHANGED callVars PROVE Sizes'
  BY <1>1 DEF callVars, Sizes, Reading, ToRead
<1>2. ASSUME UNCHANGED <<pData, line, ttyVars>> PROVE Bytes'
  BY <1>2 DEF ttyVars, Bytes
<1>3. ASSUME Flush, UNCHANGED <<pData, line>> PROVE Bytes'
  BY <1>3 DEF Flush, Bytes
<1>4. CASE RL8000_WinOpenCom
  BY <1>1, <1>2, <1>4 DEF RL8000_WinOpenCom, callVars
<1>5. CASE RL8000_WinClosePort
  BY <1>1, <1>2, <1>3, <1>5 DEF RL8000_WinClosePort, callVars
<1>6. CASE WinSerial_PurgeComm
  BY <1>1, <1>3, <1>6 DEF WinSerial_PurgeComm, callVars
<1>7. ASSUME NEW len \in Lens, WinSerial_Write(len)
      PROVE  Sizes' /\ Bytes'
  <2>1. Sizes'
    BY <1>7 DEF WinSerial_Write, Sizes, Reading, ToRead
  <2>2. Bytes'
    BY <1>7 DEF WinSerial_Write, ttyVars, Bytes
  <2> QED
    BY <2>1, <2>2
<1>8. CASE WinSerial_Read
  <2>1. Sizes'
    BY <1>8 DEF WinSerial_Read, Sizes, Reading, ToRead
  <2>2. Bytes'
    BY <1>8 DEF WinSerial_Read, ttyVars, Bytes
  <2> QED
    BY <2>1, <2>2
<1>9. ASSUME NextTry, pc = "write", iTotal' \in Int, UNCHANGED iLen
      PROVE  Sizes'
  BY <1>9 DEF NextTry, TriesLeft, Sizes, Reading, ToRead
<1>10. CASE Written
  <2>1. PICK n \in 1..length - iTotal :
             /\ line' = line \o [k \in 1..n |-> iTotal + k]
             /\ iTotal' = iTotal + n
    BY <1>10 DEF Written
  <2>2. iTotal' \in Int /\ line' \in Seq(Int)
    <3>1. iTotal \in Int /\ line \in Seq(Int)
      BY DEF Sizes, Bytes
    <3>2. [k \in 1..n |-> iTotal + k] \in Seq(Int)
      BY <3>1
    <3> QED
      BY <2>1, <3>1, <3>2
  <2>3. Bytes'
    BY <1>10, <2>2 DEF Written, ttyVars, Bytes
  <2>4. Sizes'
    <3>1. CASE iTotal' = length
      BY <1>10, <2>2, <3>1 DEF Written, Sizes, Reading, ToRead
    <3>2. CASE iTotal' # length
      BY <1>9, <1>10, <2>2, <3>2 DEF Written
    <3> QED
      BY <3>1, <3>2
  <2> QED
    BY <2>3, <2>4
<1>11. CASE NotWritten \/ WriteError
  <2>1. iTotal' \in Int
    BY <1>11 DEF NotWritten, WriteError, ErrorCount, Sizes
  <2>2. Sizes'
    BY <1>9, <1>11, <2>1 DEF NotWritten, WriteError
  <2>3. Bytes'
    BY <1>2, <1>11 DEF NotWritten, WriteError
  <2> QED
    BY <2>2, <2>3
<1>12. ASSUME NEW n \in -1..Want, NEW b \in [1..Want -> Nat], ReturnRead(n, b)
       PROVE  pc' = "idle" /\ length' \in Int /\ delivered' \in Seq(Nat)
  <2>1. delivered \in Seq(Nat)
    BY DEF Bytes
  <2>2. n \in Int
    OBVIOUS
  <2> QED
    BY <1>12, <2>1, <2>2, Joined DEF ReturnRead
<1>13. CASE Drain
  <2>1. PICK n \in 1..Want : Gets(n)
    BY <1>13 DEF Drain
  <2>2. n \in 0..Want /\ Buffers
    BY <1>13, ReadingBuffers DEF Drain, ToRead
  <2>3. /\ pData' \in [1..Want -> Nat] /\ input' \in Seq(Nat)
        /\ iTotal' \in 0..Want /\ iLen' = n
    BY <2>1, <2>2, GetsMoves
  <2>4. CASE iTotal' = Want
    <3>1. pc' = "idle" /\ length' \in Int /\ delivered' \in Seq(Nat)
      BY <1>12, <1>13, <2>3, <2>4 DEF Drain
    <3>2. UNCHANGED <<line, iTryTime, arrived>>
      BY <1>13 DEF Drain
    <3>3. Sizes'
      BY <2>3, <3>1, <3>2 DEF Sizes, Reading, ToRead
    <3> QED
      BY <2>3, <3>1, <3>2, <3>3 DEF Bytes
  <2>5. CASE iTotal' # Want
    <3>1. pc = "drain" /\ UNCHANGED <<pc, length, delivered, line, iTryTime, arrived>>
      BY <1>13, <2>5 DEF Drain
    <3>2. Sizes'
      BY <2>3, <2>5, <3>1 DEF Sizes, Reading, ToRead
    <3> QED
      BY <2>3, <3>1, <3>2 DEF Bytes
  <2> QED
    BY <2>4, <2>5
<1>14. CASE Drained
  <2>1. Sizes'
    BY <1>14 DEF Drained, Sizes, Reading, ToRead
  <2> QED
    BY <1>2, <1>14, <2>1 DEF Drained
<1>15. CASE Ready
  <2>1. /\ iTotal \in -1..Want /\ pData \in [1..Want -> Nat]
        /\ UNCHANGED <<pData, line, iTotal, iLen, iTryTime, input, arrived>>
    BY <1>15 DEF Ready, Sizes, Bytes, Reading
  <2>2. CASE pc = "select" \/ GoOn(iLen)
    <3>1. /\ pc \in {"select", "poll"} /\ (pc = "select" \/ iLen > 0)
          /\ pc' = "read" /\ UNCHANGED <<length, delivered>>
      BY <1>15, <2>2 DEF Ready, GoOn
    <3>2. Sizes'
      BY <2>1, <3>1 DEF Sizes, Reading, ToRead
    <3> QED
      BY <2>1, <3>1, <3>2 DEF Bytes
  <2>3. CASE ~(pc = "select" \/ GoOn(iLen))
    <3>1. pc' = "idle" /\ length' \in Int /\ delivered' \in Seq(Nat)
      BY <1>12, <1>15, <2>1, <2>3 DEF Ready
    <3>2. Sizes'
      BY <2>1, <3>1 DEF Sizes, Reading, ToRead
    <3> QED
      BY <2>1, <3>1, <3>2 DEF Bytes
  <2> QED
    BY <2>2, <2>3
<1>16. CASE TimedOut
  <2>1. /\ iTotal \in -1..Want /\ pData \in [1..Want -> Nat]
        /\ UNCHANGED <<pData, line, iTotal, iLen, iTryTime, input, arrived>>
    BY <1>16 DEF TimedOut, Sizes, Bytes, Reading
  <2>2. pc' = "idle" /\ length' \in Int /\ delivered' \in Seq(Nat)
    BY <1>12, <1>16, <2>1 DEF TimedOut
  <2>3. Sizes'
    BY <2>1, <2>2 DEF Sizes, Reading, ToRead
  <2> QED
    BY <2>1, <2>2, <2>3 DEF Bytes
<1>17. CASE Read
  <2>1. PICK n \in 0..Want : Gets(n)
    BY <1>17 DEF Read
  <2>2. Buffers
    BY <1>17, ReadingBuffers DEF Read, ToRead
  <2>3. /\ pData' \in [1..Want -> Nat] /\ input' \in Seq(Nat)
        /\ iTotal' \in 0..Want /\ iLen' = n
    BY <2>1, <2>2, GetsMoves
  <2>4. pc' = "poll" /\ UNCHANGED <<line, length, iTryTime, arrived, delivered>>
    BY <1>17 DEF Read
  <2>5. Sizes'
    BY <2>3, <2>4 DEF Sizes, Reading, ToRead
  <2> QED
    BY <2>3, <2>4, <2>5 DEF Bytes
<1>18. CASE ReadEnd
  <2>1. Sizes'
    BY <1>18 DEF ReadEnd, Sizes, Reading, ToRead
  <2> QED
    BY <1>2, <1>18, <2>1 DEF ReadEnd
<1>22. CASE ReadError
  <2>1. iTotal \in 0..Want /\ iTotal' = iTotal - 1 /\ iLen' = -1
    BY <1>22 DEF ReadError, Sizes, ToRead
  <2>2. iTotal' \in -1..Want /\ iLen' \in Int /\ ~(iLen' > 0)
    BY <2>1
  <2>3. pc' = "poll" /\ UNCHANGED <<length, iTryTime, pData, line, input, arrived, delivered>>
    BY <1>22 DEF ReadError
  <2>4. Sizes'
    BY <2>2, <2>3 DEF Sizes, Reading, ToRead
  <2> QED
    BY <2>3, <2>4 DEF Bytes
<1>19. CASE Arrive
  <2>1. arrived' \in Nat /\ input' \in Seq(Nat)
    BY <1>19 DEF Arrive, Bytes
  <2> QED
    BY <1>1, <1>19, <2>1 DEF Arrive, callVars, Bytes
<1>20. CASE HangUp
  BY <1>1, <1>20 DEF HangUp, callVars, Bytes
<1>21. CASE UNCHANGED serVars
  BY <1>1, <1>2, <1>21 DEF serVars, callVars
<1> QED
  BY <1>4, <1>5, <1>6, <1>7, <1>8, <1>10, <1>11, <1>13, <1>14, <1>15, <1>16, <1>17,
     <1>18, <1>22, <1>19, <1>20, <1>21 DEF SerialNext, InCall, Program

LEMMA SerTypeStep == SerTypeInv /\ [SerialNext]_serVars => SerTypeInv'
BY FlagsStep, DescriptorsStep, SizesBytesStep DEF SerTypeInv

\* The variables of SerialPort have their types, whatever happens on the line.
THEOREM SerialTypeCorrect == SerialSpec => []SerialTypeOK
<1>1. SerTypeInv => SerialTypeOK
  BY DEF SerTypeInv, SerialTypeOK, Descriptors, Sizes, Bytes, Flags, Reading
<1> QED
  BY SerTypeInit, SerTypeStep, <1>1, PTL DEF SerialSpec

-------------------------------------------------------------------------------
(* Reads.                                                                   *)

\* The bytes of the current read, and all that the reads have up to now.
Has == IF pc \in Reading THEN SubSeq(pData, 1, iTotal) ELSE << >>
HandedOver == delivered \o Has

\* A sequence of bytes in the order they arrived in, none later than byte h.
Rising(s, h) == /\ \A k \in 1..Len(s) : s[k] \in 1..h
                /\ \A j, k \in 1..Len(s) : j < k => s[j] < s[k]

\* The driver holds the last bytes that arrived, the reads have earlier ones in
\* order, and as many are missing as reads have failed.
Held    == arrived - Len(input)
Queued  == Held \in Nat /\ \A k \in 1..Len(input) : input[k] = Held + k
ReadInv == /\ Queued /\ Rising(HandedOver, Held)
           /\ Held <= Len(HandedOver) + readErrors

LEMMA ReadInit == SerialInit => ReadInv
BY SerialAssumption DEF SerialInit, ReadInv, HandedOver, Has, Reading, Rising, Held, Queued

\* The read so far with its last byte taken off has no more and loses none else.
LEMMA OneLess ==
    ASSUME NEW d \in Seq(Nat), NEW b \in [1..Want -> Nat], NEW n \in 0..Want, NEW h \in Nat,
           Rising(d \o SubSeq(b, 1, n), h)
    PROVE  /\ Rising(d \o SubSeq(b, 1, n - 1), h)
           /\ Len(d \o SubSeq(b, 1, n)) <= Len(d \o SubSeq(b, 1, n - 1)) + 1
<1> DEFINE e == d \o SubSeq(b, 1, n)
           f == d \o SubSeq(b, 1, n - 1)
           g == IF n > 1 THEN n - 1 ELSE 0
<1>1. Want \in Nat /\ n \in Nat /\ n - 1 \in -1..Want /\ n \in -1..Want /\ Len(d) \in Nat
  BY SerialAssumption
<1>2. /\ Len(e) = Len(d) + n
      /\ \A k \in 1..Len(d) : e[k] = d[k]
      /\ \A k \in 1..n : e[Len(d) + k] = b[k]
  <2>1. n = IF n > 0 THEN n ELSE 0
    BY <1>1
  <2> QED
    BY <1>1, <2>1, Joined
<1>3. /\ Len(f) = Len(d) + g
      /\ \A k \in 1..Len(d) : f[k] = d[k]
      /\ \A k \in 1..g : f[Len(d) + k] = b[k]
  <2>1. g = IF n - 1 > 0 THEN n - 1 ELSE 0
    BY <1>1
  <2> QED
    BY <1>1, <2>1, Joined
<1>4. g \in Nat /\ g <= n /\ n <= g + 1
  BY <1>1
<1> HIDE DEF e, f, g
<1>5. ASSUME NEW k \in 1..Len(f)
      PROVE  k \in 1..Len(e) /\ f[k] = e[k]
  <2>1. k \in 1..Len(e)
    BY <1>1, <1>2, <1>3, <1>4
  <2>2. CASE k <= Len(d)
    BY <1>1, <1>2, <1>3, <2>2
  <2>3. CASE ~(k <= Len(d))
    <3>1. k - Len(d) \in 1..g /\ k - Len(d) \in 1..n /\ Len(d) + (k - Len(d)) = k
      BY <1>1, <1>3, <1>4, <2>3
    <3>2. f[Len(d) + (k - Len(d))] = b[k - Len(d)] /\ e[Len(d) + (k - Len(d))] = b[k - Len(d)]
      BY <1>2, <1>3, <3>1
    <3> QED
      BY <2>1, <3>1, <3>2
  <2> QED
    BY <2>1, <2>2, <2>3
<1>6. Rising(e, h)
  BY DEF e
<1>7. Rising(f, h)
  BY <1>5, <1>6 DEF Rising
<1>8. Len(e) <= Len(f) + 1
  BY <1>1, <1>2, <1>3, <1>4
<1> QED
  BY <1>7, <1>8 DEF e, f

\* Getting n bytes moves them from the queue to the read.
LEMMA GetsInOrder ==
    ASSUME SerTypeInv, ReadInv, ToRead, NEW n \in 0..Want, Gets(n),
           UNCHANGED <<arrived, readErrors>>
    PROVE  LET r == delivered \o SubSeq(pData', 1, iTotal')
           IN  Queued' /\ Rising(r, Held') /\ Held' <= Len(r) + readErrors'
<1> DEFINE e == delivered \o SubSeq(pData, 1, iTotal)
           r == delivered \o SubSeq(pData', 1, iTotal')
           L == Len(delivered)
<1>1. /\ iTotal \in 0..Want /\ input \in Seq(Nat) /\ arrived \in Nat /\ readErrors \in Nat
      /\ Len(input) \in Nat /\ L \in Nat /\ Want \in Nat /\ iTotal \in Nat
      /\ pData \in [1..Want -> Nat] /\ delivered \in Seq(Nat) /\ n \in Nat
  BY SerialAssumption DEF SerTypeInv, Sizes, Bytes, Flags
<1>2. HandedOver = e
  BY DEF HandedOver, Has, ToRead, Reading
<1>3. Buffers
  BY ReadingBuffers DEF SerTypeInv
<1>4. /\ iTotal' = iTotal + n /\ iTotal' \in 0..Want /\ pData' \in [1..Want -> Nat]
      /\ n <= Len(input) /\ Len(input') = Len(input) - n
      /\ \A k \in 1..Len(input') : input'[k] = input[k + n]
      /\ \A k \in 1..Want : pData'[k] = IF iTotal < k /\ k <= iTotal + n
                                        THEN input[k - iTotal] ELSE pData[k]
  BY <1>3, GetsMoves
<1>5. /\ Len(e) = L + iTotal
      /\ \A k \in 1..L : e[k] = delivered[k]
      /\ \A k \in 1..iTotal : e[L + k] = pData[k]
  BY <1>1, JoinedBytes
<1>6. /\ Len(r) = L + iTotal'
      /\ \A k \in 1..L : r[k] = delivered[k]
      /\ \A k \in 1..iTotal' : r[L + k] = pData'[k]
  BY <1>1, <1>4, JoinedBytes
<1>7. /\ Held \in Nat /\ \A k \in 1..Len(input) : input[k] = Held + k
      /\ Rising(e, Held) /\ Held <= Len(e) + readErrors
  BY <1>2 DEF ReadInv, Queued
<1>8. Held' = Held + n
  BY <1>1, <1>4 DEF Held
<1> HIDE DEF e, r, L
<1>9. Len(r) = Len(e) + n /\ Len(e) \in Nat
  BY <1>1, <1>4, <1>5, <1>6
<1>10. ASSUME NEW k \in 1..Len(e)
       PROVE  k \in 1..Len(r) /\ r[k] = e[k]
  <2>1. k \in 1..Len(r)
    BY <1>1, <1>9
  <2>2. CASE k <= L
    <3>1. k \in 1..L
      BY <1>1, <1>9, <2>2
    <3> QED
      BY <1>5, <1>6, <2>1, <3>1
  <2>3. CASE ~(k <= L)
    <3>1. /\ k - L \in 1..iTotal /\ k - L \in 1..iTotal' /\ L + (k - L) = k
          /\ k - L \in 1..Want /\ ~(iTotal < k - L)
      BY <1>1, <1>4, <1>5, <2>3
    <3>2. e[L + (k - L)] = pData[k - L] /\ r[L + (k - L)] = pData'[k - L]
      BY <1>5, <1>6, <3>1
    <3>3. pData'[k - L] = pData[k - L]
      BY <1>4, <3>1
    <3> QED
      BY <2>1, <3>1, <3>2, <3>3
  <2> QED
    BY <2>1, <2>2, <2>3
<1>11. ASSUME NEW k \in 1..Len(r), ~(k <= Len(e))
       PROVE  r[k] = Held + (k - Len(e)) /\ k - Len(e) \in 1..n
  <2>1. /\ k - L \in 1..iTotal' /\ L + (k - L) = k /\ k - L \in 1..Want
        /\ iTotal < k - L /\ k - L <= iTotal + n
        /\ (k - L) - iTotal = k - Len(e)
        /\ k - Len(e) \in 1..n /\ k - Len(e) \in 1..Len(input)
    BY <1>1, <1>4, <1>5, <1>6, <1>11
  <2>2. r[L + (k - L)] = pData'[k - L]
    BY <1>6, <2>1
  <2>3. pData'[k - L] = input[(k - L) - iTotal]
    BY <1>4, <2>1
  <2>4. input[k - Len(e)] = Held + (k - Len(e))
    BY <1>7, <2>1
  <2> QED
    BY <2>1, <2>2, <2>3, <2>4
<1>12. ASSUME NEW k \in 1..Len(r)
       PROVE  r[k] \in 1..Held + n
  <2>1. CASE k <= Len(e)
    <3>1. k \in 1..Len(e)
      BY <1>9, <2>1
    <3>2. r[k] \in 1..Held
      BY <1>7, <1>10, <3>1 DEF Rising
    <3> QED
      BY <1>1, <1>7, <3>2
  <2>2. CASE ~(k <= Len(e))
    BY <1>1, <1>7, <1>9, <1>11, <2>2
  <2> QED
    BY <2>1, <2>2
<1>13. ASSUME NEW j \in 1..Len(r), NEW k \in 1..Len(r), j < k
       PROVE  r[j] < r[k]
  <2>1. CASE k <= Len(e)
    <3>1. j \in 1..Len(e) /\ k \in 1..Len(e)
      BY <1>9, <1>13, <2>1
    <3> QED
      BY <1>7, <1>10, <1>13, <3>1 DEF Rising
  <2>2. CASE ~(k <= Len(e)) /\ j <= Len(e)
    <3>1. j \in 1..Len(e)
      BY <1>9, <2>2
    <3>2. r[j] \in 1..Held
      BY <1>7, <1>10, <3>1 DEF Rising
    <3>3. r[k] = Held + (k - Len(e)) /\ k - Len(e) \in 1..n
      BY <1>11, <2>2
    <3> QED
      BY <1>7, <3>2, <3>3
  <2>3. CASE ~(k <= Len(e)) /\ ~(j <= Len(e))
    <3>1. r[k] = Held + (k - Len(e)) /\ r[j] = Held + (j - Len(e))
      BY <1>11, <2>3
    <3> QED
      BY <1>7, <1>9, <1>13, <3>1
  <2> QED
    BY <2>1, <2>2, <2>3
<1>14. Rising(r, Held')
  BY <1>8, <1>12, <1>13 DEF Rising
<1>15. Queued'
  <2>1. Held' \in Nat
    BY <1>1, <1>7, <1>8
  <2>2. ASSUME NEW k \in 1..Len(input')
        PROVE  input'[k] = Held' + k
    <3>1. k + n \in 1..Len(input)
      BY <1>1, <1>4
    <3>2. input'[k] = Held + (k + n)
      BY <1>4, <1>7, <3>1
    <3> QED
      BY <1>1, <1>7, <1>8, <3>2
  <2> QED
    BY <2>1, <2>2 DEF Queued
<1>16. Held' <= Len(r) + readErrors'
  BY <1>1, <1>7, <1>8, <1>9
<1> QED
  BY <1>14, <1>15, <1>16 DEF r

LEMMA ReadStep ==
    SerTypeInv /\ ReadInv /\ [SerialNext]_serVars => ReadInv'
<1> SUFFICES ASSUME SerTypeInv, ReadInv, [SerialNext]_serVars PROVE ReadInv'
  OBVIOUS
<1>t. /\ iTotal \in Int /\ arrived \in Nat /\ Want \in Nat /\ readErrors \in Nat
      /\ Len(input) \in Nat /\ delivered \in Seq(Nat)
      /\ pData \in [1..Want -> Nat]
  BY SerialAssumption DEF SerTypeInv, Sizes, Bytes, Flags
\* A step that moves no byte, or that begins or ends a read.
<1>1. ASSUME HandedOver' = HandedOver, UNCHANGED <<input, arrived, readErrors>>
      PROVE  ReadInv'
  BY <1>1 DEF ReadInv, Queued, Held, Rising
<1>2. ASSUME pc \notin Reading
      PROVE  HandedOver = delivered
  BY <1>2, <1>t, ConcatEmptySeq DEF HandedOver, Has
<1>3. ASSUME pc' \notin Reading, delivered' \in Seq(Nat)
      PROVE  HandedOver' = delivered'
  BY <1>3, ConcatEmptySeq DEF HandedOver, Has
<1>4. ASSUME Flush, pc' \notin Reading
      PROVE  ReadInv'
  <2>1. delivered' = << >> /\ input' = << >> /\ arrived' = 0 /\ readErrors' = 0
    BY <1>4 DEF Flush
  <2>2. HandedOver' = << >>
    BY <1>3, <1>4, <2>1
  <2> QED
    BY <2>1, <2>2 DEF ReadInv, Queued, Held, Rising
<1>5. ASSUME UNCHANGED <<callVars, ttyVars>>
      PROVE  ReadInv'
  BY <1>1, <1>5 DEF callVars, ttyVars, HandedOver, Has
<1>6. ASSUME pc \notin Reading, pc' \notin Reading, UNCHANGED ttyVars
      PROVE  ReadInv'
  BY <1>1, <1>2, <1>3, <1>6, <1>t DEF ttyVars
<1>7. CASE RL8000_WinOpenCom
  BY <1>5, <1>7 DEF RL8000_WinOpenCom
<1>8. CASE RL8000_WinClosePort
  BY <1>4, <1>5, <1>8 DEF RL8000_WinClosePort, callVars, Reading
<1>9. CASE WinSerial_PurgeComm
  BY <1>4, <1>9 DEF WinSerial_PurgeComm, callVars, Reading
<1>10. ASSUME NEW len \in Lens, WinSerial_Write(len)
       PROVE  ReadInv'
  BY <1>6, <1>10 DEF WinSerial_Write, Reading
<1>11. CASE Written \/ NotWritten \/ WriteError
  <2>1. pc = "write" /\ pc' \in {"write", "idle"} /\ UNCHANGED ttyVars
    BY <1>11 DEF Written, NotWritten, WriteError, NextTry
  <2> QED
    BY <1>6, <2>1 DEF Reading
<1>12. CASE WinSerial_Read
  <2>1. /\ pc \notin Reading /\ pc' \in Reading /\ UNCHANGED ttyVars
        /\ iTotal' = 0 /\ pData' \in Seq(Nat)
    BY <1>12, <1>t DEF WinSerial_Read, Reading
  <2>2. SubSeq(pData', 1, iTotal') = << >>
    BY <2>1, SubSeqProperties
  <2>3. HandedOver' = delivered
    BY <1>t, <2>1, <2>2, ConcatEmptySeq DEF HandedOver, Has, ttyVars
  <2> QED
    BY <1>1, <1>2, <2>1, <2>3 DEF ttyVars
\* Two ways a read goes on: with what it has, or returning it.
<1>13. ASSUME pc \in Reading, pc' \in Reading, UNCHANGED <<pData, iTotal, ttyVars>>
       PROVE  ReadInv'
  BY <1>1, <1>13 DEF ttyVars, HandedOver, Has
<1>14. ASSUME pc \in Reading, pc' \notin Reading, ReturnRead(iTotal, pData),
              UNCHANGED <<input, arrived, readErrors>>
       PROVE  ReadInv'
  <2>1. iTotal \in -1..Want /\ delivered' = delivered \o SubSeq(pData, 1, iTotal)
    BY <1>14 DEF SerTypeInv, Sizes, ReturnRead
  <2>2. delivered' \in Seq(Nat) /\ delivered' = HandedOver
    BY <1>14, <1>t, <2>1, Joined DEF HandedOver, Has
  <2> QED
    BY <1>1, <1>3, <1>14, <2>2
<1>15. CASE Drain
  <2>1. PICK n \in 1..Want : Gets(n)
    BY <1>15 DEF Drain
  <2>2. ToRead /\ UNCHANGED <<arrived, readErrors>> /\ n \in 0..Want /\ pc = "drain"
    BY <1>15 DEF Drain, ToRead
  <2> DEFINE r == delivered \o SubSeq(pData', 1, iTotal')
  <2>3. Queued' /\ Rising(r, Held') /\ Held' <= Len(r) + readErrors'
    BY <2>1, <2>2, GetsInOrder
  <2>4. HandedOver' = r
    <3>1. CASE iTotal' = Want
      <4>1. pc' = "idle" /\ delivered' = r
        BY <1>15, <3>1 DEF Drain, ReturnRead
      <4>2. iTotal' \in -1..Want /\ pData' \in [1..Want -> Nat]
        BY <1>t, <2>1, <2>2, <3>1, GetsMoves, ReadingBuffers DEF SerTypeInv
      <4>3. delivered' \in Seq(Nat)
        BY <1>t, <4>1, <4>2, Joined
      <4> QED
        BY <1>3, <4>1, <4>3 DEF Reading
    <3>2. CASE iTotal' # Want
      BY <1>15, <2>2, <3>2 DEF Drain, HandedOver, Has, Reading
    <3> QED
      BY <3>1, <3>2
  <2> HIDE DEF r
  <2> QED
    BY <2>3, <2>4 DEF ReadInv
<1>16. CASE Drained
  BY <1>13, <1>16 DEF Drained, Reading
<1>17. CASE Ready
  <2>1. pc \in Reading /\ UNCHANGED <<pData, iTotal, input, hungUp, arrived, readErrors>>
    BY <1>17 DEF Ready, Reading
  <2>2. CASE pc = "select" \/ GoOn(iLen)
    BY <1>13, <1>17, <2>1, <2>2 DEF Ready, Reading, ttyVars
  <2>3. CASE ~(pc = "select" \/ GoOn(iLen))
    <3>1. ReturnRead(iTotal, pData) /\ pc' \notin Reading
      BY <1>17, <2>3 DEF Ready, ReturnRead, Reading
    <3> QED
      BY <1>14, <2>1, <3>1
  <2> QED
    BY <2>2, <2>3
<1>18. CASE TimedOut
  <2>1. /\ pc \in Reading /\ UNCHANGED <<input, arrived, readErrors>>
        /\ ReturnRead(iTotal, pData) /\ pc' \notin Reading
    BY <1>18 DEF TimedOut, ReturnRead, Reading
  <2> QED
    BY <1>14, <2>1
<1>19. CASE Read
  <2>1. PICK n \in 0..Want : Gets(n)
    BY <1>19 DEF Read
  <2>2. /\ ToRead /\ pc' \in Reading
        /\ UNCHANGED <<arrived, readErrors, delivered>>
    BY <1>19 DEF Read, ToRead, Reading
  <2> DEFINE r == delivered \o SubSeq(pData', 1, iTotal')
  <2>3. Queued' /\ Rising(r, Held') /\ Held' <= Len(r) + readErrors'
    BY <2>1, <2>2, GetsInOrder
  <2>4. HandedOver' = r
    BY <2>2 DEF HandedOver, Has
  <2> HIDE DEF r
  <2> QED
    BY <2>3, <2>4 DEF ReadInv
<1>20. CASE ReadEnd
  BY <1>13, <1>20 DEF ReadEnd, Reading
<1>21. CASE ReadError
  <2>1. /\ pc \in Reading /\ pc' \in Reading /\ ToRead
        /\ iTotal' = iTotal - 1 /\ readErrors' = readErrors + 1
        /\ UNCHANGED <<pData, delivered, input, arrived>>
    BY <1>21 DEF ReadError, Reading, ToRead
  <2>2. iTotal \in 0..Want
    BY <2>1 DEF SerTypeInv, Sizes
  <2> DEFINE e == delivered \o SubSeq(pData, 1, iTotal)
             f == delivered \o SubSeq(pData, 1, iTotal - 1)
  <2>3. HandedOver = e /\ HandedOver' = f
    BY <2>1 DEF HandedOver, Has
  <2>4. Held \in Nat /\ Rising(e, Held) /\ Held <= Len(e) + readErrors
    BY <2>3 DEF ReadInv, Queued
  <2>5. Rising(f, Held) /\ Len(e) <= Len(f) + 1
    BY <1>t, <2>2, <2>4, OneLess
  <2>6. Len(e) \in Nat /\ Len(f) \in Nat
    <3>1. iTotal \in -1..Want /\ iTotal - 1 \in -1..Want
      BY <1>t, <2>2
    <3>2. e \in Seq(Nat) /\ f \in Seq(Nat)
      BY <1>t, <3>1, Joined
    <3> HIDE DEF e, f
    <3> QED
      BY <3>2
  <2> HIDE DEF e, f
  <2>7. Held' = Held /\ Queued' /\ Held' <= Len(f) + readErrors'
    BY <1>t, <2>1, <2>4, <2>5, <2>6 DEF Held, Queued, ReadInv
  <2> QED
    BY <2>3, <2>5, <2>7 DEF ReadInv
<1>22. CASE Arrive
  <2>1. /\ arrived' = arrived + 1 /\ input' = Append(input, arrived + 1)
        /\ UNCHANGED <<callVars, delivered, readErrors>>
    BY <1>22 DEF Arrive
  <2>2. /\ Len(input') = Len(input) + 1
        /\ \A k \in 1..Len(input) : input'[k] = input[k]
        /\ input'[Len(input) + 1] = arrived + 1
    BY <1>t, <2>1 DEF SerTypeInv, Bytes
  <2>3. HandedOver' = HandedOver
    BY <2>1 DEF HandedOver, Has, callVars
  <2>4. Held' = Held
    BY <1>t, <2>1, <2>2 DEF Held
  <2>5. \A k \in 1..Len(input') : input'[k] = Held' + k
    BY <1>t, <2>1, <2>2, <2>4 DEF ReadInv, Queued, Held
  <2> QED
    BY <2>1, <2>3, <2>4, <2>5 DEF ReadInv, Queued
<1>23. CASE HangUp
  BY <1>1, <1>23 DEF HangUp, callVars, HandedOver, Has
<1>24. CASE UNCHANGED serVars
  BY <1>5, <1>24 DEF serVars
<1> QED
  BY <1>7, <1>8, <1>9, <1>10, <1>11, <1>12, <1>15, <1>16, <1>17, <1>18, <1>19, <1>20,
     <1>21, <1>22, <1>23, <1>24 DEF SerialNext, InCall, Program

\* The invariant says of the reads and of the queue what the property says of
\* both together.
LEMMA ReadInvImplies == SerTypeInv /\ ReadInv => ReadInOrder
<1> SUFFICES ASSUME SerTypeInv, ReadInv PROVE ReadInOrder
  OBVIOUS
<1> DEFINE kept == HandedOver \o input
           N    == Len(HandedOver)
<1>1. /\ delivered \in Seq(Nat) /\ pData \in [1..Want -> Nat] /\ input \in Seq(Nat)
      /\ arrived \in Nat /\ Len(input) \in Nat /\ readErrors \in Nat
  BY DEF SerTypeInv, Bytes, Flags
<1>2. HandedOver \in Seq(Nat) /\ N \in Nat
  <2>1. HandedOver \in Seq(Nat)
    <3>1. CASE pc \in Reading
      <4>1. iTotal \in -1..Want
        BY <3>1 DEF SerTypeInv, Sizes
      <4> QED
        BY <1>1, <3>1, <4>1, Joined DEF HandedOver, Has
    <3>2. CASE pc \notin Reading
      BY <1>1, <3>2, ConcatEmptySeq DEF HandedOver, Has
    <3> QED
      BY <3>1, <3>2
  <2> QED
    BY <2>1
<1>3. /\ Len(kept) = N + Len(input)
      /\ \A k \in 1..Len(kept) : kept[k] = IF k <= N THEN HandedOver[k] ELSE input[k - N]
  BY <1>1, <1>2, ConcatProperties
<1>4. /\ Held \in Nat /\ Held + Len(input) = arrived
      /\ \A k \in 1..Len(input) : input[k] = Held + k
      /\ Rising(HandedOver, Held) /\ Held <= N + readErrors
  BY <1>1 DEF ReadInv, Queued, Held
<1> HIDE DEF kept, N
<1>5. ASSUME NEW k \in 1..Len(kept)
      PROVE  \/ k \in 1..N /\ kept[k] = HandedOver[k] /\ kept[k] \in 1..Held
             \/ k - N \in 1..Len(input) /\ kept[k] = Held + (k - N)
  <2>1. CASE k <= N
    <3>1. k \in 1..N
      BY <1>2, <2>1
    <3> QED
      BY <1>3, <1>4, <2>1, <3>1 DEF Rising, N
  <2>2. CASE ~(k <= N)
    <3>1. k - N \in 1..Len(input)
      BY <1>1, <1>2, <1>3, <2>2
    <3> QED
      BY <1>3, <1>4, <2>2, <3>1
  <2> QED
    BY <2>1, <2>2
<1>6. \A k \in 1..Len(kept) : kept[k] \in 1..arrived
  BY <1>1, <1>2, <1>4, <1>5
<1>7. ASSUME NEW j \in 1..Len(kept), NEW k \in 1..Len(kept), j < k
      PROVE  kept[j] < kept[k]
  <2>1. CASE k \in 1..N
    <3>1. j \in 1..N
      BY <1>2, <1>7, <2>1
    <3>2. kept[j] = HandedOver[j] /\ kept[k] = HandedOver[k]
      BY <1>2, <1>3, <2>1, <3>1
    <3> QED
      BY <1>4, <1>7, <2>1, <3>1, <3>2 DEF Rising, N
  <2>2. CASE k \notin 1..N
    <3>1. k - N \in 1..Len(input) /\ kept[k] = Held + (k - N)
      BY <1>5, <2>2
    <3>2. CASE j \in 1..N
      <4>1. kept[j] \in 1..Held
        BY <1>1, <1>2, <1>5, <3>2
      <4> QED
        BY <1>1, <1>2, <1>4, <3>1, <4>1
    <3>3. CASE j \notin 1..N
      <4>1. kept[j] = Held + (j - N)
        BY <1>5, <3>3
      <4> QED
        BY <1>1, <1>2, <1>4, <1>7, <3>1, <4>1
    <3> QED
      BY <3>2, <3>3
  <2> QED
    BY <2>1, <2>2
<1>8. arrived - Len(kept) <= readErrors
  BY <1>1, <1>2, <1>3, <1>4
<1>9. kept = delivered \o (IF pc \in {"drain", "select", "poll", "read"}
                           THEN SubSeq(pData, 1, iTotal) ELSE << >>) \o input
  BY DEF kept, HandedOver, Has, Reading
<1> QED
  BY <1>6, <1>7, <1>8, <1>9 DEF ReadInOrder

\* Reads hand over the bytes that arrived, each once and in order, for every
\* buffer size and however the bytes fall between the two loops.
THEOREM BytesInOrder == SerialSpec => []ReadInOrder
<1>1. SerialInit => SerTypeInv /\ ReadInv
  BY SerTypeInit, ReadInit
<1>2. (SerTypeInv /\ ReadInv) /\ [SerialNext]_serVars => (SerTypeInv /\ ReadInv)'
  BY SerTypeStep, ReadStep
<1> QED
  BY <1>1, <1>2, ReadInvImplies, PTL DEF SerialSpec

-------------------------------------------------------------------------------
(* Writes.                                                                  *)

\* A write that goes on: the driver took every byte up to the total, and the
\* last one not yet.
WriteInv ==
    pc = "write" => /\ length \in Nat /\ length > 0 /\ iTotal < length
                    /\ \A i \in 1..iTotal : \E k \in 1..Len(line) : line[k] = i
                    /\ \A k \in 1..Len(line) : line[k] < length

LEMMA WriteInvInit == SerialInit => WriteInv
BY DEF SerialInit, WriteInv

\* The step of the property, for the whole action.
AllSent(n, l)  == 1..n \subseteq {l[k] : k \in 1..Len(l)}
WriteSendsStep == pc = "write" /\ pc' = "idle" => (length' = length <=> AllSent(length, line'))

LEMMA WriteStep ==
    SerTypeInv /\ WriteInv /\ [SerialNext]_serVars => WriteInv' /\ WriteSendsStep
<1> SUFFICES ASSUME SerTypeInv, WriteInv, [SerialNext]_serVars
             PROVE  WriteInv' /\ WriteSendsStep
  OBVIOUS
<1>1. ASSUME pc # "write", pc' # "write"
      PROVE  WriteInv' /\ WriteSendsStep
  BY <1>1 DEF WriteInv, WriteSendsStep
<1>2. ASSUME UNCHANGED callVars
      PROVE  WriteInv' /\ WriteSendsStep
  BY <1>2 DEF callVars, WriteInv, WriteSendsStep
<1>3. CASE RL8000_WinOpenCom \/ RL8000_WinClosePort \/ WinSerial_PurgeComm
  BY <1>1, <1>3 DEF RL8000_WinOpenCom, RL8000_WinClosePort, WinSerial_PurgeComm, callVars
<1>4. CASE \/ WinSerial_Read \/ Drain \/ Drained \/ Ready \/ TimedOut
           \/ Read \/ ReadEnd \/ ReadError
  BY <1>1, <1>4 DEF WinSerial_Read, Drain, Drained, Ready, TimedOut, Read, ReadEnd,
     ReadError, ReturnRead
<1>5. ASSUME NEW len \in Lens, WinSerial_Write(len)
      PROVE  WriteInv' /\ WriteSendsStep
  <2>1. /\ pc = "idle" /\ line' = << >> /\ length' = len /\ iTotal' = 0
        /\ len \in Nat /\ len > 0
    BY <1>5, SerialAssumption DEF WinSerial_Write
  <2> QED
    BY <2>1 DEF WriteInv, WriteSendsStep
<1>6. ASSUME pc = "write"
      PROVE  /\ line \in Seq(Int) /\ Len(line) \in Nat
             /\ length \in Nat /\ length > 0 /\ iTotal \in Int /\ iTotal < length
             /\ \A i \in 1..iTotal : \E k \in 1..Len(line) : line[k] = i
             /\ \A k \in 1..Len(line) : line[k] < length
  BY <1>6 DEF SerTypeInv, Sizes, Bytes, WriteInv
\* The next try of a write that is not complete.
<1>7. ASSUME pc = "write", NextTry, iTotal' \in Int, iTotal' < length,
             \A i \in 1..iTotal' : \E k \in 1..Len(line') : line'[k] = i,
             \A k \in 1..Len(line') : line'[k] < length,
             Len(line') \in Nat, \A k \in 1..Len(line') : line'[k] \in Int
      PROVE  WriteInv' /\ WriteSendsStep
  <2>1. CASE pc' = "write"
    <3>1. length' = length
      BY <1>7, <2>1 DEF NextTry
    <3> QED
      BY <1>6, <1>7, <2>1, <3>1 DEF WriteInv, WriteSendsStep
  <2>2. CASE pc' # "write"
    <3>1. length' = iTotal'
      BY <1>7, <2>2 DEF NextTry
    <3>2. length' # length
      BY <1>6, <1>7, <3>1
    <3>3. length \in 1..length
      BY <1>6, <1>7
    <3>4. \A k \in 1..Len(line') : line'[k] # length
      BY <1>6, <1>7
    <3>5. ~AllSent(length, line')
      BY <3>3, <3>4 DEF AllSent
    <3> QED
      BY <2>2, <3>2, <3>5 DEF WriteInv, WriteSendsStep
  <2> QED
    BY <2>1, <2>2
<1>8. CASE Written
  <2>1. pc = "write"
    BY <1>8 DEF Written
  <2>2. PICK n \in 1..length - iTotal :
             /\ line' = line \o [k \in 1..n |-> iTotal + k]
             /\ iTotal' = iTotal + n
    BY <1>8 DEF Written
  <2>3. /\ line \in Seq(Int) /\ Len(line) \in Nat /\ iTotal \in Int /\ length \in Nat
        /\ n \in Nat /\ n > 0 /\ iTotal' \in Int /\ iTotal' <= length
    BY <1>6, <2>1, <2>2
  <2> DEFINE taken == [k \in 1..n |-> iTotal + k]
  <2>4. taken \in Seq(Int) /\ Len(taken) = n /\ \A k \in 1..n : taken[k] = iTotal + k
    BY <2>3
  <2> HIDE DEF taken
  <2>5. line' = line \o taken
    BY <2>2 DEF taken
  <2>6. /\ line' \in Seq(Int) /\ Len(line') = Len(line) + n
        /\ \A k \in 1..Len(line') : line'[k] = IF k <= Len(line) THEN line[k]
                                               ELSE taken[k - Len(line)]
    <3>1. line \in Seq(Int) /\ Len(line) + Len(taken) = Len(line) + n
      BY <2>3, <2>4
    <3> QED
      BY <2>4, <2>5, <3>1, ConcatProperties
  <2>7. ASSUME NEW k \in 1..Len(line')
        PROVE  \/ k \in 1..Len(line) /\ line'[k] = line[k]
               \/ k - Len(line) \in 1..n /\ line'[k] = iTotal + (k - Len(line))
    <3>1. CASE k <= Len(line)
      BY <2>3, <2>6, <3>1
    <3>2. CASE ~(k <= Len(line))
      <4>1. k - Len(line) \in 1..n
        BY <2>3, <2>6, <3>2
      <4> QED
        BY <2>4, <2>6, <3>2, <4>1
    <3> QED
      BY <3>1, <3>2
  <2>8. ASSUME NEW i \in 1..iTotal'
        PROVE  \E k \in 1..Len(line') : line'[k] = i
    <3>1. CASE i <= iTotal
      <4>1. i \in 1..iTotal
        BY <2>3, <3>1
      <4>2. PICK k \in 1..Len(line) : line[k] = i
        BY <1>6, <2>1, <4>1
      <4>3. k \in 1..Len(line') /\ line'[k] = line[k]
        BY <2>3, <2>6
      <4> QED
        BY <4>2, <4>3
    <3>2. CASE ~(i <= iTotal)
      <4>1. i - iTotal \in 1..n
        BY <2>2, <2>3, <3>2
      <4> DEFINE m == Len(line) + (i - iTotal)
      <4>2. m \in 1..Len(line') /\ ~(m <= Len(line)) /\ m - Len(line) = i - iTotal
        BY <2>3, <2>6, <4>1
      <4> HIDE DEF m
      <4>3. line'[m] = iTotal + (i - iTotal)
        BY <2>4, <2>6, <4>1, <4>2
      <4>4. line'[m] = i
        BY <2>3, <4>3
      <4> QED
        BY <4>2, <4>4
    <3> QED
      BY <3>1, <3>2
  <2>9. CASE iTotal' = length
    <3>1. pc' = "idle" /\ length' = length
      BY <1>8, <2>9 DEF Written
    <3>2. AllSent(length, line')
      BY <2>8, <2>9 DEF AllSent
    <3> QED
      BY <3>1, <3>2 DEF WriteInv, WriteSendsStep
  <2>10. CASE iTotal' # length
    <3>1. NextTry
      BY <1>8, <2>10 DEF Written
    <3>2. iTotal' < length
      BY <2>3, <2>10
    <3>3. ASSUME NEW k \in 1..Len(line')
          PROVE  line'[k] < length
      <4>1. CASE k \in 1..Len(line) /\ line'[k] = line[k]
        BY <1>6, <2>1, <4>1
      <4>2. CASE k - Len(line) \in 1..n /\ line'[k] = iTotal + (k - Len(line))
        BY <2>2, <2>3, <3>2, <4>2
      <4> QED
        BY <2>7, <4>1, <4>2
    <3>4. Len(line') \in Nat /\ \A k \in 1..Len(line') : line'[k] \in Int
      BY <2>6
    <3> QED
      BY <1>7, <2>1, <2>3, <2>8, <3>1, <3>2, <3>3, <3>4
  <2> QED
    BY <2>9, <2>10
<1>9. CASE NotWritten \/ WriteError
  <2>1. /\ pc = "write" /\ NextTry /\ line' = line
        /\ iTotal' = iTotal \/ iTotal' = iTotal - 1
    BY <1>6, <1>9 DEF NotWritten, WriteError, ErrorCount
  <2>2. iTotal' \in Int /\ iTotal' < length /\ 1..iTotal' \subseteq 1..iTotal
    BY <1>6, <2>1
  <2>3. \A k \in 1..Len(line) : line[k] \in Int
    BY <1>6, <2>1
  <2> QED
    BY <1>6, <1>7, <2>1, <2>2, <2>3
<1>10. CASE Arrive \/ HangUp \/ UNCHANGED serVars
  BY <1>2, <1>10 DEF Arrive, HangUp, serVars
<1> QED
  BY <1>3, <1>4, <1>5, <1>8, <1>9, <1>10 DEF SerialNext, InCall, Program

\* A write gives back the length it was asked for exactly when the driver took
\* every byte of the data, for every number of tries and of errors.
THEOREM WritesReportTrue == SerialSpec => FullReportSendsAll
<1>1. SerialInit => SerTypeInv /\ WriteInv
  BY SerTypeInit, WriteInvInit
<1>2. (SerTypeInv /\ WriteInv) /\ [SerialNext]_serVars => (SerTypeInv /\ WriteInv)'
  BY SerTypeStep, WriteStep
<1>3. (SerTypeInv /\ WriteInv) /\ [SerialNext]_serVars =>
         [pc = "write" /\ pc' = "idle" =>
             (length' = length <=> 1..length \subseteq {line'[k] : k \in 1..Len(line')})]_serVars
  BY WriteStep DEF WriteSendsStep, AllSent
<1> QED
  BY <1>1, <1>2, <1>3, PTL DEF SerialSpec, FullReportSendsAll
===============================================================================
