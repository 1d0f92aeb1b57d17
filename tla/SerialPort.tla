------------------------------ MODULE SerialPort ------------------------------
(***************************************************************************)
(* SerialPort.cpp and serialPortCtrl.cpp: the port that CommTransceive     *)
(* reads and writes through UART_READ, UART_WRITE and UART_PURGECOMM.  One *)
(* program thread uses the port; the device sends when it likes, and the   *)
(* line may be hung up (a USB adapter is pulled).  A read() or write() may *)
(* fail on a line that then goes on.  Bytes of the device are numbered as  *)
(* they arrive, bytes of the caller's data by their place.                 *)
(***************************************************************************)
EXTENDS Integers, Sequences, FiniteSets

CONSTANTS Want,      \* ByteToRecv: sizeof(tmpbuf) = 32 in CommTransceive
          Lens,      \* the lengths of the data written
          MaxTry,    \* ulTimeout of WriteData: 100
          MaxBytes,  \* bound of the model: bytes that arrive between flushes
          MaxReadErrors, \* bound of the model: reads that fail between flushes
          MaxFds     \* bound of the model: descriptors open at once

ASSUME SerialAssumption == /\ Want \in Nat \ {0} /\ MaxTry \in Nat \ {0}
                           /\ Lens \subseteq Nat \ {0}
                           /\ MaxBytes \in Nat /\ MaxReadErrors \in Nat
                           /\ MaxFds \in Nat

ERR_KEY == -1
Null    == -2            \* pSerialPort before the first RL8000_WinOpenCom

VARIABLES m_iFD,
          fds,           \* the descriptors of the port the process has open
          pc,            \* "idle", or where ReadDataEx or WriteData is
          pData,         \* the caller's buffer of a read, 0 where unwritten
          line,          \* the bytes of this write the driver took
          length,        \* iDataLen, iDataBytes: as passed, at the end as returned
          iTotal, iLen, iTryTime
portVars == <<m_iFD, fds>>
callVars == <<pc, pData, line, length, iTotal, iLen, iTryTime>>

VARIABLES input,         \* the driver's input queue
          hungUp,
          arrived,       \* number of bytes queued since the last flush
          delivered,     \* the bytes handed to the caller since the last flush
          readErrors,    \* how often a read() of the second loop failed since then
          staleErrno     \* some open found the errno 2 of an earlier failure
ttyVars == <<input, hungUp, arrived, delivered, readErrors>>
serVars == <<portVars, callVars, ttyVars, staleErrno>>

IsOpen == m_iFD \in Nat
Flush  == /\ input' = <<>> /\ arrived' = 0 /\ delivered' = <<>> /\ readErrors' = 0
          /\ UNCHANGED hungUp

-------------------------------------------------------------------------------
(* Opening, closing, purging.                                               *)

\* open(2) returns a number that is not in use; which one makes no difference.
Unused(open)     == CHOOSE f \in 1..MaxFds + 2 : f \notin open
With(open, ok)   == IF ok THEN open \cup {Unused(open)} ELSE open
Handle(open, ok) == IF ok THEN Unused(open) ELSE ERR_KEY

\* After the first open(): is it tried again?  A success leaves errno as it
\* was.  (Mutant: always.)
AgainAlways(errno2, ok) == TRUE
Again(errno2, ok)       == errno2 \/ ~ok

\* OpenCom, with the outcomes of its one or two open() of the same port.
OpenCom(errno2, first, second) ==
    IF Again(errno2, first)
    THEN m_iFD' = Handle(With(fds, first), second) /\ fds' = With(With(fds, first), second)
    ELSE m_iFD' = Handle(fds, first) /\ fds' = With(fds, first)

\* A new CSerialPortCtrl; the old one, closed, is forgotten.  Without a
\* SetComm.ini the errno is 2 from looking for it.  A program opens what is
\* closed, as main.cpp does, and once more after an open that failed.
RL8000_WinOpenCom ==
    /\ pc = "idle" /\ ~IsOpen /\ Cardinality(fds) < MaxFds
    /\ \E noIni, first, second \in BOOLEAN :
         /\ hungUp => ~first /\ ~second
         /\ OpenCom(noIni, first, second)
         /\ staleErrno' = (staleErrno \/ noIni)
    /\ UNCHANGED <<callVars, ttyVars>>

\* The last close of a port drops its input.
RL8000_WinClosePort ==
    /\ pc = "idle" /\ m_iFD # Null
    /\ m_iFD' = ERR_KEY
    /\ fds' = fds \ {m_iFD}
    /\ IF fds' = {} THEN Flush ELSE UNCHANGED ttyVars
    /\ UNCHANGED <<callVars, staleErrno>>

WinSerial_PurgeComm == /\ pc = "idle" /\ IsOpen
                       /\ Flush
                       /\ UNCHANGED <<portVars, callVars, staleErrno>>

-------------------------------------------------------------------------------
(* WriteData.                                                               *)

WinSerial_Write(len) ==
    /\ pc = "idle" /\ IsOpen
    /\ pc' = "write"
    /\ line' = <<>> /\ length' = len
    /\ iTotal' = 0 /\ iTryTime' = 0
    /\ UNCHANGED <<portVars, pData, iLen, ttyVars, staleErrno>>

\* while(++iTryTime < ulTimeout) (mutant: one try more); both ways out of the
\* loop set iDataLen = iTotal.
TriesLeftLate(tries) == tries <= MaxTry
TriesLeft(tries)     == tries < MaxTry
NextTry == /\ iTryTime' = iTryTime + 1
           /\ IF TriesLeft(iTryTime')
              THEN pc' = "write" /\ UNCHANGED length
              ELSE pc' = "idle" /\ length' = iTotal'

\* write() takes some of the bytes from pData + iTotal on; after an error that
\* is one byte further to the front, also of the data itself.
Written ==
    /\ pc = "write" /\ ~hungUp
    /\ \E n \in 1..length - iTotal :
         /\ line' = line \o [k \in 1..n |-> iTotal + k]
         /\ iTotal' = iTotal + n
    /\ IF iTotal' = length
       THEN pc' = "idle" /\ UNCHANGED <<length, iTryTime>>
       ELSE NextTry
    /\ UNCHANGED <<portVars, pData, iLen, ttyVars, staleErrno>>

\* It would block: EAGAIN.
NotWritten == /\ pc = "write" /\ ~hungUp
              /\ UNCHANGED iTotal
              /\ NextTry
              /\ UNCHANGED <<portVars, pData, line, iLen, ttyVars, staleErrno>>

\* Any other error adds its -1 to the total, and the next try goes on from
\* there (mutant: is counted as written).
ErrorWritten == length - iTotal
ErrorCount   == -1
WriteError == /\ pc = "write"
              /\ iTotal' = iTotal + ErrorCount
              /\ NextTry
              /\ UNCHANGED <<portVars, pData, line, iLen, ttyVars, staleErrno>>

-------------------------------------------------------------------------------
(* ReadDataEx.                                                              *)

WinSerial_Read ==
    /\ pc = "idle" /\ IsOpen
    /\ pc' = "drain"
    /\ pData' = [k \in 1..Want |-> 0] /\ length' = Want
    /\ iTotal' = 0 /\ iLen' = 0
    /\ UNCHANGED <<portVars, line, iTryTime, ttyVars, staleErrno>>

ReturnRead(n, buf) == /\ pc' = "idle"
                      /\ length' = n
                      /\ delivered' = delivered \o SubSeq(buf, 1, n)

\* read() into pData + iTotal (mutant: into pData).
StoredAtStart(n) == [k \in 1..Want |-> IF k <= n THEN input[k] ELSE pData[k]]
Stored(n)        == [k \in 1..Want |-> IF iTotal < k /\ k <= iTotal + n
                                       THEN input[k - iTotal] ELSE pData[k]]
Gets(n) == /\ ~hungUp
           /\ n <= Len(input) /\ n <= Want - iTotal
           /\ n = 0 => Want = iTotal
           /\ pData' = Stored(n)
           /\ input' = SubSeq(input, n + 1, Len(input))
           /\ iLen' = n /\ iTotal' = iTotal + n

\* The first loop takes what is there, and returns when the buffer is full.
Drain == /\ pc = "drain"
         /\ \E n \in 1..Want : Gets(n)
         /\ IF iTotal' = Want
            THEN ReturnRead(Want, pData')
            ELSE UNCHANGED <<pc, length, delivered>>
         /\ UNCHANGED <<portVars, line, iTryTime, hungUp, arrived, readErrors, staleErrno>>

\* Nothing there, end of file, or an error that may hit at any time.
Drained == /\ pc = "drain"
           /\ pc' = "select"
           /\ \E e \in {0, -1} : iLen' = e
           /\ UNCHANGED <<portVars, pData, line, length, iTotal, iTryTime, ttyVars, staleErrno>>

\* while(iLen > 0) (mutant: for ever).
GoOnAlways(len) == TRUE
GoOn(len)       == len > 0

\* select() says readable, of a port hung up as well.
Ready == /\ pc \in {"select", "poll"}
         /\ input # <<>> \/ hungUp
         /\ IF pc = "select" \/ GoOn(iLen)
            THEN pc' = "read" /\ UNCHANGED <<length, delivered>>
            ELSE ReturnRead(iTotal, pData)
         /\ UNCHANGED <<portVars, pData, line, iTotal, iLen, iTryTime,
                        input, hungUp, arrived, readErrors, staleErrno>>

\* Nothing for 1 s, or, once bytes came, for what is left of the loop's 20 ms
\* (Linux's select() counts its timeout down).
TimedOut == /\ pc \in {"select", "poll"}
            /\ input = <<>> /\ ~hungUp
            /\ ReturnRead(iTotal, pData)
            /\ UNCHANGED <<portVars, pData, line, iTotal, iLen, iTryTime,
                           input, hungUp, arrived, readErrors, staleErrno>>

\* The second loop.  With the buffer full it asks for no bytes and gets none.
Read == /\ pc = "read"
        /\ \E n \in 0..Want : Gets(n)
        /\ pc' = "poll"
        /\ UNCHANGED <<portVars, line, length, iTryTime, hungUp, arrived, delivered,
                       readErrors, staleErrno>>

\* End of file, of a port hung up.
ReadEnd == /\ pc = "read" /\ hungUp
           /\ iLen' = 0
           /\ pc' = "poll"
           /\ UNCHANGED <<portVars, pData, line, length, iTotal, iTryTime, ttyVars, staleErrno>>

\* An error, whose -1 is added to the total: the last byte read is not handed
\* over, and with none the total is -1.
ReadError == /\ pc = "read" /\ readErrors < MaxReadErrors
             /\ readErrors' = readErrors + 1
             /\ iLen' = -1 /\ iTotal' = iTotal - 1
             /\ pc' = "poll"
             /\ UNCHANGED <<portVars, pData, line, length, iTryTime,
                            input, hungUp, arrived, delivered, staleErrno>>

-------------------------------------------------------------------------------
(* The device and the line.                                                 *)

Arrive == /\ fds # {} /\ ~hungUp /\ arrived < MaxBytes
          /\ arrived' = arrived + 1
          /\ input' = Append(input, arrived')
          /\ UNCHANGED <<portVars, callVars, hungUp, delivered, readErrors, staleErrno>>

HangUp == /\ ~hungUp
          /\ hungUp' = TRUE
          /\ UNCHANGED <<portVars, callVars, input, arrived, delivered, readErrors, staleErrno>>

SerialInit == /\ m_iFD = Null /\ fds = {}
              /\ pc = "idle" /\ pData = [k \in 1..Want |-> 0] /\ line = <<>>
              /\ length = 0 /\ iTotal = 0 /\ iLen = 0 /\ iTryTime = 0
              /\ input = <<>> /\ hungUp = FALSE /\ arrived = 0 /\ delivered = <<>>
              /\ readErrors = 0 /\ staleErrno = FALSE

InCall  == Written \/ NotWritten \/ WriteError
           \/ Drain \/ Drained \/ Ready \/ TimedOut \/ Read \/ ReadEnd \/ ReadError
Program == RL8000_WinOpenCom \/ RL8000_WinClosePort \/ WinSerial_PurgeComm
           \/ (\E len \in Lens : WinSerial_Write(len)) \/ WinSerial_Read
SerialNext == InCall \/ Program \/ Arrive \/ HangUp

\* A call that has begun goes on: its system calls return, select() at the
\* latest when its time is over.
SerialSpec == SerialInit /\ [][SerialNext]_serVars /\ WF_serVars(InCall)

-------------------------------------------------------------------------------
SerialTypeOK ==
    /\ fds \subseteq 1..MaxFds + 2
    /\ m_iFD \in fds \cup {Null, ERR_KEY}
    /\ pc \in {"idle", "write", "drain", "select", "poll", "read"}
    /\ pData \in [1..Want -> Nat] /\ line \in Seq(Int) /\ length \in Int
    /\ iTotal \in Int /\ iLen \in Int /\ iTryTime \in 0..MaxTry
    /\ input \in Seq(Nat) /\ arrived \in Nat /\ delivered \in Seq(Nat)
    /\ readErrors \in 0..MaxReadErrors
    /\ hungUp \in BOOLEAN /\ staleErrno \in BOOLEAN
    /\ pc # "idle" => IsOpen

\* What the reads handed over, what the current read has and what the driver
\* still holds are bytes that arrived, each once and in order: none is lost
\* between the two loops, at a timeout that comes with bytes already read, at a
\* full buffer, or across a close that leaves the port open.  All that can be
\* missing is one byte for each read() that failed, which its -1 takes off the
\* total of that call.
ReadInOrder ==
    LET got  == IF pc \in {"drain", "select", "poll", "read"}
                THEN SubSeq(pData, 1, iTotal) ELSE <<>>
        kept == delivered \o got \o input
    IN  /\ \A k \in 1..Len(kept) : kept[k] \in 1..arrived
        /\ \A j, k \in 1..Len(kept) : j < k => kept[j] < kept[k]
        /\ arrived - Len(kept) <= readErrors

\* CommTransceive compares the length WinSerial_Write gives back with what it
\* asked for.  They are equal exactly when the driver took every byte of the
\* data, however often it took some of them, none, or failed: going on one byte
\* early after an error may repeat bytes, so that the length is not always the
\* number of bytes sent, but leaves none out.
FullReportSendsAll ==
    [][pc = "write" /\ pc' = "idle" =>
          (length' = length <=> 1..length \subseteq {line'[k] : k \in 1..Len(line')})]_serVars

\* Every read and write returns, under a device that never stops sending and
\* on a line that is hung up.
CallsReturn == pc # "idle" ~> pc = "idle"

\* main.cpp:311 closes the port at the end, and its menu, compiled out, calls
\* that closing the serial port (main.cpp:164): no descriptor of it stays open.
ClosedIsClosed == [][IsOpen /\ m_iFD' = ERR_KEY => fds' = {}]_serVars
===============================================================================
