------------------------------ MODULE TagAccess ------------------------------
(***************************************************************************)
(* The command functions of RL8000_Comm.cpp: each fills h->sndBuf with one *)
(* request, lets IBlock_Transceive exchange it (T1Link) and reads the      *)
(* answer from h->rcvBuf.  One operator per function gives the request it  *)
(* builds and how it reads the answer; Call and Reply are what they share. *)
(* Payload bytes that no property looks at are 0.                          *)
(***************************************************************************)
EXTENDS Ebv

CONSTANTS Counts,    \* bytes, blocks or pages of one call
          BufSizes,  \* the caller's *nSize
          Data,      \* what may follow the header of an answer
          Statuses,  \* the statuses of an access in it: any byte
          NoHandle   \* hTag = 0

\* An answer comes in one frame, whose length is a byte.
ASSUME AccessAssumption ==
    /\ Counts \subseteq Nat /\ BufSizes \subseteq Nat /\ NoHandle = 0
    /\ Data \subseteq Seq(u8_t) /\ \A data \in Data : Len(data) < 256
    /\ Statuses \subseteq u8_t

VARIABLES hTag, sndBuf,
          call,      \* what the function called does: see Request
          phase,     \* "idle" | "sent"
          answer,    \* h->rcvBuf behind the frame and the response header
          given,     \* *nSize as the caller passed it
          copied,    \* the bytes written to the caller's buffer
          nSize,     \* *nSize as the caller finds it
          result
accessVars == <<hTag, sndBuf, call, phase, answer, given, copied, nSize, result>>

SIZEOF_FRAMEHEADER == 4
SIZEOF_RESPTAGACCESSCMDHEADER == 3
SIZEOF_RESPDEVINF == 12
SndBufSize == 256

-------------------------------------------------------------------------------
(* PUSH_SEND_BYTE, _WORD, _DWORD and _PTR                                   *)
Byte(val)  == <<val % 256>>
Word(val)  == <<val % 256, (val \div 256) % 256>>
DWord(val) == Word(val) \o Word(val \div 65536)
Ptr(n)     == [i \in 1..n |-> 0]
Flag(b)    == IF b THEN Byte(1) ELSE Byte(0)

\* What a function sends behind the frame header, the access code it expects
\* back (0: none) and how it reads the answer.
Request(msg, access, reads) == [msg |-> msg, access |-> access, reads |-> reads]

\* The device commands and the commands that connect and disconnect a tag.
RL8000_CMD_GetDeviceInfo  == Request(Byte(4), 0, "devInf")
RL8000_CMD_Reset          == Request(Byte(5) \o Byte(0), 0, "nothing")
RL8000_CMD_RFSwitch(on)   == Request(Byte(6) \o Flag(on), 0, "nothing")
RL8000_CMD_RFReset        == Request(Byte(10), 0, "nothing")
RL8000_CMD_TagDisconnect  == Request(Byte(51) \o Byte(hTag), 0, "disconnect")
ISO15693_TagConnect(tagType, addrMode) ==
    Request(<<50, 0, 1, tagType, 9, addrMode>> \o Ptr(8), 0, "handle")
ISO14443A_TagConnect(tagType, uidLen) ==
    Request(<<50, 0, 2, tagType, uidLen>> \o Ptr(uidLen), 0, "handle")
ISO14443p4_Transceive(apduReqLen) ==
    Request(<<54, hTag>> \o EBV_Set(apduReqLen) \o Ptr(apduReqLen), 0, "rest")

\* PUSH_SEND_TAG_ACCESS_HEAD, then the parameters.
PUSH_SEND_TAG_ACCESS_HEAD(accCode, parmLen) ==
    <<52, hTag>> \o EBV_Set(2 + parmLen) \o Word(accCode)
TagAccess(accCode, parmLen, params, reads) ==
    Request(PUSH_SEND_TAG_ACCESS_HEAD(accCode, parmLen) \o params, accCode, reads)

ISO15693_Reset       == TagAccess(1, 0, <<>>, "nothing")
ISO15693_LockAFI     == TagAccess(7, 0, <<>>, "nothing")
ISO15693_LockDSFID   == TagAccess(9, 0, <<>>, "nothing")
ISO15693_GetTagSysInfor  == TagAccess(10, 0, <<>>, "rest")
ISO15693_WriteAFI(AFI)     == TagAccess(6, 1, Byte(AFI), "nothing")
ISO15693_WriteDSFID(DSFID) == TagAccess(8, 1, Byte(DSFID), "nothing")
ISO15693_ReadSingleBlock(readSecByte, blkAddr) ==
    TagAccess(79, 3, Flag(readSecByte) \o Word(blkAddr), "rest")
ISO15693_WriteSingleBlock(blkAddr, n) ==
    TagAccess(80, 2 + n, Word(blkAddr) \o Ptr(n), "nothing")
ISO15693_ReadMultipleBlocks(readSecByte, blkAddr, blkNum) ==
    TagAccess(3, 5, Flag(readSecByte) \o Word(blkAddr) \o Word(blkNum), "blocks")
ISO15693_WriteMultipleBlocks(blkAddr, blkNum, n) ==
    TagAccess(4, 4 + n, Word(blkAddr) \o Word(blkNum) \o Ptr(n), "nothing")
ISO15693_LockMultipleBlocks(blkAddr, blkNum) ==
    TagAccess(5, 4, Word(blkAddr) \o Word(blkNum), "nothing")
ISO15693_GetBlockSecuritySta(blkAddr, blkNum) ==
    TagAccess(11, 4, Word(blkAddr) \o Word(blkNum), "rest")

\* The optional authentication of a Mifare access; a key index of 0 is
\* followed by the key (mutant: the key's length is always counted).
KeyBytes(keyIdx, n) == IF keyIdx = 0 THEN Ptr(n) ELSE <<>>
Auth(auth, keyIdx)  == IF auth THEN Byte(1) \o Byte(96) \o Byte(keyIdx) \o KeyBytes(keyIdx, 6)
                               ELSE Byte(0)
KeyLenAlways(keyIdx, n) == n
KeyLen(keyIdx, n)       == IF keyIdx = 0 THEN n ELSE 0
AuthLen(auth, keyIdx)   == IF auth THEN 2 + KeyLen(keyIdx, 6) ELSE 0

MifareS50_Authenticate(blkAddr, keyIdx) ==
    TagAccess(21, 3 + KeyLen(keyIdx, 6),
              Byte(blkAddr) \o Byte(96) \o Byte(keyIdx) \o KeyBytes(keyIdx, 6), "nothing")
MifareS50_Read(blkAddr, blkNum, auth, keyIdx) ==
    TagAccess(22, 3 + AuthLen(auth, keyIdx),
              Byte(blkAddr) \o Byte(blkNum) \o Auth(auth, keyIdx), "rest")
MifareS50_Write(blkAddr, blkNum, auth, keyIdx) ==
    TagAccess(23, 3 + 16 * blkNum + AuthLen(auth, keyIdx),
              Byte(blkAddr) \o Byte(blkNum) \o Auth(auth, keyIdx) \o Ptr(16 * blkNum), "nothing")
MifareS50_Increment(blkAddr, value, autoTransfer) ==
    TagAccess(24, 6, Byte(blkAddr) \o DWord(value) \o Flag(autoTransfer), "nothing")
MifareS50_Decrement(blkAddr, value, autoTransfer) ==
    TagAccess(25, 6, Byte(blkAddr) \o DWord(value) \o Flag(autoTransfer), "nothing")
MifareS50_Restore(blkAddr) ==
    TagAccess(26, 6, Byte(blkAddr) \o DWord(0) \o Byte(0), "nothing")
MifareS50_Transfer(blkAddr) == TagAccess(27, 1, Byte(blkAddr), "nothing")

MFUltralight_Authenticate(keyIdx) ==
    TagAccess(30, 1 + KeyLen(keyIdx, 16), Byte(keyIdx) \o KeyBytes(keyIdx, 16), "nothing")
MFUltralight_ReadPages(startPage, pages) ==
    TagAccess(28, 4, Word(startPage) \o Word(pages), "rest")
MFUltralight_WritePages(startPage, pages) ==
    TagAccess(29, 4 + 4 * pages, Word(startPage) \o Word(pages) \o Ptr(4 * pages), "nothing")
MFUltralight_UpdatePassword == TagAccess(31, 16, Ptr(16), "nothing")
MFUltralight_UpdateAuthCfg  == TagAccess(32, 2, <<0, 0>>, "nothing")

\* What an application calls, with every number of bytes, blocks and pages of
\* Counts; 258 is an address whose two bytes differ.
DeviceCalls ==
    {RL8000_CMD_GetDeviceInfo, RL8000_CMD_Reset, RL8000_CMD_RFReset,
     RL8000_CMD_TagDisconnect, ISO15693_TagConnect(7, 1)}
    \cup {RL8000_CMD_RFSwitch(b) : b \in BOOLEAN}
    \cup {ISO14443A_TagConnect(2, n) : n \in Counts}
    \cup {ISO14443p4_Transceive(n) : n \in Counts}
ISO15693Calls ==
    {ISO15693_Reset, ISO15693_LockAFI, ISO15693_LockDSFID, ISO15693_GetTagSysInfor,
     ISO15693_WriteAFI(0), ISO15693_WriteDSFID(0), ISO15693_LockMultipleBlocks(258, 1),
     ISO15693_GetBlockSecuritySta(258, 1)}
    \cup {ISO15693_ReadSingleBlock(b, 258) : b \in BOOLEAN}
    \cup {ISO15693_ReadMultipleBlocks(b, 258, 1) : b \in BOOLEAN}
    \cup {ISO15693_WriteSingleBlock(258, n) : n \in Counts}
    \cup {ISO15693_WriteMultipleBlocks(258, 1, n) : n \in Counts}
MifareS50Calls ==
    {MifareS50_Restore(1), MifareS50_Transfer(1)}
    \cup {MifareS50_Increment(1, 65536, b) : b \in BOOLEAN}
    \cup {MifareS50_Decrement(1, 65536, b) : b \in BOOLEAN}
    \cup {MifareS50_Authenticate(1, k) : k \in {0, 1}}
    \cup {MifareS50_Read(1, 1, b, k) : b \in BOOLEAN, k \in {0, 1}}
    \cup {MifareS50_Write(1, n, b, k) : n \in Counts, b \in BOOLEAN, k \in {0, 1}}
MFUltralightCalls ==
    {MFUltralight_ReadPages(258, 1), MFUltralight_UpdatePassword, MFUltralight_UpdateAuthCfg}
    \cup {MFUltralight_Authenticate(k) : k \in {0, 1}}
    \cup {MFUltralight_WritePages(258, n) : n \in Counts}
Calls == DeviceCalls \cup ISO15693Calls \cup MifareS50Calls \cup MFUltralightCalls

-------------------------------------------------------------------------------
\* The frame CommTransceive writes: SOF, the length of all but SOF in one
\* byte, DAD, pcb, the request and two bytes of checksum (mutant: the length
\* stops before the checksum).
FrameLenUnchecked(sndLen) == (sndLen - 1) % 256
FrameLen(sndLen)          == (sndLen - 1 + 2) % 256
Frame(msg) == <<250, FrameLen(SIZEOF_FRAMEHEADER + Len(msg)), 0, 0>> \o msg \o <<0, 0>>

\* No function compares its request with the 256 bytes of h->sndBuf: the
\* caller has to pass no more than fits.
FitsSndBuf(msg) == SIZEOF_FRAMEHEADER + Len(msg) + 2 <= SndBufSize

Call(c) == /\ phase = "idle"
           /\ FitsSndBuf(c.msg)
           /\ call' = c
           /\ sndBuf' = Frame(c.msg)
           /\ given' \in BufSizes /\ nSize' = given'
           /\ answer' = <<>> /\ copied' = <<>> /\ result' = "none"
           /\ phase' = "sent"
           /\ UNCHANGED hTag

\* IBlock_Transceive did not return 0; neither does the function.
NoAnswer == /\ phase = "sent"
            /\ result' = "LINK"
            /\ phase' = "idle"
            /\ UNCHANGED <<hTag, sndBuf, call, answer, given, copied, nSize>>

\* PARSE_TAG_ACCESS_RESULT_HEAD on the bytes of an answer (mutant: the access
\* code is not compared).
HeadLen(ans) == EbvBytes(ans) + SIZEOF_RESPTAGACCESSCMDHEADER
HeadResultAnyCode(ans, accCode) ==
    IF      EbvBytes(ans) = 0                              THEN "MSGSIZE"
    ELSE IF EBV_Get(ans) < SIZEOF_RESPTAGACCESSCMDHEADER   THEN "MSGSIZE"
    ELSE IF Len(ans) - EbvBytes(ans) < EBV_Get(ans)        THEN "MSGSIZE"
    ELSE IF ans[HeadLen(ans)] = 0                          THEN "TAGACCESS"
    ELSE "OK"
HeadResult(ans, accCode) ==
    IF      EbvBytes(ans) = 0                              THEN "MSGSIZE"
    ELSE IF EBV_Get(ans) < SIZEOF_RESPTAGACCESSCMDHEADER   THEN "MSGSIZE"
    ELSE IF Len(ans) - EbvBytes(ans) < EBV_Get(ans)        THEN "MSGSIZE"
    ELSE IF SubSeq(ans, HeadLen(ans) - 2, HeadLen(ans) - 1) # Word(accCode) THEN "MSGDATA"
    ELSE IF ans[HeadLen(ans)] = 0                          THEN "TAGACCESS"
    ELSE "OK"

\* The bytes of the answer still to be read when the header has been popped.
Popped(ans) == IF call.access # 0 THEN SubSeq(ans, HeadLen(ans) + 1, Len(ans)) ELSE ans

\* What a function needs after the header.
Needed == CASE call.reads = "devInf" -> SIZEOF_RESPDEVINF
            [] call.reads = "handle" -> 1
            [] call.reads = "blocks" -> 2
            [] OTHER                 -> 0

FunctionResult(ans) ==
    LET head == IF call.access = 0 THEN "OK" ELSE HeadResult(ans, call.access)
    IN  IF head # "OK" THEN head
        ELSE IF Len(Popped(ans)) < Needed THEN "MSGSIZE" ELSE "OK"

\* What the function may copy: the device information, all that is left, or
\* all that is left behind the number of blocks.
Copyable(ans) ==
    CASE call.reads = "devInf" -> SubSeq(Popped(ans), 1, SIZEOF_RESPDEVINF)
      [] call.reads = "rest"   -> Popped(ans)
      [] call.reads = "blocks" -> SubSeq(Popped(ans), 3, Len(Popped(ans)))
      [] OTHER                 -> <<>>

\* if(ncopy > *nSize) ncopy = *nSize (mutant: without it)
NCopyUnbounded(left) == left
NCopy(left)          == IF left > nSize THEN nSize ELSE left

Reply(ans) ==
    /\ phase = "sent"
    /\ answer' = ans
    /\ result' = FunctionResult(ans)
    /\ IF result' = "OK" /\ call.reads \in {"devInf", "rest", "blocks"}
       THEN /\ nSize' = NCopy(Len(Copyable(ans)))
            /\ copied' = SubSeq(Copyable(ans), 1, nSize')
       ELSE UNCHANGED <<nSize, copied>>
    /\ hTag' = IF result' # "OK"                 THEN hTag
               ELSE IF call.reads = "handle"     THEN ans[1]
               ELSE IF call.reads = "disconnect" THEN NoHandle
               ELSE hTag
    /\ phase' = "idle"
    /\ UNCHANGED <<sndBuf, call, given>>

\* Answers the reader may give to a call: to an access, a header with a right
\* or wrong length, code and status; to other commands, any bytes.
Answers(c) ==
    IF c.access = 0 THEN Data
    ELSE {<<>>, <<128>>} \cup
         {EBV_Set(ebvLen) \o Word(code) \o Byte(sta) \o data :
             ebvLen \in {2, 3}, code \in {c.access, c.access + 256}, sta \in Statuses, data \in Data}
         \cup {EBV_Set(3 + Len(data) + more) \o Word(c.access) \o Byte(sta) \o data :
                  more \in {0, 1}, sta \in Statuses, data \in Data}

AccessInit == /\ hTag = NoHandle /\ sndBuf = <<>> /\ call = RL8000_CMD_Reset
              /\ phase = "idle" /\ answer = <<>> /\ copied = <<>>
              /\ given \in BufSizes /\ nSize = given /\ result = "none"

AccessNext == \/ \E c \in Calls : Call(c)
              \/ NoAnswer
              \/ \E ans \in Answers(call) : Reply(ans)

AccessSpec == AccessInit /\ [][AccessNext]_accessVars

-------------------------------------------------------------------------------
AccessTypeOK ==
    /\ hTag \in u8_t /\ sndBuf \in Seq(u8_t) /\ Len(sndBuf) <= SndBufSize
    /\ phase \in {"idle", "sent"}
    /\ answer \in Seq(u8_t) /\ copied \in Seq(u8_t)
    /\ given \in BufSizes /\ nSize \in Nat
    /\ result \in {"none", "LINK", "OK", "MSGSIZE", "MSGDATA", "TAGACCESS"}

\* Whatever a function is asked for: the length it declares ahead of its
\* parameters, computed apart from pushing them, is the number of bytes that
\* follow it up to the checksum.  A reader that trusts it reads the request.
DeclaredLengthTrue ==
    LET body == SubSeq(sndBuf, SIZEOF_FRAMEHEADER + 3, Len(sndBuf) - 2)
    IN  phase = "sent" /\ call.msg[1] \in {52, 54} =>
            /\ EbvBytes(body) > 0
            /\ EBV_Get(body) = Len(body) - EbvBytes(body)

\* The length byte of every request that fits h->sndBuf counts the bytes from
\* itself to the end of the checksum: the reader finds the frame's end.
FrameLengthTrue == phase = "sent" => sndBuf[2] = Len(sndBuf) - 1

\* An access returns 0 only for an answer that carries this access code, a
\* status that is not 0 and all the bytes it declares, and hands over the bytes
\* right behind the header or behind the number of blocks.  That such a status
\* is a success is what RL8000_Comm.cpp:1000-1004 say and do; the comment of the
\* field, at line 105, says the reverse.
OkAnswer ==
    phase = "idle" /\ result = "OK" /\ call.access # 0 =>
        \E data \in Data, sta \in u8_t \ {0} : \E ebvLen \in 3..3 + Len(data) :
            /\ answer = EBV_Set(ebvLen) \o Word(call.access) \o Byte(sta) \o data
            /\ LET skipped == IF call.reads = "blocks" THEN 2 ELSE 0
               IN  copied = SubSeq(data, skipped + 1, skipped + Len(copied))

\* nSize is "input->size of the buffer, output->bytes written into buffer": no
\* call writes more than the caller's buffer holds, a call that succeeds
\* reports what it wrote, and one that fails writes and reports nothing.
BufferRespected ==
    phase = "idle" => /\ Len(copied) <= given
                      /\ nSize = IF result = "OK" /\ call.reads \in {"devInf", "rest", "blocks"}
                                 THEN Len(copied) ELSE given
===============================================================================
