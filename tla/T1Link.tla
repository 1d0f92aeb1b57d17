-------------------------------- MODULE T1Link --------------------------------
(***************************************************************************)
(* The T=1-like link of RL8000_Comm.cpp between one open reader handle     *)
(* (RL8000_COMM) and the reader nodes of a serial bus.  A call sends one   *)
(* block and waits for one block or the transceive timer; blocks can be    *)
(* lost, and an answer can outlive the call it was meant for.  FrameRx     *)
(* models how the bytes of one block are received.                         *)
(***************************************************************************)
EXTENDS Integers, Sequences

CONSTANTS Nodes,     \* bus addresses
          Tags,      \* tag handles a node hands out
          NoTag,     \* hTag = 0
          MaxCalls   \* bound of the model

ASSUME LinkAssumption == NoTag \notin Tags /\ MaxCalls \in Nat

Cmds == {"Resync", "TagInventory", "TagConnect", "TagDisconnect", "TagAccess"}
Bit  == {0, 1}
None == [kind |-> "none"]

VARIABLES
    NS, NR, DAD, hTag,   \* of the handle
    phase,               \* "idle" | "waiting" inside CommTransceive
    call,                \* the command of the last call
    calls,               \* number of calls made, the identity of the last one
    result,              \* what the last call on this handle returned
    request,             \* the block on its way to the nodes
    back,                \* answers on their way to the host
    inbox,               \* answers in the driver's or the handle's buffers
    peerNS, peerTag,     \* each node's send number and connected tag
    executed,            \* <<call, node>> of the commands carried out
    outlived,            \* a block may have outlived its call: see Timeout
    accepted,            \* the answer the last successful call took
    failed               \* some call on this handle did not return 0, or was
                         \* made while a block had outlived its call
handleVars == <<NS, NR, DAD, hTag>>
peerVars   == <<peerNS, peerTag, executed>>
linkVars   == <<handleVars, phase, call, calls, result, request, back, inbox,
                peerVars, outlived, accepted, failed>>

Results == {"none", "OK", "COMM_IO", "TIMEOUT", "SYNCLOST", "MSGDATA", "MSGSIZE", "STATUS"}

-------------------------------------------------------------------------------
(* The nodes, as the host's code expects them.                              *)

Answer(kind, sta, tag) ==
    [kind |-> kind, rid |-> request.dad, ns |-> peerNS[request.dad],
     cmd |-> request.cmd, sta |-> sta, tag |-> tag, id |-> request.id]

Answered(a) == /\ back' = Append(back, a)
               /\ request' = None
               /\ UNCHANGED <<handleVars, phase, call, calls, result, inbox,
                              outlived, accepted, failed>>

PeerResyncs ==
    /\ request # None /\ request.cmd = "Resync"
    /\ Answered(Answer("S", "ok", NoTag))
    /\ peerNS' = [peerNS EXCEPT ![request.dad] = 0]
    /\ executed' = executed \cup {<<request.id, request.dad>>}
    /\ UNCHANGED peerTag

\* An I-block answer advances the node's send number, whatever its status.
PeerAnswers(sta, tag) ==
    /\ request # None /\ request.cmd # "Resync"
    /\ Answered(Answer("I", sta, tag))
    /\ peerNS' = [peerNS EXCEPT ![request.dad] = 1 - @]

PeerExecutes(tag) ==
    /\ PeerAnswers("ok", tag)
    /\ request.cmd = "TagAccess" => request.tag = peerTag[request.dad]
    /\ (tag # NoTag) <=> (request.cmd = "TagConnect")
    /\ peerTag' = CASE request.cmd = "TagConnect"    -> [peerTag EXCEPT ![request.dad] = tag]
                    [] request.cmd = "TagDisconnect" -> [peerTag EXCEPT ![request.dad] = NoTag]
                    [] OTHER                         -> peerTag
    /\ executed' = executed \cup {<<request.id, request.dad>>}

\* A status other than 0, or an answer without the response header.
PeerFails == /\ \E sta \in {"fail", "absent"} : PeerAnswers(sta, NoTag)
             /\ UNCHANGED <<peerTag, executed>>

\* An R-block: the node did not understand the block.
PeerRefuses == /\ request # None
               /\ Answered(Answer("R", "fail", NoTag))
               /\ UNCHANGED peerVars

(* The line: a block that is lost or damaged never becomes a frame.         *)

LoseRequest == /\ request # None
               /\ request' = None
               /\ UNCHANGED <<handleVars, phase, call, calls, result, back, inbox,
                              peerVars, outlived, accepted, failed>>

LoseAnswer == /\ back # <<>>
              /\ back' = Tail(back)
              /\ UNCHANGED <<handleVars, phase, call, calls, result, request, inbox,
                             peerVars, outlived, accepted, failed>>

Arrive == /\ back # <<>>
          /\ inbox' = Append(inbox, [answer |-> Head(back), during |-> calls])
          /\ back' = Tail(back)
          /\ UNCHANGED <<handleVars, phase, call, calls, result, request,
                         peerVars, outlived, accepted, failed>>

-------------------------------------------------------------------------------
(* The host.                                                                *)

NothingInFlight == request = None /\ back = <<>>

RL8000_CommOpenWithBusAddr(busAddr) ==
    /\ phase = "idle"
    /\ NS' = 0 /\ NR' = 0 /\ DAD' = busAddr /\ hTag' = NoTag
    /\ result' = "none"
    /\ accepted' = None
    /\ failed' = FALSE
    /\ UNCHANGED <<phase, call, calls, request, back, inbox, peerVars, outlived>>

\* cirbuf_flush and UART_PURGECOMM (mutant: neither is called)
NotPurged == inbox
Purged    == <<>>

\* What every call does first: INIT_SEND and the header.
StartCall(cmd) ==
    /\ phase = "idle"
    /\ calls < MaxCalls
    /\ inbox' = Purged
    /\ calls' = calls + 1
    /\ call' = cmd
    \* a resync that succeeded with nothing left in flight ends the trouble
    /\ outlived' = (outlived /\ ~(/\ NothingInFlight
                                  /\ call = "Resync" /\ result = "OK"))
    /\ UNCHANGED <<handleVars, back, peerVars, accepted>>

\* UART_WRITE reports every byte as written.  It does so for a closed port
\* too, which is then a lost request, and when an error made it send a byte
\* twice (SerialPort), which damages the block.
Transmit(cmd) ==
    /\ StartCall(cmd)
    /\ request' = [kind |-> IF cmd = "Resync" THEN "S" ELSE "I", dad |-> DAD,
                   ns |-> NS, cmd |-> cmd, tag |-> hTag, id |-> calls + 1]
    /\ phase' = "waiting"
    /\ failed' = (failed \/ outlived')
    /\ UNCHANGED result

\* UART_WRITE reports another number of bytes: -ERR_COMM_IO.  What did leave
\* is no whole block.
WriteFails(cmd) ==
    /\ StartCall(cmd)
    /\ result' = "COMM_IO" /\ failed' = TRUE
    /\ UNCHANGED <<phase, request>>

Return(res) == /\ phase' = "idle"
               /\ result' = res
               /\ failed' = (failed \/ res # "OK")
               /\ accepted' = IF res = "OK" THEN Head(inbox) ELSE accepted

\* The loop of CommTransceive gives up.  What is still on its way either
\* dies with the call or reaches the host later.
Timeout ==
    /\ phase = "waiting"
    /\ Return("TIMEOUT")
    /\ \/ request' = None /\ back' = <<>> /\ UNCHANGED outlived
       \/ ~NothingInFlight /\ outlived' = TRUE /\ UNCHANGED <<request, back>>
    /\ UNCHANGED <<handleVars, call, calls, inbox, peerVars>>

\* CommTransceive returned 0: the first frame that has arrived is in rcvBuf.
Receiving == /\ phase = "waiting"
             /\ inbox # <<>>
             /\ inbox' = Tail(inbox)
             /\ UNCHANGED <<DAD, call, calls, request, back, peerVars, outlived>>
frame == Head(inbox).answer

\* The rest of SBlock_Resync.  The code tests the response bit and the low four
\* bits of pcb: of the blocks a node sends here, only the answer to a resync has
\* both.
SBlock_Resync ==
    /\ Receiving
    /\ call = "Resync"
    /\ IF frame.kind # "S"
       THEN Return("MSGDATA") /\ UNCHANGED <<NS, NR>>
       ELSE Return("OK") /\ NR' = 0 /\ NS' = 0
    /\ UNCHANGED hTag

\* The checks of IBlock_Transceive, in order (mutant: the status is ignored).
ResultIgnoringStatus ==
    IF frame.kind # "I"          THEN "MSGDATA"
    ELSE IF NR # frame.ns        THEN "SYNCLOST"
    ELSE IF frame.sta = "absent" THEN "MSGSIZE"
    ELSE IF frame.cmd # call     THEN "MSGDATA"
    ELSE "OK"

IBlockResult ==
    IF frame.kind # "I"          THEN "MSGDATA"
    ELSE IF NR # frame.ns        THEN "SYNCLOST"
    ELSE IF frame.sta = "absent" THEN "MSGSIZE"
    ELSE IF frame.cmd # call     THEN "MSGDATA"
    ELSE IF frame.sta # "ok"     THEN "STATUS"
    ELSE "OK"

\* h->NR ^= 1, only for the expected block (mutants: for every I-block; for
\* none; without the exclusive or).
NRAlwaysToggled == IF frame.kind = "I" THEN 1 - NR ELSE NR
NRNeverToggled  == NR
NRCounted       == IF frame.kind = "I" /\ NR = frame.ns THEN NR + 1 ELSE NR
NextNR          == IF frame.kind = "I" /\ NR = frame.ns THEN 1 - NR ELSE NR

\* What the caller of IBlock_Transceive does with h->hTag (mutant: a
\* disconnected tag stays).
TagKept   == IF IBlockResult = "OK" /\ call = "TagConnect" THEN frame.tag ELSE hTag
NexthTag  == IF IBlockResult # "OK"          THEN hTag
             ELSE IF call = "TagConnect"    THEN frame.tag
             ELSE IF call = "TagDisconnect" THEN NoTag
             ELSE hTag

\* The rest of IBlock_Transceive.
IBlock_Transceive ==
    /\ Receiving
    /\ call # "Resync"
    /\ NS' = 1 - NS
    /\ NR' = NextNR
    /\ hTag' = NexthTag
    /\ Return(IBlockResult)

LinkInit ==
    /\ NS = 0 /\ NR = 0 /\ DAD \in Nodes /\ hTag = NoTag
    /\ phase = "idle" /\ call = "Resync" /\ calls = 0 /\ result = "none"
    /\ request = None /\ back = <<>> /\ inbox = <<>>
    /\ peerNS \in [Nodes -> Bit]              \* nodes are running already
    /\ peerTag = [n \in Nodes |-> NoTag]
    /\ executed = {} /\ outlived = FALSE /\ accepted = None /\ failed = FALSE

Peer == PeerResyncs \/ (\E tag \in Tags \cup {NoTag} : PeerExecutes(tag))
        \/ PeerFails \/ PeerRefuses
Line == LoseRequest \/ LoseAnswer \/ Arrive
Host == \/ \E n \in Nodes : RL8000_CommOpenWithBusAddr(n)
        \/ \E cmd \in Cmds : Transmit(cmd) \/ WriteFails(cmd)
        \/ Timeout \/ SBlock_Resync \/ IBlock_Transceive

LinkNext == Peer \/ Line \/ Host
LinkSpec == LinkInit /\ [][LinkNext]_linkVars

-------------------------------------------------------------------------------
Requests == {None} \cup [kind : {"S", "I"}, dad : Nodes, ns : Bit, cmd : Cmds,
                         tag : Tags \cup {NoTag}, id : Nat]
Answers  == [kind : {"S", "I", "R"}, rid : Nodes, ns : Bit, cmd : Cmds,
             sta : {"ok", "fail", "absent"}, tag : Tags \cup {NoTag}, id : Nat]
Arrived  == [answer : Answers, during : Nat]

LinkTypeOK ==
    /\ NS \in Bit /\ NR \in Bit /\ DAD \in Nodes /\ hTag \in Tags \cup {NoTag}
    /\ phase \in {"idle", "waiting"}
    /\ call \in Cmds /\ calls \in Nat /\ result \in Results
    /\ request \in Requests /\ back \in Seq(Answers) /\ inbox \in Seq(Arrived)
    /\ peerNS \in [Nodes -> Bit] /\ peerTag \in [Nodes -> Tags \cup {NoTag}]
    /\ executed \subseteq Nat \X Nodes
    /\ outlived \in BOOLEAN /\ failed \in BOOLEAN
    /\ accepted \in {None} \cup Arrived

\* Unless a block outlived its call: whenever the last call read an I-block
\* (also one refused as SYNCLOST, with a bad status or too short) or resynced,
\* the handle expects exactly the number the node will send next.
InSync ==
    phase = "idle" /\ ~outlived /\ result \in {"OK", "STATUS", "SYNCLOST", "MSGSIZE"}
        => NR = peerNS[DAD]

\* A lost answer costs the next answered call its result (ERR_SYNCLOST), but
\* never two calls in a row: leaving h->NR alone on that path is what lets the
\* numbers meet again.
OneSyncLostInARow ==
    [][~outlived' /\ phase = "waiting" /\ phase' = "idle" /\ result' = "SYNCLOST"
          => result # "SYNCLOST"]_linkVars

\* Unless a block outlived its call, 0 is returned only for a command that the
\* addressed node carried out for this very call.
OkMeansExecuted ==
    phase = "idle" /\ ~outlived /\ result = "OK" => <<calls, DAD>> \in executed

\* Even then: an answer that had arrived before a call began is never taken as
\* its answer, because INIT_SEND empties the ring and the port.
OnlyFreshAnswers ==
    phase = "idle" /\ result = "OK" => accepted.during = calls

\* On a handle whose calls all succeeded, none of them beside a block that had
\* outlived its call, hTag is the tag connected at its node.
TagIsConnected ==
    ~failed /\ phase = "idle" /\ hTag # NoTag => peerTag[DAD] = hTag
===============================================================================
