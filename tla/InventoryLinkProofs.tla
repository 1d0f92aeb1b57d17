-------------------------- MODULE InventoryLinkProofs --------------------------
(***************************************************************************)
(* Theorems about T1Link, for any set of nodes and tags and any number of  *)
(* calls: type correctness, and that the sequence numbers of handle and    *)
(* node cannot stay apart while no block outlives its call.  Then about    *)
(* InventoryLink: it uses the link as T1Link says, every answer belongs to *)
(* one call, and with at most two answers on their way no tag is accessed  *)
(* in the place of another, so that it implements TagInventory.            *)
(***************************************************************************)
EXTENDS InventoryLink, FiniteSetTheorems, SequenceTheorems, WellFoundedInduction, TLAPS

LEMMA InitType == LinkInit => LinkTypeOK
<1> SUFFICES ASSUME LinkInit
             PROVE  LinkTypeOK
  OBVIOUS
<1>1. request \in Requests /\ accepted \in {None} \cup Arrived
  BY DEF LinkInit, Requests
<1>2. back \in Seq(Answers) /\ inbox \in Seq(Arrived)
  BY DEF LinkInit
<1> QED
  BY <1>1, <1>2 DEF LinkInit, LinkTypeOK, Bit, Cmds, Results

LEMMA TailType ==
  ASSUME NEW S, NEW s \in Seq(S), s # <<>>
  PROVE  Tail(s) \in Seq(S)
OBVIOUS

\* The frame a receiving call looks at is an answer.
LEMMA FrameType ==
  ASSUME LinkTypeOK, inbox # <<>>
  PROVE  /\ frame \in Answers /\ Head(inbox) \in Arrived
         /\ Tail(inbox) \in Seq(Arrived)
<1>1. Head(inbox) \in Arrived /\ Tail(inbox) \in Seq(Arrived)
  BY DEF LinkTypeOK
<1> QED
  BY <1>1 DEF frame, Arrived

LEMMA NoneIsRequest == None \in Requests
BY DEF Requests

LEMMA LinkTypeStep == LinkTypeOK /\ [LinkNext]_linkVars => LinkTypeOK'
<1> USE LinkAssumption DEF Bit, Cmds, Results
<1> SUFFICES ASSUME LinkTypeOK, [LinkNext]_linkVars
             PROVE  LinkTypeOK'
  OBVIOUS
<1> USE DEF LinkTypeOK
<1>0. ASSUME request # None
      PROVE  request \in [kind : {"S", "I"}, dad : Nodes, ns : Bit, cmd : Cmds,
                          tag : Tags \cup {NoTag}, id : Nat]
  BY <1>0 DEF Requests
<1>1. CASE PeerResyncs
  BY <1>1, <1>0 DEF PeerResyncs, Answered, Answer, Requests, Answers, handleVars
<1>2. ASSUME NEW tag \in Tags \cup {NoTag}, PeerExecutes(tag)
      PROVE  LinkTypeOK'
  BY <1>2, <1>0 DEF PeerExecutes, PeerAnswers, Answered, Answer, Requests, Answers, handleVars
<1>3. CASE PeerFails
  BY <1>3, <1>0 DEF PeerFails, PeerAnswers, Answered, Answer, Requests, Answers, handleVars
<1>4. CASE PeerRefuses
  BY <1>4, <1>0 DEF PeerRefuses, Answered, Answer, Requests, Answers, handleVars, peerVars
<1>5. CASE LoseRequest \/ LoseAnswer
  <2>1. request' \in Requests
    BY <1>5, NoneIsRequest DEF LoseRequest, LoseAnswer
  <2>2. back' \in Seq(Answers)
    <3>1. CASE LoseRequest
      BY <3>1 DEF LoseRequest
    <3>2. CASE LoseAnswer
      BY <3>2, TailType DEF LoseAnswer
    <3> QED
      BY <1>5, <3>1, <3>2
  <2> QED
    BY <1>5, <2>1, <2>2 DEF LoseRequest, LoseAnswer, handleVars, peerVars
<1>13. CASE Arrive
  <2>1. Head(back) \in Answers /\ Tail(back) \in Seq(Answers)
    BY <1>13 DEF Arrive
  <2>2. [answer |-> Head(back), during |-> calls] \in Arrived
    BY <2>1 DEF Arrived
  <2> QED
    BY <1>13, <2>1, <2>2 DEF Arrive, handleVars, peerVars
<1>6. ASSUME NEW n \in Nodes, RL8000_CommOpenWithBusAddr(n)
      PROVE  LinkTypeOK'
  BY <1>6 DEF RL8000_CommOpenWithBusAddr, peerVars
<1>7. ASSUME NEW cmd \in Cmds, Transmit(cmd)
      PROVE  LinkTypeOK'
  BY <1>7 DEF Transmit, StartCall, Requests, Purged, handleVars, peerVars
<1>14. ASSUME NEW cmd \in Cmds, WriteFails(cmd)
       PROVE  LinkTypeOK'
  BY <1>14 DEF WriteFails, StartCall, Purged, handleVars, peerVars
<1>8. CASE Timeout
  <2>1. request' \in Requests
    BY <1>8, NoneIsRequest DEF Timeout
  <2>2. back' \in Seq(Answers)
    <3>1. <<>> \in Seq(Answers)
      OBVIOUS
    <3>2. back' = <<>> \/ back' = back
      BY <1>8 DEF Timeout
    <3> QED
      BY <3>1, <3>2
  <2>3. outlived' \in BOOLEAN
    BY <1>8 DEF Timeout
  <2> QED
    BY <1>8, <2>1, <2>2, <2>3 DEF Timeout, Return, handleVars, peerVars
<1>9. ASSUME Receiving
      PROVE  /\ frame \in Answers /\ Head(inbox) \in Arrived
             /\ inbox' \in Seq(Arrived)
  BY <1>9, FrameType DEF Receiving
<1>10. CASE SBlock_Resync
  BY <1>10, <1>9 DEF SBlock_Resync, Receiving, Return, peerVars
<1>11. CASE IBlock_Transceive
  <2>1. NextNR \in Bit /\ 1 - NS \in Bit
    BY DEF NextNR
  <2>2. IBlockResult \in Results
    BY DEF IBlockResult
  <2>3. NexthTag \in Tags \cup {NoTag}
    BY <1>11, <1>9 DEF NexthTag, IBlock_Transceive, Answers
  <2> QED
    BY <1>11, <1>9, <2>1, <2>2, <2>3 DEF IBlock_Transceive, Receiving, Return, peerVars
<1>12. CASE UNCHANGED linkVars
  BY <1>12 DEF linkVars, handleVars, peerVars
<1> QED
  BY <1>1, <1>2, <1>3, <1>4, <1>5, <1>6, <1>7, <1>8, <1>10, <1>11, <1>12, <1>13, <1>14
  DEF LinkNext, Peer, Line, Host

\* Every variable has its type in every reachable state.
THEOREM LinkTypeCorrect == LinkSpec => []LinkTypeOK
BY InitType, LinkTypeStep, PTL DEF LinkSpec

-------------------------------------------------------------------------------
\* An answer that the last call is still waiting for.
Pending(a) ==
    /\ a.id = calls /\ a.cmd = call /\ a.rid = DAD
    /\ a.kind = "I" => /\ call # "Resync" /\ a.ns # peerNS[DAD]
                       /\ a.sta = "ok" => <<calls, DAD>> \in executed
    /\ a.kind = "S" => /\ call = "Resync" /\ peerNS[DAD] = 0
                       /\ <<calls, DAD>> \in executed

\* While no block has outlived its call there is at most one block under way,
\* and it belongs to the call that is waiting.
OneBlock ==
    ~outlived =>
        \/ phase = "idle" /\ request = None /\ back = <<>>
        \/ /\ phase = "waiting" /\ back = <<>> /\ inbox = <<>>
           /\ request # None => /\ request.id = calls /\ request.cmd = call
                                /\ request.dad = DAD
        \/ /\ phase = "waiting" /\ request = None /\ inbox = <<>>
           /\ Len(back) = 1 /\ Pending(back[1])
        \/ /\ phase = "waiting" /\ request = None /\ back = <<>>
           /\ Len(inbox) = 1 /\ Pending(inbox[1].answer)

\* After a SYNCLOST the numbers agree again, so the next answer is in step.
OwedInStep ==
    phase = "waiting" /\ ~outlived /\ result = "SYNCLOST" =>
        /\ request # None => NR = peerNS[DAD]
        /\ Len(back) = 1 /\ back[1].kind = "I" => back[1].ns = NR
        /\ Len(inbox) = 1 /\ inbox[1].answer.kind = "I" => inbox[1].answer.ns = NR

LinkInv == LinkTypeOK /\ OneBlock /\ OwedInStep /\ InSync /\ OkMeansExecuted

\* The number of a received I-block decides both ways: equal to NR it is taken,
\* different it is refused, and either way NR is then the node's next number.
LEMMA NumbersMeet ==
  ASSUME NEW nr \in Bit, NEW ns \in Bit, NEW peer \in Bit, ns # peer
  PROVE  (IF nr = ns THEN 1 - nr ELSE nr) = peer
BY DEF Bit

\* The invariant that keeps the numbers together holds in every reachable state.
THEOREM LinkInvariant == LinkSpec => []LinkInv
<1> USE DEF LinkInv
<1>1. LinkInit => LinkInv
  BY InitType DEF LinkInit, OneBlock, OwedInStep, InSync, OkMeansExecuted
<1>2. LinkTypeOK /\ LinkTypeOK' /\ LinkInv /\ [LinkNext]_linkVars => LinkInv'
  <2> SUFFICES ASSUME LinkTypeOK, LinkTypeOK', OneBlock, OwedInStep, InSync,
                      OkMeansExecuted, [LinkNext]_linkVars
               PROVE  OneBlock' /\ OwedInStep' /\ InSync' /\ OkMeansExecuted'
    OBVIOUS
  <2>1. CASE PeerResyncs
    <3> USE <2>1 DEF PeerResyncs, Answered, Answer, handleVars
    <3>1. ~outlived => /\ phase = "waiting" /\ back = <<>> /\ inbox = <<>>
                       /\ request.id = calls /\ request.cmd = call /\ request.dad = DAD
      BY DEF OneBlock
    <3>2. ~outlived => Len(back') = 1 /\ Pending(back[1])' /\ back'[1].kind = "S"
      BY <3>1 DEF Pending, LinkTypeOK
    <3> QED
      BY <3>1, <3>2 DEF OneBlock, OwedInStep, InSync, OkMeansExecuted, LinkTypeOK
  <2>2. ASSUME NEW sta \in {"ok", "fail", "absent"}, NEW tag \in Tags \cup {NoTag},
               PeerAnswers(sta, tag),
               sta = "ok" => <<request.id, request.dad>> \in executed',
               executed \subseteq executed'
        PROVE  OneBlock' /\ OwedInStep' /\ InSync' /\ OkMeansExecuted'
    <3> USE <2>2 DEF PeerAnswers, Answered, Answer, handleVars
    <3>1. ~outlived => /\ phase = "waiting" /\ back = <<>> /\ inbox = <<>>
                       /\ request.id = calls /\ request.cmd = call /\ request.dad = DAD
      BY DEF OneBlock
    <3>2. ~outlived => /\ Len(back') = 1 /\ Pending(back[1])'
                       /\ back'[1].ns = peerNS[DAD]
      BY <3>1 DEF Pending, LinkTypeOK, Bit
    <3> QED
      BY <3>1, <3>2 DEF OneBlock, OwedInStep, InSync, OkMeansExecuted, LinkTypeOK
  <2>3. ASSUME NEW tag \in Tags \cup {NoTag}, PeerExecutes(tag)
        PROVE  OneBlock' /\ OwedInStep' /\ InSync' /\ OkMeansExecuted'
    BY <2>2, <2>3 DEF PeerExecutes
  <2>4. CASE PeerFails
    BY <2>2, <2>4 DEF PeerFails
  <2>5. CASE PeerRefuses
    <3> USE <2>5 DEF PeerRefuses, Answered, Answer, handleVars, peerVars
    <3>1. ~outlived => /\ phase = "waiting" /\ back = <<>> /\ inbox = <<>>
                       /\ request.id = calls /\ request.cmd = call /\ request.dad = DAD
      BY DEF OneBlock
    <3>2. ~outlived => /\ Len(back') = 1 /\ Pending(back[1])'
                       /\ back'[1].kind = "R"
      BY <3>1 DEF Pending, LinkTypeOK
    <3> QED
      BY <3>1, <3>2 DEF OneBlock, OwedInStep, InSync, OkMeansExecuted, LinkTypeOK
  <2>6. CASE LoseRequest
    BY <2>6 DEF LoseRequest, handleVars, peerVars, OneBlock, OwedInStep, InSync,
                OkMeansExecuted, Pending
  <2>7. CASE LoseAnswer
    <3> USE <2>7 DEF LoseAnswer, handleVars, peerVars
    <3>1. ~outlived => /\ phase = "waiting" /\ request = None /\ inbox = <<>>
                       /\ back' = <<>>
      BY DEF OneBlock, LinkTypeOK
    <3> QED
      BY <3>1 DEF OneBlock, OwedInStep, InSync, OkMeansExecuted
  <2>8. CASE Arrive
    <3> USE <2>8 DEF Arrive, handleVars, peerVars
    <3>1. ~outlived => /\ phase = "waiting" /\ request = None /\ inbox = <<>>
                       /\ back' = <<>> /\ Len(back) = 1 /\ Pending(back[1])
      BY DEF OneBlock, LinkTypeOK
    <3>2. ~outlived => Len(inbox') = 1 /\ inbox'[1].answer = back[1]
      BY <3>1 DEF LinkTypeOK
    <3>3. ~outlived => Pending(inbox[1].answer)'
      BY <3>1, <3>2 DEF Pending
    <3> QED
      BY <3>1, <3>2, <3>3 DEF OneBlock, OwedInStep, InSync, OkMeansExecuted
  <2>9. ASSUME NEW n \in Nodes, RL8000_CommOpenWithBusAddr(n)
        PROVE  OneBlock' /\ OwedInStep' /\ InSync' /\ OkMeansExecuted'
    BY <2>9 DEF RL8000_CommOpenWithBusAddr, peerVars, OneBlock, OwedInStep, InSync,
                OkMeansExecuted
  <2>10. ASSUME NEW cmd \in Cmds, Transmit(cmd)
         PROVE  OneBlock' /\ OwedInStep' /\ InSync' /\ OkMeansExecuted'
    <3> USE <2>10 DEF Transmit, StartCall, Purged, NothingInFlight, handleVars, peerVars
    <3>1. ~outlived' => back = <<>>
      BY DEF OneBlock
    <3>2. OneBlock'
      BY <3>1 DEF OneBlock
    <3>3. OwedInStep'
      <4>1. result = "SYNCLOST" /\ ~outlived' => ~outlived
        OBVIOUS
      <4>2. result = "SYNCLOST" /\ ~outlived' => NR = peerNS[DAD]
        BY <4>1 DEF InSync
      <4>3. ~outlived' => Len(back') = 0 /\ Len(inbox') = 0
        BY <3>1
      <4> QED
        BY <4>2, <4>3 DEF OwedInStep
    <3> QED
      BY <3>2, <3>3 DEF InSync, OkMeansExecuted
  <2>16. ASSUME NEW cmd \in Cmds, WriteFails(cmd)
         PROVE  OneBlock' /\ OwedInStep' /\ InSync' /\ OkMeansExecuted'
    <3> USE <2>16 DEF WriteFails, StartCall, Purged, NothingInFlight, handleVars, peerVars
    <3>1. ~outlived' => request' = None /\ back' = <<>> /\ phase' = "idle"
      BY DEF OneBlock
    <3> QED
      BY <3>1 DEF OneBlock, OwedInStep, InSync, OkMeansExecuted
  <2>11. CASE Timeout
    BY <2>11 DEF Timeout, Return, handleVars, peerVars, OneBlock, OwedInStep, InSync,
                 OkMeansExecuted
  <2>12. ASSUME Receiving
         PROVE  ~outlived => /\ request' = None /\ back' = <<>>
                             /\ outlived' = outlived /\ Pending(frame)
    BY <2>12 DEF Receiving, frame, OneBlock, LinkTypeOK
  <2>13. CASE SBlock_Resync
    BY <2>13, <2>12 DEF SBlock_Resync, Receiving, Return, peerVars, Pending, OneBlock,
                        OwedInStep, InSync, OkMeansExecuted
  <2>14. CASE IBlock_Transceive
    <3> USE <2>14 DEF IBlock_Transceive, Receiving, Return, peerVars
    <3>1. IBlockResult = result' /\ phase' = "idle"
      OBVIOUS
    <3>2. IBlockResult \in {"OK", "STATUS", "SYNCLOST", "MSGSIZE"} => frame.kind = "I"
      BY DEF IBlockResult
    <3>3. IBlockResult = "OK" => frame.sta = "ok"
      BY DEF IBlockResult
    <3>4. frame.ns \in Bit /\ peerNS[DAD] \in Bit /\ NR \in Bit
      BY FrameType DEF LinkTypeOK, Answers
    <3>5. ~outlived /\ frame.kind = "I" => NextNR = peerNS[DAD]
      BY <2>12, <3>4, NumbersMeet DEF Pending, NextNR
    <3> QED
      BY <2>12, <3>1, <3>2, <3>3, <3>5 DEF Pending, OneBlock, OwedInStep, InSync,
                                           OkMeansExecuted
  <2>15. CASE UNCHANGED linkVars
    BY <2>15 DEF linkVars, handleVars, peerVars, OneBlock, OwedInStep, InSync,
                 OkMeansExecuted, Pending
  <2> QED
    BY <2>1, <2>3, <2>4, <2>5, <2>6, <2>7, <2>8, <2>9, <2>10, <2>11, <2>13, <2>14, <2>15, <2>16
    DEF LinkNext, Peer, Line, Host
<1> QED
  BY <1>1, <1>2, LinkTypeCorrect, PTL DEF LinkSpec

\* Handle and node agree on the next number after every call that read an
\* I-block or resynced, unless a block outlived its call.
THEOREM NumbersAgree == LinkSpec => []InSync
BY LinkInvariant, PTL DEF LinkInv

\* A call returns 0 only if the addressed node carried out that very call,
\* unless a block outlived its call.
THEOREM OkIsTrue == LinkSpec => []OkMeansExecuted
BY LinkInvariant, PTL DEF LinkInv

\* SYNCLOST is never returned twice in a row, unless a block outlived its call.
THEOREM SyncLostHeals == LinkSpec => OneSyncLostInARow
<1>1. LinkTypeOK /\ LinkInv /\ [LinkNext]_linkVars
        => [~outlived' /\ phase = "waiting" /\ phase' = "idle" /\ result' = "SYNCLOST"
              => result # "SYNCLOST"]_linkVars
  <2> SUFFICES ASSUME LinkInv, LinkNext, ~outlived', phase = "waiting", phase' = "idle",
                      result' = "SYNCLOST", result = "SYNCLOST"
               PROVE  FALSE
    BY DEF LinkInv
  <2>1. IBlock_Transceive
    BY DEF LinkNext, Peer, Line, Host, PeerResyncs, PeerExecutes, PeerFails, PeerAnswers,
           PeerRefuses, Answered, LoseRequest, LoseAnswer, Arrive, Transmit, WriteFails,
           StartCall, RL8000_CommOpenWithBusAddr, Timeout, SBlock_Resync, Return
  <2>2. ~outlived /\ Len(inbox) = 1 /\ inbox # <<>>
    BY <2>1 DEF IBlock_Transceive, Receiving, LinkInv, OneBlock, LinkTypeOK
  <2>3. frame.kind = "I" /\ NR # frame.ns
    BY <2>1 DEF IBlock_Transceive, Return, IBlockResult
  <2> QED
    BY <2>2, <2>3 DEF frame, LinkInv, OwedInStep, LinkTypeOK
<1> QED
  BY <1>1, LinkInvariant, LinkTypeCorrect, PTL DEF LinkSpec, OneSyncLostInARow

\* What has arrived while a call waits has arrived during that call.
InboxOfCall ==
    phase = "waiting" => \A k \in 1..Len(inbox) : inbox[k].during = calls

\* No call takes an answer that had arrived before the call began, late or not.
THEOREM AnswersAreFresh == LinkSpec => []OnlyFreshAnswers
<1>1. LinkInit => InboxOfCall /\ OnlyFreshAnswers
  BY DEF LinkInit, InboxOfCall, OnlyFreshAnswers
<1>2. LinkTypeOK /\ InboxOfCall /\ OnlyFreshAnswers /\ [LinkNext]_linkVars
        => InboxOfCall' /\ OnlyFreshAnswers'
  <2> SUFFICES ASSUME LinkTypeOK, InboxOfCall, OnlyFreshAnswers, [LinkNext]_linkVars
               PROVE  InboxOfCall' /\ OnlyFreshAnswers'
    OBVIOUS
  <2>1. CASE UNCHANGED <<phase, calls, result, accepted, inbox>>
    BY <2>1 DEF InboxOfCall, OnlyFreshAnswers
  <2>2. CASE Arrive
    <3> DEFINE new == [answer |-> Head(back), during |-> calls]
    <3>1. inbox' = Append(inbox, new) /\ new.during = calls
      BY <2>2 DEF Arrive
    <3>2. \A k \in 1..Len(inbox') : inbox'[k] = IF k <= Len(inbox) THEN inbox[k] ELSE new
      BY <3>1 DEF LinkTypeOK
    <3>3. UNCHANGED <<phase, calls, result, accepted>>
      BY <2>2 DEF Arrive
    <3> QED
      BY <3>1, <3>2, <3>3 DEF InboxOfCall, OnlyFreshAnswers, LinkTypeOK
  <2>3. ASSUME NEW cmd \in Cmds, Transmit(cmd)
        PROVE  InboxOfCall' /\ OnlyFreshAnswers'
    BY <2>3 DEF Transmit, StartCall, Purged, InboxOfCall, OnlyFreshAnswers
  <2>7. ASSUME NEW cmd \in Cmds, WriteFails(cmd)
        PROVE  InboxOfCall' /\ OnlyFreshAnswers'
    BY <2>7 DEF WriteFails, StartCall, InboxOfCall, OnlyFreshAnswers
  <2>4. ASSUME NEW n \in Nodes, RL8000_CommOpenWithBusAddr(n)
        PROVE  InboxOfCall' /\ OnlyFreshAnswers'
    BY <2>4 DEF RL8000_CommOpenWithBusAddr, InboxOfCall, OnlyFreshAnswers
  <2>5. CASE Timeout
    BY <2>5 DEF Timeout, Return, InboxOfCall, OnlyFreshAnswers
  <2>6. CASE SBlock_Resync \/ IBlock_Transceive
    <3>1. phase' = "idle" /\ calls' = calls /\ phase = "waiting" /\ inbox # <<>>
      BY <2>6 DEF SBlock_Resync, IBlock_Transceive, Receiving, Return
    <3>2. result' = "OK" => accepted' = inbox[1]
      BY <2>6, <3>1 DEF SBlock_Resync, IBlock_Transceive, Return, LinkTypeOK
    <3> QED
      BY <3>1, <3>2 DEF InboxOfCall, OnlyFreshAnswers, LinkTypeOK
  <2> QED
    BY <2>1, <2>2, <2>3, <2>4, <2>5, <2>6, <2>7
    DEF LinkNext, Peer, Line, Host, PeerResyncs, PeerExecutes, PeerFails, PeerAnswers,
        PeerRefuses, Answered, LoseRequest, LoseAnswer, linkVars
<1> QED
  BY <1>1, <1>2, LinkTypeCorrect, PTL DEF LinkSpec

-------------------------------------------------------------------------------
TagHere == hTag # NoTag => peerTag[DAD] = hTag

\* What an answer that reports success says of the tag.
TagAnswered(a) ==
    /\ a.kind = "I" /\ a.sta = "ok" => /\ call = "TagConnect" => peerTag[DAD] = a.tag
                                       /\ call \notin {"TagConnect", "TagDisconnect"} => TagHere
    /\ a.kind = "S" => TagHere

\* On a handle without failures hTag is true between the calls and until the
\* node has carried out the request; from then on the answer is.
TagInv ==
    ~failed =>
        /\ outlived => phase = "idle" /\ hTag = NoTag
        /\ ~outlived => /\ phase = "idle" \/ request # None => TagHere
                        /\ Len(back) = 1 => TagAnswered(back[1])
                        /\ phase = "waiting" /\ Len(inbox) = 1 => TagAnswered(inbox[1].answer)

\* hTag names the tag its node is connected to for any number of nodes, tags
\* and calls, whatever other handles did on the line before.
THEOREM TagIsTrue == LinkSpec => []TagIsConnected
<1>1. LinkInit => TagInv
  BY DEF LinkInit, TagInv, TagHere
<1>2. LinkTypeOK /\ LinkTypeOK' /\ LinkInv /\ TagInv /\ [LinkNext]_linkVars => TagInv'
  <2> SUFFICES ASSUME LinkTypeOK, LinkTypeOK', OneBlock, TagInv, [LinkNext]_linkVars
               PROVE  TagInv'
    BY DEF LinkInv
  <2>0. ASSUME request # None, ~outlived
        PROVE  /\ back = <<>> /\ inbox = <<>> /\ phase = "waiting"
               /\ request.cmd = call /\ request.dad = DAD
    BY <2>0 DEF OneBlock
  <2>1. CASE PeerResyncs
    <3> USE <2>1 DEF PeerResyncs, Answered, Answer, handleVars
    <3>1. ~outlived => Len(back') = 1 /\ back'[1].kind = "S" /\ back'[1].tag = NoTag
      BY <2>0
    <3> QED
      BY <2>0, <3>1 DEF TagInv, TagHere, TagAnswered
  <2>2. ASSUME NEW tag \in Tags \cup {NoTag}, PeerExecutes(tag)
        PROVE  TagInv'
    <3> USE <2>2 DEF PeerExecutes, PeerAnswers, Answered, Answer, handleVars
    <3>1. ~outlived => Len(back') = 1 /\ back'[1].kind = "I" /\ back'[1].tag = tag
      BY <2>0
    <3>2. ~outlived /\ call = "TagConnect" => peerTag'[DAD] = tag
      BY <2>0 DEF LinkTypeOK
    <3>3. ~outlived /\ call \notin {"TagConnect", "TagDisconnect"} => peerTag' = peerTag
      BY <2>0
    <3> QED
      BY <2>0, <3>1, <3>2, <3>3 DEF TagInv, TagHere, TagAnswered
  <2>3. CASE PeerFails
    <3> USE <2>3 DEF PeerFails, PeerAnswers, Answered, Answer, handleVars
    <3>1. ~outlived => Len(back') = 1 /\ back'[1].kind = "I" /\ back'[1].sta # "ok"
      BY <2>0
    <3> QED
      BY <2>0, <3>1 DEF TagInv, TagHere, TagAnswered
  <2>15. CASE PeerRefuses
    <3> USE <2>15 DEF PeerRefuses, Answered, Answer, handleVars, peerVars
    <3>1. ~outlived => Len(back') = 1 /\ back'[1].kind = "R"
      BY <2>0
    <3> QED
      BY <2>0, <3>1 DEF TagInv, TagHere, TagAnswered
  <2>4. CASE LoseRequest
    BY <2>4, <2>0 DEF LoseRequest, handleVars, peerVars, TagInv, TagHere, TagAnswered
  <2>5. CASE LoseAnswer
    <3>1. ~outlived => /\ phase = "waiting" /\ request = None
                       /\ Len(inbox) = 0 /\ Len(back') = 0
      BY <2>5 DEF LoseAnswer, OneBlock, LinkTypeOK
    <3>2. UNCHANGED <<hTag, phase, request, inbox, outlived, failed>>
      BY <2>5 DEF LoseAnswer, handleVars
    <3> QED
      BY <3>1, <3>2 DEF TagInv
  <2>6. CASE Arrive
    <3> USE <2>6 DEF Arrive, handleVars, peerVars
    <3>1. ~outlived => /\ phase = "waiting" /\ request = None /\ inbox = <<>>
                       /\ back' = <<>> /\ Len(back) = 1
      BY DEF OneBlock, LinkTypeOK
    <3>2. ~outlived => Len(inbox') = 1 /\ inbox'[1].answer = back[1]
      BY <3>1 DEF LinkTypeOK
    <3> QED
      BY <3>1, <3>2 DEF TagInv, TagHere, TagAnswered
  <2>7. ASSUME NEW n \in Nodes, RL8000_CommOpenWithBusAddr(n)
        PROVE  TagInv'
    <3>1. ~outlived => back = <<>>
      BY <2>7 DEF RL8000_CommOpenWithBusAddr, OneBlock
    <3> QED
      BY <2>7, <3>1 DEF RL8000_CommOpenWithBusAddr, peerVars, TagInv, TagHere
  <2>8. ASSUME NEW cmd \in Cmds, Transmit(cmd)
        PROVE  TagInv'
    <3> USE <2>8 DEF Transmit, StartCall, Purged, NothingInFlight, handleVars, peerVars
    <3>1. ~outlived' => Len(back') = 0
      BY DEF OneBlock
    <3>2. Len(inbox') = 0 /\ (~failed' => ~failed /\ ~outlived')
      BY DEF LinkTypeOK
    <3>3. ~failed' => TagHere'
      BY <3>2 DEF TagInv, TagHere
    <3> QED
      BY <3>1, <3>2, <3>3 DEF TagInv
  <2>9. ASSUME NEW cmd \in Cmds, WriteFails(cmd)
        PROVE  TagInv'
    BY <2>9 DEF WriteFails, TagInv
  <2>10. CASE Timeout
    BY <2>10 DEF Timeout, Return, TagInv
  <2>11. ASSUME Receiving, ~failed
         PROVE  /\ ~outlived' /\ back' = <<>> /\ request' = None
                /\ TagAnswered(frame)
    BY <2>11 DEF Receiving, frame, OneBlock, TagInv, LinkTypeOK
  <2>12. CASE SBlock_Resync
    BY <2>12, <2>11 DEF SBlock_Resync, Receiving, Return, peerVars, TagInv, TagHere, TagAnswered
  <2>13. CASE IBlock_Transceive
    <3> USE <2>13 DEF IBlock_Transceive, Receiving, Return, peerVars
    <3>1. ~failed' => ~failed /\ IBlockResult = "OK"
      OBVIOUS
    <3>2. IBlockResult = "OK" => frame.kind = "I" /\ frame.sta = "ok"
      BY DEF IBlockResult
    <3>3. ~failed' => TagHere'
      BY <2>11, <3>1, <3>2 DEF TagHere, TagAnswered, NexthTag
    <3> QED
      BY <2>11, <3>1, <3>3 DEF TagInv
  <2>14. CASE UNCHANGED linkVars
    BY <2>14 DEF linkVars, handleVars, peerVars, TagInv, TagHere, TagAnswered
  <2> QED
    BY <2>1, <2>2, <2>3, <2>4, <2>5, <2>6, <2>7, <2>8, <2>9, <2>10, <2>12, <2>13, <2>14, <2>15
    DEF LinkNext, Peer, Line, Host
<1>3. TagInv => TagIsConnected
  BY DEF TagInv, TagHere, TagIsConnected
<1> QED
  BY <1>1, <1>2, <1>3, LinkInvariant, LinkTypeCorrect, PTL DEF LinkSpec

-------------------------------------------------------------------------------
(***************************************************************************)
(* The inventory on the link.  Every step of it is a step of the link, so  *)
(* that what is proved above holds of its calls.                           *)
(***************************************************************************)

LEMMA NextIsLink == [Next]_vars => [LinkNext]_linkVars
<1> SUFFICES ASSUME [Next]_vars PROVE [LinkNext]_linkVars
  OBVIOUS
<1>1. CASE PeerCarriesOut
  BY <1>1 DEF PeerCarriesOut, LinkNext, Peer
<1>2. CASE Unheard
  BY <1>2 DEF Unheard, LinkNext, Peer, Line
<1>3. CASE RL8000_CommOpen
  BY <1>3 DEF RL8000_CommOpen, LinkNext, Host
<1>4. CASE Returns
  BY <1>4 DEF Returns, LinkNext, Host
<1>5. ASSUME NEW o \in Ops, Call(o)
      PROVE  LinkNext
  <2>1. Cmd(o) \in Cmds
    BY DEF Cmd, Ops, Cmds
  <2>2. Transmit(Cmd(o)) \/ WriteFails(Cmd(o))
    BY <1>5 DEF Call
  <2> QED
    BY <2>1, <2>2 DEF LinkNext, Host
<1>6. CASE UNCHANGED vars
  BY <1>6 DEF vars
<1> QED
  BY <1>1, <1>2, <1>3, <1>4, <1>5, <1>6 DEF Next

\* The numbers, tags and answers of an inventory's calls are those of the link.
THEOREM InventoryUsesLink == Spec => LinkSpec
<1>1. Init => LinkInit
  BY DEF Init
<1> QED
  BY <1>1, NextIsLink, PTL DEF Spec, LinkSpec

-------------------------------------------------------------------------------
(***************************************************************************)
(* The answers on the line, in the order in which the host gets them.  All *)
(* that happens to them but a new one at the end is that some are dropped. *)
(***************************************************************************)
OnLine == Len(inbox) + Len(back)
line   == [k \in 1..OnLine |-> IF k <= Len(inbox) THEN inbox[k].answer ELSE back[k - Len(inbox)]]

\* n answers l that are left of m answers old, in their order.
LeftOf(l, n, old, m) ==
    \E h \in [1..n -> 1..m] : /\ \A p \in 1..n : p <= h[p] /\ l[p] = old[h[p]]
                              /\ \A p, q \in 1..n : p < q => h[p] < h[q]
Thinned == LeftOf(line', OnLine', line, OnLine)
Added(a) == /\ OnLine' = OnLine + 1 /\ line'[OnLine + 1] = a
            /\ \A k \in 1..OnLine : line'[k] = line[k]

LEMMA LengthsOnLine ==
    ASSUME LinkTypeOK
    PROVE  /\ Len(inbox) \in Nat /\ Len(back) \in Nat /\ OnLine \in Nat
           /\ \A k \in 1..OnLine : line[k] \in Answers
<1>1. Len(inbox) \in Nat /\ Len(back) \in Nat /\ OnLine \in Nat
  BY LenProperties DEF LinkTypeOK, OnLine
<1>2. ASSUME NEW k \in 1..OnLine PROVE line[k] \in Answers
  <2>1. CASE k <= Len(inbox)
    <3>1. inbox[k] \in Arrived
      BY <1>1, <2>1 DEF LinkTypeOK
    <3> QED
      BY <2>1, <3>1 DEF line, Arrived
  <2>2. CASE ~(k <= Len(inbox))
    <3>1. k - Len(inbox) \in 1..Len(back)
      BY <1>1, <2>2 DEF OnLine
    <3>2. back[k - Len(inbox)] \in Answers
      BY <3>1 DEF LinkTypeOK
    <3> QED
      BY <2>2, <3>2 DEF line
  <2> QED
    BY <2>1, <2>2
<1> QED
  BY <1>1, <1>2

LEMMA SameThinned ==
    ASSUME LinkTypeOK, inbox' = inbox, back' = back
    PROVE  Thinned
<1>1. OnLine' = OnLine /\ line' = line /\ OnLine \in Nat
  BY LengthsOnLine DEF OnLine, line
<1> DEFINE h == [k \in 1..OnLine |-> k]
<1>2. h \in [1..OnLine -> 1..OnLine]
  OBVIOUS
<1>3. /\ \A p \in 1..OnLine : p <= h[p] /\ line'[p] = line[h[p]]
      /\ \A p, q \in 1..OnLine : p < q => h[p] < h[q]
  BY <1>1
<1> QED
  BY <1>1, <1>2, <1>3 DEF Thinned, LeftOf

LEMMA AnsweredAdds ==
    ASSUME LinkTypeOK, NEW a \in Answers, Answered(a)
    PROVE  Added(a)
<1>1. back' = Append(back, a) /\ inbox' = inbox /\ back \in Seq(Answers)
  BY DEF Answered, LinkTypeOK
<1>2. Len(inbox) \in Nat /\ Len(back) \in Nat
  BY LengthsOnLine
<1>3. /\ Len(back') = Len(back) + 1 /\ back'[Len(back) + 1] = a
      /\ \A k \in 1..Len(back) : back'[k] = back[k]
  BY <1>1
<1>4. OnLine' = OnLine + 1
  BY <1>1, <1>2, <1>3 DEF OnLine
<1>5. line'[OnLine + 1] = a
  <2>1. PICK k \in Nat : k = OnLine + 1
    BY <1>2, <1>4 DEF OnLine
  <2>2. ~(k <= Len(inbox')) /\ k - Len(inbox') = Len(back) + 1 /\ k \in 1..OnLine'
    BY <1>1, <1>2, <1>4, <2>1 DEF OnLine
  <2>3. line'[k] = back'[k - Len(inbox')]
    BY <2>2 DEF line
  <2> QED
    BY <1>3, <2>1, <2>2, <2>3
<1>6. ASSUME NEW k \in 1..OnLine PROVE line'[k] = line[k]
  <2>1. k \in 1..OnLine'
    BY <1>2, <1>4 DEF OnLine
  <2>2. CASE k <= Len(inbox)
    BY <1>1, <2>1, <2>2 DEF line
  <2>3. CASE ~(k <= Len(inbox))
    <3>1. k - Len(inbox) \in 1..Len(back)
      BY <1>2, <2>3 DEF OnLine
    <3>2. line'[k] = back'[k - Len(inbox)] /\ line[k] = back[k - Len(inbox)]
      BY <1>1, <2>1, <2>3 DEF line
    <3> QED
      BY <1>3, <3>1, <3>2
  <2> QED
    BY <2>2, <2>3
<1> QED
  BY <1>4, <1>5, <1>6 DEF Added

\* An answer arrives: it stays in its place.
LEMMA ArriveThins ==
    ASSUME LinkTypeOK, Arrive
    PROVE  Thinned
<1> DEFINE new == [answer |-> Head(back), during |-> calls]
<1>1. /\ back # <<>> /\ back \in Seq(Answers) /\ inbox \in Seq(Arrived) /\ calls \in Nat
      /\ inbox' = Append(inbox, new) /\ back' = Tail(back)
  BY DEF Arrive, LinkTypeOK
<1>2. Len(inbox) \in Nat /\ Len(back) \in Nat /\ OnLine \in Nat
  BY LengthsOnLine
<1>3. /\ Head(back) = back[1] /\ Head(back) \in Answers /\ Len(back') = Len(back) - 1
      /\ \A k \in 1..Len(back) - 1 : back'[k] = back[k + 1]
  BY <1>1
<1>4. new \in Arrived /\ new.answer = back[1]
  BY <1>1, <1>3 DEF Arrived
<1> HIDE DEF new
<1>5. /\ Len(inbox') = Len(inbox) + 1 /\ inbox'[Len(inbox) + 1] = new
      /\ \A k \in 1..Len(inbox) : inbox'[k] = inbox[k]
  BY <1>1, <1>4
<1>6. OnLine' = OnLine
  BY <1>2, <1>3, <1>5 DEF OnLine
<1>7. ASSUME NEW k \in 1..OnLine PROVE line'[k] = line[k]
  <2>1. CASE k <= Len(inbox)
    <3>1. k \in 1..Len(inbox) /\ k <= Len(inbox')
      BY <1>2, <1>5, <2>1
    <3> QED
      BY <1>5, <1>6, <3>1 DEF line
  <2>2. CASE k = Len(inbox) + 1
    <3>1. k <= Len(inbox') /\ ~(k <= Len(inbox)) /\ k - Len(inbox) = 1
      BY <1>2, <1>5, <2>2
    <3> QED
      BY <1>4, <1>5, <1>6, <2>2, <3>1 DEF line
  <2>3. CASE k > Len(inbox) + 1
    <3>1. /\ ~(k <= Len(inbox')) /\ ~(k <= Len(inbox))
          /\ k - Len(inbox') \in 1..Len(back) - 1 /\ (k - Len(inbox')) + 1 = k - Len(inbox)
      BY <1>2, <1>5, <2>3 DEF OnLine
    <3> QED
      BY <1>3, <1>6, <3>1 DEF line
  <2> QED
    BY <1>2, <2>1, <2>2, <2>3
<1>8. [k \in 1..OnLine |-> k] \in [1..OnLine -> 1..OnLine]
  OBVIOUS
<1>9. /\ \A p \in 1..OnLine : p <= [k \in 1..OnLine |-> k][p] /\ line'[p] = line[[k \in 1..OnLine |-> k][p]]
      /\ \A p, q \in 1..OnLine : p < q => [k \in 1..OnLine |-> k][p] < [k \in 1..OnLine |-> k][q]
  BY <1>2, <1>7
<1> QED
  BY <1>6, <1>8, <1>9 DEF Thinned, LeftOf

\* The first answer of those not yet arrived is lost.
LEMMA LoseThins ==
    ASSUME LinkTypeOK, LoseAnswer
    PROVE  Thinned
<1>1. back # <<>> /\ back \in Seq(Answers) /\ inbox' = inbox /\ back' = Tail(back)
  BY DEF LoseAnswer, LinkTypeOK
<1>2. Len(inbox) \in Nat /\ Len(back) \in Nat /\ OnLine \in Nat
  BY LengthsOnLine
<1>3. Len(back') = Len(back) - 1 /\ \A k \in 1..Len(back) - 1 : back'[k] = back[k + 1]
  BY <1>1
<1>4. OnLine' = OnLine - 1 /\ OnLine' \in Nat
  <2>1. Len(back) # 0
    BY <1>1
  <2> QED
    BY <1>1, <1>2, <1>3, <2>1 DEF OnLine
<1> DEFINE h == [k \in 1..OnLine' |-> IF k <= Len(inbox) THEN k ELSE k + 1]
<1>5. h \in [1..OnLine' -> 1..OnLine]
  BY <1>2, <1>4
<1>6. ASSUME NEW p \in 1..OnLine'
      PROVE  p <= h[p] /\ line'[p] = line[h[p]]
  <2>1. h[p] \in 1..OnLine /\ h[p] = IF p <= Len(inbox) THEN p ELSE p + 1
    BY <1>5
  <2>2. CASE p <= Len(inbox)
    BY <1>1, <2>1, <2>2 DEF line
  <2>3. CASE ~(p <= Len(inbox))
    <3>1. /\ h[p] = p + 1 /\ ~(h[p] <= Len(inbox)) /\ p - Len(inbox) \in 1..Len(back) - 1
          /\ h[p] - Len(inbox) = (p - Len(inbox)) + 1
      BY <1>2, <1>4, <2>1, <2>3 DEF OnLine
    <3>2. line'[p] = back'[p - Len(inbox)] /\ line[h[p]] = back[h[p] - Len(inbox)]
      BY <1>1, <2>1, <2>3, <3>1 DEF line
    <3> QED
      BY <1>3, <3>1, <3>2
  <2> QED
    BY <2>2, <2>3
<1>7. \A p, q \in 1..OnLine' : p < q => h[p] < h[q]
  BY <1>2, <1>4
<1> QED
  BY <1>5, <1>6, <1>7 DEF Thinned, LeftOf

\* A call takes one answer, or purges what has arrived, or nothing is left.
LEMMA ReceiveThins ==
    ASSUME LinkTypeOK, inbox # <<>>, inbox' = Tail(inbox), back' = back
    PROVE  /\ OnLine' = OnLine - 1 /\ OnLine \in Nat \ {0} /\ line[1] = frame
           /\ \A k \in 1..OnLine - 1 : line'[k] = line[k + 1]
           /\ Thinned
<1>1. inbox \in Seq(Arrived)
  BY DEF LinkTypeOK
<1>2. Len(inbox) \in Nat \ {0} /\ Len(back) \in Nat /\ OnLine \in Nat
  BY <1>1, LengthsOnLine
<1>3. /\ Len(inbox') = Len(inbox) - 1 /\ Head(inbox) = inbox[1]
      /\ \A k \in 1..Len(inbox) - 1 : inbox'[k] = inbox[k + 1]
  BY <1>1
<1>4. OnLine' = OnLine - 1 /\ OnLine \in Nat \ {0}
  BY <1>2, <1>3 DEF OnLine
<1>5. line[1] = frame
  BY <1>2, <1>3, <1>4 DEF line, frame
<1>6. ASSUME NEW k \in 1..OnLine - 1 PROVE line'[k] = line[k + 1]
  <2>1. k \in 1..OnLine' /\ k + 1 \in 1..OnLine
    BY <1>4
  <2>2. CASE k <= Len(inbox) - 1
    <3>1. k \in 1..Len(inbox) - 1 /\ k + 1 <= Len(inbox) /\ k <= Len(inbox')
      BY <1>2, <1>3, <2>2
    <3> QED
      BY <1>3, <2>1, <3>1 DEF line
  <2>3. CASE ~(k <= Len(inbox) - 1)
    <3>1. ~(k + 1 <= Len(inbox)) /\ ~(k <= Len(inbox')) /\ k - Len(inbox') = k + 1 - Len(inbox)
      BY <1>2, <1>3, <2>3
    <3> QED
      BY <2>1, <3>1 DEF line
  <2> QED
    BY <2>2, <2>3
<1> DEFINE h == [k \in 1..OnLine' |-> k + 1]
<1>7. h \in [1..OnLine' -> 1..OnLine]
  BY <1>4
<1>8. \A p \in 1..OnLine' : p <= h[p] /\ line'[p] = line[h[p]]
  BY <1>4, <1>6
<1>9. \A p, q \in 1..OnLine' : p < q => h[p] < h[q]
  BY <1>4
<1>10. Thinned
  BY <1>7, <1>8, <1>9 DEF Thinned, LeftOf
<1> QED
  BY <1>4, <1>5, <1>6, <1>10

LEMMA PurgeThins ==
    ASSUME LinkTypeOK, inbox' = <<>>, back' = back
    PROVE  Thinned /\ OnLine' = Len(back)
<1>1. Len(inbox) \in Nat /\ Len(back) \in Nat /\ OnLine \in Nat /\ Len(inbox') = 0
  BY LengthsOnLine
<1>2. OnLine' = Len(back)
  BY <1>1 DEF OnLine
<1> DEFINE h == [k \in 1..OnLine' |-> k + Len(inbox)]
<1>3. h \in [1..OnLine' -> 1..OnLine]
  BY <1>1, <1>2 DEF OnLine
<1>4. ASSUME NEW p \in 1..OnLine'
      PROVE  p <= h[p] /\ line'[p] = line[h[p]]
  <2>1. /\ h[p] = p + Len(inbox) /\ h[p] \in 1..OnLine /\ ~(h[p] <= Len(inbox))
        /\ h[p] - Len(inbox) = p /\ ~(p <= Len(inbox')) /\ p - Len(inbox') = p
    BY <1>1, <1>2, <1>3
  <2>2. line'[p] = back[p] /\ line[h[p]] = back[p]
    BY <2>1 DEF line
  <2> QED
    BY <1>1, <2>1, <2>2
<1>5. \A p, q \in 1..OnLine' : p < q => h[p] < h[q]
  BY <1>1, <1>2
<1> QED
  BY <1>2, <1>3, <1>4, <1>5 DEF Thinned, LeftOf

LEMMA DropThins ==
    ASSUME LinkTypeOK, inbox' = inbox, back' = <<>>
    PROVE  Thinned
<1>1. Len(inbox) \in Nat /\ Len(back) \in Nat /\ OnLine \in Nat /\ Len(back') = 0
  BY LengthsOnLine
<1>2. OnLine' = Len(inbox)
  BY <1>1 DEF OnLine
<1> DEFINE h == [k \in 1..OnLine' |-> k]
<1>3. h \in [1..OnLine' -> 1..OnLine]
  BY <1>1, <1>2 DEF OnLine
<1>4. \A p \in 1..OnLine' : p <= h[p] /\ line'[p] = line[h[p]]
  BY <1>1, <1>2, <1>3 DEF line
<1>5. \A p, q \in 1..OnLine' : p < q => h[p] < h[q]
  BY <1>1, <1>2
<1> QED
  BY <1>3, <1>4, <1>5 DEF Thinned, LeftOf

-------------------------------------------------------------------------------
(***************************************************************************)
(* What the calls were to do and what is said of them: every block on the  *)
(* line belongs to one call and carries its command, an older call's in    *)
(* front of a younger one's.                                               *)
(***************************************************************************)
SaysFor(o) == IF o = "Inventory" THEN Reports
              ELSE IF o = "Read" THEN {<<>>} \cup {<<u>> : u \in Uids \cup {NoUid}}
              ELSE {<<>>}
UidNow     == IF i < Len(set) THEN set[i + 1] ELSE NoUid

Logs ==
    /\ meant \in Seq([op : Ops, uid : Uids \cup {NoUid}]) /\ Len(meant) = calls
    /\ said \in Seq(Reports \cup {<<NoUid>>}) /\ Len(said) = calls
    /\ \A id \in 1..calls : said[id] \in SaysFor(meant[id].op)
LineOK ==
    /\ \A k \in 1..OnLine : line[k].id \in 1..calls /\ line[k].cmd = Cmd(meant[line[k].id].op)
    /\ \A p, q \in 1..OnLine : p < q => line[p].id < line[q].id
RequestOK ==
    request # None => /\ request.id \in 1..calls /\ request.cmd = Cmd(meant[request.id].op)
                      /\ \A k \in 1..OnLine : line[k].id < request.id

(***************************************************************************)
(* Where the inventory is: the call it waits for belongs to its step, and  *)
(* the record it is at is one of a tag reported.                           *)
(***************************************************************************)
StepFor(o) == IF o = "Resync" THEN "idle"
              ELSE IF o = "Inventory" THEN "opened"
              ELSE IF o = "Connect" THEN "tags" ELSE "connected"
Waits ==
    phase = "waiting" =>
        /\ op \in Ops /\ calls # 0 /\ call = Cmd(op) /\ step = StepFor(op)
        /\ meant[calls] = [op |-> op, uid |-> UidNow]
        /\ request # None => request.id = calls /\ request.dad = DAD
Counters ==
    /\ step = "opened" => nlen = BufLen /\ i = 0
    /\ step \in {"tags", "connected"} => i < Len(set) /\ nlen = i /\ nSumlen = BufLen
LoopTypes ==
    /\ step \in {"idle", "opened", "tags", "connected"} /\ op \in Ops \cup {"none", "Open"}
    /\ set \in Reports /\ reported \in Reports /\ i \in 0..Len(set)
    /\ nlen \in 0..BufLen /\ nSumlen \in {0, BufLen} /\ iret \in {"OK", "LINK"}
    /\ user \in [tag : Uids \cup {NoUid}, len : {0, 32}]
    /\ records \in Seq([tag : Uids, user : [tag : Uids \cup {NoUid}, len : {0, 32}]])
    /\ Len(records) = i
    /\ peerUid \in [Nodes -> Uids \cup {NoUid}] /\ connected \in Uids \cup {NoUid}
    /\ errors \in 0..MaxErrors
LinkedInv == /\ LinkTypeOK /\ LoopTypes /\ Counters
             /\ Logs /\ LineOK /\ RequestOK /\ Waits

LEMMA ReportIs ==
    ASSUME NEW r \in Reports
    PROVE  r \in Seq(Uids) /\ Len(r) \in Nat /\ Len(r) <= BufLen /\ \A k \in 1..Len(r) : r[k] \in Uids
<1>1. PICK n \in 0..BufLen : r \in [1..n -> Uids]
  BY DEF Reports
<1>2. r \in Seq(Uids)
  BY <1>1, SeqDef
<1>3. Len(r) = n
  BY <1>1, <1>2, LenProperties
<1> QED
  BY <1>1, <1>2, <1>3

LEMMA SmallReports ==
    /\ BufLen \in Nat /\ <<>> \in Reports
    /\ \A u \in Uids : <<u>> \in Reports
<1>1. BufLen \in Nat
  BY InventoryLinkAssumption, FS_CardinalityType DEF BufLen
<1>2. <<>> \in Reports
  <2>1. <<>> \in [1..0 -> Uids] /\ 0 \in 0..BufLen
    BY <1>1
  <2> QED
    BY <2>1 DEF Reports
<1>3. ASSUME NEW u \in Uids PROVE <<u>> \in Reports
  <2>1. BufLen # 0
    BY InventoryLinkAssumption, FS_EmptySet DEF BufLen
  <2>2. <<u>> \in [1..1 -> Uids] /\ 1 \in 0..BufLen
    BY <1>1, <2>1
  <2>3. \A j, k \in DOMAIN <<u>> : j = k
    OBVIOUS
  <2> QED
    BY <2>2, <2>3 DEF Reports
<1> QED
  BY <1>1, <1>2, <1>3

\* What a node's answer says is a sequence of uids.
LEMMA SaysType == \A o \in Ops : SaysFor(o) \subseteq Reports \cup {<<NoUid>>}
BY SmallReports DEF SaysFor

LEMMA RequestType ==
    ASSUME LinkTypeOK, request # None
    PROVE  request \in [kind : {"S", "I"}, dad : Nodes, ns : Bit, cmd : Cmds,
                        tag : Tags \cup {NoTag}, id : Nat]
BY DEF LinkTypeOK, Requests

\* A node answers the request with one block.
LEMMA PeerStep ==
    ASSUME LinkTypeOK,
           \/ PeerResyncs \/ PeerFails \/ PeerRefuses
           \/ \E tag \in Tags \cup {NoTag} : PeerExecutes(tag)
    PROVE  /\ request # None
           /\ \E a \in Answers :
                /\ Answered(a) /\ a.id = request.id /\ a.cmd = request.cmd
                /\ a.kind = "I" /\ a.sta = "ok" => \E tag \in Tags \cup {NoTag} : PeerExecutes(tag)
<1>1. request # None
  BY DEF PeerResyncs, PeerFails, PeerRefuses, PeerExecutes, PeerAnswers
<1>2. ASSUME NEW kind \in {"S", "I", "R"}, NEW sta \in {"ok", "fail", "absent"},
             NEW tag \in Tags \cup {NoTag}
      PROVE  /\ Answer(kind, sta, tag) \in Answers
             /\ Answer(kind, sta, tag).id = request.id /\ Answer(kind, sta, tag).cmd = request.cmd
             /\ Answer(kind, sta, tag).kind = kind /\ Answer(kind, sta, tag).sta = sta
  <2>1. peerNS[request.dad] \in Bit
    BY <1>1, RequestType DEF LinkTypeOK
  <2> QED
    BY <1>1, <2>1, RequestType DEF Answer, Answers
<1>3. CASE PeerResyncs
  BY <1>1, <1>2, <1>3 DEF PeerResyncs
<1>4. CASE PeerFails
  BY <1>1, <1>2, <1>4 DEF PeerFails, PeerAnswers
<1>5. CASE PeerRefuses
  BY <1>1, <1>2, <1>5 DEF PeerRefuses
<1>6. ASSUME NEW tag \in Tags \cup {NoTag}, PeerExecutes(tag)
      PROVE  \E a \in Answers : Answered(a) /\ a.id = request.id /\ a.cmd = request.cmd
  BY <1>1, <1>2, <1>6 DEF PeerExecutes, PeerAnswers
<1> QED
  BY <1>1, <1>3, <1>4, <1>5, <1>6

-------------------------------------------------------------------------------
(* What stays true of the line.                                             *)

HistoryKept == /\ calls' \in Nat /\ calls <= calls'
               /\ \A id \in 1..calls : meant'[id] = meant[id]

LEMMA ThinnedLine ==
    ASSUME LinkTypeOK, LineOK, Thinned, HistoryKept
    PROVE  LineOK'
<1>1. PICK h \in [1..OnLine' -> 1..OnLine] :
         /\ \A p \in 1..OnLine' : p <= h[p] /\ line'[p] = line[h[p]]
         /\ \A p, q \in 1..OnLine' : p < q => h[p] < h[q]
  BY DEF Thinned, LeftOf
<1>2. ASSUME NEW p \in 1..OnLine'
      PROVE  line'[p].id \in 1..calls' /\ line'[p].cmd = Cmd(meant'[line'[p].id].op)
  <2>1. h[p] \in 1..OnLine
    BY <1>1
  <2>2. line[h[p]].id \in 1..calls /\ line[h[p]].cmd = Cmd(meant[line[h[p]].id].op)
    BY <2>1 DEF LineOK
  <2>3. calls \in Nat
    BY DEF LinkTypeOK
  <2> QED
    BY <1>1, <2>2, <2>3 DEF HistoryKept
<1>3. \A p, q \in 1..OnLine' : p < q => line'[p].id < line'[q].id
  BY <1>1 DEF LineOK
<1> QED
  BY <1>2, <1>3 DEF LineOK

LEMMA ThinnedRequest ==
    ASSUME LinkTypeOK, RequestOK, Thinned, HistoryKept, request' \in {request, None}
    PROVE  RequestOK'
<1> SUFFICES ASSUME request # None, request' = request PROVE RequestOK'
  BY DEF RequestOK
<1>1. PICK h \in [1..OnLine' -> 1..OnLine] : \A p \in 1..OnLine' : line'[p] = line[h[p]]
  BY DEF Thinned, LeftOf
<1>2. request.id \in 1..calls /\ request.cmd = Cmd(meant[request.id].op) /\ calls \in Nat
  BY DEF RequestOK, LinkTypeOK
<1>3. \A p \in 1..OnLine' : line'[p].id < request.id
  BY <1>1 DEF RequestOK
<1> QED
  BY <1>2, <1>3 DEF RequestOK, HistoryKept

\* The answer to the request is the youngest on the line.
LEMMA AddedLine ==
    ASSUME LinkTypeOK, LineOK, RequestOK, request # None, NEW a \in Answers, Added(a),
           a.id = request.id, a.cmd = request.cmd, request' = None,
           calls' = calls, meant' = meant
    PROVE  LineOK' /\ RequestOK'
<1>1. OnLine \in Nat /\ OnLine' = OnLine + 1 /\ line'[OnLine + 1] = a
      /\ \A k \in 1..OnLine : line'[k] = line[k]
  BY LengthsOnLine DEF Added
<1>2. /\ a.id \in 1..calls /\ a.cmd = Cmd(meant[a.id].op)
      /\ \A k \in 1..OnLine : line[k].id < a.id
  BY DEF RequestOK
<1>3. \A k \in 1..OnLine + 1 : k \in 1..OnLine \/ k = OnLine + 1
  BY <1>1
<1>4. \A k \in 1..OnLine' : line'[k].id \in 1..calls' /\ line'[k].cmd = Cmd(meant'[line'[k].id].op)
  BY <1>1, <1>2, <1>3 DEF LineOK
<1>5. ASSUME NEW p \in 1..OnLine', NEW q \in 1..OnLine', p < q
      PROVE  line'[p].id < line'[q].id
  <2>1. p \in 1..OnLine
    BY <1>1, <1>5
  <2> QED
    BY <1>1, <1>2, <1>3, <1>5, <2>1 DEF LineOK
<1> QED
  BY <1>4, <1>5 DEF LineOK, RequestOK

-------------------------------------------------------------------------------
(* What a call that returned does to the inventory.                         *)

LEMMA AfterTypes ==
    ASSUME LoopTypes, Counters, NEW o \in Ops, NEW ok \in BOOLEAN, NEW uids, After(o, ok, uids),
           step = StepFor(o), DAD \in Nodes, peerUid' = peerUid, op' \in Ops,
           ok /\ o = "Inventory" => uids \in Reports,
           ok /\ o = "Read" => uids \in SaysFor("Read")
    PROVE  LoopTypes' /\ Counters'
<1>1. errors' \in 0..MaxErrors
  <2>1. errors' = errors + (IF ok THEN 0 ELSE 1) /\ errors' <= MaxErrors
    BY DEF After
  <2> QED
    BY <2>1, InventoryLinkAssumption DEF LoopTypes
<1>2. NoUser \in [tag : Uids \cup {NoUid}, len : {0, 32}]
  BY DEF NoUser
<1>3. BufLen \in Nat /\ <<>> \in Reports /\ Len(<<>>) = 0
      /\ <<>> \in Seq([tag : Uids, user : [tag : Uids \cup {NoUid}, len : {0, 32}]])
  BY SmallReports
<1>4. peerUid' \in [Nodes -> Uids \cup {NoUid}] /\ op' \in Ops \cup {"none", "Open"}
  BY DEF LoopTypes
<1>5. Len(set) \in Nat /\ Len(set) <= BufLen /\ \A k \in 1..Len(set) : set[k] \in Uids
  BY ReportIs DEF LoopTypes
<1>6. CASE o = "Resync"
  <2>1. AfterResync(ok)
    BY <1>6 DEF After
  <2> QED
    BY <1>1, <1>2, <1>3, <1>4, <1>5, <2>1 DEF AfterResync, Ends, LoopTypes, Counters
<1>7. CASE o = "Inventory"
  <2>1. AfterInventory(ok, uids) /\ step = "opened"
    BY <1>7 DEF After, StepFor
  <2>2. i = 0 /\ nlen = BufLen
    BY <2>1 DEF Counters
  <2>3. CASE ok
    <3>1. /\ set' = uids /\ reported' = uids /\ nSumlen' = BufLen /\ nlen' = 0 /\ iret' = "OK"
          /\ step' = IF uids = <<>> THEN "idle" ELSE "tags"
          /\ UNCHANGED <<i, user, records, connected>>
      BY <2>1, <2>2, <2>3 DEF AfterInventory, Ends
    <3>2. uids \in Reports /\ Len(uids) \in Nat
      BY <1>7, <2>3, ReportIs
    <3>3. uids # <<>> => 0 < Len(uids)
      <4>1. uids \in Seq(Uids)
        BY <3>2, ReportIs
      <4>2. uids # <<>> => Len(uids) # 0
        BY <4>1
      <4> QED
        BY <3>2, <4>2
    <3> QED
      BY <1>1, <1>3, <1>4, <2>2, <3>1, <3>2, <3>3 DEF LoopTypes, Counters
  <2>4. CASE ~ok
    BY <1>1, <1>3, <1>4, <2>1, <2>4 DEF AfterInventory, Ends, LoopTypes, Counters
  <2> QED
    BY <2>3, <2>4
<1>8. CASE o = "Connect"
  <2>1. AfterConnect(ok) /\ step = "tags"
    BY <1>8 DEF After, StepFor
  <2>2. peerUid[DAD] \in Uids \cup {NoUid}
    BY DEF LoopTypes
  <2> QED
    BY <1>1, <1>2, <1>3, <1>4, <1>5, <2>1, <2>2 DEF AfterConnect, EndsLoop, Ends, LoopTypes, Counters
<1>9. CASE o = "Reset"
  <2>1. UNCHANGED loopVars
    BY <1>9 DEF After
  <2> QED
    BY <1>1, <1>4, <2>1 DEF loopVars, LoopTypes, Counters
<1>10. CASE o = "Read"
  <2>1. AfterRead(ok, uids)
    BY <1>10 DEF After
  <2>2. user' \in [tag : Uids \cup {NoUid}, len : {0, 32}]
    <3>1. CASE ~ok
      BY <1>2, <2>1, <3>1 DEF AfterRead
    <3>2. CASE ok
      <4>1. uids = <<>> \/ \E u \in Uids \cup {NoUid} : uids = <<u>>
        BY <1>10, <3>2 DEF SaysFor
      <4>2. uids # <<>> => uids[1] \in Uids \cup {NoUid}
        BY <4>1
      <4> QED
        BY <2>1, <3>2, <4>2 DEF AfterRead
    <3> QED
      BY <3>1, <3>2
  <2> QED
    BY <1>1, <1>4, <2>1, <2>2 DEF AfterRead, LoopTypes, Counters
<1>11. CASE o = "Disconnect"
  <2> DEFINE Rec == [tag : Uids, user : [tag : Uids \cup {NoUid}, len : {0, 32}]]
             new == [tag |-> set[i + 1], user |-> user]
  <2>1. AfterDisconnect /\ step = "connected"
    BY <1>11 DEF After, StepFor
  <2>2. i \in Nat /\ i < Len(set) /\ nlen = i /\ nSumlen = BufLen
    BY <2>1, <1>5 DEF LoopTypes, Counters
  <2>3. new \in Rec
    <3>1. set[i + 1] \in Uids
      BY <1>5, <2>2
    <3> QED
      BY <3>1 DEF LoopTypes
  <2>4. records \in Seq(Rec) /\ Len(records) = i /\ records' = Append(records, new)
    BY <2>1 DEF AfterDisconnect, LoopTypes
  <2> HIDE DEF Rec, new
  <2>5. records' \in Seq(Rec) /\ Len(records') = i + 1
    BY <2>2, <2>3, <2>4
  <2>6. /\ i' = i + 1 /\ nlen' = i + 1 /\ iret' \in {"OK", "LINK"}
        /\ step' = (IF i + 1 > BufLen \/ i + 1 = Len(set) THEN "idle" ELSE "tags")
        /\ UNCHANGED <<set, nSumlen, user, reported, connected>>
    BY <2>1, <2>2 DEF AfterDisconnect
  <2>7. i' \in 0..Len(set') /\ nlen' \in 0..BufLen /\ (step' = "tags" => i' < Len(set'))
        /\ step' \in {"idle", "tags"}
    BY <1>3, <1>5, <2>2, <2>6
  <2>8. records' \in Seq([tag : Uids, user : [tag : Uids \cup {NoUid}, len : {0, 32}]])
    BY <2>5 DEF Rec
  <2>9. LoopTypes'
    BY <1>1, <1>4, <2>5, <2>6, <2>7, <2>8 DEF LoopTypes
  <2> QED
    BY <2>2, <2>6, <2>7, <2>9 DEF Counters
<1> QED
  BY <1>6, <1>7, <1>8, <1>9, <1>10, <1>11 DEF Ops

-------------------------------------------------------------------------------
LEMMA LinkedInit == Init => LinkedInv
<1> SUFFICES ASSUME Init PROVE LinkedInv
  OBVIOUS
<1>1. LinkTypeOK
  BY InitType DEF Init
<1>2. /\ phase = "idle" /\ calls = 0 /\ request = None /\ back = <<>> /\ inbox = <<>>
      /\ step = "idle" /\ set = <<>> /\ i = 0 /\ nlen = 0 /\ nSumlen = 0 /\ iret = "OK"
      /\ user = NoUser /\ records = <<>> /\ reported = <<>> /\ connected = NoUid
      /\ op = "none" /\ meant = <<>> /\ said = <<>> /\ errors = 0
      /\ peerUid = [n \in Nodes |-> NoUid]
  BY DEF Init, LinkInit
<1>3. OnLine = 0
  BY <1>2 DEF OnLine
<1>4. LineOK /\ RequestOK /\ Waits
  BY <1>2, <1>3 DEF LineOK, RequestOK, Waits
<1>5. Logs
  BY <1>2 DEF Logs
<1>6. LoopTypes
  <2>1. <<>> \in Seq([tag : Uids, user : [tag : Uids \cup {NoUid}, len : {0, 32}]]) /\ Len(<<>>) = 0
    OBVIOUS
  <2>2. NoUser \in [tag : Uids \cup {NoUid}, len : {0, 32}]
    BY DEF NoUser
  <2> QED
    BY <1>2, <2>1, <2>2, SmallReports, InventoryLinkAssumption DEF LoopTypes
<1>7. Counters
  BY <1>2 DEF Counters
<1> QED
  BY <1>1, <1>4, <1>5, <1>6, <1>7 DEF LinkedInv

\* The steps of the line and of the nodes leave the loop alone.
LEMMA LoopKept ==
    ASSUME LoopTypes, Counters, Waits, UNCHANGED <<loopVars, op, errors>>,
           UNCHANGED <<phase, call, calls, DAD>>, request' \in {request, None},
           meant' = meant, peerUid' \in [Nodes -> Uids \cup {NoUid}]
    PROVE  LoopTypes' /\ Counters' /\ Waits'
<1>1. UNCHANGED <<step, set, i, nlen, nSumlen, iret, user, records, reported, connected, handed>>
  BY DEF loopVars
<1>2. LoopTypes' /\ Counters'
  BY <1>1 DEF LoopTypes, Counters
<1>3. UidNow' = UidNow /\ StepFor(op)' = StepFor(op)
  BY <1>1 DEF UidNow, StepFor
<1>4. Waits'
  BY <1>1, <1>3 DEF Waits
<1> QED
  BY <1>2, <1>4

LEMMA AnsweredKeeps ==
    ASSUME LinkedInv, LinkTypeOK', request # None, NEW a \in Answers, Answered(a),
           a.id = request.id, a.cmd = request.cmd,
           UNCHANGED <<loopVars, op, meant, errors>>,
           peerUid' \in [Nodes -> Uids \cup {NoUid}], Logs'
    PROVE  LinkedInv'
<1>1. UNCHANGED <<NS, NR, DAD, hTag, phase, call, calls, result, inbox>> /\ request' = None
  BY DEF Answered, handleVars
<1>2. LoopTypes' /\ Counters' /\ Waits'
  BY <1>1, LoopKept DEF LinkedInv
<1>3. LineOK' /\ RequestOK'
  BY <1>1, AnsweredAdds, AddedLine DEF LinkedInv
<1> QED
  BY <1>2, <1>3 DEF LinkedInv

LEMMA LogEntry ==
    ASSUME Logs, calls \in Nat, NEW id \in 1..calls
    PROVE  meant[id] \in [op : Ops, uid : Uids \cup {NoUid}]
<1> DEFINE S == [op : Ops, uid : Uids \cup {NoUid}]
<1>1. meant \in Seq(S) /\ id \in 1..Len(meant)
  BY DEF Logs
<1> HIDE DEF S
<1>2. meant[id] \in S
  BY <1>1
<1> QED
  BY <1>2 DEF S

LEMMA SaidKeeps ==
    ASSUME Logs, calls \in Nat, NEW id \in 1..calls, NEW uids \in SaysFor(meant[id].op),
           said' = [said EXCEPT ![id] = uids], meant' = meant, calls' = calls
    PROVE  Logs'
<1>1. meant[id].op \in Ops
  BY LogEntry
<1>2. uids \in Reports \cup {<<NoUid>>}
  BY <1>1, SaysType
<1>3. said' \in Seq(Reports \cup {<<NoUid>>}) /\ Len(said') = calls
  BY <1>2 DEF Logs
<1>4. \A k \in 1..calls : said'[k] \in SaysFor(meant[k].op)
  BY DEF Logs
<1>5. \A k \in 1..calls : SaysFor(meant'[k].op) = SaysFor(meant[k].op)
  OBVIOUS
<1> QED
  BY <1>3, <1>4, <1>5 DEF Logs

LEMMA CarriesOutKeeps ==
    ASSUME LinkedInv, LinkTypeOK', PeerCarriesOut
    PROVE  LinkedInv'
<1> DEFINE m == meant[request.id]
<1>1. PICK tag \in Tags \cup {NoTag} : PeerExecutes(tag)
  BY DEF PeerCarriesOut
<1>2. LinkTypeOK
  BY DEF LinkedInv
<1>3. request # None
  BY <1>1, <1>2, PeerStep
<1>4. PICK a \in Answers : Answered(a) /\ a.id = request.id /\ a.cmd = request.cmd
  BY <1>1, <1>2, PeerStep
<1>5. /\ request.id \in 1..calls /\ calls \in Nat /\ calls' = calls
      /\ m \in [op : Ops, uid : Uids \cup {NoUid}]
  <2>1. request.id \in 1..calls /\ calls \in Nat
    BY <1>3 DEF LinkedInv, RequestOK, LinkTypeOK
  <2>2. calls' = calls
    BY <1>4 DEF Answered
  <2>3. m \in [op : Ops, uid : Uids \cup {NoUid}]
    BY <2>1, LogEntry DEF LinkedInv
  <2> QED
    BY <2>1, <2>2, <2>3
<1>6. request.dad \in Nodes /\ peerUid \in [Nodes -> Uids \cup {NoUid}]
  BY <1>2, <1>3, RequestType DEF LinkedInv, LoopTypes
<1>7. UNCHANGED <<loopVars, op, meant, errors>> /\ meant' = meant
  BY DEF PeerCarriesOut
<1>8. peerUid' \in [Nodes -> Uids \cup {NoUid}]
  BY <1>5, <1>6 DEF PeerCarriesOut
<1>9. Logs'
  <2>1. CASE said' = said
    <3>1. Logs
      BY DEF LinkedInv
    <3> QED
      BY <1>5, <1>7, <2>1, <3>1 DEF Logs
  <2>2. ASSUME NEW r \in SaysFor(m.op), Says(r)
        PROVE  Logs'
    BY <1>5, <1>7, <2>2, SaidKeeps DEF Says, LinkedInv
  <2>3. said' = said \/ \E r \in SaysFor(m.op) : Says(r)
    <3>1. CASE m.op = "Inventory" /\ \E r \in Reports : Says(r)
      BY <3>1 DEF SaysFor
    <3>2. CASE /\ m.op \in {"Reset", "Read"}
               /\ \E uids \in {<<>>, <<peerUid[request.dad]>>} :
                    Says(IF m.op = "Read" THEN uids ELSE <<>>)
      <4>1. peerUid[request.dad] \in Uids \cup {NoUid}
        BY <1>6
      <4>2. \A uids \in {<<>>, <<peerUid[request.dad]>>} :
              (IF m.op = "Read" THEN uids ELSE <<>>) \in SaysFor(m.op)
        BY <3>2, <4>1 DEF SaysFor
      <4> QED
        BY <3>2, <4>2
    <3>3. CASE UNCHANGED <<said, accesses>>
      BY <3>3
    <3> QED
      BY <3>1, <3>2, <3>3 DEF PeerCarriesOut
  <2> QED
    BY <2>1, <2>2, <2>3
<1> QED
  BY <1>3, <1>4, <1>7, <1>8, <1>9, AnsweredKeeps

\* Steps that drop answers and leave the inventory alone.
LEMMA ThinnedKeeps ==
    ASSUME LinkedInv, LinkTypeOK', Thinned, request' \in {request, None},
           UNCHANGED <<loopVars, op, meant, said, peerUid, errors>>,
           UNCHANGED <<phase, call, calls, DAD>>
    PROVE  LinkedInv'
<1>1. LoopTypes' /\ Counters' /\ Waits'
  BY LoopKept DEF LinkedInv, LoopTypes
<1>2. HistoryKept
  BY DEF HistoryKept, LinkedInv, LinkTypeOK
<1>3. LineOK' /\ RequestOK'
  BY <1>2, ThinnedLine, ThinnedRequest DEF LinkedInv
<1>4. Logs'
  BY DEF LinkedInv, Logs
<1> QED
  BY <1>1, <1>3, <1>4 DEF LinkedInv

LEMMA UnheardKeeps ==
    ASSUME LinkedInv, LinkTypeOK', Unheard
    PROVE  LinkedInv'
<1>1. LinkTypeOK /\ UNCHANGED <<loopVars, op, meant, said, peerUid, accesses, errors>>
  BY DEF LinkedInv, Unheard
<1>2. CASE PeerResyncs \/ PeerFails \/ PeerRefuses
  <2>1. request # None
    BY <1>1, <1>2, PeerStep
  <2>2. PICK a \in Answers : Answered(a) /\ a.id = request.id /\ a.cmd = request.cmd
    BY <1>1, <1>2, PeerStep
  <2>3. calls' = calls
    BY <2>2 DEF Answered
  <2>4. Logs'
    BY <1>1, <2>3 DEF LinkedInv, Logs
  <2> QED
    BY <1>1, <2>1, <2>2, <2>4, AnsweredKeeps DEF LinkedInv, LoopTypes
<1>3. CASE LoseRequest
  BY <1>1, <1>3, SameThinned, ThinnedKeeps DEF LoseRequest, handleVars
<1>4. CASE LoseAnswer
  BY <1>1, <1>4, LoseThins, ThinnedKeeps DEF LoseAnswer, handleVars
<1>5. CASE Arrive
  BY <1>1, <1>5, ArriveThins, ThinnedKeeps DEF Arrive, handleVars
<1> QED
  BY <1>2, <1>3, <1>4, <1>5 DEF Unheard, Line

LEMMA OpenKeeps ==
    ASSUME LinkedInv, LinkTypeOK', RL8000_CommOpen
    PROVE  LinkedInv'
<1>1. /\ UNCHANGED <<loopVars, meant, said, peerUid, errors>> /\ op' = "Open"
      /\ phase' = "idle" /\ UNCHANGED <<calls, request, back, inbox>>
  BY DEF RL8000_CommOpen, RL8000_CommOpenWithBusAddr
<1>2. LoopTypes' /\ Counters'
  BY <1>1 DEF LinkedInv, LoopTypes, Counters, loopVars
<1>3. Waits' /\ Logs'
  BY <1>1 DEF Waits, LinkedInv, Logs
<1>4. Thinned /\ HistoryKept
  BY <1>1, SameThinned DEF LinkedInv, HistoryKept, LinkTypeOK
<1>5. LineOK' /\ RequestOK'
  BY <1>1, <1>4, ThinnedLine, ThinnedRequest DEF LinkedInv
<1> QED
  BY <1>2, <1>3, <1>5 DEF LinkedInv

\* What a call writes down, and what it leaves of the line.
LEMMA CallLogs ==
    ASSUME LinkedInv, NEW o \in Ops, Call(o)
    PROVE  /\ calls \in Nat /\ calls' = calls + 1 /\ op' = o /\ peerUid' = peerUid
           /\ meant'[calls + 1] = [op |-> o, uid |-> UidNow] /\ phase = "idle" /\ call' = Cmd(o)
           /\ Thinned /\ OnLine' = Len(back) /\ HistoryKept /\ Logs' /\ LineOK' /\ DAD' = DAD
           /\ \A k \in 1..OnLine' : line'[k].id <= calls
<1> DEFINE E == [op : Ops, uid : Uids \cup {NoUid}]
           S == Reports \cup {<<NoUid>>}
           new == [op |-> o, uid |-> UidNow]
<1>1. StartCall(Cmd(o))
  BY DEF Call, Transmit, WriteFails
<1>2. /\ calls \in Nat /\ calls' = calls + 1 /\ op' = o /\ peerUid' = peerUid /\ phase = "idle"
      /\ call' = Cmd(o) /\ inbox' = <<>> /\ back' = back /\ DAD' = DAD
      /\ meant' = Append(meant, new) /\ said' = Append(said, <<>>)
  BY <1>1 DEF Call, StartCall, Purged, LinkedInv, LinkTypeOK, UidNow, handleVars
<1>3. new \in E
  <2>1. UidNow \in Uids \cup {NoUid}
    <3>1. i \in Nat /\ Len(set) \in Nat /\ \A k \in 1..Len(set) : set[k] \in Uids
      BY ReportIs DEF LinkedInv, LoopTypes
    <3> QED
      BY <3>1 DEF UidNow
  <2> QED
    BY <2>1
<1>4. meant \in Seq(E) /\ Len(meant) = calls /\ said \in Seq(S) /\ Len(said) = calls
  BY DEF LinkedInv, Logs
<1>5. <<>> \in S
  BY SmallReports
<1> HIDE DEF E, S, new
<1>6. /\ meant' \in Seq(E) /\ Len(meant') = calls + 1 /\ meant'[calls + 1] = new
      /\ \A id \in 1..calls : meant'[id] = meant[id]
  BY <1>2, <1>3, <1>4
<1>7. /\ said' \in Seq(S) /\ Len(said') = calls + 1 /\ said'[calls + 1] = <<>>
      /\ \A id \in 1..calls : said'[id] = said[id]
  BY <1>2, <1>4, <1>5
<1>8. new.op = o
  BY DEF new
<1>9. Logs'
  <2>1. <<>> \in SaysFor(o)
    BY SmallReports DEF SaysFor
  <2>2. \A id \in 1..calls : said[id] \in SaysFor(meant[id].op)
    BY DEF LinkedInv, Logs
  <2>3. ASSUME NEW id \in 1..calls + 1
        PROVE  said'[id] \in SaysFor(meant'[id].op)
    <3>1. CASE id = calls + 1
      BY <1>6, <1>7, <1>8, <2>1, <3>1
    <3>2. CASE id \in 1..calls
      <4>1. said'[id] = said[id] /\ meant'[id] = meant[id]
        BY <1>6, <1>7, <3>2
      <4> QED
        BY <2>2, <3>2, <4>1
    <3>3. id = calls + 1 \/ id \in 1..calls
      BY <1>2
    <3> QED
      BY <3>1, <3>2, <3>3
  <2> QED
    BY <1>2, <1>6, <1>7, <2>3 DEF E, S, Logs
<1>10. Thinned /\ OnLine' = Len(back)
  BY <1>2, PurgeThins DEF LinkedInv
<1>11. HistoryKept
  BY <1>2, <1>6 DEF HistoryKept
<1>12. LineOK'
  BY <1>10, <1>11, ThinnedLine DEF LinkedInv
<1>13. \A k \in 1..OnLine' : line'[k].id <= calls
  <2>1. PICK h \in [1..OnLine' -> 1..OnLine] : \A p \in 1..OnLine' : line'[p] = line[h[p]]
    BY <1>10 DEF Thinned, LeftOf
  <2>2. \A k \in 1..OnLine : line[k].id \in 1..calls
    BY DEF LinkedInv, LineOK
  <2> QED
    BY <1>2, <2>1, <2>2
<1> QED
  BY <1>2, <1>6, <1>9, <1>10, <1>11, <1>12, <1>13 DEF new

LEMMA CallKeeps ==
    ASSUME LinkedInv, LinkTypeOK', NEW o \in Ops, Call(o)
    PROVE  LinkedInv'
<1>1. /\ calls \in Nat /\ calls' = calls + 1 /\ op' = o /\ peerUid' = peerUid
      /\ meant'[calls + 1] = [op |-> o, uid |-> UidNow] /\ phase = "idle" /\ call' = Cmd(o)
      /\ Thinned /\ HistoryKept /\ Logs' /\ LineOK' /\ DAD' = DAD
      /\ \A k \in 1..OnLine' : line'[k].id <= calls
  BY CallLogs
<1>2. step = StepFor(o)
  BY DEF Call, Follows, StepFor
<1>3. CASE Transmit(Cmd(o)) /\ UNCHANGED <<loopVars, errors>>
  <2>1. /\ UNCHANGED <<step, set, i, nlen, nSumlen, iret, user, records, reported, connected>>
        /\ errors' = errors
    BY <1>3 DEF loopVars
  <2>2. LoopTypes' /\ Counters'
    BY <1>1, <2>1 DEF LinkedInv, LoopTypes, Counters
  <2>3. request'.id = calls + 1 /\ request'.cmd = Cmd(o) /\ request'.dad = DAD
    BY <1>3 DEF Transmit
  <2>4. Waits'
    <3>1. UidNow' = UidNow
      BY <2>1 DEF UidNow
    <3>2. (step = StepFor(op))'
      BY <1>1, <1>2, <2>1 DEF StepFor
    <3> QED
      BY <1>1, <2>1, <2>3, <3>1, <3>2 DEF Waits
  <2>5. RequestOK'
    <3>1. meant'[calls + 1].op = o
      BY <1>1
    <3>2. \A k \in 1..OnLine' : line'[k].id < calls + 1
      <4>1. \A k \in 1..OnLine' : line'[k].id \in 1..calls'
        BY <1>1 DEF LineOK
      <4> QED
        BY <1>1, <4>1
    <3> QED
      BY <1>1, <2>3, <3>1, <3>2 DEF RequestOK
  <2> QED
    BY <1>1, <2>2, <2>4, <2>5 DEF LinkedInv
<1>4. CASE WriteFails(Cmd(o)) /\ After(o, FALSE, <<>>)
  <2>1. request' = request /\ phase' = "idle"
    BY <1>1, <1>4 DEF WriteFails
  <2>2. LoopTypes' /\ Counters'
    BY <1>1, <1>2, <1>4, AfterTypes DEF LinkedInv, LinkTypeOK
  <2>3. RequestOK'
    BY <1>1, <2>1, ThinnedRequest DEF LinkedInv
  <2> QED
    BY <1>1, <2>1, <2>2, <2>3 DEF LinkedInv, Waits
<1> QED
  BY <1>3, <1>4 DEF Call

\* A command that answers a call of the inventory or a resync is that call's.
LEMMA CmdIs ==
    /\ \A o \in Ops : Cmd(o) \in Cmds /\ (Cmd(o) = "Resync" <=> o = "Resync")
    /\ \A o \in Ops : Cmd(o) = "TagInventory" <=> o = "Inventory"
    /\ \A o \in Ops : Cmd(o) = "TagConnect" <=> o = "Connect"
    /\ \A o \in Ops : Cmd(o) = "TagDisconnect" <=> o = "Disconnect"
    /\ \A o \in Ops : Cmd(o) = "TagAccess" <=> o \in {"Reset", "Read"}
BY DEF Ops, Cmd, Cmds

\* A call that returned 0 took the oldest answer of those on the line.
LEMMA Received ==
    ASSUME LinkedInv, SBlock_Resync \/ IBlock_Transceive
    PROVE  /\ inbox # <<>> /\ phase = "waiting" /\ phase' = "idle" /\ back' = back /\ request' = request
           /\ OnLine' = OnLine - 1 /\ OnLine \in Nat \ {0} /\ line[1] = frame /\ Thinned
           /\ \A k \in 1..OnLine - 1 : line'[k] = line[k + 1]
           /\ frame.id \in 1..calls /\ frame.cmd = Cmd(meant[frame.id].op)
           /\ result' = "OK" => /\ accepted'.answer.id = frame.id
                                /\ call # "Resync" => frame.kind = "I" /\ frame.sta = "ok" /\ frame.cmd = call
           /\ UNCHANGED <<calls, DAD>>
<1>1. Receiving
  BY DEF SBlock_Resync, IBlock_Transceive
<1>2. /\ inbox # <<>> /\ inbox' = Tail(inbox) /\ UNCHANGED <<back, request, calls, DAD>>
      /\ phase = "waiting" /\ phase' = "idle" /\ (result' = "OK" => accepted' = Head(inbox))
  BY <1>1 DEF Receiving, SBlock_Resync, IBlock_Transceive, Return
<1>3. /\ OnLine' = OnLine - 1 /\ OnLine \in Nat \ {0} /\ line[1] = frame /\ Thinned
      /\ \A k \in 1..OnLine - 1 : line'[k] = line[k + 1]
  BY <1>2, ReceiveThins DEF LinkedInv
<1>4. frame.id \in 1..calls /\ frame.cmd = Cmd(meant[frame.id].op)
  BY <1>3 DEF LinkedInv, LineOK
<1>5. result' = "OK" /\ call # "Resync" => frame.kind = "I" /\ frame.sta = "ok" /\ frame.cmd = call
  BY DEF SBlock_Resync, IBlock_Transceive, Return, IBlockResult
<1> QED
  BY <1>2, <1>3, <1>4, <1>5 DEF frame

LEMMA ReturnsKeeps ==
    ASSUME LinkedInv, LinkTypeOK', Returns
    PROVE  LinkedInv'
<1>1. /\ UNCHANGED <<op, meant, said, peerUid, accesses>> /\ LinkTypeOK
      /\ Timeout \/ SBlock_Resync \/ IBlock_Transceive
  BY DEF Returns, LinkedInv
<1>2. phase = "waiting" /\ phase' = "idle" /\ calls' = calls /\ request' \in {request, None} /\ DAD' = DAD
  BY <1>1, Received DEF Timeout, Return, handleVars
<1>3. op \in Ops /\ step = StepFor(op) /\ call = Cmd(op)
  BY <1>2 DEF LinkedInv, Waits
<1>4. Thinned
  <2>1. CASE Timeout
    BY <1>1, <2>1, DropThins, SameThinned DEF Timeout
  <2> QED
    BY <1>1, <2>1, Received
<1>5. HistoryKept /\ Logs'
  BY <1>1, <1>2 DEF LinkedInv, HistoryKept, LinkTypeOK, Logs
<1>6. LineOK' /\ RequestOK'
  BY <1>1, <1>2, <1>4, <1>5, ThinnedLine, ThinnedRequest DEF LinkedInv
<1>7. LoopTypes' /\ Counters'
  <2> DEFINE id == accepted'.answer.id
  <2>1. CASE After(op, FALSE, <<>>)
    BY <1>1, <1>3, <2>1, AfterTypes DEF LinkedInv, LinkTypeOK
  <2>2. CASE result' = "OK" /\ (op \in {"Reset", "Read"} => AccessOk(id)) /\ After(op, TRUE, said[id])
    <3>1. SBlock_Resync \/ IBlock_Transceive
      BY <1>1, <2>2 DEF Timeout, Return
    <3>2. /\ frame.id \in 1..calls /\ frame.cmd = Cmd(meant[frame.id].op) /\ id = frame.id
          /\ call # "Resync" => frame.cmd = call
      BY <2>2, <3>1, Received
    <3>3. said[id] \in SaysFor(meant[id].op) /\ meant[id].op \in Ops
      BY <3>2, LogEntry DEF LinkedInv, Logs, LinkTypeOK
    <3>4. op = "Inventory" => said[id] \in Reports
      <4>1. op = "Inventory" => meant[id].op = "Inventory"
        BY <1>3, <3>2, <3>3, CmdIs
      <4> QED
        BY <3>3, <4>1 DEF SaysFor
    <3>5. op = "Read" => said[id] \in SaysFor("Read")
      BY <2>2, <3>3 DEF AccessOk
    <3> HIDE DEF id
    <3>6. DAD \in Nodes
      BY <1>1 DEF LinkTypeOK
    <3>7. LoopTypes /\ Counters /\ op' \in Ops /\ peerUid' = peerUid
      BY <1>1, <1>3 DEF LinkedInv
    <3> QED
      BY <1>3, <2>2, <3>4, <3>5, <3>6, <3>7, AfterTypes
  <2> QED
    BY <2>1, <2>2 DEF Returns
<1> QED
  BY <1>2, <1>5, <1>6, <1>7 DEF LinkedInv, Waits

LEMMA LinkedStep == LinkedInv /\ [Next]_vars => LinkedInv'
<1> SUFFICES ASSUME LinkedInv, [Next]_vars PROVE LinkedInv'
  OBVIOUS
<1>1. LinkTypeOK'
  BY NextIsLink, LinkTypeStep DEF LinkedInv
<1>2. CASE UNCHANGED vars
  <2>1. UNCHANGED <<linkVars, loopVars, op, meant, said, peerUid, accesses, errors>>
    BY <1>2 DEF vars
  <2>2. UNCHANGED <<phase, call, calls, DAD, request, inbox, back>>
    BY <2>1 DEF linkVars, handleVars
  <2> QED
    BY <1>1, <2>1, <2>2, SameThinned, ThinnedKeeps DEF LinkedInv
<1> QED
  BY <1>1, <1>2, CarriesOutKeeps, UnheardKeeps, OpenKeeps, CallKeeps, ReturnsKeeps DEF Next

\* Every call's answer belongs to it, and the inventory is where its last call
\* left it, whatever the line does.
THEOREM LinkedInvariant == Spec => []LinkedInv
BY LinkedInit, LinkedStep, PTL DEF Spec

\* Every variable of the inventory on the link has its type in every reachable
\* state: set and counters stay within the reports, and every answer says what
\* the call it answers can be told.
THEOREM InventoryLinkTyped == Spec => []InvLinkTypeOK
<1>1. LinkedInv => InvLinkTypeOK
  <2> SUFFICES ASSUME LinkedInv PROVE InvLinkTypeOK
    OBVIOUS
  <2>1. \A id \in 1..calls : meant[id].op \in Ops /\ said[id] \in Reports \cup {<<NoUid>>}
    BY LogEntry, SaysType DEF LinkedInv, Logs, LinkTypeOK
  <2> QED
    BY <2>1 DEF InvLinkTypeOK, LinkedInv, LoopTypes, Logs
<1> QED
  BY <1>1, LinkedInvariant, PTL

-------------------------------------------------------------------------------
(***************************************************************************)
(* Why a connect is answered for itself.  An answer to an older connect    *)
(* would have to lie behind an older answer to a resync and one to an      *)
(* inventory, and no three answers are on the line when a resync is sent.  *)
(***************************************************************************)
ConnectsUpTo(n) == \A k \in 1..OnLine : line[k].cmd = "TagConnect" => k <= n
ConnectsAhead ==
    /\ step = "idle" /\ phase = "waiting" => ConnectsUpTo(2)
    /\ step = "opened" => ConnectsUpTo(1)
    /\ step = "tags" /\ phase = "idle" => ConnectsUpTo(0)
    /\ step = "connected" => ConnectsUpTo(0)
ConnectIsOwn ==
    step = "tags" /\ phase = "waiting" =>
        \A k \in 1..OnLine : line[k].cmd = "TagConnect" =>
            /\ line[k].id = calls
            /\ line[k].kind = "I" /\ line[k].sta = "ok" => peerUid[DAD] = set[i + 1]

\* The request on its way does not connect another tag, and an access on its
\* way meets the tag it is meant for.
RequestLate ==
    request # None =>
        /\ step = "opened" => request.cmd # "TagConnect"
        /\ step = "tags" /\ phase = "idle" => request.cmd # "TagConnect"
        /\ step = "connected" => request.cmd \in {"TagAccess", "TagDisconnect"}
        /\ step = "connected" /\ op # "Disconnect" => request.cmd = "TagAccess"
        /\ request.cmd = "TagAccess" => peerUid[request.dad] = meant[request.id].uid
PeerIsThere == step = "connected" /\ op # "Disconnect" => peerUid[DAD] = set[i + 1]
AccessInv == /\ Len(back) <= MaxBack
             /\ ConnectsAhead /\ ConnectIsOwn /\ RequestLate /\ PeerIsThere /\ AccessHitsTag

LEMMA ConnectsThin ==
    ASSUME LinkTypeOK, Thinned, NEW n \in Nat, ConnectsUpTo(n)
    PROVE  ConnectsUpTo(n)'
<1>1. PICK h \in [1..OnLine' -> 1..OnLine] : \A p \in 1..OnLine' : p <= h[p] /\ line'[p] = line[h[p]]
  BY DEF Thinned, LeftOf
<1>2. ASSUME NEW p \in 1..OnLine', line'[p].cmd = "TagConnect"
      PROVE  p <= n
  <2>1. p <= h[p] /\ h[p] \in 1..OnLine /\ h[p] <= n
    BY <1>1, <1>2 DEF ConnectsUpTo
  <2>2. OnLine \in Nat
    BY LengthsOnLine
  <2> QED
    BY <2>1, <2>2
<1> QED
  BY <1>2 DEF ConnectsUpTo

\* Steps that drop answers or the request and leave the inventory alone.
LEMMA ThinnedHits ==
    ASSUME LinkedInv, AccessInv, Thinned, Len(back') <= MaxBack, request' \in {request, None},
           UNCHANGED <<step, set, i, op, meant, peerUid, accesses, phase, calls, DAD>>
    PROVE  AccessInv'
<1>1. LinkTypeOK
  BY DEF LinkedInv
<1>2. ConnectsAhead'
  BY <1>1, ConnectsThin DEF AccessInv, ConnectsAhead
<1>3. ConnectIsOwn'
  <2>1. PICK h \in [1..OnLine' -> 1..OnLine] : \A p \in 1..OnLine' : line'[p] = line[h[p]]
    BY DEF Thinned, LeftOf
  <2> QED
    BY <2>1 DEF AccessInv, ConnectIsOwn
<1>4. RequestLate' /\ PeerIsThere' /\ AccessHitsTag'
  BY DEF AccessInv, RequestLate, PeerIsThere, AccessHitsTag
<1> QED
  BY <1>2, <1>3, <1>4 DEF AccessInv

\* While the inventory waits, the request on its way is its last call.
LEMMA RequestIs ==
    ASSUME LinkedInv, phase = "waiting", request # None
    PROVE  /\ op \in Ops /\ step = StepFor(op) /\ request.id = calls /\ request.dad = DAD
           /\ request.cmd = Cmd(op) /\ meant[calls] = [op |-> op, uid |-> UidNow]
<1>1. /\ op \in Ops /\ step = StepFor(op) /\ request.id = calls /\ request.dad = DAD
      /\ meant[calls] = [op |-> op, uid |-> UidNow]
  BY DEF LinkedInv, Waits
<1>2. request.cmd = Cmd(meant[request.id].op)
  BY DEF LinkedInv, RequestOK
<1>3. meant[request.id].op = op
  BY <1>1
<1> QED
  BY <1>1, <1>2, <1>3

\* The answer to the request comes behind those on the line.
LEMMA AnsweredHits ==
    ASSUME LinkedInv, AccessInv, request # None, NEW a \in Answers, Answered(a),
           a.id = request.id, a.cmd = request.cmd, Len(back) < MaxBack,
           UNCHANGED <<step, set, i, op, meant>>,
           step = "tags" /\ phase = "waiting" /\ a.kind = "I" /\ a.sta = "ok"
               => peerUid'[DAD] = set[i + 1],
           step = "connected" /\ op # "Disconnect" => peerUid' = peerUid,
           AccessHitsTag'
    PROVE  AccessInv'
<1>1. UNCHANGED <<phase, calls, DAD>> /\ request' = None /\ back' = Append(back, a)
  BY DEF Answered, handleVars
<1>2. Len(back') <= MaxBack
  <2>1. back \in Seq(Answers)
    BY DEF LinkedInv, LinkTypeOK
  <2>2. Len(back') = Len(back) + 1 /\ Len(back) \in Nat
    BY <1>1, <2>1
  <2> QED
    BY <2>2, InventoryLinkAssumption
<1>3. OnLine \in Nat /\ OnLine' = OnLine + 1 /\ line'[OnLine + 1] = a
      /\ \A k \in 1..OnLine : line'[k] = line[k]
  BY AnsweredAdds, LengthsOnLine DEF Added, LinkedInv
<1>4. \A k \in 1..OnLine' : k \in 1..OnLine \/ k = OnLine + 1
  BY <1>3
<1>5. ASSUME NEW n \in Nat, ConnectsUpTo(n), request.cmd # "TagConnect"
      PROVE  ConnectsUpTo(n)'
  BY <1>3, <1>4, <1>5 DEF ConnectsUpTo
<1>6. step = "idle" /\ phase = "waiting" => request.cmd # "TagConnect"
  BY RequestIs, CmdIs DEF StepFor
<1>7. ConnectsAhead'
  BY <1>1, <1>5, <1>6 DEF AccessInv, ConnectsAhead, RequestLate
<1>8. ConnectIsOwn'
  <2> SUFFICES ASSUME step = "tags", phase = "waiting", NEW k \in 1..OnLine',
                      line'[k].cmd = "TagConnect"
               PROVE  /\ line'[k].id = calls
                      /\ line'[k].kind = "I" /\ line'[k].sta = "ok" => peerUid'[DAD] = set[i + 1]
    BY <1>1 DEF ConnectIsOwn
  <2>1. request.id = calls /\ calls \in Nat
    BY RequestIs DEF LinkedInv, LinkTypeOK
  <2>2. CASE k = OnLine + 1
    BY <1>3, <2>1, <2>2
  <2>3. CASE k \in 1..OnLine
    <3>1. line[k].id = calls
      BY <1>3, <2>3 DEF AccessInv, ConnectIsOwn
    <3>2. line[k].id < request.id
      BY <2>3 DEF LinkedInv, RequestOK
    <3> QED
      BY <2>1, <3>1, <3>2
  <2> QED
    BY <1>4, <2>2, <2>3
<1>9. PeerIsThere'
  BY <1>1 DEF AccessInv, PeerIsThere
<1> QED
  BY <1>1, <1>2, <1>7, <1>8, <1>9 DEF AccessInv, RequestLate

LEMMA CarriesOutHits ==
    ASSUME LinkedInv, AccessInv, PeerCarriesOut
    PROVE  AccessInv'
<1> DEFINE m == meant[request.id]
<1>1. PICK tag \in Tags \cup {NoTag} : PeerExecutes(tag)
  BY DEF PeerCarriesOut
<1>2. LinkTypeOK
  BY DEF LinkedInv
<1>3. request # None
  BY <1>1, <1>2, PeerStep
<1>4. PICK a \in Answers : Answered(a) /\ a.id = request.id /\ a.cmd = request.cmd
  BY <1>1, <1>2, PeerStep
<1>5. UNCHANGED <<step, set, i, op, meant>> /\ Len(back) < MaxBack
  BY DEF PeerCarriesOut, loopVars
<1>6. m.op \in Ops /\ request.cmd = Cmd(m.op) /\ request.dad \in Nodes
      /\ peerUid \in [Nodes -> Uids \cup {NoUid}]
  <2>1. request.id \in 1..calls /\ request.cmd = Cmd(m.op)
    BY <1>3 DEF LinkedInv, RequestOK
  <2>2. m.op \in Ops
    BY <2>1, LogEntry DEF LinkedInv, LinkTypeOK
  <2> QED
    BY <1>2, <1>3, <2>1, <2>2, RequestType DEF LinkedInv, LoopTypes
<1>7. ASSUME step = "tags", phase = "waiting"
      PROVE  peerUid'[DAD] = set[i + 1]
  <2>1. op \in Ops /\ step = StepFor(op) /\ request.dad = DAD /\ m = [op |-> op, uid |-> UidNow]
    BY <1>3, <1>7, RequestIs
  <2>2. op = "Connect"
    BY <1>7, <2>1 DEF Ops, StepFor
  <2>3. m.op = "Connect" /\ m.uid = UidNow
    BY <2>1, <2>2
  <2>4. UidNow = set[i + 1]
    BY <1>7 DEF LinkedInv, Counters, UidNow
  <2>5. peerUid' = [peerUid EXCEPT ![request.dad] = m.uid]
    BY <2>3 DEF PeerCarriesOut
  <2> QED
    BY <1>6, <2>1, <2>3, <2>4, <2>5
<1>8. ASSUME step = "connected", op # "Disconnect"
      PROVE  peerUid' = peerUid
  <2>1. request.cmd = "TagAccess"
    BY <1>3, <1>8 DEF AccessInv, RequestLate
  <2>2. m.op \in {"Reset", "Read"}
    BY <1>6, <2>1, CmdIs
  <2> QED
    BY <2>2 DEF PeerCarriesOut
<1>9. AccessHitsTag'
  <2>1. CASE accesses' = accesses
    BY <2>1 DEF AccessInv, AccessHitsTag
  <2>2. CASE /\ m.op \in {"Reset", "Read"}
             /\ accesses' = accesses \cup {[meant |-> m.uid, hit |-> peerUid[request.dad]]}
    <3>1. request.cmd = "TagAccess"
      BY <1>6, <2>2, CmdIs
    <3>2. peerUid[request.dad] = m.uid
      BY <1>3, <3>1 DEF AccessInv, RequestLate
    <3> QED
      BY <2>2, <3>2 DEF AccessInv, AccessHitsTag
  <2> QED
    BY <2>1, <2>2 DEF PeerCarriesOut
<1> QED
  BY <1>3, <1>4, <1>5, <1>7, <1>8, <1>9, AnsweredHits

\* Of an answer that was not carried out no connection is believed.
LEMMA Refused ==
    ASSUME LinkTypeOK, PeerResyncs \/ PeerFails \/ PeerRefuses
    PROVE  \E a \in Answers : /\ Answered(a) /\ a.id = request.id /\ a.cmd = request.cmd
                              /\ ~(a.kind = "I" /\ a.sta = "ok")
<1>1. request # None
  BY DEF PeerResyncs, PeerFails, PeerRefuses, PeerAnswers
<1>2. ASSUME NEW kind \in {"S", "I", "R"}, NEW sta \in {"ok", "fail", "absent"},
             NEW tag \in Tags \cup {NoTag}
      PROVE  /\ Answer(kind, sta, tag) \in Answers
             /\ Answer(kind, sta, tag).id = request.id /\ Answer(kind, sta, tag).cmd = request.cmd
             /\ Answer(kind, sta, tag).kind = kind /\ Answer(kind, sta, tag).sta = sta
  <2>1. peerNS[request.dad] \in Bit
    BY <1>1, RequestType DEF LinkTypeOK
  <2> QED
    BY <1>1, <2>1, RequestType DEF Answer, Answers
<1>3. CASE PeerResyncs
  BY <1>2, <1>3 DEF PeerResyncs
<1>4. CASE PeerFails
  BY <1>2, <1>4 DEF PeerFails, PeerAnswers
<1>5. CASE PeerRefuses
  BY <1>2, <1>5 DEF PeerRefuses
<1> QED
  BY <1>3, <1>4, <1>5

LEMMA UnheardHits ==
    ASSUME LinkedInv, AccessInv, Unheard
    PROVE  AccessInv'
<1>1. LinkTypeOK /\ UNCHANGED <<step, set, i, op, meant, peerUid, accesses>>
  BY DEF LinkedInv, Unheard, loopVars
<1>2. Len(back) <= MaxBack
  BY DEF AccessInv
<1>3. CASE Len(back) < MaxBack /\ (PeerResyncs \/ PeerFails \/ PeerRefuses)
  <2>1. request # None
    BY <1>3 DEF PeerResyncs, PeerFails, PeerRefuses, PeerAnswers
  <2>2. PICK a \in Answers : /\ Answered(a) /\ a.id = request.id /\ a.cmd = request.cmd
                             /\ ~(a.kind = "I" /\ a.sta = "ok")
    BY <1>1, <1>3, Refused
  <2>3. AccessHitsTag'
    BY <1>1 DEF AccessInv, AccessHitsTag
  <2> QED
    BY <1>1, <1>3, <2>1, <2>2, <2>3, AnsweredHits
<1>4. CASE LoseRequest
  BY <1>1, <1>2, <1>4, SameThinned, ThinnedHits DEF LoseRequest, handleVars
<1>5. ASSUME LoseAnswer \/ Arrive
      PROVE  Len(back') <= MaxBack
  <2>1. back # <<>> /\ back' = Tail(back) /\ back \in Seq(Answers)
    BY <1>1, <1>5 DEF LoseAnswer, Arrive, LinkTypeOK
  <2>2. Len(back') = Len(back) - 1 /\ Len(back) \in Nat
    BY <2>1
  <2> QED
    BY <1>2, <2>2, InventoryLinkAssumption
<1>6. CASE LoseAnswer
  BY <1>1, <1>5, <1>6, LoseThins, ThinnedHits DEF LoseAnswer, handleVars
<1>7. CASE Arrive
  BY <1>1, <1>5, <1>7, ArriveThins, ThinnedHits DEF Arrive, handleVars
<1> QED
  BY <1>3, <1>4, <1>6, <1>7 DEF Unheard, Line

\* Late answers are fewer the further the inventory is, however its calls end.
LEMMA AfterHits ==
    ASSUME LinkedInv, AccessInv, NEW o \in Ops, NEW ok \in BOOLEAN, NEW uids, After(o, ok, uids),
           step = StepFor(o), op' = o, step = "connected" /\ o # "Disconnect" => op # "Disconnect",
           phase' = "idle", Thinned, HistoryKept, Len(back') <= MaxBack,
           request' \in {request, None}, UNCHANGED <<peerUid, accesses, DAD>>,
           ok /\ o = "Resync" => ConnectsUpTo(1)',
           ok /\ o = "Inventory" => ConnectsUpTo(0)',
           ok /\ o \in {"Resync", "Inventory"} /\ request' # None => request'.cmd # "TagConnect",
           ok /\ o = "Connect" => ConnectsUpTo(0)' /\ request' = None /\ peerUid[DAD] = set[i + 1]
    PROVE  AccessInv'
<1>1. AccessHitsTag'
  BY DEF AccessInv, AccessHitsTag
<1>2. LinkTypeOK
  BY DEF LinkedInv
<1>3. request' # None => request' = request /\ request # None
                         /\ meant'[request'.id] = meant[request.id]
  BY DEF LinkedInv, RequestOK, HistoryKept
<1>4. request' # None /\ request'.cmd = "TagAccess" => peerUid'[request'.dad] = meant'[request'.id].uid
  BY <1>3 DEF AccessInv, RequestLate
<1>5. ConnectIsOwn'
  BY DEF ConnectIsOwn
<1>6. CASE step' = "idle"
  BY <1>1, <1>4, <1>5, <1>6 DEF AccessInv, ConnectsAhead, RequestLate, PeerIsThere
<1>7. CASE o = "Resync" /\ step' # "idle"
  <2>1. ok /\ step' = "opened"
    BY <1>7 DEF After, AfterResync, Ends
  <2> QED
    BY <1>1, <1>4, <1>5, <1>7, <2>1 DEF AccessInv, ConnectsAhead, RequestLate, PeerIsThere
<1>8. CASE o = "Inventory" /\ step' # "idle"
  <2>1. ok /\ step' = "tags"
    BY <1>8 DEF After, AfterInventory, Ends
  <2> QED
    BY <1>1, <1>4, <1>5, <1>8, <2>1 DEF AccessInv, ConnectsAhead, RequestLate, PeerIsThere
<1>9. CASE o = "Connect" /\ step' # "idle"
  <2>1. ok /\ step' = "connected" /\ set' = set /\ i' = i
    BY <1>9 DEF After, AfterConnect, EndsLoop, Ends
  <2>2. peerUid'[DAD'] = set'[i' + 1]
    BY <1>9, <2>1
  <2> QED
    BY <1>1, <1>5, <1>9, <2>1, <2>2 DEF AccessInv, ConnectsAhead, RequestLate, PeerIsThere
<1>10. CASE o \in {"Reset", "Read"}
  <2>1. UNCHANGED <<step, set, i>>
    BY <1>10 DEF After, AfterRead, loopVars
  <2>2. step = "connected" /\ op # "Disconnect"
    BY <1>10 DEF StepFor
  <2>3. ConnectsAhead'
    BY <1>2, <2>1, <2>2, ConnectsThin DEF AccessInv, ConnectsAhead
  <2>4. RequestLate'
    BY <1>3, <1>4, <2>1, <2>2 DEF AccessInv, RequestLate
  <2>5. PeerIsThere'
    BY <2>1, <2>2 DEF AccessInv, PeerIsThere
  <2> QED
    BY <1>1, <1>5, <2>3, <2>4, <2>5 DEF AccessInv
<1>11. CASE o = "Disconnect" /\ step' # "idle"
  <2>1. step' = "tags" /\ step = "connected"
    BY <1>11 DEF After, AfterDisconnect, StepFor
  <2>2. ConnectsUpTo(0)'
    BY <1>2, <2>1, ConnectsThin DEF AccessInv, ConnectsAhead
  <2>3. request' # None => request'.cmd # "TagConnect"
    BY <1>3, <2>1 DEF AccessInv, RequestLate
  <2> QED
    BY <1>1, <1>4, <1>5, <2>1, <2>2, <2>3 DEF AccessInv, ConnectsAhead, RequestLate, PeerIsThere
<1> QED
  BY <1>6, <1>7, <1>8, <1>9, <1>10, <1>11 DEF Ops

LEMMA OpenHits ==
    ASSUME LinkedInv, AccessInv, RL8000_CommOpen
    PROVE  AccessInv'
<1>1. /\ UNCHANGED <<step, meant, peerUid, accesses, request, back, inbox>> /\ op' = "Open"
      /\ step = "idle" /\ phase' = "idle"
  BY DEF RL8000_CommOpen, RL8000_CommOpenWithBusAddr, loopVars
<1>2. AccessHitsTag' /\ RequestLate'
  BY <1>1 DEF AccessInv, AccessHitsTag, RequestLate
<1> QED
  BY <1>1, <1>2 DEF AccessInv, ConnectsAhead, ConnectIsOwn, PeerIsThere

LEMMA CallHits ==
    ASSUME MaxBack <= 2, LinkedInv, AccessInv, NEW o \in Ops, Call(o)
    PROVE  AccessInv'
<1>1. /\ calls \in Nat /\ calls' = calls + 1 /\ op' = o /\ peerUid' = peerUid
      /\ meant'[calls + 1] = [op |-> o, uid |-> UidNow] /\ phase = "idle"
      /\ Thinned /\ OnLine' = Len(back) /\ HistoryKept /\ DAD' = DAD
  BY CallLogs
<1>2. /\ step = StepFor(o) /\ accesses' = accesses
      /\ step = "connected" /\ o # "Disconnect" => op # "Disconnect"
      /\ step = "connected" => o # "Connect"
  BY DEF Call, Follows, StepFor
<1>3. back' = back /\ Len(back') <= MaxBack /\ LinkTypeOK
  BY DEF Call, Transmit, WriteFails, StartCall, AccessInv, LinkedInv
<1>4. CASE Transmit(Cmd(o)) /\ UNCHANGED <<loopVars, errors>>
  <2>1. UNCHANGED <<step, set, i>>
    BY <1>4 DEF loopVars
  <2>2. request'.id = calls + 1 /\ request'.cmd = Cmd(o) /\ request'.dad = DAD /\ phase' = "waiting"
    BY <1>4 DEF Transmit
  <2>3. AccessHitsTag'
    BY <1>2 DEF AccessInv, AccessHitsTag
  <2>4. PeerIsThere'
    BY <1>1, <1>2, <2>1 DEF AccessInv, PeerIsThere
  <2>5. ConnectsAhead'
    <3>1. step = "idle" => ConnectsUpTo(2)'
      <4>1. Len(back) \in Nat /\ Len(back) <= MaxBack
        BY <1>3, LengthsOnLine DEF AccessInv
      <4>2. OnLine' \in Nat /\ OnLine' <= 2
        BY <1>1, <4>1, InventoryLinkAssumption
      <4> QED
        BY <4>2 DEF ConnectsUpTo
    <3>2. step = "opened" => ConnectsUpTo(1)'
      BY <1>1, <1>3, ConnectsThin DEF AccessInv, ConnectsAhead
    <3>3. step = "connected" => ConnectsUpTo(0)'
      BY <1>1, <1>3, ConnectsThin DEF AccessInv, ConnectsAhead
    <3> QED
      BY <2>1, <2>2, <3>1, <3>2, <3>3 DEF ConnectsAhead
  <2>6. ConnectIsOwn'
    <3>1. step = "tags" => ConnectsUpTo(0)'
      BY <1>1, <1>3, ConnectsThin DEF AccessInv, ConnectsAhead
    <3>2. ConnectsUpTo(0)' => \A k \in 1..OnLine' : line'[k].cmd # "TagConnect"
      <4>1. \A k \in 1..OnLine' : ~(k <= 0)
        OBVIOUS
      <4> QED
        BY <4>1 DEF ConnectsUpTo
    <3> QED
      BY <2>1, <3>1, <3>2 DEF ConnectIsOwn
  <2>7. RequestLate'
    <3>1. step = "opened" => request'.cmd # "TagConnect"
      BY <1>2, <2>2, CmdIs DEF StepFor
    <3>2. step = "connected" => request'.cmd \in {"TagAccess", "TagDisconnect"}
      BY <1>2, <2>2 DEF Ops, StepFor, Cmd
    <3>3. step = "connected" /\ o # "Disconnect" => request'.cmd = "TagAccess"
      BY <1>2, <2>2 DEF Ops, StepFor, Cmd
    <3>4. ASSUME request'.cmd = "TagAccess"
          PROVE  peerUid'[request'.dad] = meant'[request'.id].uid
      <4>1. o \in {"Reset", "Read"}
        BY <2>2, <3>4, CmdIs
      <4>2. step = "connected" /\ op # "Disconnect"
        BY <1>2, <4>1 DEF StepFor
      <4>3. peerUid[DAD] = set[i + 1] /\ UidNow = set[i + 1]
        BY <4>2 DEF AccessInv, PeerIsThere, LinkedInv, Counters, UidNow
      <4>4. meant'[calls + 1].uid = UidNow
        BY <1>1
      <4> QED
        BY <1>1, <2>2, <4>3, <4>4
    <3> QED
      BY <1>1, <2>1, <2>2, <3>1, <3>2, <3>3, <3>4 DEF RequestLate
  <2> QED
    BY <1>3, <2>3, <2>4, <2>5, <2>6, <2>7 DEF AccessInv
<1>5. CASE WriteFails(Cmd(o)) /\ After(o, FALSE, <<>>)
  <2>1. request' = request /\ phase' = "idle"
    BY <1>1, <1>5 DEF WriteFails
  <2> QED
    BY <1>1, <1>2, <1>3, <1>5, <2>1, AfterHits
<1> QED
  BY <1>4, <1>5 DEF Call

\* A connect that returned 0 was answered for itself, by the last block on the
\* line.
LEMMA ConnectReceived ==
    ASSUME LinkedInv, AccessInv, op = "Connect", SBlock_Resync \/ IBlock_Transceive, result' = "OK"
    PROVE  OnLine' = 0 /\ request' = None /\ peerUid[DAD] = set[i + 1]
<1>1. /\ OnLine' = OnLine - 1 /\ OnLine \in Nat \ {0} /\ line[1] = frame /\ request' = request
      /\ \A k \in 1..OnLine - 1 : line'[k] = line[k + 1]
      /\ call # "Resync" => frame.kind = "I" /\ frame.sta = "ok" /\ frame.cmd = call
      /\ phase = "waiting"
  BY Received
<1>2. step = "tags" /\ call = "TagConnect"
  BY <1>1 DEF LinkedInv, Waits, StepFor, Cmd
<1>3. frame.kind = "I" /\ frame.sta = "ok" /\ frame.cmd = "TagConnect" /\ 1 \in 1..OnLine
  BY <1>1, <1>2
<1>4. frame.id = calls /\ peerUid[DAD] = set[i + 1] /\ calls \in Nat
  BY <1>1, <1>2, <1>3 DEF AccessInv, ConnectIsOwn, LinkedInv, LinkTypeOK
<1>5. request' = None
  <2>1. request # None => line[1].id < request.id /\ request.id = calls
    BY <1>1, <1>3, RequestIs DEF LinkedInv, RequestOK
  <2> QED
    BY <1>1, <1>4, <2>1
<1>6. OnLine = 1
  <2> SUFFICES ASSUME OnLine # 1 PROVE FALSE
    OBVIOUS
  <2>1. 2 \in 1..OnLine
    BY <1>1
  <2>2. line[1].id < line[2].id /\ line[2].id \in 1..calls
    BY <1>3, <2>1 DEF LinkedInv, LineOK
  <2> QED
    BY <1>1, <1>4, <2>2
<1> QED
  BY <1>1, <1>4, <1>5, <1>6

LEMMA ReturnsHits ==
    ASSUME LinkedInv, AccessInv, Returns
    PROVE  AccessInv'
<1>1. /\ UNCHANGED <<op, meant, said, peerUid, accesses>> /\ LinkTypeOK
      /\ Timeout \/ SBlock_Resync \/ IBlock_Transceive
  BY DEF Returns, LinkedInv
<1>2. phase = "waiting" /\ phase' = "idle" /\ calls' = calls /\ request' \in {request, None} /\ DAD' = DAD
  BY <1>1, Received DEF Timeout, Return, handleVars
<1>3. op \in Ops /\ step = StepFor(op) /\ call = Cmd(op) /\ op' = op
  BY <1>1, <1>2 DEF LinkedInv, Waits
<1>4. HistoryKept
  BY <1>1, <1>2 DEF HistoryKept, LinkTypeOK
<1>5. Thinned /\ Len(back') <= MaxBack
  <2>1. CASE Timeout
    <3>1. Len(back') <= MaxBack
      BY <2>1, InventoryLinkAssumption DEF Timeout, AccessInv
    <3> QED
      BY <1>1, <2>1, <3>1, DropThins, SameThinned DEF Timeout
  <2> QED
    BY <1>1, <2>1, Received DEF AccessInv
<1>6. step = "connected" /\ op # "Disconnect" => op # "Disconnect"
  OBVIOUS
<1>7. CASE After(op, FALSE, <<>>)
  BY <1>1, <1>2, <1>3, <1>4, <1>5, <1>7, AfterHits
<1> DEFINE id == accepted'.answer.id
<1>8. CASE result' = "OK" /\ After(op, TRUE, said[id])
  <2>1. SBlock_Resync \/ IBlock_Transceive
    BY <1>1, <1>8 DEF Timeout, Return
  <2>2. /\ OnLine' = OnLine - 1 /\ OnLine \in Nat \ {0} /\ line[1] = frame /\ request' = request
        /\ \A k \in 1..OnLine - 1 : line'[k] = line[k + 1]
        /\ frame.id \in 1..calls /\ frame.cmd = Cmd(meant[frame.id].op)
        /\ call # "Resync" => frame.kind = "I" /\ frame.sta = "ok" /\ frame.cmd = call
    BY <1>8, <2>1, Received
  <2>3. request # None => request.cmd = Cmd(op) /\ request.id = calls
    BY <1>2, RequestIs
  <2>4. op = "Resync" => ConnectsUpTo(1)'
    <3> SUFFICES ASSUME op = "Resync", NEW k \in 1..OnLine', line'[k].cmd = "TagConnect"
                 PROVE  k <= 1
      BY DEF ConnectsUpTo
    <3>1. ConnectsUpTo(2)
      BY <1>2, <1>3 DEF StepFor, AccessInv, ConnectsAhead
    <3>2. k \in Nat /\ k + 1 \in 1..OnLine /\ line'[k] = line[k + 1]
      BY <2>2
    <3>3. k + 1 <= 2
      BY <3>1, <3>2 DEF ConnectsUpTo
    <3> QED
      BY <3>2, <3>3
  <2>5. op = "Inventory" => ConnectsUpTo(0)'
    <3> SUFFICES ASSUME op = "Inventory", NEW k \in 1..OnLine', line'[k].cmd = "TagConnect"
                 PROVE  FALSE
      BY DEF ConnectsUpTo
    <3>1. ConnectsUpTo(1)
      BY <1>3 DEF StepFor, AccessInv, ConnectsAhead
    <3>2. k \in 1..OnLine - 1 /\ k + 1 \in 1..OnLine /\ line'[k] = line[k + 1]
      BY <2>2
    <3>3. k + 1 <= 1
      BY <3>1, <3>2 DEF ConnectsUpTo
    <3> QED
      BY <3>2, <3>3
  <2>6. op \in {"Resync", "Inventory"} /\ request' # None => request'.cmd # "TagConnect"
    <3>1. \A o \in {"Resync", "Inventory"} : Cmd(o) # "TagConnect"
      BY DEF Cmd
    <3>2. request' # None => request' = request /\ request # None
      BY <2>2
    <3> QED
      BY <2>3, <3>1, <3>2
  <2>7. op = "Connect" => ConnectsUpTo(0)' /\ request' = None /\ peerUid[DAD] = set[i + 1]
    BY <1>8, <2>1, ConnectReceived DEF ConnectsUpTo
  <2> HIDE DEF id
  <2> QED
    BY <1>1, <1>2, <1>3, <1>4, <1>5, <1>8, <2>4, <2>5, <2>6, <2>7, AfterHits
<1> QED
  BY <1>7, <1>8 DEF Returns

LEMMA AccessStep ==
    ASSUME MaxBack <= 2, LinkedInv, AccessInv, [Next]_vars
    PROVE  AccessInv'
<1>1. CASE UNCHANGED vars
  <2>1. UNCHANGED <<linkVars, loopVars, op, meant, said, peerUid, accesses, errors>>
    BY <1>1 DEF vars
  <2>2. UNCHANGED <<step, set, i, phase, calls, DAD, request, inbox, back>>
    BY <2>1 DEF linkVars, loopVars, handleVars
  <2> QED
    BY <2>1, <2>2, SameThinned, ThinnedHits DEF LinkedInv, AccessInv
<1> QED
  BY <1>1, CarriesOutHits, UnheardHits, OpenHits, CallHits, ReturnsHits DEF Next

LEMMA AccessInit == Init => AccessInv
<1> SUFFICES ASSUME Init PROVE AccessInv
  OBVIOUS
<1>1. /\ phase = "idle" /\ request = None /\ back = <<>> /\ inbox = <<>> /\ step = "idle"
      /\ accesses = {}
  BY DEF Init, LinkInit
<1>2. Len(back) <= MaxBack
  BY <1>1, InventoryLinkAssumption
<1> QED
  BY <1>1, <1>2 DEF AccessInv, ConnectsAhead, ConnectIsOwn, RequestLate, PeerIsThere, AccessHitsTag

\* With at most two answers on their way at once, no tag is ever accessed in
\* the place of another, whatever is lost or late.
THEOREM RightTagAccessed ==
    ASSUME MaxBack <= 2
    PROVE  Spec => []AccessHitsTag
<1>1. Init => AccessInv
  BY AccessInit
<1>2. LinkedInv /\ AccessInv /\ [Next]_vars => AccessInv'
  BY AccessStep
<1>3. AccessInv => AccessHitsTag
  BY DEF AccessInv
<1> QED
  BY <1>1, <1>2, <1>3, LinkedInvariant, PTL DEF Spec

-------------------------------------------------------------------------------
(* Induction.                                                               *)

LEMMA Minimal ==
    ASSUME NEW T, T \subseteq Nat, T # {}
    PROVE  \E x \in T : \A y \in T : ~(y < x)
<1> DEFINE R == OpToRel(<, Nat)
<1>1. IsWellFoundedOn(R, Nat)
  BY NatLessThanWellFounded
<1>2. \A x, y \in Nat : y < x => <<y, x>> \in R
  BY DEF OpToRel
<1> HIDE DEF R
<1>3. PICK x \in T : \A y \in T : ~(<<y, x>> \in R)
  BY <1>1, WFMin
<1> QED
  BY <1>2, <1>3

LEMMA Induction ==
    ASSUME NEW S, 0 \in S, \A n \in Nat : n \in S => n + 1 \in S
    PROVE  Nat \subseteq S
<1> SUFFICES ASSUME Nat \ S # {} PROVE FALSE
  OBVIOUS
<1>1. PICK x \in Nat \ S : \A y \in Nat \ S : ~(y < x)
  BY Minimal
<1>2. x # 0
  BY <1>1
<1>3. x - 1 \in Nat /\ x - 1 < x /\ (x - 1) + 1 = x
  BY <1>2
<1>4. x - 1 \in S
  BY <1>1, <1>3
<1> QED
  BY <1>1, <1>3, <1>4

-------------------------------------------------------------------------------
(***************************************************************************)
(* What TagInventory's parser makes of the one report message of this      *)
(* inventory: all the tags, in their order.                                *)
(***************************************************************************)

\* The report TagInventory transfers for uids.
Reporting(uids) == [k \in DOMAIN uids |-> [tag |-> uids[k], aip |-> TRUE]]

\* What the parser holds behind the first k of them.
Behind(aip, uids, k) == [repAIP |-> IF k = 0 THEN aip ELSE "ISO15693", set |-> SubSeq(uids, 1, k)]

LEMMA OneParsed ==
    ASSUME NEW aip, NEW uids \in Reports, NEW k \in 1..Len(uids)
    PROVE  TI!ParseReport(Behind(aip, uids, k - 1), Reporting(uids)[k]) = Behind(aip, uids, k)
<1> DEFINE before == SubSeq(uids, 1, k - 1)
<1>1. uids \in Seq(Uids) /\ Len(uids) \in Nat /\ Len(uids) <= BufLen /\ uids[k] \in Uids /\ BufLen \in Nat
  BY ReportIs, SmallReports
<1>2. Len(before) = k - 1
  BY <1>1
<1>3. SubSeq(uids, 1, k) = Append(before, uids[k])
  BY <1>1, SubSeqRecursiveSecond
<1>4. DOMAIN uids = 1..Len(uids)
  BY <1>1
<1>5. Reporting(uids)[k] = [tag |-> uids[k], aip |-> TRUE]
  BY <1>4 DEF Reporting
<1> HIDE DEF before
<1>6. k # 0 /\ k - 1 < BufLen + 1
  BY <1>1
<1>7. TI!tag_report_handler(before, "ISO15693", uids[k]) = Append(before, uids[k])
  BY <1>1, <1>2, <1>6 DEF TI!tag_report_handler, TI!Room
<1>8. Behind(aip, uids, k - 1).set = before /\ Behind(aip, uids, k) = [repAIP |-> "ISO15693", set |-> Append(before, uids[k])]
  BY <1>3, <1>6 DEF Behind, before
<1>9. \A acc, rep : rep.aip = TRUE /\ rep.tag \in Uids =>
        TI!ParseReport(acc, rep) =
          [repAIP |-> "ISO15693", set |-> TI!tag_report_handler(acc.set, "ISO15693", rep.tag)]
  BY DEF TI!ParseReport
<1>10. Reporting(uids)[k].aip = TRUE /\ Reporting(uids)[k].tag = uids[k]
  BY <1>5
<1>11. TI!ParseReport(Behind(aip, uids, k - 1), Reporting(uids)[k]) =
         [repAIP |-> "ISO15693", set |-> TI!tag_report_handler(before, "ISO15693", uids[k])]
  BY <1>1, <1>8, <1>9, <1>10
<1> QED
  BY <1>7, <1>8, <1>11

LEMMA AllParsed ==
    ASSUME NEW aip, NEW uids \in Reports
    PROVE  TI!Parsed([repAIP |-> aip, set |-> <<>>], Reporting(uids)).set = uids
<1> DEFINE acc  == [repAIP |-> aip, set |-> <<>>]
           reps == Reporting(uids)
           n    == Len(reps)
           Steps(f) == f = [k \in 0..n |-> IF k = 0 THEN acc ELSE TI!ParseReport(f[k - 1], reps[k])]
           g    == [k \in 0..n |-> Behind(aip, uids, k)]
           f    == CHOOSE h : Steps(h)
<1>1. uids \in Seq(Uids) /\ n = Len(uids) /\ n \in Nat
  <2>1. uids \in Seq(Uids) /\ Len(uids) \in Nat
    BY ReportIs
  <2>2. DOMAIN reps = 1..Len(uids)
    BY <2>1 DEF Reporting
  <2>3. n = Len(uids)
    BY <2>1, <2>2, LenProperties
  <2> QED
    BY <2>1, <2>3
<1>2. TI!Parsed(acc, reps) = f[n]
  BY DEF TI!Parsed
<1>3. Behind(aip, uids, 0) = acc /\ Behind(aip, uids, n).set = uids
  <2>1. SubSeq(uids, 1, 0) = <<>> /\ SubSeq(uids, 1, Len(uids)) = uids
    BY <1>1, SubSeqEmpty, SubSeqFull
  <2> QED
    BY <1>1, <2>1 DEF Behind
<1>4. \A k \in 1..n : Behind(aip, uids, k) = TI!ParseReport(Behind(aip, uids, k - 1), reps[k])
  BY <1>1, OneParsed
<1> HIDE DEF acc, reps
<1>5. Steps(g)
  <2>1. \A k \in 0..n : k = 0 \/ (k \in 1..n /\ k - 1 \in 0..n)
    BY <1>1
  <2>2. \A k \in 0..n : g[k] = IF k = 0 THEN acc ELSE TI!ParseReport(g[k - 1], reps[k])
    BY <1>3, <1>4, <2>1
  <2> QED
    BY <2>2
<1>6. Steps(f)
  BY <1>5
<1> HIDE DEF f
<1>7. f[0] = acc /\ \A k \in 1..n : f[k] = TI!ParseReport(f[k - 1], reps[k])
  <2>1. \A k \in 1..n : k \in 0..n /\ k # 0
    BY <1>1
  <2>2. 0 \in 0..n
    BY <1>1
  <2> QED
    BY <1>6, <2>1, <2>2
<1>8. f[n] = Behind(aip, uids, n)
  <2> DEFINE S == {k \in Nat : k <= n => f[k] = Behind(aip, uids, k)}
  <2>1. 0 \in S
    BY <1>3, <1>7
  <2>2. ASSUME NEW k \in Nat, k \in S
        PROVE  k + 1 \in S
    <3> SUFFICES ASSUME k + 1 <= n PROVE f[k + 1] = Behind(aip, uids, k + 1)
      OBVIOUS
    <3>1. k + 1 \in 1..n /\ (k + 1) - 1 = k /\ k <= n
      BY <1>1
    <3> QED
      BY <1>4, <1>7, <2>2, <3>1
  <2>3. Nat \subseteq S
    <3> HIDE DEF S
    <3> QED
      BY <2>1, <2>2, Induction
  <2> QED
    BY <1>1, <2>3
<1> QED
  BY <1>2, <1>3, <1>8 DEF acc, reps

-------------------------------------------------------------------------------
(* Steps of TagInventory.                                                  *)

\* The constants TagInventory gets are such as it assumes.
LEMMA ConstantsFit ==
    /\ IsFiniteSet(Uids) /\ NoUid = TI!Nobody /\ TI!Nobody \notin Uids
    /\ [t \in Uids |-> "ISO15693"] \in [Uids -> {"ISO15693", "ISO14443A"}]
    /\ [t \in Uids |-> 9] \in [Uids -> Nat]
    /\ BufLen \in Nat /\ BufLen + 1 \in Nat /\ BufLen \div 1 < BufLen + 1
<1>1. BufLen \in Nat
  BY SmallReports
<1>2. BufLen \div 1 < BufLen + 1
  BY <1>1
<1>3. NoUid = TI!Nobody
  BY DEF NoUid, TI!Nobody
<1>4. IsFiniteSet(Uids) /\ TI!Nobody \notin Uids
  BY <1>3, InventoryLinkAssumption
<1>5. BufLen + 1 \in Nat
  BY <1>1
<1>6. [t \in Uids |-> "ISO15693"] \in [Uids -> {"ISO15693", "ISO14443A"}]
  OBVIOUS
<1>7. [t \in Uids |-> 9] \in [Uids -> Nat]
  OBVIOUS
<1> QED
  BY <1>1, <1>2, <1>3, <1>4, <1>5, <1>6, <1>7

\* Both modules count the elements of a set alike.
LEMMA SameCardinality == \A S : TI!Cardinality(S) = Cardinality(S)
BY DEF TI!Cardinality, Cardinality

\* What the line and the nodes do, the calls sent, a reset and a read are steps
\* TagInventory does not see.
LEMMA Unseen == UNCHANGED <<step, set, i, nlen, nSumlen, iret, records, reported, connected, handed>>
                  => UNCHANGED TI!vars
BY DEF TI!vars, TI!dllVars, TI!readerVars

LEMMA StartSeen ==
    ASSUME NEW ok \in BOOLEAN, step = "idle", AfterResync(ok)
    PROVE  TI!Start(BufLen)
<1>1. Len(<<>>) = 0 /\ [k \in DOMAIN <<>> |-> [tag |-> <<>>[k], aip |-> TRUE]] = <<>>
  OBVIOUS
<1> QED
  BY <1>1 DEF AfterResync, Ends, NoUser, NoUid, TI!Start, TI!Return, TI!Cleared, TI!NoUser, TI!Nobody

LEMMA FailureSeen ==
    ASSUME NEW uids, step = "opened", AfterInventory(FALSE, uids)
    PROVE  TI!ExchangeFails
BY DEF AfterInventory, Ends, TI!ExchangeFails, TI!Return, TI!readerVars

LEMMA InventorySeen ==
    ASSUME step = "opened", set = <<>>, reported = <<>>, nlen \in Nat,
           NEW uids \in Reports, AfterInventory(TRUE, uids)
    PROVE  TI!Inventory
<1> DEFINE n == Len(uids)
<1>1. /\ set' = uids /\ reported' = uids /\ nSumlen' = nlen /\ nlen' = 0 /\ iret' = "OK"
      /\ step' = (IF uids = <<>> THEN "idle" ELSE "tags")
      /\ UNCHANGED <<i, records, connected, handed>>
  BY DEF AfterInventory, Ends
<1>2. uids \in Seq(Uids) /\ n \in Nat /\ DOMAIN uids = 1..n
  BY ReportIs
<1>3. uids \in TI!Scans /\ TI!ToSet(uids) \subseteq Uids
  <2>1. uids \in TI!Scans
    BY SameCardinality DEF Reports, BufLen, TI!Scans, TI!IsInjective
  <2>2. TI!ToSet(uids) \subseteq Uids
    BY <1>2 DEF TI!ToSet
  <2> QED
    BY <2>1, <2>2
<1>4. (n = 0 <=> uids = <<>>) /\ SubSeq(uids, n + 1, n) = <<>>
  BY <1>2, SubSeqEmpty
<1>5. /\ [k \in 1..n |-> [tag |-> uids[k], aip |-> k \notin {}]] = Reporting(uids)
      /\ Reporting(reported) \o Reporting(uids) = Reporting(uids)
      /\ [k \in DOMAIN reported |-> [tag |-> reported[k], aip |-> TRUE]] = Reporting(reported)
      /\ ([k \in DOMAIN reported |-> [tag |-> reported[k], aip |-> TRUE]])' = Reporting(uids)
      /\ Len(reported) = 0 /\ Len(reported)' = n
  <2>1. [k \in 1..n |-> [tag |-> uids[k], aip |-> k \notin {}]] = Reporting(uids)
    BY <1>2 DEF Reporting
  <2>2. Reporting(reported) = <<>>
    BY DEF Reporting
  <2>3. Reporting(uids) \in Seq([tag : Uids, aip : BOOLEAN])
    BY <1>2 DEF Reporting
  <2> QED
    BY <1>1, <2>1, <2>2, <2>3, ConcatEmptySeq DEF Reporting
<1>6. TI!Cardinality({k \in DOMAIN Reporting(uids) : ~Reporting(uids)[k].aip}) <= 0
  <2> DEFINE bareOnes == {k \in DOMAIN Reporting(uids) : ~Reporting(uids)[k].aip}
  <2>1. bareOnes = {}
    BY DEF Reporting
  <2> HIDE DEF bareOnes
  <2>2. TI!Cardinality(bareOnes) <= 0
    BY <2>1, SameCardinality, FS_EmptySet
  <2> QED
    BY <2>2 DEF bareOnes
<1>7. TI!ParseReports(Reporting(uids))
  BY <1>1, AllParsed DEF TI!ParseReports
<1>8. TI!Continue(0)
  BY <1>1, <1>4, <1>5 DEF TI!Continue, TI!More
<1>9. TI!Transfer(uids, n)
  <2>1. n \in 0..n /\ {} \in SUBSET (1..n) /\ ~(n < n) /\ n - n = 0 /\ 0 + n = n
    BY <1>2
  <2>2. LET reports == [k \in 1..n |-> [tag |-> uids[k], aip |-> k \notin {}]]
        IN  /\ [k \in DOMAIN reported |-> [tag |-> reported[k], aip |-> TRUE]]'
                 = [k \in DOMAIN reported |-> [tag |-> reported[k], aip |-> TRUE]] \o reports
            /\ TI!Cardinality({k \in DOMAIN Reporting(uids) : ~Reporting(uids)[k].aip}) <= 0
            /\ TI!ParseReports(reports)
            /\ Len(reported)' = Len(reported) + n
            /\ TI!Continue(Len(uids) - n)
    BY <1>5, <1>6, <1>7, <1>8, <2>1
  <2> QED
    BY <1>2, <1>4, <1>5, <2>1, <2>2 DEF TI!Transfer
<1>10. n \in 0..Len(uids)
  BY <1>2
<1> QED
  BY <1>1, <1>3, <1>9, <1>10 DEF TI!Inventory

LEMMA ConnectSeen ==
    ASSUME NEW ok \in BOOLEAN, step = "tags", set \in Reports, i \in Nat, i < Len(set),
           ok => peerUid[DAD] = set[i + 1], AfterConnect(ok)
    PROVE  TI!TagConnect
<1>1. set[i + 1] \in Uids
  BY ReportIs
<1>2. TI!UidAt(i) = set[i + 1]
  BY DEF TI!UidAt
<1> QED
  BY <1>1, <1>2 DEF AfterConnect, EndsLoop, Ends, NoUser, NoUid, TI!TagConnect, TI!Return, TI!NoUser, TI!Nobody

LEMMA ReadSeen ==
    ASSUME step = "connected", set \in Reports, i \in Nat, i < Len(set), reported = set,
           connected = set[i + 1], user = NoUser \/ user = [tag |-> connected, len |-> 32],
           AfterDisconnect
    PROVE  TI!ReadTag
<1>1. set[i + 1] \in Uids
  BY ReportIs
<1>2. NoUser = TI!NoUser
  BY DEF NoUser, NoUid, TI!NoUser, TI!Nobody
<1>3. /\ records' = Append(records, [tag |-> set[i + 1], user |-> user]) /\ handed' = user
      /\ iret' = (IF user = NoUser THEN "LINK" ELSE "OK") /\ i' = i + 1 /\ nlen' = nlen + 1
      /\ step' = IF nlen' > nSumlen \/ i' = Len(set) THEN "idle" ELSE "tags"
      /\ UNCHANGED <<set, nSumlen, user, reported, connected>>
  BY DEF AfterDisconnect
<1>4. user # NoUser => user = [tag |-> connected, len |-> 32] /\ connected \in Uids
  BY <1>1
<1> QED
  BY <1>2, <1>3, <1>4 DEF TI!ReadTag, TI!Full, TI!readerVars

-------------------------------------------------------------------------------
(***************************************************************************)
(* What the refinement needs besides: the call under way has been told     *)
(* nothing yet, the reports of this inventory are those it goes through,   *)
(* and while a tag is connected what a read is told is that tag's.         *)
(***************************************************************************)
Untold == request # None => said[request.id] = <<>>
OneSet == /\ step = "opened" => set = <<>> /\ reported = <<>>
          /\ step \in {"tags", "connected"} => reported = set
OfTag(uids, tag) == uids = <<>> \/ uids = <<tag>>
OwnReads ==
    step = "connected" =>
        /\ connected = set[i + 1]
        /\ user = NoUser \/ user = [tag |-> connected, len |-> 32]
        /\ \A k \in 1..OnLine : meant[line[k].id].op = "Read" => OfTag(said[line[k].id], connected)
        /\ request # None /\ request.cmd = "TagAccess" => meant[request.id].uid = connected
SessionInv == Untold /\ OneSet /\ OwnReads

SaidKept == \A id \in 1..calls : said'[id] = said[id]

\* What is left on the line still says what it said.
LEMMA ReadsThin ==
    ASSUME LinkedInv, Thinned, HistoryKept, SaidKept, NEW tag,
           \A k \in 1..OnLine : meant[line[k].id].op = "Read" => OfTag(said[line[k].id], tag)
    PROVE  \A k \in 1..OnLine' : meant'[line'[k].id].op = "Read" => OfTag(said'[line'[k].id], tag)
<1>1. PICK h \in [1..OnLine' -> 1..OnLine] : \A p \in 1..OnLine' : line'[p] = line[h[p]]
  BY DEF Thinned, LeftOf
<1> SUFFICES ASSUME NEW k \in 1..OnLine'
             PROVE  meant'[line'[k].id].op = "Read" => OfTag(said'[line'[k].id], tag)
  OBVIOUS
<1>2. h[k] \in 1..OnLine /\ line'[k] = line[h[k]]
  BY <1>1
<1>3. line'[k].id \in 1..calls
  BY <1>2 DEF LinkedInv, LineOK
<1>4. meant'[line'[k].id] = meant[line[h[k]].id] /\ said'[line'[k].id] = said[line[h[k]].id]
  BY <1>2, <1>3 DEF HistoryKept, SaidKept
<1> QED
  BY <1>2, <1>4

\* Steps that drop answers or the request and leave the inventory alone.
LEMMA ThinnedTells ==
    ASSUME LinkedInv, SessionInv, Thinned, HistoryKept, SaidKept, request' \in {request, None},
           UNCHANGED <<step, set, i, user, reported, connected>>
    PROVE  SessionInv'
<1>1. request' # None => /\ request' = request /\ request # None
                         /\ said'[request'.id] = said[request.id]
                         /\ meant'[request'.id] = meant[request.id]
  BY DEF LinkedInv, RequestOK, HistoryKept, SaidKept
<1>2. Untold'
  BY <1>1 DEF SessionInv, Untold
<1>3. OneSet'
  BY DEF SessionInv, OneSet
<1>4. ASSUME step = "connected"
      PROVE  \A k \in 1..OnLine' : meant'[line'[k].id].op = "Read" => OfTag(said'[line'[k].id], connected)
  BY <1>4, ReadsThin DEF SessionInv, OwnReads
<1>5. OwnReads'
  BY <1>1, <1>4 DEF SessionInv, OwnReads
<1> QED
  BY <1>2, <1>3, <1>5 DEF SessionInv

\* The request is answered.
LEMMA AnsweredTells ==
    ASSUME LinkedInv, SessionInv, request # None, NEW a \in Answers, Answered(a), a.id = request.id,
           UNCHANGED <<step, set, i, user, reported, connected, meant>>,
           \A id \in 1..calls : id # request.id => said'[id] = said[id],
           step = "connected" /\ meant[request.id].op = "Read" => OfTag(said'[request.id], connected)
    PROVE  SessionInv'
<1>1. request' = None
  BY DEF Answered
<1>2. OnLine \in Nat /\ OnLine' = OnLine + 1 /\ line'[OnLine + 1] = a
      /\ \A k \in 1..OnLine : line'[k] = line[k]
  BY AnsweredAdds, LengthsOnLine DEF Added, LinkedInv
<1>3. \A k \in 1..OnLine' : k \in 1..OnLine \/ k = OnLine + 1
  BY <1>2
<1>4. ASSUME step = "connected", NEW k \in 1..OnLine', meant[line'[k].id].op = "Read"
      PROVE  OfTag(said'[line'[k].id], connected)
  <2>1. CASE k = OnLine + 1
    BY <1>2, <1>4, <2>1
  <2>2. CASE k \in 1..OnLine
    <3>1. line'[k] = line[k] /\ line[k].id \in 1..calls
      BY <1>2, <2>2 DEF LinkedInv, LineOK
    <3>2. line[k].id # request.id
      <4>1. line[k].id < request.id /\ request.id \in 1..calls
        BY <2>2 DEF LinkedInv, RequestOK
      <4>2. calls \in Nat
        BY DEF LinkedInv, LinkTypeOK
      <4> QED
        BY <3>1, <4>1, <4>2
    <3>3. said'[line'[k].id] = said[line[k].id]
      BY <3>1, <3>2
    <3> QED
      BY <1>4, <2>2, <3>1, <3>3 DEF SessionInv, OwnReads
  <2> QED
    BY <1>3, <2>1, <2>2
<1>5. OneSet'
  BY DEF SessionInv, OneSet
<1>6. OwnReads'
  BY <1>1, <1>4 DEF SessionInv, OwnReads
<1> QED
  BY <1>1, <1>5, <1>6 DEF SessionInv, Untold

LEMMA CarriesOutTells ==
    ASSUME LinkedInv, AccessInv, SessionInv, PeerCarriesOut
    PROVE  SessionInv'
<1> DEFINE m == meant[request.id]
<1>1. PICK tag \in Tags \cup {NoTag} : PeerExecutes(tag)
  BY DEF PeerCarriesOut
<1>2. LinkTypeOK
  BY DEF LinkedInv
<1>3. request # None
  BY <1>1, <1>2, PeerStep
<1>4. PICK a \in Answers : Answered(a) /\ a.id = request.id /\ a.cmd = request.cmd
  BY <1>1, <1>2, PeerStep
<1>5. UNCHANGED <<step, set, i, user, reported, connected, meant>>
  BY DEF PeerCarriesOut, loopVars
<1>6. /\ request.id \in 1..calls /\ m.op \in Ops /\ request.cmd = Cmd(m.op)
      /\ Len(said) = calls /\ said \in Seq(Reports \cup {<<NoUid>>})
  <2>1. request.id \in 1..calls /\ request.cmd = Cmd(m.op)
    BY <1>3 DEF LinkedInv, RequestOK
  <2> QED
    BY <2>1, LogEntry DEF LinkedInv, LinkTypeOK, Logs
<1>7. /\ \A id \in 1..calls : id # request.id => said'[id] = said[id]
      /\ said' = said \/ \E uids : Says(uids) /\ said'[request.id] = uids
  <2>1. ASSUME NEW uids, Says(uids)
        PROVE  /\ \A id \in 1..calls : id # request.id => said'[id] = said[id]
               /\ said'[request.id] = uids
    BY <1>6, <2>1 DEF Says
  <2>2. said' = said \/ \E uids : Says(uids)
    BY DEF PeerCarriesOut
  <2> QED
    BY <2>1, <2>2
<1>8. ASSUME step = "connected", m.op = "Read"
      PROVE  OfTag(said'[request.id], connected)
  <2>1. request.cmd = "TagAccess"
    BY <1>6, <1>8, CmdIs
  <2>2. peerUid[request.dad] = connected
    BY <1>3, <1>8, <2>1 DEF AccessInv, RequestLate, SessionInv, OwnReads
  <2>3. \E uids \in {<<>>, <<peerUid[request.dad]>>} : Says(uids)
    BY <1>8 DEF PeerCarriesOut
  <2>4. PICK uids \in {<<>>, <<peerUid[request.dad]>>} : Says(uids)
    BY <2>3
  <2>5. said'[request.id] = uids
    BY <1>6, <2>4 DEF Says
  <2> QED
    BY <2>2, <2>4, <2>5 DEF OfTag
<1> QED
  BY <1>3, <1>4, <1>5, <1>7, <1>8, AnsweredTells

LEMMA UnheardTells ==
    ASSUME LinkedInv, SessionInv, Unheard
    PROVE  SessionInv'
<1>1. /\ LinkTypeOK /\ UNCHANGED <<step, set, i, user, reported, connected, meant, said>>
  BY DEF LinkedInv, Unheard, loopVars
<1>2. CASE PeerResyncs \/ PeerFails \/ PeerRefuses
  <2>1. request # None
    BY <1>1, <1>2, PeerStep
  <2>2. PICK a \in Answers : Answered(a) /\ a.id = request.id
    BY <1>1, <1>2, PeerStep
  <2>3. OfTag(said'[request.id], connected)
    BY <1>1, <2>1 DEF SessionInv, Untold, OfTag
  <2> QED
    BY <1>1, <2>1, <2>2, <2>3, AnsweredTells
<1>3. CASE Line
  <2>1. Thinned /\ request' \in {request, None} /\ calls' = calls
    BY <1>1, <1>3, SameThinned, LoseThins, ArriveThins DEF Line, LoseRequest, LoseAnswer, Arrive
  <2>2. HistoryKept /\ SaidKept
    BY <1>1, <2>1 DEF HistoryKept, SaidKept, LinkTypeOK
  <2> QED
    BY <1>1, <2>1, <2>2, ThinnedTells
<1> QED
  BY <1>2, <1>3 DEF Unheard

LEMMA OpenTells ==
    ASSUME LinkedInv, SessionInv, RL8000_CommOpen
    PROVE  SessionInv'
<1>1. /\ UNCHANGED <<step, set, i, user, reported, connected, meant, said>>
      /\ UNCHANGED <<calls, request, back, inbox>>
  BY DEF RL8000_CommOpen, RL8000_CommOpenWithBusAddr, loopVars
<1>2. Thinned /\ HistoryKept /\ SaidKept
  BY <1>1, SameThinned DEF LinkedInv, HistoryKept, SaidKept, LinkTypeOK
<1> QED
  BY <1>1, <1>2, ThinnedTells

\* What a call that returned leaves of the session.
LEMMA AfterTells ==
    ASSUME LinkedInv, SessionInv, NEW o \in Ops, NEW ok \in BOOLEAN, NEW uids, After(o, ok, uids),
           step = StepFor(o), Thinned, HistoryKept, SaidKept, request' \in {request, None},
           ok /\ o = "Connect" => OnLine' = 0 /\ request' = None /\ peerUid[DAD] = set[i + 1],
           ok /\ o = "Read" => uids = <<connected>>
    PROVE  SessionInv'
<1>1. request' # None => /\ request' = request /\ request # None
                         /\ said'[request'.id] = said[request.id]
                         /\ meant'[request'.id] = meant[request.id]
  BY DEF LinkedInv, RequestOK, HistoryKept, SaidKept
<1>2. Untold'
  BY <1>1 DEF SessionInv, Untold
<1>3. CASE o = "Resync"
  <2>1. step' = "idle" \/ (step' = "opened" /\ set' = <<>> /\ reported' = <<>>)
    BY <1>3 DEF After, AfterResync, Ends
  <2> QED
    BY <1>2, <2>1 DEF SessionInv, OneSet, OwnReads
<1>4. CASE o = "Inventory"
  <2>1. step' = "idle" \/ (step' \in {"idle", "tags"} /\ reported' = set')
    BY <1>4 DEF After, AfterInventory, Ends
  <2> QED
    BY <1>2, <2>1 DEF SessionInv, OneSet, OwnReads
<1>5. CASE o = "Connect" /\ step' # "idle"
  <2>1. /\ ok /\ step' = "connected" /\ connected' = peerUid[DAD] /\ user' = NoUser
        /\ UNCHANGED <<set, i, reported>> /\ step = "tags"
    BY <1>5 DEF After, AfterConnect, EndsLoop, Ends, StepFor
  <2>2. request' = None /\ connected' = set[i + 1] /\ 1..OnLine' = {}
    BY <1>5, <2>1
  <2> QED
    BY <1>2, <2>1, <2>2 DEF SessionInv, OneSet, OwnReads
<1>6. CASE o = "Connect" /\ step' = "idle"
  BY <1>2, <1>6 DEF SessionInv, OneSet, OwnReads
<1>7. CASE o = "Reset"
  <2>1. UNCHANGED loopVars
    BY <1>7 DEF After
  <2> QED
    BY <2>1, ThinnedTells DEF loopVars
<1>8. CASE o = "Read"
  <2>1. /\ UNCHANGED <<step, set, i, reported, connected>> /\ step = "connected"
        /\ user' = IF ~ok THEN NoUser ELSE [tag |-> IF uids = <<>> THEN NoUid ELSE uids[1], len |-> 32]
    BY <1>8 DEF After, AfterRead, StepFor
  <2>2. user' = NoUser \/ user' = [tag |-> connected, len |-> 32]
    <3>1. ok => uids # <<>> /\ uids[1] = connected
      BY <1>8
    <3> QED
      BY <2>1, <3>1
  <2>3. \A k \in 1..OnLine' : meant'[line'[k].id].op = "Read" => OfTag(said'[line'[k].id], connected)
    BY <2>1, ReadsThin DEF SessionInv, OwnReads
  <2> QED
    BY <1>1, <1>2, <2>1, <2>2, <2>3 DEF SessionInv, OneSet, OwnReads
<1>9. CASE o = "Disconnect"
  <2>1. step' \in {"idle", "tags"} /\ UNCHANGED <<set, reported>> /\ step = "connected"
    BY <1>9 DEF After, AfterDisconnect, StepFor
  <2> QED
    BY <1>2, <2>1 DEF SessionInv, OneSet, OwnReads
<1> QED
  BY <1>3, <1>4, <1>5, <1>6, <1>7, <1>8, <1>9 DEF Ops

LEMMA CallTells ==
    ASSUME LinkedInv, SessionInv, NEW o \in Ops, Call(o)
    PROVE  SessionInv'
<1>1. /\ calls \in Nat /\ calls' = calls + 1
      /\ meant'[calls + 1] = [op |-> o, uid |-> UidNow] /\ Thinned /\ HistoryKept
  BY CallLogs
<1>2. said'[calls + 1] = <<>> /\ SaidKept
  <2>1. said' = Append(said, <<>>) /\ said \in Seq(Reports \cup {<<NoUid>>}) /\ Len(said) = calls
    BY DEF Call, LinkedInv, Logs
  <2> QED
    BY <1>1, <2>1 DEF SaidKept
<1>3. step = StepFor(o)
  BY DEF Call, Follows, StepFor
<1>4. CASE Transmit(Cmd(o)) /\ UNCHANGED <<loopVars, errors>>
  <2>1. UNCHANGED <<step, set, i, user, reported, connected>>
    BY <1>4 DEF loopVars
  <2>2. request'.id = calls + 1
    BY <1>4 DEF Transmit
  <2>3. Untold' /\ OneSet'
    BY <1>2, <2>1, <2>2 DEF SessionInv, Untold, OneSet
  <2>4. ASSUME step = "connected"
        PROVE  /\ \A k \in 1..OnLine' : meant'[line'[k].id].op = "Read" => OfTag(said'[line'[k].id], connected)
               /\ meant'[request'.id].uid = connected
    <3>1. UidNow = set[i + 1]
      BY <2>4 DEF LinkedInv, Counters, UidNow
    <3>2. meant'[request'.id].uid = connected
      BY <1>1, <2>2, <2>4, <3>1 DEF SessionInv, OwnReads
    <3> QED
      BY <1>1, <1>2, <2>4, <3>2, ReadsThin DEF SessionInv, OwnReads
  <2>5. OwnReads'
    BY <2>1, <2>4 DEF SessionInv, OwnReads
  <2> QED
    BY <2>3, <2>5 DEF SessionInv
<1>5. CASE WriteFails(Cmd(o)) /\ After(o, FALSE, <<>>)
  <2>1. request' = request
    BY <1>5 DEF WriteFails
  <2> QED
    BY <1>1, <1>2, <1>3, <1>5, <2>1, AfterTells
<1> QED
  BY <1>4, <1>5 DEF Call

\* What the inventory does when a call returned is a step of TagInventory.
LEMMA AfterSeen ==
    ASSUME LinkedInv, SessionInv, NEW o \in Ops, NEW ok \in BOOLEAN, NEW uids, After(o, ok, uids),
           step = StepFor(o),
           ok /\ o = "Inventory" => uids \in Reports,
           ok /\ o = "Connect" => peerUid[DAD] = set[i + 1]
    PROVE  [TI!Next]_TI!vars
<1>1. set \in Reports /\ i \in Nat
  BY ReportIs DEF LinkedInv, LoopTypes
<1>2. CASE o = "Resync"
  <2>1. step = "idle" /\ AfterResync(ok)
    BY <1>2 DEF After, StepFor
  <2> QED
    BY <2>1, StartSeen DEF TI!Next
<1>3. CASE o = "Inventory" /\ ok
  <2>1. step = "opened" /\ AfterInventory(TRUE, uids) /\ uids \in Reports
    BY <1>3 DEF After, StepFor
  <2>2. set = <<>> /\ reported = <<>> /\ nlen \in Nat
    BY <2>1, SmallReports DEF SessionInv, OneSet, LinkedInv, Counters
  <2> QED
    BY <2>1, <2>2, InventorySeen DEF TI!Next, TI!Exchange
<1>4. CASE o = "Inventory" /\ ~ok
  <2>1. step = "opened" /\ AfterInventory(FALSE, uids)
    BY <1>4 DEF After, StepFor
  <2> QED
    BY <2>1, FailureSeen DEF TI!Next
<1>5. CASE o = "Connect"
  <2>1. step = "tags" /\ AfterConnect(ok) /\ i < Len(set)
    BY <1>5 DEF After, StepFor, LinkedInv, Counters
  <2> QED
    BY <1>1, <1>5, <2>1, ConnectSeen DEF TI!Next, TI!Exchange
<1>6. CASE o \in {"Reset", "Read"}
  BY <1>6, Unseen DEF After, AfterRead, loopVars
<1>7. CASE o = "Disconnect"
  <2>1. step = "connected" /\ AfterDisconnect /\ i < Len(set)
    BY <1>7 DEF After, StepFor, LinkedInv, Counters
  <2>2. /\ reported = set /\ connected = set[i + 1]
        /\ user = NoUser \/ user = [tag |-> connected, len |-> 32]
    BY <2>1 DEF SessionInv, OneSet, OwnReads
  <2> QED
    BY <1>1, <2>1, <2>2, ReadSeen DEF TI!Next, TI!Exchange
<1> QED
  BY <1>2, <1>3, <1>4, <1>5, <1>6, <1>7 DEF Ops

LEMMA ReturnsTells ==
    ASSUME LinkedInv, AccessInv, SessionInv, Returns
    PROVE  /\ SessionInv'
           /\ [TI!Next]_TI!vars
<1>1. /\ UNCHANGED <<op, meant, said, peerUid, accesses>> /\ LinkTypeOK
      /\ Timeout \/ SBlock_Resync \/ IBlock_Transceive
  BY DEF Returns, LinkedInv
<1>2. phase = "waiting" /\ calls' = calls /\ request' \in {request, None}
  BY <1>1, Received DEF Timeout, Return
<1>3. op \in Ops /\ step = StepFor(op) /\ call = Cmd(op)
  BY <1>2 DEF LinkedInv, Waits
<1>4. Thinned /\ HistoryKept /\ SaidKept
  <2>1. Timeout => Thinned
    BY <1>1, DropThins, SameThinned DEF Timeout
  <2>2. Thinned
    BY <1>1, <2>1, Received
  <2> QED
    BY <1>1, <1>2, <2>2 DEF HistoryKept, SaidKept, LinkTypeOK
<1>5. CASE After(op, FALSE, <<>>)
  BY <1>2, <1>3, <1>4, <1>5, AfterTells, AfterSeen
<1> DEFINE id == accepted'.answer.id
<1>6. CASE result' = "OK" /\ (op \in {"Reset", "Read"} => AccessOk(id)) /\ After(op, TRUE, said[id])
  <2>1. SBlock_Resync \/ IBlock_Transceive
    BY <1>1, <1>6 DEF Timeout, Return
  <2>2. /\ OnLine \in Nat \ {0} /\ line[1] = frame
        /\ frame.id \in 1..calls /\ frame.cmd = Cmd(meant[frame.id].op) /\ id = frame.id
        /\ call # "Resync" => frame.cmd = call
    BY <1>6, <2>1, Received
  <2>3. said[id] \in SaysFor(meant[id].op) /\ meant[id].op \in Ops
    BY <1>1, <2>2, LogEntry DEF LinkedInv, Logs, LinkTypeOK
  <2>4. op = "Inventory" => said[id] \in Reports
    <3>1. op = "Inventory" => meant[id].op = "Inventory"
      BY <1>3, <2>2, <2>3, CmdIs
    <3> QED
      BY <2>3, <3>1 DEF SaysFor
  <2>5. op = "Read" => said[id] = <<connected>>
    <3> SUFFICES ASSUME op = "Read" PROVE said[id] = <<connected>>
      OBVIOUS
    <3>1. meant[id].op = "Read" /\ said[id] # <<>> /\ step = "connected"
      BY <1>3, <1>6 DEF AccessOk, StepFor
    <3>2. 1 \in 1..OnLine /\ line[1].id = id
      BY <2>2
    <3>3. OfTag(said[id], connected)
      BY <3>1, <3>2 DEF SessionInv, OwnReads
    <3> QED
      BY <3>1, <3>3 DEF OfTag
  <2>6. op = "Connect" => OnLine' = 0 /\ request' = None /\ peerUid[DAD] = set[i + 1]
    BY <1>6, <2>1, ConnectReceived
  <2> HIDE DEF id
  <2>7. SessionInv'
    BY <1>2, <1>3, <1>4, <1>6, <2>5, <2>6, AfterTells
  <2>8. [TI!Next]_TI!vars
    BY <1>3, <1>6, <2>4, <2>6, AfterSeen
  <2> QED
    BY <2>7, <2>8
<1> QED
  BY <1>5, <1>6 DEF Returns

LEMMA SessionStep ==
    ASSUME LinkedInv, AccessInv, SessionInv, [Next]_vars
    PROVE  SessionInv' /\ [TI!Next]_TI!vars
<1>1. ASSUME UNCHANGED loopVars
      PROVE  [TI!Next]_TI!vars
  BY <1>1, Unseen DEF loopVars
<1>2. CASE UNCHANGED vars
  <2>1. UNCHANGED <<linkVars, loopVars, op, meant, said, peerUid, accesses, errors>>
    BY <1>2 DEF vars
  <2>2. /\ UNCHANGED <<step, set, i, user, reported, connected, meant, said>>
        /\ UNCHANGED <<calls, request, inbox, back>>
    BY <2>1 DEF linkVars, loopVars
  <2>3. Thinned /\ HistoryKept /\ SaidKept
    BY <2>2, SameThinned DEF LinkedInv, HistoryKept, SaidKept, LinkTypeOK
  <2> QED
    BY <1>1, <2>1, <2>2, <2>3, ThinnedTells
<1>3. CASE PeerCarriesOut
  BY <1>1, <1>3, CarriesOutTells DEF PeerCarriesOut
<1>4. CASE Unheard
  BY <1>1, <1>4, UnheardTells DEF Unheard
<1>5. CASE RL8000_CommOpen
  BY <1>1, <1>5, OpenTells DEF RL8000_CommOpen
<1>6. ASSUME NEW o \in Ops, Call(o)
      PROVE  SessionInv' /\ [TI!Next]_TI!vars
  <2>1. SessionInv'
    BY <1>6, CallTells
  <2>2. step = StepFor(o)
    BY <1>6 DEF Call, Follows, StepFor
  <2>3. UNCHANGED loopVars \/ After(o, FALSE, <<>>)
    BY <1>6 DEF Call
  <2> QED
    BY <1>1, <2>1, <2>2, <2>3, AfterSeen
<1> QED
  BY <1>2, <1>3, <1>4, <1>5, <1>6, ReturnsTells DEF Next

\* On a link that loses blocks and answers late, with at most two answers on
\* their way at once, the inventory does what TagInventory says: every exchange
\* takes place with the tag it is meant for, or fails.
THEOREM InventoryImplements ==
    ASSUME MaxBack <= 2
    PROVE  Spec => ImplementsInventory
<1>1. Init => AccessInv
  BY AccessInit
<1>2. Init => SessionInv
  BY DEF Init, LinkInit, SessionInv, Untold, OneSet, OwnReads
<1>3. Init => TI!Init
  <2>1. Len(<<>>) = 0 /\ [k \in DOMAIN <<>> |-> [tag |-> <<>>[k], aip |-> TRUE]] = <<>>
    OBVIOUS
  <2> QED
    BY <2>1 DEF Init, NoUser, NoUid, TI!Init, TI!NoUser, TI!Nobody
<1>4. LinkedInv /\ AccessInv /\ [Next]_vars => AccessInv'
  BY AccessStep
<1>5. LinkedInv /\ AccessInv /\ SessionInv /\ [Next]_vars => SessionInv' /\ [TI!Next]_TI!vars
  BY SessionStep
<1> QED
  BY <1>1, <1>2, <1>3, <1>4, <1>5, LinkedInvariant, PTL DEF Spec, ImplementsInventory
===============================================================================
