----------------------------- MODULE InventoryLink -----------------------------
(***************************************************************************)
(* RL8000_WinTagInventory on the link of T1Link: which calls it makes in   *)
(* which order, each a block that can be lost or answered late.  It        *)
(* implements TagInventory, where every exchange is one action.  The       *)
(* reader's report fits into one answer.  The tags are external.           *)
(***************************************************************************)
EXTENDS T1Link, FiniteSets

CONSTANTS Uids,       \* of the tags, all in the field and all ISO15693
          MaxBack,    \* answers on their way at once
          MaxErrors   \* bound of the model: calls that do not return 0

NoUid == "no tag"     \* no uid, no data

\* With MaxBack = 2 an answer that is overdue reaches the host before the node
\* answers the next block but one.  With more, the one-bit numbers can fail: a
\* resync is answered by the answer to an older one, an inventory by an older
\* one, and a connect by an older one.
ASSUME InventoryLinkAssumption ==
    /\ NoUid \notin Uids /\ IsFiniteSet(Uids)
    /\ MaxBack \in Nat /\ MaxErrors \in Nat

VARIABLES step,       \* "idle" | "opened" | "tags" | "connected"
          set,        \* the uids in tagReportSet
          i, nlen, nSumlen, iret,
          user,       \* [tag, len], what was read for the record at i
          records,    \* the records in the application's buffer
          reported, connected, handed   \* as in TagInventory
loopVars == <<step, set, i, nlen, nSumlen, iret, user, records, reported, connected, handed>>

VARIABLES op,         \* the last call of the inventory
          meant,      \* what each call was to do: [op, uid]
          said,       \* what the answer to each call carries, a sequence of uids
          peerUid,    \* the tag each node is connected to
          accesses,   \* [meant, hit], uids, of the accesses carried out
          errors      \* calls that did not return 0 so far
vars == <<linkVars, loopVars, op, meant, said, peerUid, accesses, errors>>

NoUser == [tag |-> NoUid, len |-> 0]
BufLen == Cardinality(Uids)   \* of the application's buffer, in records

Cmd(o) == CASE o = "Resync"           -> "Resync"
            [] o = "Inventory"        -> "TagInventory"
            [] o = "Connect"          -> "TagConnect"
            [] o = "Disconnect"       -> "TagDisconnect"
            [] o \in {"Reset", "Read"} -> "TagAccess"

-------------------------------------------------------------------------------
(* The node and the tags.                                                   *)

Reports == {r \in UNION {[1..n -> Uids] : n \in 0..BufLen} :
               \A j, k \in DOMAIN r : r[j] = r[k] => j = k}

Says(uids) == said' = [said EXCEPT ![request.id] = uids]

\* Connecting in address mode needs the tag with that uid; the tags may all get
\* the same handle.  A tag may fail a read: its answer then has no data.
PeerCarriesOut ==
    /\ Len(back) < MaxBack
    /\ \E tag \in Tags \cup {NoTag} : PeerExecutes(tag)
    /\ LET m == meant[request.id] IN
       \/ /\ m.op = "Inventory" /\ \E r \in Reports : Says(r)
          /\ UNCHANGED <<peerUid, accesses>>
       \/ /\ m.op = "Connect" /\ peerUid' = [peerUid EXCEPT ![request.dad] = m.uid]
          /\ UNCHANGED <<said, accesses>>
       \/ /\ m.op \in {"Reset", "Read"}
          /\ accesses' = accesses \cup {[meant |-> m.uid, hit |-> peerUid[request.dad]]}
          /\ \E uids \in {<<>>, <<peerUid[request.dad]>>} : Says(IF m.op = "Read" THEN uids ELSE <<>>)
          /\ UNCHANGED peerUid
       \/ /\ m.op = "Disconnect" /\ peerUid' = [peerUid EXCEPT ![request.dad] = NoUid]
          /\ UNCHANGED <<said, accesses>>
    /\ UNCHANGED <<loopVars, op, meant, errors>>

Unheard == /\ \/ Len(back) < MaxBack /\ (PeerResyncs \/ PeerFails \/ PeerRefuses)
              \/ Line
           /\ UNCHANGED <<loopVars, op, meant, said, peerUid, accesses, errors>>

-------------------------------------------------------------------------------
(* What the function does when a call returned; `uids' is what the answer   *)
(* says, if `ok'.                                                           *)

Ends(err) == iret' = err /\ nlen' = 0 /\ step' = "idle"

AfterResync(ok) ==
    /\ i' = 0 /\ nSumlen' = BufLen /\ records' = <<>>
    /\ reported' = <<>> /\ connected' = NoUid /\ handed' = NoUser /\ user' = NoUser
    /\ \/ ok  /\ step' = "opened" /\ nlen' = BufLen /\ set' = <<>> /\ UNCHANGED iret
       \/ ~ok /\ Ends("LINK") /\ UNCHANGED set

AfterInventory(ok, uids) ==
    /\ \/ /\ ok /\ set' = uids /\ reported' = uids
          /\ nSumlen' = nlen /\ nlen' = 0 /\ iret' = "OK"
          /\ step' = IF uids = <<>> THEN "idle" ELSE "tags"
       \/ ~ok /\ Ends("LINK") /\ UNCHANGED <<set, reported, nSumlen>>
    /\ UNCHANGED <<i, user, records, connected, handed>>

\* An uid that cannot be connected ends the inventory (mutant: the loop goes on
\* whatever the result is).
EndsNever(ok) == FALSE
EndsLoop(ok)  == ~ok
AfterConnect(ok) ==
    /\ handed' = NoUser /\ user' = NoUser
    /\ \/ ~EndsLoop(ok) /\ step' = "connected" /\ connected' = peerUid[DAD] /\ UNCHANGED <<nlen, iret>>
       \/ EndsLoop(ok)  /\ Ends("LINK") /\ UNCHANGED connected
    /\ UNCHANGED <<set, i, nSumlen, records, reported>>

AfterRead(ok, uids) ==
    /\ user' = IF ~ok THEN NoUser
               ELSE [tag |-> IF uids = <<>> THEN NoUid ELSE uids[1], len |-> 32]
    /\ UNCHANGED <<step, set, i, nlen, nSumlen, iret, records, reported, connected, handed>>

\* The result of the disconnect is not looked at.
AfterDisconnect ==
    /\ records' = Append(records, [tag |-> set[i + 1], user |-> user])
    /\ handed' = user /\ iret' = (IF user = NoUser THEN "LINK" ELSE "OK")
    /\ i' = i + 1 /\ nlen' = nlen + 1
    /\ step' = IF nlen' > nSumlen \/ i' = Len(set) THEN "idle" ELSE "tags"
    /\ UNCHANGED <<set, nSumlen, user, reported, connected>>

After(o, ok, uids) ==
    /\ errors' = errors + (IF ok THEN 0 ELSE 1) /\ errors' <= MaxErrors
    /\ \/ o = "Resync"     /\ AfterResync(ok)
       \/ o = "Inventory"  /\ AfterInventory(ok, uids)
       \/ o = "Connect"    /\ AfterConnect(ok)
       \/ o = "Reset"      /\ UNCHANGED loopVars
       \/ o = "Read"       /\ AfterRead(ok, uids)
       \/ o = "Disconnect" /\ AfterDisconnect

-------------------------------------------------------------------------------
(* The calls.                                                               *)

RL8000_CommOpen ==
    /\ step = "idle" /\ op # "Open"
    /\ \E n \in Nodes : RL8000_CommOpenWithBusAddr(n)
    /\ op' = "Open"
    /\ UNCHANGED <<loopVars, meant, said, peerUid, accesses, errors>>

\* Connect, Reset, Read and Disconnect for every uid, whatever Reset and Read
\* return.
Follows(o) == \/ step = "idle"      /\ op = "Open"    /\ o = "Resync"
              \/ step = "opened"    /\ o = "Inventory"
              \/ step = "tags"      /\ o = "Connect"
              \/ step = "connected" /\ <<op, o>> \in {<<"Connect", "Reset">>,
                                        <<"Reset", "Read">>, <<"Read", "Disconnect">>}

Call(o) ==
    /\ Follows(o)
    /\ \/ Transmit(Cmd(o)) /\ UNCHANGED <<loopVars, errors>>
       \/ WriteFails(Cmd(o)) /\ After(o, FALSE, <<>>)
    /\ op' = o
    /\ meant' = Append(meant, [op  |-> o, uid |-> IF i < Len(set) THEN set[i + 1] ELSE NoUid])
    /\ said' = Append(said, <<>>)
    /\ UNCHANGED <<peerUid, accesses>>

\* PARSE_TAG_ACCESS_RESULT_HEAD: the answer to an access names it, and its
\* status is 1 (mutant: neither is looked at).
AccessUnchecked(id) == TRUE
AccessOk(id)        == meant[id].op = op /\ (op = "Read" => said[id] # <<>>)

Returns ==
    /\ Timeout \/ SBlock_Resync \/ IBlock_Transceive
    /\ LET id == accepted'.answer.id
       IN  IF result' = "OK" /\ (op \in {"Reset", "Read"} => AccessOk(id))
           THEN After(op, TRUE, said[id]) ELSE After(op, FALSE, <<>>)
    /\ UNCHANGED <<op, meant, said, peerUid, accesses>>

Init == /\ LinkInit
        /\ step = "idle" /\ set = <<>> /\ i = 0 /\ nlen = 0 /\ nSumlen = 0 /\ iret = "OK"
        /\ user = NoUser /\ records = <<>>
        /\ reported = <<>> /\ connected = NoUid /\ handed = NoUser
        /\ op = "none" /\ meant = <<>> /\ said = <<>> /\ peerUid = [n \in Nodes |-> NoUid]
        /\ accesses = {} /\ errors = 0

Ops  == {"Resync", "Inventory", "Connect", "Reset", "Read", "Disconnect"}
Next == PeerCarriesOut \/ Unheard \/ RL8000_CommOpen \/ Returns \/ \E o \in Ops : Call(o)
Spec == Init /\ [][Next]_vars

-------------------------------------------------------------------------------
InvLinkTypeOK ==
    /\ LinkTypeOK
    /\ step \in {"idle", "opened", "tags", "connected"} /\ op \in Ops \cup {"none", "Open"}
    /\ set \in Reports /\ reported \in Reports /\ i \in 0..Len(set)
    /\ nlen \in 0..BufLen /\ nSumlen \in {0, BufLen} /\ iret \in {"OK", "LINK"}
    /\ user \in [tag : Uids \cup {NoUid}, len : {0, 32}] /\ Len(records) \in {0, i}
    /\ Len(meant) = calls /\ Len(said) = calls
    /\ \A id \in 1..calls : meant[id].op \in Ops /\ said[id] \in Reports \cup {<<NoUid>>}
    /\ peerUid \in [Nodes -> Uids \cup {NoUid}] /\ connected \in Uids \cup {NoUid}
    /\ errors \in 0..MaxErrors

\* Whatever is lost or late, no tag is accessed in the place of another: when a
\* node carries out a reset or a read, it is connected to the tag with the uid
\* that the inventory was at when it sent it, although the reader's handles do
\* not tell the tags apart.
AccessHitsTag == \A a \in accesses : a.hit = a.meant

\* The inventory does on the link what TagInventory says it does, in which an
\* exchange either takes place, with the tag it is meant for, or fails.
TI == INSTANCE TagInventory WITH
    Tags <- Uids, AipOf <- [t \in Uids |-> "ISO15693"], UidLen <- [t \in Uids |-> 9],
    MaxBare <- 0, MaxUids <- BufLen + 1, RecSize <- 1, MinBuf <- 0, BufSizes <- {BufLen},
    phase <- step, tagReportSet <- set, tagGetted <- Len(reported),
    tagUid <- records, user <- handed, field <- Uids, repBuf <- <<>>,
    reported <- [k \in DOMAIN reported |-> [tag |-> reported[k], aip |-> TRUE]]
ImplementsInventory == TI!Init /\ [][TI!Next]_TI!vars
===============================================================================
