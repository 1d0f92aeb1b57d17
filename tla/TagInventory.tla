----------------------------- MODULE TagInventory -----------------------------
(***************************************************************************)
(* RL8000_WinTagInventory: open a handle, resynchronise, run one inventory *)
(* round, fetch the rest of the reader's report buffer, then connect, read *)
(* and disconnect tag after tag and hand the records to the application.   *)
(* Each exchange with the reader is one action whose failure is any error  *)
(* IBlock_Transceive returns (T1Link).  A uid is the tag that bears it.    *)
(* The reader and the tags that come and go are external.                  *)
(***************************************************************************)
EXTENDS Integers, SequencesExt

CONSTANTS Tags,
          AipOf,       \* the air protocol of a tag: "ISO15693" | "ISO14443A"
          UidLen,      \* the uid length a report of the tag carries
          MaxBare,     \* bound of the model: reports without their protocol
          MaxUids,     \* MAX_UIDS
          RecSize,     \* sizeof(struct tagreport)
          MinBuf,      \* the smallest *nlen accepted
          BufSizes     \* *nlen as applications pass it

\* The application's buffer has no more records than tagReportSet: 1024 bytes,
\* which end in the fourth record, of MAX_UIDS = 100 in main.cpp.
ASSUME InventoryAssumption ==
    /\ IsFiniteSet(Tags)
    /\ AipOf \in [Tags -> {"ISO15693", "ISO14443A"}] /\ UidLen \in [Tags -> Nat]
    /\ MaxBare \in Nat /\ MaxUids \in Nat /\ RecSize \in Nat \ {0} /\ MinBuf \in Nat /\ BufSizes \subseteq Nat
    /\ \A n \in BufSizes : n \div RecSize < MaxUids

VARIABLES phase,         \* "idle" | "opened" | "buffered" | "tags" | "connected"
          tagReportSet,  \* the first tagReportAdded of them
          tagGetted, i,
          nlen, nSumlen, iret,
          tagUid,        \* the records written to the application's buffer
          user           \* [tag, len] of the record at i while it is connected
dllVars == <<phase, tagReportSet, tagGetted, i, nlen, nSumlen, iret, tagUid, user>>

VARIABLES field,      \* the tags the antenna reaches
          repBuf,     \* the reader's report buffer: tags not yet transferred
          reported,   \* the reports of this inventory, in the order sent
          connected   \* the tag behind h->hTag
readerVars == <<field, repBuf, reported, connected>>
vars == <<dllVars, readerVars>>

Nobody == "no tag"
ASSUME NobodyAssumption == Nobody \notin Tags
NoUser == [tag |-> Nobody, len |-> 0]

\* tagReportAdded = 0 and memset (mutant: neither).
ReportsKept(set) == set
Cleared(set)     == <<>>

Return(err, len) == iret' = err /\ nlen' = len /\ phase' = "idle"

\* RL8000_CommOpenWithBusAddr, whose handle is connected to no tag, and
\* RL8000_Connect.
Start(size) ==
    /\ phase = "idle"
    /\ \/ /\ tagReportSet' = Cleared(tagReportSet)
          /\ nlen' = size /\ phase' = "opened" /\ UNCHANGED iret
       \/ Return("LINK", 0) /\ UNCHANGED tagReportSet
    /\ tagGetted' = 0 /\ i' = 0 /\ nSumlen' = size /\ tagUid' = <<>> /\ user' = NoUser
    /\ reported' = <<>> /\ repBuf' = <<>> /\ connected' = Nobody
    /\ UNCHANGED field

-------------------------------------------------------------------------------
\* The global handler keeps ISO15693 tags whose uid has 9 bytes (mutant: one
\* more than the set holds).
RoomLate(set) == Len(set) <= MaxUids
Room(set)     == Len(set) < MaxUids
tag_report_handler(set, aip, tag) ==
    IF aip = "ISO15693" /\ UidLen[tag] = 9 /\ Room(set) THEN Append(set, tag) ELSE set

\* Parsing one report.  The local repAIP keeps the value of the report before
\* it when this one has no such field, and is uninitialised in the first.  The
\* antenna may be absent too, to no effect; tag, uidlen and uid never are
\* (main.cpp:46-48), and what the code makes of a report without them is left
\* out.
ParseReport(acc, rep) ==
    LET aip == IF rep.aip THEN AipOf[rep.tag] ELSE acc.repAIP
    IN  [repAIP |-> aip, set |-> tag_report_handler(acc.set, aip, rep.tag)]

Parsed(acc, reports) ==
    LET after[k \in 0..Len(reports)] ==
          IF k = 0 THEN acc ELSE ParseReport(after[k - 1], reports[k])
    IN  after[Len(reports)]
ParseReports(reports) ==
    \E repAIP \in {"ISO15693", "ISO14443A"} :
        tagReportSet' = Parsed([repAIP |-> repAIP, set |-> tagReportSet], reports).set

\* More reports in the reader's buffer (mutant: one more request than needed).
MoreAlways(left) == left >= 0
More(left)       == left > 0

\* The reports are parsed: ask for the `left' others, or go on to the tags.
Continue(left) ==
    \/ /\ More(left)
       /\ phase' = "buffered" /\ UNCHANGED <<nlen, nSumlen, iret>>
    \/ /\ ~More(left) /\ nlen < MinBuf
       /\ Return("ARG", 0) /\ UNCHANGED nSumlen
    \/ /\ ~More(left) /\ nlen >= MinBuf
       /\ nSumlen' = nlen /\ nlen' = 0 /\ iret' = "OK"
       /\ phase' = IF tagGetted' = 0 THEN "idle" ELSE "tags"

\* An answer to TAGINVENTORY or GETTAGREPORT transfers `n' reports of `tags';
\* only the first `m' of them are in the frame.  A report may
\* leave its protocol out.
Transfer(tags, n) ==
    /\ n = 0 => tags = <<>>
    /\ repBuf' = SubSeq(tags, n + 1, Len(tags))
    /\ \E m \in 0..n : \E bare \in SUBSET (1..m) :
         LET reports == [k \in 1..m |-> [tag |-> tags[k], aip |-> k \notin bare]]
         IN  /\ reported' = reported \o reports
             /\ Cardinality({k \in DOMAIN reported' : ~reported'[k].aip}) <= MaxBare
             /\ ParseReports(reports)
             /\ IF m < n
                THEN Return("MSGSIZE", 0) /\ UNCHANGED <<tagGetted, nSumlen>>
                ELSE tagGetted' = tagGetted + n /\ Continue(Len(tags) - n)

ExchangeFails == /\ phase \in {"opened", "buffered"}
                 /\ Return("LINK", 0)
                 /\ UNCHANGED <<tagReportSet, tagGetted, i, nSumlen, tagUid, user, readerVars>>

\* The reports a reader can make: no tag twice.
Scans == {tags \in UNION {[1..n -> Tags] : n \in 0..Cardinality(Tags)} : IsInjective(tags)}

\* RL8000_CMD_TagInventory: the reader reports some of the tags in the field,
\* in any order, and transfers at least one of them.
Inventory ==
    /\ phase = "opened"
    /\ UNCHANGED <<i, tagUid, user, field, connected>>
    /\ \E tags \in Scans : /\ ToSet(tags) \subseteq field
                         /\ \E n \in 0..Len(tags) : Transfer(tags, n)

\* One turn of the loop over RL8000_CMD_GetTagBuffer.
GetTagBuffer ==
    /\ phase = "buffered"
    /\ UNCHANGED <<i, tagUid, user, field, connected>>
    /\ \E n \in 0..Len(repBuf) : Transfer(repBuf, n)

-------------------------------------------------------------------------------
\* tagReportSet[i].uid; past tagReportAdded it is all zero, nobody's uid
\* (mutant: always the first).
UidOfFirst(k) == IF tagReportSet # <<>> THEN tagReportSet[1] ELSE Nobody
UidAt(k)      == IF k < Len(tagReportSet) THEN tagReportSet[k + 1] ELSE Nobody

\* ISO15693_TagConnect in address mode: the tag with that uid has to answer.
TagConnect ==
    /\ phase = "tags"
    /\ \/ /\ UidAt(i) \in field
          /\ connected' = UidAt(i)
          /\ phase' = "connected" /\ UNCHANGED <<nlen, iret>>
       \/ Return("LINK", 0) /\ UNCHANGED connected
    /\ user' = NoUser
    /\ UNCHANGED <<tagReportSet, tagGetted, i, nSumlen, tagUid, field, repBuf, reported>>

\* The loop ends when the buffer is full (mutant: it does not).
NeverFull(len) == FALSE
Full(len)      == len > nSumlen

\* ISO15693_Reset, whose result is only printed, ISO15693_ReadMultipleBlocks of
\* 8 blocks, RL8000_CMD_TagDisconnect, whose result is not looked at, and the
\* copy of the record.  A read that succeeds sets userlen to 32 however many
\* blocks its answer holds.
ReadTag ==
    /\ phase = "connected"
    /\ \/ /\ connected \in field
          /\ iret' = "OK" /\ user' = [tag |-> connected, len |-> 32]
       \/ iret' = "LINK" /\ user' = NoUser
    /\ tagUid' = Append(tagUid, [tag |-> IF i < Len(tagReportSet) THEN tagReportSet[i + 1] ELSE Nobody,
                                 user |-> user'])
    /\ nlen' = nlen + RecSize
    /\ i' = i + 1
    /\ phase' = IF Full(nlen') \/ i' = tagGetted THEN "idle" ELSE "tags"
    /\ UNCHANGED <<tagReportSet, tagGetted, nSumlen, readerVars>>

-------------------------------------------------------------------------------
\* A tag comes to the antenna or leaves it.  While reports are collected it may
\* as well have moved before or after.
TagMoves == /\ phase \in {"idle", "tags", "connected"}
            /\ \E t \in Tags : field' = IF t \in field THEN field \ {t} ELSE field \cup {t}
            /\ UNCHANGED <<dllVars, repBuf, reported, connected>>

Init == /\ phase = "idle" /\ tagReportSet = <<>> /\ tagGetted = 0 /\ i = 0
        /\ nlen = 0 /\ nSumlen = 0 /\ iret = "OK" /\ tagUid = <<>> /\ user = NoUser
        /\ field \in SUBSET Tags /\ repBuf = <<>> /\ reported = <<>> /\ connected = Nobody

Exchange == Inventory \/ GetTagBuffer \/ TagConnect \/ ReadTag
Next == Exchange \/ ExchangeFails \/ TagMoves \/ \E size \in BufSizes : Start(size)

\* Every exchange returns, with an answer or, no longer enabled, by failing,
\* since its wait for an answer is timed (TransTimer).  Only Inventory and its
\* failure leave "opened", so that the fairness of either is that of both.
Spec == /\ Init /\ [][Next]_vars
        /\ WF_vars(phase = "opened" /\ ExchangeFails)
        /\ WF_vars(GetTagBuffer \/ TagConnect \/ ReadTag)

-------------------------------------------------------------------------------
InvTypeOK ==
    /\ phase \in {"idle", "opened", "buffered", "tags", "connected"}
    /\ tagReportSet \in Seq(Tags) /\ Len(tagReportSet) <= MaxUids
    /\ tagGetted \in Nat /\ i \in 0..tagGetted /\ nlen \in Nat /\ nSumlen \in Nat
    /\ iret \in {"OK", "LINK", "MSGSIZE", "ARG"}
    /\ tagUid \in Seq([tag : Tags, user : [tag : Tags \cup {Nobody}, len : {0, 32}]])
    /\ field \subseteq Tags /\ repBuf \in Seq(Tags) /\ connected \in Tags \cup {Nobody}

\* The records an inventory hands over are tags the reader reported in this
\* very inventory, each once: the global set keeps nothing of the call before,
\* and the tags tagGetted counts without adding them never become records.
RecordsWereReported ==
    /\ \A k \in 1..Len(tagUid) : \E r \in 1..Len(reported) : reported[r].tag = tagUid[k].tag
    /\ \A j, k \in 1..Len(tagUid) : tagUid[j].tag = tagUid[k].tag => j = k

\* The user data of a record was read from the tag whose uid the record bears,
\* whatever was connected before and whichever disconnect failed.
UserDataOfTag ==
    \A k \in 1..Len(tagUid) : tagUid[k].user.len > 0 => tagUid[k].user.tag = tagUid[k].tag

\* Once all reports are in, the set has the ISO15693 tags with an 8-byte uid,
\* in the order reported, up to MAX_UIDS, if every report said its protocol.
\* main.cpp:45 says of the handler's aip that it is not required; without it
\* repAIP can keep the protocol of another tag.
ReportsStored ==
    phase \in {"tags", "connected"} /\ (\A k \in DOMAIN reported : reported[k].aip) =>
        LET Kept(r)  == AipOf[reported[r].tag] = "ISO15693" /\ UidLen[reported[r].tag] = 9
            upTo(r)  == Cardinality({q \in 1..r : Kept(q)})
            kept     == upTo(Len(reported))
        IN  /\ Len(tagReportSet) = (IF kept < MaxUids THEN kept ELSE MaxUids)
            /\ \A r \in DOMAIN reported :
                 Kept(r) /\ upTo(r) <= MaxUids => tagReportSet[upTo(r)] = reported[r].tag

\* nlen counts the bytes of whole records in the buffer, or is 0 when the call
\* failed; at most the last record goes past the size the application passed,
\* as the fourth of 274 bytes does past the 1024 that main.cpp:273-274 passes:
\* more than that the test behind the copy does not keep to.
LengthCounts ==
    /\ phase \in {"tags", "connected"} => nlen = RecSize * Len(tagUid)
    /\ phase = "idle" => nlen \in {0, RecSize * Len(tagUid)}
    /\ phase # "opened" /\ tagUid # <<>> => RecSize * (Len(tagUid) - 1) <= nSumlen

\* Every inventory returns, as long as the reader's buffer is finite and each
\* of its answers transfers something.
InventoryReturns == phase # "idle" ~> phase = "idle"
================================================================================
