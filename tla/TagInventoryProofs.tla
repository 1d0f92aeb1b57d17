-------------------------- MODULE TagInventoryProofs --------------------------
(***************************************************************************)
(* Theorems about TagInventory, for any tags, any reports, any size of the *)
(* set, of a record and of the application's buffer: the length returned   *)
(* counts the records, user data is that of the tag its record names, and  *)
(* the records are tags reported in this inventory, each once.  What the   *)
(* parser leaves in the set is shown by induction over the reports.        *)
(***************************************************************************)
EXTENDS TagInventory, FiniteSetTheorems, SequenceTheorems, WellFoundedInduction, TLAPS

\* The records written, their bytes and the room: there are none before the
\* tags are connected, and the loop goes on only while those written fit.
Records == \E S : tagUid \in Seq(S)
LengthInv ==
    /\ nlen \in Nat /\ nSumlen \in Nat
    /\ phase \in {"idle", "opened", "buffered", "tags", "connected"}
    /\ phase \in {"opened", "buffered"} => tagUid = <<>>
    /\ phase \in {"tags", "connected"} => /\ nlen = RecSize * Len(tagUid)
                                          /\ nlen <= nSumlen
    /\ phase = "idle" => nlen \in {0, RecSize * Len(tagUid)}
    /\ tagUid # <<>> => RecSize * (Len(tagUid) - 1) <= nSumlen

\* The record about to be read is that of the tag the handle is connected to.
UserInv ==
    /\ \A k \in 1..Len(tagUid) : tagUid[k].user.len > 0 => tagUid[k].user.tag = tagUid[k].tag
    /\ phase = "connected" => connected = UidAt(i)

-------------------------------------------------------------------------------
\* The record that ReadTag adds.
NewRecord == [tag |-> UidAt(i), user |-> user']

\* Appending it.
LEMMA OneMore ==
    ASSUME Records, NEW r, tagUid' = Append(tagUid, r)
    PROVE  /\ Records' /\ Len(tagUid) \in Nat /\ Len(tagUid') = Len(tagUid) + 1
           /\ tagUid' # <<>>
           /\ \A k \in 1..Len(tagUid) : tagUid'[k] = tagUid[k]
           /\ tagUid'[Len(tagUid) + 1] = r
<1>1. PICK S : tagUid \in Seq(S)
  BY DEF Records
<1> DEFINE T == S \cup {r}
<1>2. tagUid \in Seq(T) /\ r \in T
  BY <1>1
<1> HIDE DEF T
<1>3. /\ tagUid' \in Seq(T) /\ Len(tagUid) \in Nat /\ Len(tagUid') = Len(tagUid) + 1
      /\ \A k \in 1..Len(tagUid) : tagUid'[k] = tagUid[k]
      /\ tagUid'[Len(tagUid) + 1] = r
  BY <1>2
<1>4. tagUid' # <<>>
  <2>1. Len(tagUid') # 0
    BY <1>3
  <2> QED
    BY <2>1
<1>5. Records'
  BY <1>3 DEF Records
<1> QED
  BY <1>3, <1>4, <1>5

\* The steps that write no record and begin none.
LEMMA RecordsStep == Records /\ [Next]_vars => Records'
<1> SUFFICES ASSUME Records, [Next]_vars PROVE Records'
  OBVIOUS
<1>1. ASSUME tagUid' = tagUid PROVE Records'
  BY <1>1 DEF Records
<1>2. ASSUME NEW size \in BufSizes, Start(size)
      PROVE  Records'
  <2>1. tagUid' \in Seq({})
    BY <1>2 DEF Start
  <2> QED
    BY <2>1 DEF Records
<1>3. CASE ReadTag
  BY <1>3, OneMore DEF ReadTag
<1>4. CASE Inventory \/ GetTagBuffer \/ TagConnect \/ ExchangeFails \/ TagMoves
  BY <1>1, <1>4 DEF Inventory, GetTagBuffer, TagConnect, ExchangeFails, TagMoves, dllVars
<1>5. CASE UNCHANGED vars
  BY <1>1, <1>5 DEF vars, dllVars
<1> QED
  BY <1>2, <1>3, <1>4, <1>5 DEF Next, Exchange

-------------------------------------------------------------------------------
(* Lengths.                                                                 *)

\* What an answer with reports leaves: an error or the loop over the reports,
\* the end of the call without a tag, or the loop over the tags.
LEMMA TransferLengths ==
    ASSUME LengthInv, NEW tags, NEW n, Transfer(tags, n)
    PROVE  \/ phase' = "idle" /\ nlen' = 0 /\ nSumlen' = nSumlen
           \/ phase' = "buffered" /\ nlen' = nlen /\ nSumlen' = nSumlen
           \/ phase' \in {"idle", "tags"} /\ nlen' = 0 /\ nSumlen' = nlen
<1>1. \/ Return("MSGSIZE", 0) /\ UNCHANGED <<tagGetted, nSumlen>>
      \/ Continue(Len(tags) - n)
  BY DEF Transfer
<1>2. CASE Return("MSGSIZE", 0) /\ UNCHANGED <<tagGetted, nSumlen>>
  BY <1>2 DEF Return
<1>3. CASE Continue(Len(tags) - n)
  BY <1>3 DEF Continue, Return
<1> QED
  BY <1>1, <1>2, <1>3

LEMMA LengthStep == Records /\ LengthInv /\ [Next]_vars => LengthInv'
<1> SUFFICES ASSUME Records, LengthInv, [Next]_vars PROVE LengthInv'
  OBVIOUS
<1>1. ASSUME UNCHANGED <<phase, nlen, nSumlen, tagUid>>
      PROVE  LengthInv'
  BY <1>1 DEF LengthInv
\* A call that fails before a record is written.
<1>2. ASSUME phase' = "idle", nlen' = 0, nSumlen' \in Nat, tagUid' = <<>>
      PROVE  LengthInv'
  BY <1>2 DEF LengthInv
<1>3. ASSUME NEW size \in BufSizes, Start(size)
      PROVE  LengthInv'
  <2>1. size \in Nat /\ tagUid' = <<>> /\ nSumlen' = size
    BY <1>3, InventoryAssumption DEF Start
  <2>2. \/ nlen' = size /\ phase' = "opened"
        \/ nlen' = 0 /\ phase' = "idle"
    BY <1>3 DEF Start, Return
  <2> QED
    BY <1>2, <2>1, <2>2 DEF LengthInv
<1>4. CASE Inventory \/ GetTagBuffer
  <2>1. \E tags, n : Transfer(tags, n)
    BY <1>4 DEF Inventory, GetTagBuffer
  <2>2. PICK tags, n : Transfer(tags, n)
    BY <2>1
  <2>3. tagUid = <<>> /\ tagUid' = <<>> /\ nlen \in Nat /\ nSumlen \in Nat
    BY <1>4 DEF Inventory, GetTagBuffer, LengthInv
  <2>4. \/ phase' = "idle" /\ nlen' = 0 /\ nSumlen' = nSumlen
        \/ phase' = "buffered" /\ nlen' = nlen /\ nSumlen' = nSumlen
        \/ phase' \in {"idle", "tags"} /\ nlen' = 0 /\ nSumlen' = nlen
    BY <2>2, TransferLengths
  <2>5. Len(tagUid') = 0 /\ RecSize * 0 = 0
    BY <2>3, InventoryAssumption
  <2> QED
    BY <2>3, <2>4, <2>5 DEF LengthInv
<1>5. CASE TagConnect
  <2>1. phase = "tags" /\ UNCHANGED <<nSumlen, tagUid>>
    BY <1>5 DEF TagConnect
  <2>2. \/ phase' = "connected" /\ UNCHANGED nlen
        \/ phase' = "idle" /\ nlen' = 0
    BY <1>5 DEF TagConnect, Return
  <2> QED
    BY <2>1, <2>2 DEF LengthInv
<1>6. CASE ReadTag
  <2>1. /\ phase = "connected" /\ nlen' = nlen + RecSize /\ nSumlen' = nSumlen
        /\ phase' \in {"idle", "tags"} /\ (phase' = "tags" => ~(nlen' > nSumlen))
    BY <1>6 DEF ReadTag, Full
  <2>2. /\ Len(tagUid) \in Nat /\ Len(tagUid') = Len(tagUid) + 1 /\ tagUid' # <<>>
    BY <1>6, OneMore DEF ReadTag
  <2>3. /\ nlen \in Nat /\ nSumlen \in Nat /\ RecSize \in Nat
        /\ nlen = RecSize * Len(tagUid) /\ nlen <= nSumlen
    BY <2>1, InventoryAssumption DEF LengthInv
  <2>4. nlen' \in Nat /\ nlen' = RecSize * Len(tagUid')
    BY <2>1, <2>2, <2>3
  <2>5. RecSize * (Len(tagUid') - 1) <= nSumlen
    <3>1. Len(tagUid') - 1 = Len(tagUid)
      BY <2>2
    <3> QED
      BY <2>3, <3>1
  <2>6. phase' = "tags" => nlen' <= nSumlen'
    BY <2>1, <2>3, <2>4
  <2> QED
    BY <2>1, <2>2, <2>3, <2>4, <2>5, <2>6 DEF LengthInv
<1>7. CASE ExchangeFails
  <2>1. phase' = "idle" /\ nlen' = 0 /\ nSumlen' = nSumlen /\ tagUid' = tagUid
    BY <1>7 DEF ExchangeFails, Return
  <2>2. tagUid = <<>> /\ nSumlen \in Nat
    BY <1>7 DEF ExchangeFails, LengthInv
  <2> QED
    BY <1>2, <2>1, <2>2
<1>8. CASE TagMoves \/ UNCHANGED vars
  BY <1>1, <1>8 DEF TagMoves, vars, dllVars
<1> QED
  BY <1>3, <1>4, <1>5, <1>6, <1>7, <1>8 DEF Next, Exchange

\* The length returned is that of the records written, or 0, and only the last
\* record can be past the size the application passed; for every record size.
THEOREM LengthIsTrue == Spec => []LengthCounts
<1>1. Init => Records /\ LengthInv
  <2> SUFFICES ASSUME Init PROVE Records /\ LengthInv
    OBVIOUS
  <2>1. tagUid \in Seq({}) /\ tagUid = <<>>
    BY DEF Init
  <2> QED
    BY <2>1 DEF Init, Records, LengthInv
<1>2. (Records /\ LengthInv) /\ [Next]_vars => (Records /\ LengthInv)'
  BY RecordsStep, LengthStep
<1>3. LengthInv => LengthCounts
  BY DEF LengthInv, LengthCounts
<1> QED
  BY <1>1, <1>2, <1>3, PTL DEF Spec

-------------------------------------------------------------------------------
(* User data.                                                               *)

LEMMA UserStep == Records /\ UserInv /\ [Next]_vars => UserInv'
<1> SUFFICES ASSUME Records, UserInv, [Next]_vars PROVE UserInv'
  OBVIOUS
<1>1. ASSUME UNCHANGED tagUid, phase' # "connected"
      PROVE  UserInv'
  BY <1>1 DEF UserInv
<1>2. ASSUME NEW size \in BufSizes, Start(size)
      PROVE  UserInv'
  BY <1>2 DEF Start, Return, UserInv
<1>3. CASE Inventory \/ GetTagBuffer
  <2>1. \E tags, n : Transfer(tags, n)
    BY <1>3 DEF Inventory, GetTagBuffer
  <2>2. phase' # "connected"
    BY <2>1 DEF Transfer, Return, Continue
  <2> QED
    BY <1>1, <1>3, <2>2 DEF Inventory, GetTagBuffer
<1>4. CASE TagConnect
  <2>1. UNCHANGED <<tagUid, i, tagReportSet>>
    BY <1>4 DEF TagConnect
  <2>2. phase' = "connected" => connected' = UidAt(i)
    BY <1>4 DEF TagConnect, Return
  <2> QED
    BY <2>1, <2>2 DEF UserInv, UidAt
<1>5. CASE ReadTag
  <2>1. /\ phase' # "connected" /\ connected = UidAt(i)
        /\ tagUid' = Append(tagUid, NewRecord)
        /\ user' \in {[tag |-> connected, len |-> 32], NoUser}
    BY <1>5 DEF ReadTag, UserInv, NewRecord, UidAt
  <2>2. NewRecord.user.len > 0 => NewRecord.user.tag = NewRecord.tag
    BY <2>1 DEF NewRecord, NoUser
  <2>3. /\ Len(tagUid) \in Nat /\ Len(tagUid') = Len(tagUid) + 1
        /\ \A k \in 1..Len(tagUid) : tagUid'[k] = tagUid[k]
        /\ tagUid'[Len(tagUid) + 1] = NewRecord
    BY <2>1, OneMore
  <2>4. ASSUME NEW k \in 1..Len(tagUid')
        PROVE  tagUid'[k].user.len > 0 => tagUid'[k].user.tag = tagUid'[k].tag
    <3>1. k \in 1..Len(tagUid) \/ k = Len(tagUid) + 1
      BY <2>3
    <3> QED
      BY <2>2, <2>3, <3>1 DEF UserInv
  <2> QED
    BY <2>1, <2>4 DEF UserInv
<1>6. CASE ExchangeFails
  BY <1>1, <1>6 DEF ExchangeFails, Return
<1>7. CASE TagMoves \/ UNCHANGED vars
  BY <1>7 DEF TagMoves, vars, dllVars, readerVars, UserInv, UidAt
<1> QED
  BY <1>2, <1>3, <1>4, <1>5, <1>6, <1>7 DEF Next, Exchange

\* User data read over the air lands in the record of the tag it was read
\* from, whatever the tags do and whichever exchange failed before.
THEOREM UserDataIsTrue == Spec => []UserDataOfTag
<1>1. Init => Records /\ UserInv
  <2> SUFFICES ASSUME Init PROVE Records /\ UserInv
    OBVIOUS
  <2>1. tagUid \in Seq({}) /\ tagUid = <<>> /\ phase = "idle"
    BY DEF Init
  <2> QED
    BY <2>1 DEF Records, UserInv
<1>2. (Records /\ UserInv) /\ [Next]_vars => (Records /\ UserInv)'
  BY RecordsStep, UserStep
<1>3. UserInv => UserDataOfTag
  BY DEF UserInv, UserDataOfTag
<1> QED
  BY <1>1, <1>2, <1>3, PTL DEF Spec
-------------------------------------------------------------------------------
(* Induction, and the function that Parsed defines.                         *)

LEMMA Minimal ==
    ASSUME NEW T, T \subseteq Nat, T # {}
    PROVE  \E x \in T : \A y \in T : ~(y < x)
<1> DEFINE R == OpToRel(<, Nat)
<1>1. IsWellFoundedOn(R, Nat)
  BY NatLessThanWellFounded
<1>2. \A x, y \in Nat : y < x => <<y, x>> \in R
  BY DEF OpToRel
<1> HIDE DEF R
<1>3. PICK x \in T : \A y \in T : ~(<<y, x>> \in R)
  BY <1>1, WFMin
<1> QED
  BY <1>2, <1>3

LEMMA Induction ==
    ASSUME NEW S, 0 \in S, \A n \in Nat : n \in S => n + 1 \in S
    PROVE  Nat \subseteq S
<1> SUFFICES ASSUME Nat \ S # {} PROVE FALSE
  OBVIOUS
<1>1. PICK x \in Nat \ S : \A y \in Nat \ S : ~(y < x)
  BY Minimal
<1>2. x # 0
  BY <1>1
<1>3. x - 1 \in Nat /\ x - 1 < x /\ (x - 1) + 1 = x
  BY <1>2
<1>4. x - 1 \in S
  BY <1>1, <1>3
<1> QED
  BY <1>1, <1>3, <1>4

\* A function that parses the first n reports after acc.
Parses(f, n, acc, reports) ==
    f = [k \in 0..n |-> IF k = 0 THEN acc ELSE ParseReport(f[k - 1], reports[k])]

LEMMA ParsesExists ==
    ASSUME NEW acc, NEW reports, NEW n \in Nat
    PROVE  \E f : Parses(f, n, acc, reports)
<1> DEFINE S == {m \in Nat : \E f : Parses(f, m, acc, reports)}
<1>1. 0 \in S
  <2>1. Parses([k \in 0..0 |-> acc], 0, acc, reports)
    BY DEF Parses
  <2> QED
    BY <2>1
<1>2. ASSUME NEW m \in Nat, m \in S
      PROVE  m + 1 \in S
  <2>1. PICK f : Parses(f, m, acc, reports)
    BY <1>2
  <2> DEFINE g == [k \in 0..m + 1 |-> IF k = m + 1 THEN ParseReport(f[m], reports[m + 1]) ELSE f[k]]
  <2>2. \A k \in 0..m : g[k] = f[k]
    OBVIOUS
  <2>3. ASSUME NEW k \in 0..m + 1
        PROVE  g[k] = IF k = 0 THEN acc ELSE ParseReport(g[k - 1], reports[k])
    <3>1. CASE k = m + 1
      <4>1. k # 0 /\ k - 1 = m /\ g[m] = f[m]
        BY <2>2, <3>1
      <4> QED
        BY <3>1, <4>1
    <3>2. CASE k # m + 1
      <4>1. k \in 0..m /\ (k # 0 => k - 1 \in 0..m)
        BY <3>2
      <4>2. f[k] = IF k = 0 THEN acc ELSE ParseReport(f[k - 1], reports[k])
        BY <2>1, <4>1 DEF Parses
      <4> HIDE DEF g
      <4> QED
        BY <2>2, <4>1, <4>2
    <3> QED
      BY <3>1, <3>2
  <2>4. DOMAIN g = 0..m + 1 /\ g = [k \in 0..m + 1 |-> g[k]]
    OBVIOUS
  <2> HIDE DEF g
  <2>5. Parses(g, m + 1, acc, reports)
    BY <2>3, <2>4 DEF Parses
  <2> QED
    BY <2>5
<1>3. Nat \subseteq S
  <2> HIDE DEF S
  <2> QED
    BY <1>1, <1>2, Induction
<1> QED
  BY <1>3

LEMMA ParsedIs ==
    ASSUME NEW acc, NEW reports, Len(reports) \in Nat
    PROVE  \E f : /\ f[0] = acc
                  /\ \A k \in 1..Len(reports) : f[k] = ParseReport(f[k - 1], reports[k])
                  /\ Parsed(acc, reports) = f[Len(reports)]
<1> DEFINE n == Len(reports)
           f == CHOOSE g : Parses(g, n, acc, reports)
<1>1. Parses(f, n, acc, reports)
  BY ParsesExists
<1>2. Parsed(acc, reports) = f[n]
  BY DEF Parsed, Parses
<1> HIDE DEF f
<1>3. 0 \in 0..n /\ \A k \in 1..n : k \in 0..n /\ k # 0
  OBVIOUS
<1>4. f[0] = acc /\ \A k \in 1..n : f[k] = ParseReport(f[k - 1], reports[k])
  BY <1>1, <1>3 DEF Parses
<1> QED
  BY <1>2, <1>4

-------------------------------------------------------------------------------
(* The reports kept.                                                        *)

Report          == [tag : Tags, aip : BOOLEAN]
EachOnce(s)     == \A p, q \in 1..Len(s) : s[p].tag = s[q].tag => p = q
KeptIn(s, r)    == AipOf[s[r].tag] = "ISO15693" /\ UidLen[s[r].tag] = 9
UpTo(s, r)      == {q \in 1..r : KeptIn(s, q)}
Number(s, r)    == Cardinality(UpTo(s, r))

\* What the set holds of the reports s.
AreReported(set, s) ==
    /\ \A k \in 1..Len(set) : \E r \in 1..Len(s) : s[r].tag = set[k]
    /\ \A j, k \in 1..Len(set) : set[j] = set[k] => j = k
AllKept(set, s) ==
    /\ Len(set) = (IF Number(s, Len(s)) < MaxUids THEN Number(s, Len(s)) ELSE MaxUids)
    /\ \A r \in 1..Len(s) : KeptIn(s, r) /\ Number(s, r) <= MaxUids => set[Number(s, r)] = s[r].tag
SetOK(set, s) ==
    /\ set \in Seq(Tags) /\ Len(set) <= MaxUids
    /\ AreReported(set, s)
    /\ (\A r \in 1..Len(s) : s[r].aip) => AllKept(set, s)

LEMMA NumberType ==
    ASSUME NEW s, NEW r \in Nat
    PROVE  IsFiniteSet(UpTo(s, r)) /\ Number(s, r) \in Nat
<1>1. IsFiniteSet(1..r)
  BY FS_Interval
<1>2. UpTo(s, r) \subseteq 1..r
  BY DEF UpTo
<1> QED
  BY <1>1, <1>2, FS_Subset, FS_CardinalityType DEF Number

\* A kept report has a place among those kept up to the last.
LEMMA NumberOfKept ==
    ASSUME NEW s, NEW m \in Nat, NEW r \in 1..m, KeptIn(s, r)
    PROVE  Number(s, r) \in 1..Number(s, m)
<1>1. r \in Nat /\ UpTo(s, r) \subseteq UpTo(s, m) /\ r \in UpTo(s, r)
  BY DEF UpTo
<1>2. Number(s, r) \in Nat /\ Number(s, m) \in Nat /\ IsFiniteSet(UpTo(s, r)) /\ IsFiniteSet(UpTo(s, m))
  BY <1>1, NumberType
<1>3. Number(s, r) <= Number(s, m)
  BY <1>1, <1>2, FS_Subset DEF Number
<1>4. Number(s, r) # 0
  BY <1>1, <1>2, FS_EmptySet DEF Number
<1> QED
  BY <1>2, <1>3, <1>4

\* One report more.
LEMMA NumberNext ==
    ASSUME NEW s \in Seq(Report), NEW rep \in Report, NEW t, t = Append(s, rep)
    PROVE  /\ \A r \in 1..Len(s) : Number(t, r) = Number(s, r) /\ (KeptIn(t, r) <=> KeptIn(s, r))
           /\ Number(t, Len(t)) = Number(s, Len(s)) + (IF KeptIn(t, Len(t)) THEN 1 ELSE 0)
<1>1. /\ Len(s) \in Nat /\ Len(t) = Len(s) + 1 /\ \A r \in 1..Len(s) : t[r] = s[r]
  BY LenProperties
<1>2. \A r \in 1..Len(s) : KeptIn(t, r) <=> KeptIn(s, r)
  BY <1>1 DEF KeptIn
<1>3. ASSUME NEW r \in 0..Len(s)
      PROVE  UpTo(t, r) = UpTo(s, r)
  <2>1. \A q \in 1..r : q \in 1..Len(s)
    BY <1>1
  <2> QED
    BY <1>2, <2>1 DEF UpTo
<1>4. UpTo(t, Len(t)) = UpTo(s, Len(s)) \cup (IF KeptIn(t, Len(t)) THEN {Len(t)} ELSE {})
  <2>1. 1..Len(t) = 1..Len(s) \cup {Len(t)}
    BY <1>1
  <2> QED
    BY <1>2, <2>1 DEF UpTo
<1>5. Len(t) \notin UpTo(s, Len(s))
  BY <1>1 DEF UpTo
<1>6. IsFiniteSet(UpTo(s, Len(s))) /\ Number(s, Len(s)) \in Nat
  BY <1>1, NumberType
<1>7. Number(t, Len(t)) = Number(s, Len(s)) + (IF KeptIn(t, Len(t)) THEN 1 ELSE 0)
  <2>1. CASE KeptIn(t, Len(t))
    <3>1. UpTo(t, Len(t)) = UpTo(s, Len(s)) \cup {Len(t)}
      BY <1>4, <2>1
    <3> QED
      BY <1>5, <1>6, <2>1, <3>1, FS_AddElement DEF Number
  <2>2. CASE ~KeptIn(t, Len(t))
    <3>1. UpTo(t, Len(t)) = UpTo(s, Len(s))
      BY <1>4, <2>2
    <3> QED
      BY <1>6, <2>2, <3>1 DEF Number
  <2> QED
    BY <2>1, <2>2
<1> QED
  BY <1>1, <1>2, <1>3, <1>7 DEF Number

\* A set that takes the report's tag, and one that does not.
LEMMA TakeOne ==
    ASSUME NEW s \in Seq(Report), NEW rep \in Report, NEW t, t = Append(s, rep), EachOnce(t),
           NEW set, SetOK(set, s), Len(set) < MaxUids,
           (\A r \in 1..Len(t) : t[r].aip) => KeptIn(t, Len(t))
    PROVE  SetOK(Append(set, rep.tag), t)
<1> DEFINE new == Append(set, rep.tag)
<1>1. /\ Len(s) \in Nat /\ Len(t) = Len(s) + 1 /\ \A r \in 1..Len(s) : t[r] = s[r]
      /\ t[Len(t)] = rep /\ rep.tag \in Tags
  <2>1. rep.tag \in Tags
    BY DEF Report
  <2> QED
    BY <2>1, LenProperties
<1>2. set \in Seq(Tags) /\ Len(set) \in Nat
  BY LenProperties DEF SetOK
<1>3. /\ new \in Seq(Tags) /\ Len(new) = Len(set) + 1
      /\ \A k \in 1..Len(set) : new[k] = set[k]
      /\ new[Len(set) + 1] = rep.tag
  BY <1>1, <1>2
<1> HIDE DEF new
<1>4. Len(new) <= MaxUids
  BY <1>2, <1>3, InventoryAssumption
<1>5. ASSUME NEW k \in 1..Len(new)
      PROVE  \/ k \in 1..Len(set) /\ new[k] = set[k] /\ \E r \in 1..Len(s) : s[r].tag = set[k]
             \/ k = Len(new) /\ new[k] = t[Len(t)].tag
  <2>1. k \in 1..Len(set) \/ k = Len(set) + 1
    BY <1>2, <1>3
  <2> QED
    BY <1>1, <1>3, <2>1 DEF SetOK, AreReported
\* The tag is not yet in the set, as it was not reported before.
<1>6. ASSUME NEW k \in 1..Len(set)
      PROVE  set[k] # t[Len(t)].tag
  <2>1. PICK r \in 1..Len(s) : s[r].tag = set[k]
    BY DEF SetOK, AreReported
  <2>2. r \in 1..Len(t) /\ Len(t) \in 1..Len(t) /\ r # Len(t) /\ t[r] = s[r]
    BY <1>1
  <2> QED
    BY <2>1, <2>2 DEF EachOnce
<1>7. AreReported(new, t)
  <2>1. ASSUME NEW k \in 1..Len(new)
        PROVE  \E r \in 1..Len(t) : t[r].tag = new[k]
    <3>1. Len(t) \in 1..Len(t) /\ \A r \in 1..Len(s) : r \in 1..Len(t) /\ t[r] = s[r]
      BY <1>1
    <3> QED
      BY <1>5, <3>1
  <2>2. ASSUME NEW j \in 1..Len(new), NEW k \in 1..Len(new), new[j] = new[k]
        PROVE  j = k
    BY <1>5, <1>6, <2>2 DEF SetOK, AreReported
  <2> QED
    BY <2>1, <2>2 DEF AreReported
<1>8. ASSUME \A r \in 1..Len(t) : t[r].aip
      PROVE  AllKept(new, t)
  <2>1. \A r \in 1..Len(s) : r \in 1..Len(t) /\ s[r].aip
    BY <1>1, <1>8
  <2>2. AllKept(set, s)
    BY <2>1 DEF SetOK
  <2>3. Number(s, Len(s)) \in Nat
    BY <1>1, NumberType
  <2>4. Number(s, Len(s)) = Len(set) /\ Number(t, Len(t)) = Len(new)
    <3>1. Number(s, Len(s)) = Len(set)
      BY <1>2, <2>2, <2>3 DEF AllKept
    <3>2. KeptIn(t, Len(t))
      BY <1>8
    <3>3. Number(t, Len(t)) = Number(s, Len(s)) + (IF KeptIn(t, Len(t)) THEN 1 ELSE 0)
      BY NumberNext
    <3> QED
      BY <1>3, <3>1, <3>2, <3>3
  <2>5. Len(new) = (IF Number(t, Len(t)) < MaxUids THEN Number(t, Len(t)) ELSE MaxUids)
    BY <1>2, <1>3, <1>4, <2>4, InventoryAssumption
  <2>6. ASSUME NEW r \in 1..Len(t), KeptIn(t, r), Number(t, r) <= MaxUids
        PROVE  new[Number(t, r)] = t[r].tag
    <3>1. CASE r = Len(t)
      BY <1>1, <1>3, <2>4, <3>1
    <3>2. CASE r # Len(t)
      <4>1. r \in 1..Len(s)
        BY <1>1, <3>2
      <4>2. Number(t, r) = Number(s, r) /\ KeptIn(s, r) /\ t[r] = s[r]
        BY <1>1, <2>6, <4>1, NumberNext
      <4>3. Number(s, r) \in 1..Len(set)
        BY <1>1, <2>4, <4>1, <4>2, NumberOfKept
      <4>4. set[Number(s, r)] = s[r].tag
        BY <2>2, <2>6, <4>1, <4>2 DEF AllKept
      <4> QED
        BY <1>3, <4>2, <4>3, <4>4
    <3> QED
      BY <3>1, <3>2
  <2> QED
    BY <2>5, <2>6 DEF AllKept
<1> QED
  BY <1>3, <1>4, <1>7, <1>8 DEF SetOK, new

LEMMA LeaveOne ==
    ASSUME NEW s \in Seq(Report), NEW rep \in Report, NEW t, t = Append(s, rep),
           NEW set, SetOK(set, s),
           (\A r \in 1..Len(t) : t[r].aip) => ~KeptIn(t, Len(t)) \/ Len(set) >= MaxUids
    PROVE  SetOK(set, t)
<1>1. /\ Len(s) \in Nat /\ Len(t) = Len(s) + 1 /\ \A r \in 1..Len(s) : t[r] = s[r]
  BY LenProperties
<1>2. set \in Seq(Tags) /\ Len(set) \in Nat /\ Len(set) <= MaxUids /\ MaxUids \in Nat
  BY LenProperties, InventoryAssumption DEF SetOK
<1>3. AreReported(set, t)
  <2>1. \A r \in 1..Len(s) : r \in 1..Len(t) /\ t[r] = s[r]
    BY <1>1
  <2>2. AreReported(set, s)
    BY DEF SetOK
  <2> QED
    BY <2>1, <2>2 DEF AreReported
<1>4. ASSUME \A r \in 1..Len(t) : t[r].aip
      PROVE  AllKept(set, t)
  <2>1. \A r \in 1..Len(s) : r \in 1..Len(t) /\ s[r].aip
    BY <1>1, <1>4
  <2>2. AllKept(set, s)
    BY <2>1 DEF SetOK
  <2>3. Number(s, Len(s)) \in Nat
    BY <1>1, NumberType
  <2>4. \/ ~KeptIn(t, Len(t)) /\ Number(t, Len(t)) = Number(s, Len(s))
        \/ Len(set) >= MaxUids /\ KeptIn(t, Len(t)) /\ Number(t, Len(t)) = Number(s, Len(s)) + 1
    <3>1. Number(t, Len(t)) = Number(s, Len(s)) + (IF KeptIn(t, Len(t)) THEN 1 ELSE 0)
      BY NumberNext
    <3>2. ~KeptIn(t, Len(t)) \/ Len(set) >= MaxUids
      BY <1>4
    <3> QED
      BY <2>3, <3>1, <3>2
  <2>5. Len(set) = (IF Number(s, Len(s)) < MaxUids THEN Number(s, Len(s)) ELSE MaxUids)
    BY <2>2 DEF AllKept
  <2>6. Len(set) = (IF Number(t, Len(t)) < MaxUids THEN Number(t, Len(t)) ELSE MaxUids)
    BY <1>2, <2>3, <2>4, <2>5
  <2>7. ASSUME NEW r \in 1..Len(t), KeptIn(t, r), Number(t, r) <= MaxUids
        PROVE  set[Number(t, r)] = t[r].tag
    <3>1. r # Len(t)
      <4>1. ASSUME r = Len(t) PROVE FALSE
        <5>1. KeptIn(t, Len(t)) /\ Number(t, Len(t)) <= MaxUids
          BY <2>7, <4>1
        <5> QED
          BY <1>2, <2>3, <2>4, <2>5, <5>1
      <4> QED
        BY <4>1
    <3>2. r \in 1..Len(s)
      BY <1>1, <3>1
    <3>3. Number(t, r) = Number(s, r) /\ KeptIn(s, r) /\ t[r] = s[r]
      BY <1>1, <2>7, <3>2, NumberNext
    <3> QED
      BY <2>2, <2>7, <3>2, <3>3 DEF AllKept
  <2> QED
    BY <2>6, <2>7 DEF AllKept
<1> QED
  BY <1>2, <1>3, <1>4 DEF SetOK

\* Parsing one report, whatever protocol the one before it left.
LEMMA ParsedOne ==
    ASSUME NEW s \in Seq(Report), NEW rep \in Report, NEW t, t = Append(s, rep), EachOnce(t),
           NEW acc, SetOK(acc.set, s)
    PROVE  SetOK(ParseReport(acc, rep).set, t)
<1> DEFINE set == acc.set
           aip == IF rep.aip THEN AipOf[rep.tag] ELSE acc.repAIP
<1>1. /\ Len(s) \in Nat /\ Len(t) = Len(s) + 1 /\ t[Len(t)] = rep
  BY LenProperties
<1>2. Len(set) \in Nat /\ MaxUids \in Nat
  BY LenProperties, InventoryAssumption DEF SetOK
<1>3. ParseReport(acc, rep).set =
        IF aip = "ISO15693" /\ UidLen[rep.tag] = 9 /\ Len(set) < MaxUids
        THEN Append(set, rep.tag) ELSE set
  BY DEF ParseReport, tag_report_handler, Room
<1>4. KeptIn(t, Len(t)) <=> AipOf[rep.tag] = "ISO15693" /\ UidLen[rep.tag] = 9
  BY <1>1 DEF KeptIn
<1>5. (\A r \in 1..Len(t) : t[r].aip) => rep.aip
  <2>1. Len(t) \in 1..Len(t)
    BY <1>1
  <2> QED
    BY <1>1, <2>1
<1>6. SetOK(set, s)
  OBVIOUS
<1> HIDE DEF aip, set
<1>7. CASE aip = "ISO15693" /\ UidLen[rep.tag] = 9 /\ Len(set) < MaxUids
  <2>1. (\A r \in 1..Len(t) : t[r].aip) => KeptIn(t, Len(t))
    BY <1>4, <1>5, <1>7 DEF aip
  <2>2. SetOK(Append(set, rep.tag), t)
    BY <1>6, <1>7, <2>1, TakeOne
  <2> QED
    BY <1>3, <1>7, <2>2
<1>8. CASE ~(aip = "ISO15693" /\ UidLen[rep.tag] = 9 /\ Len(set) < MaxUids)
  <2>1. (\A r \in 1..Len(t) : t[r].aip) => ~KeptIn(t, Len(t)) \/ Len(set) >= MaxUids
    <3>1. ASSUME \A r \in 1..Len(t) : t[r].aip, KeptIn(t, Len(t)) PROVE Len(set) >= MaxUids
      <4>1. aip = "ISO15693" /\ UidLen[rep.tag] = 9
        BY <1>4, <1>5, <3>1 DEF aip
      <4> QED
        BY <1>2, <1>8, <4>1
    <3> QED
      BY <3>1
  <2>2. SetOK(set, t)
    BY <1>6, <2>1, LeaveOne
  <2> QED
    BY <1>3, <1>8, <2>2
<1> QED
  BY <1>7, <1>8

\* The first n of some reports, and one more.
LEMMA PrefixNext ==
    ASSUME NEW s \in Seq(Report), NEW n \in Nat, n < Len(s)
    PROVE  /\ SubSeq(s, 1, n) \in Seq(Report)
           /\ s[n + 1] \in Report
           /\ SubSeq(s, 1, n + 1) = Append(SubSeq(s, 1, n), s[n + 1])
           /\ EachOnce(s) => EachOnce(SubSeq(s, 1, n + 1))
<1>1. Len(s) \in Nat /\ n + 1 \in 1..Len(s) /\ n \in 0..Len(s)
  BY LenProperties
<1> DEFINE p == SubSeq(s, 1, n)
           t == SubSeq(s, 1, n + 1)
<1>2. /\ p \in Seq(Report) /\ Len(p) = n /\ \A k \in 1..n : p[k] = s[k]
  BY <1>1, SubSeqProperties
<1>3. /\ t \in Seq(Report) /\ Len(t) = n + 1 /\ \A k \in 1..n + 1 : t[k] = s[k]
  BY <1>1, SubSeqProperties
<1> HIDE DEF p, t
<1>4. s[n + 1] \in Report
  BY <1>1
<1> DEFINE u == Append(p, s[n + 1])
<1>5. u \in Seq(Report) /\ Len(u) = n + 1 /\ u[n + 1] = s[n + 1] /\ \A k \in 1..n : u[k] = p[k]
  BY <1>2, <1>4
<1> HIDE DEF u
<1>6. \A k \in 1..n + 1 : k \in 1..n \/ k = n + 1
  OBVIOUS
<1>7. \A k \in 1..n + 1 : t[k] = u[k]
  BY <1>2, <1>3, <1>5, <1>6
<1>8. t = u
  BY <1>3, <1>5, <1>7, SeqEqual
<1>9. EachOnce(s) => EachOnce(t)
  <2>1. \A k \in 1..Len(t) : k \in 1..Len(s) /\ t[k] = s[k]
    BY <1>1, <1>3
  <2> QED
    BY <2>1 DEF EachOnce
<1> QED
  BY <1>2, <1>4, <1>8, <1>9 DEF p, t, u

\* Parsing the reports of an answer, behind those parsed before: every report
\* is parsed with what the one before it left.
LEMMA ParsedAll ==
    ASSUME NEW s \in Seq(Report), NEW reports \in Seq(Report), EachOnce(s \o reports),
           NEW acc, SetOK(acc.set, s)
    PROVE  SetOK(Parsed(acc, reports).set, s \o reports)
<1> DEFINE all == s \o reports
           m   == Len(s)
           n   == Len(reports)
<1>1. /\ all \in Seq(Report) /\ Len(all) = m + n /\ m \in Nat /\ n \in Nat
      /\ \A k \in 1..n : all[m + k] = reports[k]
      /\ \A k \in 1..m : all[k] = s[k]
  BY LenProperties, ConcatProperties
<1>2. EachOnce(all)
  OBVIOUS
<1> HIDE DEF all
<1>3. SubSeq(all, 1, m) = s /\ SubSeq(all, 1, m + n) = all
  <2>1. /\ SubSeq(all, 1, m) \in Seq(Report) /\ Len(SubSeq(all, 1, m)) = m
        /\ \A k \in 1..m : SubSeq(all, 1, m)[k] = all[k]
    BY <1>1, SubSeqProperties
  <2>2. SubSeq(all, 1, m) = s
    BY <1>1, <2>1, SeqEqual
  <2>3. /\ SubSeq(all, 1, m + n) \in Seq(Report) /\ Len(SubSeq(all, 1, m + n)) = m + n
        /\ \A k \in 1..m + n : SubSeq(all, 1, m + n)[k] = all[k]
    BY <1>1, SubSeqProperties
  <2>4. SubSeq(all, 1, m + n) = all
    BY <1>1, <2>3, SeqEqual
  <2> QED
    BY <2>2, <2>4
<1>4. PICK f : /\ f[0] = acc
               /\ \A k \in 1..n : f[k] = ParseReport(f[k - 1], reports[k])
               /\ Parsed(acc, reports) = f[n]
  BY <1>1, ParsedIs
<1> DEFINE S == {k \in Nat : k <= n => SetOK(f[k].set, SubSeq(all, 1, m + k))}
<1>5. 0 \in S
  <2>1. m + 0 = m
    BY <1>1
  <2> QED
    BY <1>3, <1>4, <2>1
<1>6. ASSUME NEW k \in Nat, k \in S
      PROVE  k + 1 \in S
  <2> SUFFICES ASSUME k + 1 <= n PROVE SetOK(f[k + 1].set, SubSeq(all, 1, m + (k + 1)))
    OBVIOUS
  <2>1. /\ k <= n /\ k + 1 \in 1..n /\ (k + 1) - 1 = k /\ m + (k + 1) = (m + k) + 1
        /\ m + k \in Nat /\ m + k < Len(all)
    BY <1>1
  <2>2. SetOK(f[k].set, SubSeq(all, 1, m + k))
    BY <1>6, <2>1
  <2>3. f[k + 1] = ParseReport(f[k], all[(m + k) + 1])
    BY <1>1, <1>4, <2>1
  <2>4. /\ SubSeq(all, 1, m + k) \in Seq(Report)
        /\ all[(m + k) + 1] \in Report
        /\ SubSeq(all, 1, (m + k) + 1) = Append(SubSeq(all, 1, m + k), all[(m + k) + 1])
        /\ EachOnce(SubSeq(all, 1, (m + k) + 1))
    BY <1>1, <1>2, <2>1, PrefixNext
  <2>5. SetOK(ParseReport(f[k], all[(m + k) + 1]).set, SubSeq(all, 1, (m + k) + 1))
    <3> DEFINE prefix == SubSeq(all, 1, m + k)
               rep    == all[(m + k) + 1]
               longer == SubSeq(all, 1, (m + k) + 1)
    <3>1. prefix \in Seq(Report) /\ rep \in Report /\ longer = Append(prefix, rep) /\ EachOnce(longer)
      BY <2>4
    <3>2. SetOK(f[k].set, prefix)
      BY <2>2
    <3> HIDE DEF prefix, rep, longer
    <3>3. SetOK(ParseReport(f[k], rep).set, longer)
      BY <3>1, <3>2, ParsedOne
    <3> QED
      BY <3>3 DEF prefix, rep, longer
  <2> QED
    BY <2>1, <2>3, <2>5
<1> HIDE DEF S
<1>7. n \in S
  BY <1>1, <1>5, <1>6, Induction
<1>8. SetOK(f[n].set, SubSeq(all, 1, m + n))
  BY <1>1, <1>7 DEF S
<1> QED
  BY <1>3, <1>4, <1>8 DEF all

-------------------------------------------------------------------------------
(***************************************************************************)
(* The invariant of the records.  Nothing of an earlier inventory is in    *)
(* the set once the handle is open, and the records written are those of   *)
(* the first tags of the set.                                              *)
(***************************************************************************)
NoneTwice(tags) == \A p, q \in 1..Len(tags) : tags[p] = tags[q] => p = q
Apart(tags, s)  == \A p \in 1..Len(tags), r \in 1..Len(s) : s[r].tag # tags[p]
WrittenSoFar ==
    /\ i < tagGetted /\ Len(tagUid) = i
    /\ \A k \in 1..i : k <= Len(tagReportSet) /\ tagUid[k].tag = tagReportSet[k]
RecordInv ==
    /\ InvTypeOK
    /\ reported \in Seq(Report) /\ EachOnce(reported)
    /\ phase = "opened" => reported = <<>>
    /\ phase \in {"opened", "buffered"} => i = 0 /\ tagUid = <<>>
    /\ phase = "buffered" => NoneTwice(repBuf) /\ Apart(repBuf, reported)
    /\ phase # "idle" => SetOK(tagReportSet, reported)
    /\ phase \in {"tags", "connected"} => WrittenSoFar
    /\ phase = "connected" => i < Len(tagReportSet)
    /\ RecordsWereReported

\* What a reader reports is a sequence of tags, none twice.
LEMMA ScanIs ==
    ASSUME NEW tags \in Scans
    PROVE  tags \in Seq(Tags) /\ NoneTwice(tags)
<1>1. PICK n \in 0..Cardinality(Tags) : tags \in [1..n -> Tags]
  BY DEF Scans
<1>2. tags \in Seq(Tags)
  <2>1. n \in Nat
    BY InventoryAssumption, FS_CardinalityType
  <2> QED
    BY <1>1, <2>1, SeqDef
<1>3. Len(tags) = n
  BY <1>1, <1>2, LenProperties
<1>4. DOMAIN tags = 1..n /\ IsInjective(tags)
  BY <1>1 DEF Scans
<1> QED
  BY <1>2, <1>3, <1>4 DEF NoneTwice, IsInjective

IsJoined(c, a, b, S) ==
    /\ c \in Seq(S) /\ Len(c) = Len(a) + Len(b)
    /\ \A k \in 1..Len(a) : c[k] = a[k]
    /\ \A k \in 1..Len(b) : c[Len(a) + k] = b[k]
LEMMA Joined ==
    ASSUME NEW S, NEW a \in Seq(S), NEW b \in Seq(S)
    PROVE  IsJoined(a \o b, a, b, S)
BY LenProperties, ConcatProperties DEF IsJoined

\* The parts of a transfer: reports behind those of this inventory, and the
\* tags still in the reader.
LEMMA Transferred ==
    ASSUME NEW tags \in Seq(Tags), NoneTwice(tags), NEW n \in 0..Len(tags), NEW m \in 0..n,
           NEW s \in Seq(Report), EachOnce(s), Apart(tags, s),
           NEW reports \in Seq(Report), Len(reports) = m,
           \A k \in 1..m : reports[k].tag = tags[k],
           NEW rest, rest = SubSeq(tags, n + 1, Len(tags))
    PROVE  /\ s \o reports \in Seq(Report) /\ EachOnce(s \o reports)
           /\ rest \in Seq(Tags) /\ NoneTwice(rest) /\ Apart(rest, s \o reports)
<1> DEFINE all == s \o reports
<1>1. Len(tags) \in Nat /\ Len(s) \in Nat /\ n \in Nat /\ m \in Nat /\ m <= n /\ n <= Len(tags)
  BY LenProperties
<1>2. /\ all \in Seq(Report) /\ Len(all) = Len(s) + m
      /\ \A k \in 1..Len(s) : all[k] = s[k]
      /\ \A k \in 1..m : all[Len(s) + k] = reports[k]
  <2>1. IsJoined(all, s, reports, Report)
    BY Joined
  <2> HIDE DEF all
  <2> QED
    BY <2>1 DEF IsJoined
<1> HIDE DEF all
<1>3. /\ rest \in Seq(Tags) /\ Len(rest) = Len(tags) - n
      /\ \A k \in 1..Len(tags) - n : rest[k] = tags[n + k]
  <2>1. n + 1 \in 1..Len(tags) + 1
    BY <1>1
  <2>2. Len(tags) - (n + 1) + 1 = Len(tags) - n /\ \A k \in 1..Len(tags) - n : (n + 1) + k - 1 = n + k
    BY <1>1
  <2>3. /\ rest \in Seq(Tags) /\ Len(rest) = Len(tags) - (n + 1) + 1
        /\ \A k \in 1..Len(tags) - (n + 1) + 1 : rest[k] = tags[(n + 1) + k - 1]
    <3>1. \A k \in (n + 1)..Len(tags) : tags[k] \in Tags
      BY <1>1
    <3>2. n + 1 <= Len(tags) + 1 /\ n + 1 \in Int /\ Len(tags) \in Int
      BY <1>1
    <3> QED
      BY <1>1, <3>1, <3>2, SubSeqProperties
  <2> QED
    BY <2>2, <2>3
<1>4. ASSUME NEW p \in 1..Len(all)
      PROVE  \/ p \in 1..Len(s) /\ all[p] = s[p]
             \/ p - Len(s) \in 1..m /\ p - Len(s) \in 1..Len(tags) /\ all[p].tag = tags[p - Len(s)]
  <2>1. p \in 1..Len(s) \/ (p - Len(s) \in 1..m /\ p = Len(s) + (p - Len(s)))
    BY <1>1, <1>2
  <2>2. \A k \in 1..m : k \in 1..Len(tags)
    BY <1>1
  <2> QED
    BY <1>2, <2>1, <2>2
<1>5. EachOnce(all)
  <2> SUFFICES ASSUME NEW p \in 1..Len(all), NEW q \in 1..Len(all), all[p].tag = all[q].tag
               PROVE  p = q
    BY DEF EachOnce
  <2>1. CASE p \in 1..Len(s) /\ q \in 1..Len(s) /\ all[p] = s[p] /\ all[q] = s[q]
    BY <2>1 DEF EachOnce
  <2>2. CASE p - Len(s) \in 1..Len(tags) /\ q - Len(s) \in 1..Len(tags)
             /\ all[p].tag = tags[p - Len(s)] /\ all[q].tag = tags[q - Len(s)]
    <3>1. p - Len(s) = q - Len(s)
      BY <2>2 DEF NoneTwice
    <3> QED
      BY <1>1, <1>2, <3>1
  <2> QED
    BY <1>4, <2>1, <2>2 DEF Apart
<1>6. \A k \in 1..Len(rest) : n + k \in 1..Len(tags) /\ n + k > n
  BY <1>1, <1>3
<1>7. NoneTwice(rest)
  <2> SUFFICES ASSUME NEW p \in 1..Len(rest), NEW q \in 1..Len(rest), rest[p] = rest[q]
               PROVE  p = q
    BY DEF NoneTwice
  <2>1. n + p = n + q
    BY <1>3, <1>6 DEF NoneTwice
  <2> QED
    BY <1>1, <1>3, <2>1
<1>8. Apart(rest, all)
  <2> SUFFICES ASSUME NEW p \in 1..Len(rest), NEW r \in 1..Len(all), all[r].tag = rest[p]
               PROVE  FALSE
    BY DEF Apart
  <2>1. rest[p] = tags[n + p] /\ n + p \in 1..Len(tags) /\ n + p > n
    BY <1>3, <1>6
  <2>2. CASE r \in 1..Len(s) /\ all[r] = s[r]
    BY <2>1, <2>2 DEF Apart
  <2>3. CASE r - Len(s) \in 1..m /\ r - Len(s) \in 1..Len(tags) /\ all[r].tag = tags[r - Len(s)]
    <3>1. r - Len(s) = n + p
      BY <2>1, <2>3 DEF NoneTwice
    <3> QED
      BY <1>1, <2>1, <2>3, <3>1
  <2> QED
    BY <1>4, <2>2, <2>3
<1> QED
  BY <1>2, <1>3, <1>5, <1>7, <1>8 DEF all

\* An answer to the inventory or to a request for more reports.
LEMMA TransferKeeps ==
    ASSUME RecordInv, phase \in {"opened", "buffered"},
           NEW tags \in Seq(Tags), NoneTwice(tags), Apart(tags, reported),
           NEW n \in 0..Len(tags), Transfer(tags, n),
           UNCHANGED <<i, tagUid, field, connected>>
    PROVE  RecordInv'
<1> DEFINE Some(m, bare) == [k \in 1..m |-> [tag |-> tags[k], aip |-> k \notin bare]]
           Then(m, bare) ==
             /\ reported' = reported \o Some(m, bare)
             /\ ParseReports(Some(m, bare))
             /\ IF m < n
                THEN Return("MSGSIZE", 0) /\ UNCHANGED <<tagGetted, nSumlen>>
                ELSE tagGetted' = tagGetted + n /\ Continue(Len(tags) - n)
<1>a. \E m \in 0..n : \E bare \in SUBSET (1..m) : Then(m, bare)
  BY DEF Transfer
<1> HIDE DEF Then
<1>b. PICK m \in 0..n : \E bare \in SUBSET (1..m) : Then(m, bare)
  BY <1>a
<1>c. PICK bare \in SUBSET (1..m) : Then(m, bare)
  BY <1>b
<1> DEFINE reports == Some(m, bare)
<1>2. Len(tags) \in Nat /\ n \in Nat /\ m \in Nat /\ m <= n /\ n <= Len(tags)
  BY LenProperties
<1>3. /\ reports \in Seq(Report) /\ Len(reports) = m
      /\ \A k \in 1..m : reports[k].tag = tags[k]
  <2>1. \A k \in 1..m : k \in 1..Len(tags)
    BY <1>2
  <2>2. \A k \in 1..m : tags[k] \in Tags
    BY <2>1
  <2>3. reports \in [1..m -> Report]
    BY <2>2 DEF Report
  <2>4. reports \in Seq(Report)
    BY <1>2, <2>3, SeqDef
  <2>5. DOMAIN reports = 1..m /\ DOMAIN reports = 1..Len(reports) /\ Len(reports) \in Nat
    BY <2>3, <2>4, LenProperties
  <2>6. \A k \in 1..m : reports[k].tag = tags[k]
    OBVIOUS
  <2> HIDE DEF reports
  <2> QED
    BY <1>2, <2>4, <2>5, <2>6
<1>4. /\ reported' = reported \o reports
      /\ ParseReports(reports)
      /\ \/ m < n /\ Return("MSGSIZE", 0) /\ UNCHANGED <<tagGetted, nSumlen>>
         \/ tagGetted' = tagGetted + n /\ Continue(Len(tags) - n)
  BY <1>c DEF Then
<1> HIDE DEF reports
<1>5. repBuf' = SubSeq(tags, n + 1, Len(tags))
  BY DEF Transfer
<1>6. /\ reported \in Seq(Report) /\ EachOnce(reported) /\ SetOK(tagReportSet, reported)
      /\ i = 0 /\ tagUid = <<>> /\ InvTypeOK
  BY DEF RecordInv
<1>7. /\ reported' \in Seq(Report) /\ EachOnce(reported')
      /\ repBuf' \in Seq(Tags) /\ NoneTwice(repBuf') /\ Apart(repBuf', reported')
  BY <1>3, <1>4, <1>5, <1>6, Transferred
<1>8. SetOK(tagReportSet', reported')
  <2>1. PICK repAIP \in {"ISO15693", "ISO14443A"} :
           tagReportSet' = Parsed([repAIP |-> repAIP, set |-> tagReportSet], reports).set
    BY <1>4 DEF ParseReports
  <2> DEFINE acc == [repAIP |-> repAIP, set |-> tagReportSet]
  <2>2. acc.set = tagReportSet
    OBVIOUS
  <2>3. tagReportSet' = Parsed(acc, reports).set
    BY <2>1
  <2> HIDE DEF acc
  <2>4. SetOK(acc.set, reported) /\ EachOnce(reported \o reports)
    BY <1>4, <1>6, <1>7, <2>2
  <2> QED
    BY <1>3, <1>4, <1>6, <2>3, <2>4, ParsedAll
<1>9. /\ i' = 0 /\ tagUid' = <<>> /\ field' = field /\ connected' = connected
  BY <1>6
\* Where the call goes on.
<1>10. /\ phase' \in {"idle", "buffered", "tags"} /\ tagGetted' \in Nat
       /\ phase' = "tags" => tagGetted' # 0
       /\ nlen' \in Nat /\ nSumlen' \in Nat /\ iret' \in {"OK", "LINK", "MSGSIZE", "ARG"}
  <2>1. tagGetted \in Nat /\ nlen \in Nat /\ nSumlen \in Nat /\ iret \in {"OK", "LINK", "MSGSIZE", "ARG"}
    BY <1>6 DEF InvTypeOK
  <2>2. CASE Return("MSGSIZE", 0) /\ UNCHANGED <<tagGetted, nSumlen>>
    BY <2>1, <2>2 DEF Return
  <2>3. CASE tagGetted' = tagGetted + n /\ Continue(Len(tags) - n)
    <3>1. tagGetted' \in Nat
      BY <1>2, <2>1, <2>3
    <3>2. \/ phase' = "buffered" /\ UNCHANGED <<nlen, nSumlen, iret>>
          \/ Return("ARG", 0) /\ UNCHANGED nSumlen
          \/ /\ nSumlen' = nlen /\ nlen' = 0 /\ iret' = "OK"
             /\ phase' = IF tagGetted' = 0 THEN "idle" ELSE "tags"
      BY <2>3 DEF Continue
    <3> QED
      BY <2>1, <3>1, <3>2 DEF Return
  <2> QED
    BY <1>4, <2>2, <2>3
<1>11. Len(tagUid') = 0 /\ tagUid' \in Seq([tag : Tags, user : [tag : Tags \cup {Nobody}, len : {0, 32}]])
  BY <1>9
<1>12. InvTypeOK'
  <2>1. tagReportSet' \in Seq(Tags) /\ Len(tagReportSet') <= MaxUids
    BY <1>8 DEF SetOK
  <2>2. field' \subseteq Tags /\ connected' \in Tags \cup {Nobody}
    BY <1>6, <1>9 DEF InvTypeOK
  <2>3. i' \in 0..tagGetted'
    BY <1>9, <1>10
  <2> QED
    BY <1>7, <1>10, <1>11, <2>1, <2>2, <2>3 DEF InvTypeOK
<1>13. RecordsWereReported'
  BY <1>11 DEF RecordsWereReported
<1>14. phase' = "tags" => WrittenSoFar'
  <2>1. phase' = "tags" => i' < tagGetted'
    BY <1>9, <1>10
  <2>2. Len(tagUid') = i' /\ \A k \in 1..i' : FALSE
    BY <1>9, <1>11
  <2> QED
    BY <2>1, <2>2 DEF WrittenSoFar
<1> QED
  BY <1>7, <1>8, <1>9, <1>10, <1>12, <1>13, <1>14 DEF RecordInv

LEMMA RecordInvInit == Init => RecordInv
<1> SUFFICES ASSUME Init PROVE RecordInv
  OBVIOUS
<1>1. /\ phase = "idle" /\ tagReportSet = <<>> /\ tagGetted = 0 /\ i = 0
      /\ nlen = 0 /\ nSumlen = 0 /\ iret = "OK" /\ tagUid = <<>>
      /\ field \subseteq Tags /\ repBuf = <<>> /\ reported = <<>> /\ connected = Nobody
  BY DEF Init
<1>2. <<>> \in Seq(Report) /\ <<>> \in Seq(Tags) /\ Len(<<>>) = 0
      /\ <<>> \in Seq([tag : Tags, user : [tag : Tags \cup {Nobody}, len : {0, 32}]])
  OBVIOUS
<1>3. InvTypeOK
  BY <1>1, <1>2, InventoryAssumption DEF InvTypeOK
<1>4. EachOnce(reported) /\ RecordsWereReported
  BY <1>1, <1>2 DEF EachOnce, RecordsWereReported
<1> QED
  BY <1>1, <1>2, <1>3, <1>4 DEF RecordInv

LEMMA StartKeeps ==
    ASSUME RecordInv, NEW size \in BufSizes, Start(size)
    PROVE  RecordInv'
<1>1. /\ tagGetted' = 0 /\ i' = 0 /\ nSumlen' = size /\ tagUid' = <<>>
      /\ reported' = <<>> /\ repBuf' = <<>> /\ connected' = Nobody /\ field' = field
  BY DEF Start
<1>2. \/ tagReportSet' = <<>> /\ nlen' = size /\ phase' = "opened" /\ iret' = iret
      \/ iret' = "LINK" /\ nlen' = 0 /\ phase' = "idle" /\ tagReportSet' = tagReportSet
  BY DEF Start, Return, Cleared
<1>3. /\ size \in Nat /\ InvTypeOK
  BY InventoryAssumption DEF RecordInv
<1>4. <<>> \in Seq(Report) /\ <<>> \in Seq(Tags) /\ Len(<<>>) = 0
      /\ <<>> \in Seq([tag : Tags, user : [tag : Tags \cup {Nobody}, len : {0, 32}]])
  OBVIOUS
<1>5. InvTypeOK'
  <2>1. tagReportSet' \in Seq(Tags) /\ Len(tagReportSet') <= MaxUids
    <3>1. tagReportSet \in Seq(Tags) /\ Len(tagReportSet) <= MaxUids
      BY <1>3 DEF InvTypeOK
    <3>2. 0 <= MaxUids
      BY InventoryAssumption
    <3>3. tagReportSet' = <<>> \/ tagReportSet' = tagReportSet
      BY <1>2
    <3> QED
      BY <1>4, <3>1, <3>2, <3>3
  <2>2. field' \subseteq Tags /\ iret' \in {"OK", "LINK", "MSGSIZE", "ARG"}
    BY <1>1, <1>2, <1>3 DEF InvTypeOK
  <2> QED
    BY <1>1, <1>2, <1>3, <1>4, <2>1, <2>2 DEF InvTypeOK
<1>6. EachOnce(reported') /\ RecordsWereReported'
  BY <1>1, <1>4 DEF EachOnce, RecordsWereReported
<1>7. phase' = "opened" => SetOK(tagReportSet', reported')
  <2>1. Number(<<>>, 0) = 0
    <3>1. UpTo(<<>>, 0) = {}
      BY DEF UpTo
    <3> QED
      BY <3>1, FS_EmptySet DEF Number
  <2>2. AreReported(<<>>, <<>>) /\ AllKept(<<>>, <<>>)
    BY <1>4, <2>1, InventoryAssumption DEF AreReported, AllKept
  <2>3. SetOK(<<>>, <<>>)
    BY <1>4, <2>2, InventoryAssumption DEF SetOK
  <2> QED
    BY <1>1, <1>2, <2>3
<1> QED
  BY <1>1, <1>2, <1>4, <1>5, <1>6, <1>7 DEF RecordInv

LEMMA ReadKeeps == ASSUME RecordInv, ReadTag PROVE RecordInv'
<1>1. /\ phase = "connected" /\ InvTypeOK /\ SetOK(tagReportSet, reported) /\ WrittenSoFar
      /\ i < Len(tagReportSet) /\ reported \in Seq(Report) /\ EachOnce(reported)
      /\ RecordsWereReported
  BY DEF ReadTag, RecordInv
<1>2. /\ tagUid' = Append(tagUid, [tag |-> tagReportSet[i + 1], user |-> user'])
      /\ nlen' = nlen + RecSize /\ i' = i + 1
      /\ phase' \in {"idle", "tags"} /\ (phase' = "tags" => i' # tagGetted)
      /\ iret' \in {"OK", "LINK"}
      /\ user' \in {[tag |-> connected, len |-> 32], NoUser}
  BY <1>1 DEF ReadTag
<1>3. /\ tagReportSet' = tagReportSet /\ tagGetted' = tagGetted /\ nSumlen' = nSumlen
      /\ field' = field /\ repBuf' = repBuf /\ reported' = reported /\ connected' = connected
  BY DEF ReadTag, readerVars
<1>4. /\ i \in Nat /\ tagGetted \in Nat /\ i < tagGetted /\ Len(tagUid) = i
      /\ Len(tagReportSet) \in Nat /\ tagReportSet \in Seq(Tags) /\ i + 1 \in 1..Len(tagReportSet)
  <2>1. tagGetted \in Nat /\ i \in 0..tagGetted /\ tagReportSet \in Seq(Tags)
    BY <1>1 DEF InvTypeOK
  <2>2. Len(tagReportSet) \in Nat
    BY <2>1, LenProperties
  <2> QED
    BY <1>1, <2>1, <2>2 DEF WrittenSoFar
<1> DEFINE Rec == [tag : Tags, user : [tag : Tags \cup {Nobody}, len : {0, 32}]]
           new == [tag |-> tagReportSet[i + 1], user |-> user']
<1>5. tagUid \in Seq(Rec) /\ new \in Rec /\ new.tag = tagReportSet[i + 1]
  <2>1. tagUid \in Seq(Rec) /\ connected \in Tags \cup {Nobody}
    BY <1>1 DEF InvTypeOK
  <2>2. tagReportSet[i + 1] \in Tags
    BY <1>4
  <2>3. user' \in [tag : Tags \cup {Nobody}, len : {0, 32}]
    BY <1>2, <2>1 DEF NoUser
  <2> QED
    BY <2>1, <2>2, <2>3
<1>6. tagUid' = Append(tagUid, new)
  BY <1>2
<1> HIDE DEF Rec, new
<1>7. /\ tagUid' \in Seq(Rec) /\ Len(tagUid') = i + 1
      /\ \A k \in 1..i : tagUid'[k] = tagUid[k]
      /\ tagUid'[i + 1] = new
  BY <1>4, <1>5, <1>6
<1>8. \A k \in 1..i + 1 : k \in 1..Len(tagReportSet) /\ tagUid'[k].tag = tagReportSet[k]
  <2>1. \A k \in 1..i + 1 : k \in 1..i \/ k = i + 1
    BY <1>4
  <2>2. \A k \in 1..i : k \in 1..Len(tagReportSet) /\ tagUid'[k].tag = tagReportSet[k]
    BY <1>1, <1>4, <1>7 DEF WrittenSoFar
  <2> QED
    BY <1>4, <1>5, <1>7, <2>1, <2>2
<1>9. RecordsWereReported'
  BY <1>1, <1>3, <1>7, <1>8 DEF SetOK, AreReported, RecordsWereReported
<1>10. InvTypeOK'
  <2>1. nlen' \in Nat /\ i' \in 0..tagGetted'
    BY <1>1, <1>2, <1>3, <1>4, InventoryAssumption DEF InvTypeOK
  <2>2. tagUid' \in Seq([tag : Tags, user : [tag : Tags \cup {Nobody}, len : {0, 32}]])
    BY <1>7 DEF Rec
  <2> QED
    BY <1>1, <1>2, <1>3, <2>1, <2>2 DEF InvTypeOK
<1>11. phase' = "tags" => WrittenSoFar'
  <2>1. phase' = "tags" => i' < tagGetted'
    BY <1>2, <1>3, <1>4
  <2>2. /\ Len(tagUid') = i' /\ \A k \in 1..i' : k <= Len(tagReportSet') /\ tagUid'[k].tag = tagReportSet'[k]
    BY <1>2, <1>3, <1>4, <1>7, <1>8
  <2> QED
    BY <2>1, <2>2 DEF WrittenSoFar
<1> QED
  BY <1>1, <1>2, <1>3, <1>9, <1>10, <1>11 DEF RecordInv

LEMMA RecordStep == RecordInv /\ [Next]_vars => RecordInv'
<1> SUFFICES ASSUME RecordInv, [Next]_vars PROVE RecordInv'
  OBVIOUS
<1>1. ASSUME NEW size \in BufSizes, Start(size)
      PROVE  RecordInv'
  BY <1>1, StartKeeps
<1>2. CASE Inventory
  <2>1. PICK tags \in Scans : \E n \in 0..Len(tags) : Transfer(tags, n)
    BY <1>2 DEF Inventory
  <2>2. PICK n \in 0..Len(tags) : Transfer(tags, n)
    BY <2>1
  <2>3. phase = "opened" /\ UNCHANGED <<i, tagUid, field, connected>>
    BY <1>2 DEF Inventory
  <2>4. Apart(tags, reported)
    <3>1. reported = <<>>
      BY <2>3 DEF RecordInv
    <3>2. Len(reported) = 0
      BY <3>1
    <3> QED
      BY <3>2 DEF Apart
  <2>5. tags \in Seq(Tags) /\ NoneTwice(tags)
    BY ScanIs
  <2> QED
    BY <2>2, <2>3, <2>4, <2>5, TransferKeeps
<1>3. CASE GetTagBuffer
  <2>1. PICK n \in 0..Len(repBuf) : Transfer(repBuf, n)
    BY <1>3 DEF GetTagBuffer
  <2>2. phase = "buffered" /\ UNCHANGED <<i, tagUid, field, connected>>
    BY <1>3 DEF GetTagBuffer
  <2>3. repBuf \in Seq(Tags) /\ NoneTwice(repBuf) /\ Apart(repBuf, reported)
    BY <2>2 DEF RecordInv, InvTypeOK
  <2> QED
    BY <2>1, <2>2, <2>3, TransferKeeps
<1>4. CASE TagConnect
  <2>1. /\ phase = "tags"
        /\ UNCHANGED <<tagReportSet, tagGetted, i, nSumlen, tagUid, field, repBuf, reported>>
    BY <1>4 DEF TagConnect
  <2>2. \/ UidAt(i) \in field /\ connected' = UidAt(i) /\ phase' = "connected" /\ UNCHANGED <<nlen, iret>>
        \/ iret' = "LINK" /\ nlen' = 0 /\ phase' = "idle" /\ connected' = connected
    BY <1>4 DEF TagConnect, Return
  <2>3. InvTypeOK'
    BY <2>1, <2>2 DEF RecordInv, InvTypeOK
  <2>4. phase' = "connected" => i' < Len(tagReportSet')
    <3>1. field \subseteq Tags /\ Len(tagReportSet) \in Nat /\ i \in Int
      BY LenProperties DEF RecordInv, InvTypeOK
    <3>2. UidAt(i) \in field => i < Len(tagReportSet)
      BY <3>1, NobodyAssumption DEF UidAt
    <3> QED
      BY <2>1, <2>2, <3>2
  <2>5. WrittenSoFar' /\ RecordsWereReported'
    BY <2>1 DEF RecordInv, WrittenSoFar, RecordsWereReported
  <2> QED
    BY <2>1, <2>2, <2>3, <2>4, <2>5 DEF RecordInv
<1>5. CASE ReadTag
  BY <1>5, ReadKeeps
<1>6. CASE ExchangeFails
  <2>1. /\ phase' = "idle" /\ iret' = "LINK" /\ nlen' = 0
        /\ UNCHANGED <<tagReportSet, tagGetted, i, nSumlen, tagUid, field, repBuf, reported, connected>>
    BY <1>6 DEF ExchangeFails, Return, readerVars
  <2>2. InvTypeOK' /\ RecordsWereReported'
    BY <2>1 DEF RecordInv, InvTypeOK, RecordsWereReported
  <2> QED
    BY <2>1, <2>2 DEF RecordInv
<1>7. CASE TagMoves \/ UNCHANGED vars
  <2>1. /\ UNCHANGED <<phase, tagReportSet, tagGetted, i, nlen, nSumlen, iret, tagUid, repBuf, reported, connected>>
        /\ field' \subseteq Tags
    BY <1>7 DEF TagMoves, vars, dllVars, readerVars, RecordInv, InvTypeOK
  <2>2. InvTypeOK' /\ RecordsWereReported' /\ (WrittenSoFar => WrittenSoFar')
    BY <2>1 DEF RecordInv, InvTypeOK, RecordsWereReported, WrittenSoFar
  <2> QED
    BY <2>1, <2>2 DEF RecordInv
<1> QED
  BY <1>1, <1>2, <1>3, <1>4, <1>5, <1>6, <1>7 DEF Next, Exchange

\* The set is what the handler keeps of the reports, and the records are those
\* of the set up to the loop's index, in every reachable state.
THEOREM RecordInvariant == Spec => []RecordInv
BY RecordInvInit, RecordStep, PTL DEF Spec

\* The set never holds more tags than it has room for, and the index of the
\* loop stays below the tags counted, for any number of tags and reports.
THEOREM InventoryTyped == Spec => []InvTypeOK
<1>1. RecordInv => InvTypeOK
  BY DEF RecordInv
<1> QED
  BY <1>1, RecordInvariant, PTL

\* The records handed over are tags reported in this inventory, each once,
\* however the reports were cut into answers and whatever failed before.
THEOREM RecordsAreReported == Spec => []RecordsWereReported
<1>1. RecordInv => RecordsWereReported
  BY DEF RecordInv
<1> QED
  BY <1>1, RecordInvariant, PTL

\* Reports that all name their protocol are kept in full, in their order, up
\* to the room of the set.
THEOREM ReportsAreStored == Spec => []ReportsStored
<1>1. RecordInv => ReportsStored
  <2> SUFFICES ASSUME RecordInv, phase \in {"tags", "connected"},
                      \A k \in DOMAIN reported : reported[k].aip
               PROVE  AllKept(tagReportSet, reported)
    <3>1. reported \in Seq(Report) => DOMAIN reported = 1..Len(reported)
      BY LenProperties
    <3> QED
      BY <3>1 DEF ReportsStored, AllKept, Number, UpTo, KeptIn, RecordInv
  <2>1. DOMAIN reported = 1..Len(reported)
    BY LenProperties DEF RecordInv
  <2>2. SetOK(tagReportSet, reported)
    BY DEF RecordInv
  <2> QED
    BY <2>1, <2>2 DEF SetOK
<1> QED
  BY <1>1, RecordInvariant, PTL
==============================================================================
