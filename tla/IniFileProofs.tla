---------------------------- MODULE IniFileProofs ----------------------------
(***************************************************************************)
(* For every number of processes and all calls: that no update of the file *)
(* is lost, whatever the calls make of the text (that proof never expands  *)
(* Edited); that what they make of it is a text; and what a reader is      *)
(* told, who has no lock.                                                  *)
(***************************************************************************)
EXTENDS IniFile, FiniteSetTheorems, WellFoundedInduction, TLAPS

-------------------------------------------------------------------------------
(* The lock.                                                                *)

\* A process has the lock from where F_SETLKW returns to where it gives up or
\* has written.
HoldsLock == \A p \in Procs : pc[p] \in {"locked", "read", "truncated"} => holder = p

IsOverProcs(f) == f = [p \in Procs |-> f[p]]
Shapes == IsOverProcs(pc) /\ IsOverProcs(old) /\ IsOverProcs(trouble)

\* NoUpdateLost alone is not inductive: that nobody else is past its
\* F_SETLKW is what HoldsLock says.
IniInv == Shapes /\ HoldsLock /\ NoUpdateLost

LEMMA IniInvInit == Init => IniInv
  BY DEF Init, IniInv, Shapes, IsOverProcs, HoldsLock, NoUpdateLost, ReadIsCurrent, EmptiedIsEmpty

\* A step that leaves the file alone, ends at another place than behind the
\* lock, and gives up the lock only if it is its own.
LEMMA StepOutside ==
  ASSUME IniInv, NEW p \in Procs, UNCHANGED file,
         NEW l \in {"idle", "opened", "sized", "done"}, Goto(p, l),
         holder' = holder \/ holder = p,
         IsOverProcs(old'), IsOverProcs(trouble'),
         \A q \in Procs \ {p} : old'[q] = old[q] /\ trouble'[q] = trouble[q]
  PROVE  IniInv'
<1>1. IsOverProcs(pc)' /\ pc'[p] = l /\ \A q \in Procs \ {p} : pc'[q] = pc[q]
  BY DEF IniInv, Shapes, IsOverProcs, Goto
<1>2. Shapes'
  BY <1>1 DEF Shapes, IsOverProcs
<1>3. HoldsLock'
  <2> SUFFICES ASSUME NEW q \in Procs, pc'[q] \in {"locked", "read", "truncated"}
               PROVE  holder' = q
    BY DEF HoldsLock
  <2>1. q # p
    BY <1>1
  <2>2. holder = q
    BY <1>1, <2>1 DEF IniInv, HoldsLock
  <2> QED
    BY <2>1, <2>2
<1>4. NoUpdateLost'
  <2>1. ReadIsCurrent'
    BY <1>1 DEF IniInv, NoUpdateLost, ReadIsCurrent
  <2>2. EmptiedIsEmpty'
    BY <1>1 DEF IniInv, NoUpdateLost, EmptiedIsEmpty
  <2> QED
    BY <2>1, <2>2 DEF NoUpdateLost
<1> QED
  BY <1>2, <1>3, <1>4 DEF IniInv

\* Who has the lock is alone behind it.
LEMMA AloneBehindLock ==
  ASSUME IniInv, NEW p \in Procs, holder = p
  PROVE  \A q \in Procs \ {p} : pc[q] \notin {"locked", "read", "truncated"}
  BY DEF IniInv, HoldsLock

\* A step behind the lock, of the process that has it.
LEMMA StepInside ==
  ASSUME IniInv, NEW p \in Procs, NEW l, Goto(p, l),
         holder' = p,
         \A q \in Procs \ {p} : pc[q] \notin {"locked", "read", "truncated"},
         IsOverProcs(old'), IsOverProcs(trouble'),
         l = "read" /\ ~trouble'[p] => file' = old'[p],
         l = "truncated" => file' = NoFile
  PROVE  IniInv'
<1>1. IsOverProcs(pc)' /\ pc'[p] = l /\ \A q \in Procs \ {p} : pc'[q] = pc[q]
  BY DEF IniInv, Shapes, IsOverProcs, Goto
<1>2. Shapes'
  BY <1>1 DEF Shapes, IsOverProcs
<1>3. HoldsLock'
  BY <1>1 DEF HoldsLock
<1>4. NoUpdateLost'
  <2>1. ReadIsCurrent'
    BY <1>1 DEF ReadIsCurrent
  <2>2. EmptiedIsEmpty'
    BY <1>1 DEF EmptiedIsEmpty
  <2> QED
    BY <2>1, <2>2 DEF NoUpdateLost
<1> QED
  BY <1>2, <1>3, <1>4 DEF IniInv

LEMMA IniInvStep == IniInv /\ [Next]_vars => IniInv'
<1> SUFFICES ASSUME IniInv, [Next]_vars PROVE IniInv'
  OBVIOUS
<1>0. Shapes
  BY DEF IniInv
<1>1. ASSUME NEW p \in Procs, NEW c \in Calls, Write(p, c) PROVE IniInv'
  <2>1. UNCHANGED file /\ UNCHANGED holder /\ UNCHANGED old /\ UNCHANGED trouble
    BY <1>1 DEF Write
  <2>2. \E l \in {"idle", "opened", "sized", "done"} : Goto(p, l)
    BY <1>1 DEF Write, Return
  <2> QED
    BY <2>1, <2>2, <1>0, StepOutside DEF Shapes, IsOverProcs
<1>2. ASSUME NEW p \in Procs, NEW c \in Calls, ReadSize(p, c) PROVE IniInv'
  <2>1. UNCHANGED file /\ UNCHANGED holder /\ UNCHANGED old /\ UNCHANGED trouble
    BY <1>2 DEF ReadSize
  <2>2. \E l \in {"idle", "opened", "sized", "done"} : Goto(p, l)
    BY <1>2 DEF ReadSize
  <2> QED
    BY <2>1, <2>2, <1>0, StepOutside DEF Shapes, IsOverProcs
<1>3. ASSUME NEW p \in Procs, _nLockFile(p) PROVE IniInv'
  <2>1. /\ holder = NoProc /\ holder' = p /\ Goto(p, "locked")
        /\ UNCHANGED old /\ UNCHANGED trouble
    BY <1>3 DEF _nLockFile, Free
  <2>2. \A q \in Procs \ {p} : pc[q] \notin {"locked", "read", "truncated"}
    BY <2>1, IniFileAssumption DEF IniInv, HoldsLock
  <2> QED
    BY <2>1, <2>2, <1>0, StepInside DEF Shapes, IsOverProcs
<1>4. ASSUME NEW p \in Procs, ReadLocked(p) PROVE IniInv'
  <2>1. PICK f \in {file, NoFile} : /\ old' = [old EXCEPT ![p] = f]
                                    /\ trouble' = [trouble EXCEPT ![p] = f # file]
    BY <1>4 DEF ReadLocked
  <2>2. UNCHANGED file /\ UNCHANGED holder /\ Goto(p, "read") /\ pc[p] = "locked"
    BY <1>4 DEF ReadLocked
  <2>3. holder = p
    BY <2>2 DEF IniInv, HoldsLock
  <2>4. /\ IsOverProcs(old') /\ IsOverProcs(trouble')
        /\ old'[p] = f /\ trouble'[p] = (f # file)
    BY <2>1, <1>0 DEF Shapes, IsOverProcs
  <2> QED
    BY <2>2, <2>3, <2>4, AloneBehindLock, StepInside
<1>5. ASSUME NEW p \in Procs, Truncate(p) PROVE IniInv'
  <2>1. /\ pc[p] = "read" /\ UNCHANGED holder /\ old' = [old EXCEPT ![p] = NoFile]
    BY <1>5 DEF Truncate
  <2>2. \/ Goto(p, "done") /\ UNCHANGED trouble
        \/ /\ file' = NoFile /\ Goto(p, "truncated")
           /\ \E t : trouble' = [trouble EXCEPT ![p] = t]
    BY <1>5 DEF Truncate, Return, Rewritten
  <2>3. holder = p
    BY <2>1 DEF IniInv, HoldsLock
  <2>4. IsOverProcs(old') /\ IsOverProcs(trouble')
    BY <2>1, <2>2, <1>0 DEF Shapes, IsOverProcs
  <2> QED
    BY <2>1, <2>2, <2>3, <2>4, AloneBehindLock, StepInside
<1>6. ASSUME NEW p \in Procs, WriteData(p) PROVE IniInv'
  <2>1. /\ pc[p] = "truncated" /\ UNCHANGED holder /\ UNCHANGED old /\ Goto(p, "done")
        /\ \E t : trouble' = [trouble EXCEPT ![p] = t]
    BY <1>6 DEF WriteData, Return
  <2>2. holder = p
    BY <2>1 DEF IniInv, HoldsLock
  <2>3. IsOverProcs(old') /\ IsOverProcs(trouble')
    BY <2>1, <1>0 DEF Shapes, IsOverProcs
  <2> QED
    BY <2>1, <2>2, <2>3, AloneBehindLock, StepInside
<1>7. ASSUME NEW p \in Procs, ReadText(p) PROVE IniInv'
  <2>1. /\ UNCHANGED file /\ UNCHANGED holder /\ UNCHANGED old /\ UNCHANGED trouble
        /\ Goto(p, "done")
    BY <1>7 DEF ReadText, Return
  <2> QED
    BY <2>1, <1>0, StepOutside DEF Shapes, IsOverProcs
<1>8. ASSUME NEW p \in Procs, Leave(p), Goto(p, "idle") \/ Goto(p, "opened") PROVE IniInv'
  <2>1. /\ UNCHANGED file /\ holder' = IF holder = p THEN NoProc ELSE holder
        /\ old' = [old EXCEPT ![p] = NoFile] /\ trouble' = [trouble EXCEPT ![p] = FALSE]
    BY <1>8 DEF Leave
  <2>2. /\ IsOverProcs(old') /\ IsOverProcs(trouble')
        /\ \A q \in Procs \ {p} : old'[q] = old[q] /\ trouble'[q] = trouble[q]
    BY <2>1, <1>0 DEF Shapes, IsOverProcs
  <2> QED
    BY <2>1, <2>2, <1>8, StepOutside
<1>9. ASSUME NEW p \in Procs, Close(p) \/ Dies(p) PROVE IniInv'
  <2>1. Leave(p) /\ (Goto(p, "idle") \/ Goto(p, "opened"))
    BY <1>9 DEF Close, Dies
  <2> QED
    BY <2>1, <1>8
<1>10. CASE UNCHANGED vars
  BY <1>10 DEF vars, iniVars, IniInv, Shapes, IsOverProcs, HoldsLock,
               NoUpdateLost, ReadIsCurrent, EmptiedIsEmpty
<1> QED
  BY <1>1, <1>2, <1>3, <1>4, <1>5, <1>6, <1>7, <1>9, <1>10 DEF Next, Step

\* Between the read and the write of one process no other process changes the
\* file, however many use it, whenever they die and whatever the edits are.
THEOREM NoUpdateIsLost == Spec => []NoUpdateLost
<1>1. IniInv => NoUpdateLost
  BY DEF IniInv
<1> QED
  BY IniInvInit, IniInvStep, <1>1, PTL DEF Spec

-------------------------------------------------------------------------------
(* Numbers.                                                                 *)

LEMMA Minimal ==
    ASSUME NEW T, T \subseteq Nat, T # {}
    PROVE  \E x \in T : \A y \in T : x <= y
<1> DEFINE R == OpToRel(<, Nat)
<1>1. IsWellFoundedOn(R, Nat)
  BY NatLessThanWellFounded
<1>2. \A x, y \in Nat : y < x => <<y, x>> \in R
  BY DEF OpToRel
<1> HIDE DEF R
<1>3. PICK x \in T : \A y \in T : ~(<<y, x>> \in R)
  BY <1>1, WFMin
<1>4. \A y \in T : ~(y < x)
  BY <1>2, <1>3
<1>5. x \in Nat /\ \A y \in T : y \in Nat
  OBVIOUS
<1> QED
  BY <1>4, <1>5

LEMMA Induction ==
    ASSUME NEW S, 0 \in S, \A n \in Nat : n \in S => n + 1 \in S
    PROVE  Nat \subseteq S
<1> SUFFICES ASSUME Nat \ S # {} PROVE FALSE
  OBVIOUS
<1>1. PICK x \in Nat \ S : \A y \in Nat \ S : x <= y
  BY Minimal
<1>2. x # 0
  BY <1>1
<1>3. x - 1 \in Nat /\ ~(x <= x - 1) /\ (x - 1) + 1 = x
  BY <1>2
<1>4. x - 1 \in S
  BY <1>1, <1>3
<1> QED
  BY <1>1, <1>3, <1>4

LEMMA LeastIs ==
    ASSUME NEW T, T \subseteq Nat, T # {}
    PROVE  Min(T) \in T /\ \A y \in T : Min(T) <= y
BY Minimal DEF Min

LEMMA GreatestIs ==
    ASSUME NEW T, T \subseteq Nat, NEW n \in T, \A y \in T : y <= n
    PROVE  Max(T) = n
<1> DEFINE P(x) == x \in T /\ \A y \in T : x >= y
<1>1. P(n)
  OBVIOUS
<1>2. Max(T) \in T /\ \A y \in T : Max(T) >= y
  BY <1>1 DEF Max
<1>3. Max(T) >= n /\ Max(T) <= n /\ Max(T) \in Nat
  BY <1>2
<1> QED
  BY <1>3

-------------------------------------------------------------------------------
(* Folds of the library.                                                    *)

LEMMA FlattenIs ==
    ASSUME NEW S, NEW seqs \in Seq(Seq(S))
    PROVE  FlattenSeq(seqs) \in Seq(S)
<1> DEFINE n == Len(seqs)
           Flat(k, h) == h = [i \in 1..k |-> IF i = 1 THEN seqs[i] ELSE h[i - 1] \o seqs[i]]
           N == {k \in Nat : k <= n => \E h \in [1..k -> Seq(S)] : Flat(k, h)}
           f == CHOOSE h : Flat(n, h)
<1>1. CASE n = 0
  <2>1. seqs = <<>>
    BY <1>1
  <2> QED
    BY <2>1, <1>1 DEF FlattenSeq
<1>2. CASE n # 0
  <2>1. FlattenSeq(seqs) = f[n]
    BY <1>2 DEF FlattenSeq
  <2>2. 0 \in N
    <3>1. [i \in 1..0 |-> <<>>] \in [1..0 -> Seq(S)] /\ Flat(0, [i \in 1..0 |-> <<>>])
      OBVIOUS
    <3> QED
      BY <3>1
  <2>3. ASSUME NEW k \in Nat, k \in N, k + 1 <= n
        PROVE  \E h \in [1..(k + 1) -> Seq(S)] : Flat(k + 1, h)
    <3>0. k <= n
      BY <2>3
    <3>1. PICK h \in [1..k -> Seq(S)] : Flat(k, h)
      <4> HIDE DEF Flat
      <4> QED
        BY <2>3, <3>0
    <3> DEFINE g == [i \in 1..(k + 1) |-> IF i <= k THEN h[i]
                                        ELSE IF k = 0 THEN seqs[1] ELSE h[k] \o seqs[k + 1]]
    <3>2. g \in [1..(k + 1) -> Seq(S)]
      <4> SUFFICES ASSUME NEW i \in 1..(k + 1) PROVE g[i] \in Seq(S)
        OBVIOUS
      <4>1. seqs[1] \in Seq(S) /\ seqs[k + 1] \in Seq(S)
        BY <2>3
      <4>2. k # 0 => h[k] \in Seq(S)
        OBVIOUS
      <4>3. k # 0 => h[k] \o seqs[k + 1] \in Seq(S)
        BY <4>1, <4>2
      <4> QED
        BY <4>1, <4>3
    <3>3. ASSUME NEW i \in 1..(k + 1)
          PROVE  g[i] = IF i = 1 THEN seqs[i] ELSE g[i - 1] \o seqs[i]
      <4>1. CASE i <= k
        <5>1. i \in 1..k /\ g[i] = h[i] /\ (i # 1 => i - 1 \in 1..k /\ i - 1 \in 1..(k + 1) /\ g[i - 1] = h[i - 1])
          BY <4>1
        <5>2. h[i] = IF i = 1 THEN seqs[i] ELSE h[i - 1] \o seqs[i]
          BY <3>1, <5>1
        <5> QED
          BY <5>1, <5>2
      <4>2. CASE i = k + 1
        <5>1. k # 0 => i # 1 /\ i - 1 = k /\ g[k] = h[k] /\ g[i] = h[k] \o seqs[i]
          <6> SUFFICES ASSUME k # 0 PROVE i # 1 /\ i - 1 = k /\ g[k] = h[k] /\ g[i] = h[k] \o seqs[i]
            OBVIOUS
          <6>1. i # 1 /\ i - 1 = k /\ k \in 1..(k + 1) /\ ~(i <= k)
            BY <4>2
          <6> QED
            BY <4>2, <6>1
        <5>2. k = 0 => i = 1 /\ g[i] = seqs[1]
          BY <4>2
        <5> QED
          BY <5>1, <5>2
      <4> QED
        BY <4>1, <4>2
    <3>4. Flat(k + 1, g)
      <4>1. g = [i \in 1..(k + 1) |-> g[i]]
        OBVIOUS
      <4> HIDE DEF g
      <4> QED
        BY <3>3, <4>1
    <3> HIDE DEF g, Flat
    <3> QED
      BY <3>2, <3>4
  <2>4. n \in N
    <3>1. \A k \in Nat : k \in N => k + 1 \in N
      <4> SUFFICES ASSUME NEW k \in Nat, k \in N PROVE k + 1 \in N
        OBVIOUS
      <4>1. k + 1 \in Nat
        OBVIOUS
      <4> HIDE DEF Flat
      <4> QED
        BY <2>3, <4>1
    <3> HIDE DEF N
    <3> QED
      BY <2>2, <3>1, Induction
  <2>5. Flat(n, f)
    <3>1. \E h : Flat(n, h)
      <4> HIDE DEF Flat
      <4> QED
        BY <2>4
    <3> HIDE DEF Flat
    <3> QED
      BY <3>1
  <2> DEFINE M == {k \in Nat : k \in 1..n => f[k] \in Seq(S)}
  <2> HIDE DEF f
  <2>6. \A k \in Nat : k \in M => k + 1 \in M
    <3> SUFFICES ASSUME NEW k \in Nat, k \in M, k + 1 \in 1..n PROVE f[k + 1] \in Seq(S)
      <4>1. \A k \in Nat : k + 1 \in Nat
        OBVIOUS
      <4> HIDE DEF Flat
      <4> QED
        BY <4>1
    <3>1. f[k + 1] = IF k + 1 = 1 THEN seqs[k + 1] ELSE f[(k + 1) - 1] \o seqs[k + 1]
      BY <2>5
    <3>2. (k + 1) - 1 = k /\ seqs[k + 1] \in Seq(S) /\ (k + 1 # 1 => f[k] \in Seq(S))
      OBVIOUS
    <3> QED
      BY <3>1, <3>2
  <2>7. 0 \in M
    OBVIOUS
  <2>8. n \in M
    <3> HIDE DEF M
    <3> QED
      BY <2>6, <2>7, Induction
  <2> QED
    BY <1>2, <2>1, <2>8
<1> QED
  BY <1>1, <1>2

LEMMA AddLineType ==
    ASSUME NEW lines \in Seq(Line), NEW next \in Line
    PROVE  AddLine(lines, next) \in Seq(Line)
<1>1. CASE Ends(lines)
  BY <1>1 DEF AddLine
<1>2. CASE ~Ends(lines)
  <2>1. lines # <<>> /\ Len(lines) \in Nat /\ Len(lines) # 0
    BY <1>2 DEF Ends
  <2>2. Last(lines) \in Line /\ Front(lines) \in Seq(Line)
    BY <2>1 DEF Last, Front
  <2>3. Takes(Last(lines), next) \in Line
    BY <2>2 DEF Takes, Line
  <2> QED
    BY <1>2, <2>2, <2>3 DEF AddLine
<1> QED
  BY <1>1, <1>2

LEMMA FoldIs ==
    ASSUME NEW b \in Seq(Line)
    PROVE  FoldLeft(AddLine, <<>>, b) \in Seq(Line)
<1> DEFINE n == Len(b)
           Iter(k, h) == h = [s \in SUBSET (1..k) |->
                                IF s = {} THEN <<>> ELSE AddLine(h[s \ {Max(s)}], b[Max(s)])]
           N == {k \in Nat : k <= n => \E h : Iter(k, h)}
           f == CHOOSE h : Iter(n, h)
<1>1. FoldLeft(AddLine, <<>>, b) = f[1..n]
  <2>1. DOMAIN b = 1..n
    OBVIOUS
  <2> QED
    BY <2>1 DEF FoldLeft, MapThenFoldSet
<1>2. 0 \in N
  <2>1. Iter(0, [s \in SUBSET (1..0) |-> <<>>])
    <3>1. \A s \in SUBSET (1..0) : s = {}
      OBVIOUS
    <3> QED
      BY <3>1
  <2> QED
    BY <2>1
<1>3. ASSUME NEW k \in Nat, k \in N, k + 1 <= n
      PROVE  \E h : Iter(k + 1, h)
  <2>0. k <= n
    BY <1>3
  <2>1. PICK h : Iter(k, h)
    <3> HIDE DEF Iter
    <3> QED
      BY <1>3, <2>0
  <2> DEFINE g == [s \in SUBSET (1..(k + 1)) |->
                     IF k + 1 \in s THEN AddLine(h[s \ {k + 1}], b[k + 1]) ELSE h[s]]
  <2>2. ASSUME NEW s \in SUBSET (1..(k + 1))
        PROVE  g[s] = IF s = {} THEN <<>> ELSE AddLine(g[s \ {Max(s)}], b[Max(s)])
    <3>1. CASE k + 1 \in s
      <4>1. Max(s) = k + 1
        <5>1. s \subseteq Nat /\ \A y \in s : y <= k + 1
          OBVIOUS
        <5> QED
          BY <3>1, <5>1, GreatestIs
      <4>2. s \ {k + 1} \in SUBSET (1..(k + 1)) /\ k + 1 \notin s \ {k + 1}
        OBVIOUS
      <4>3. g[s \ {k + 1}] = h[s \ {k + 1}]
        BY <4>2
      <4> QED
        BY <3>1, <4>1, <4>3
    <3>2. CASE k + 1 \notin s
      <4>1. s \in SUBSET (1..k)
        BY <3>2
      <4>2. g[s] = h[s]
        BY <3>2
      <4>3. h[s] = IF s = {} THEN <<>> ELSE AddLine(h[s \ {Max(s)}], b[Max(s)])
        BY <2>1, <4>1
      <4>4. s \ {Max(s)} \in SUBSET (1..(k + 1)) /\ k + 1 \notin s \ {Max(s)}
        BY <3>2
      <4>5. g[s \ {Max(s)}] = h[s \ {Max(s)}]
        BY <4>4
      <4> QED
        BY <4>2, <4>3, <4>5
    <3> QED
      BY <3>1, <3>2
  <2>3. Iter(k + 1, g)
    <3>1. g = [s \in SUBSET (1..(k + 1)) |-> g[s]]
      OBVIOUS
    <3> HIDE DEF g
    <3> QED
      BY <2>2, <3>1
  <2> HIDE DEF g, Iter
  <2> QED
    BY <2>3
<1>4. n \in N
  <2>1. \A k \in Nat : k \in N => k + 1 \in N
    <3> SUFFICES ASSUME NEW k \in Nat, k \in N PROVE k + 1 \in N
      OBVIOUS
    <3>1. k + 1 \in Nat
      OBVIOUS
    <3> HIDE DEF Iter
    <3> QED
      BY <1>3, <3>1
  <2> HIDE DEF N
  <2> QED
    BY <1>2, <2>1, Induction
<1>5. Iter(n, f)
  <2> HIDE DEF Iter
  <2> QED
    BY <1>4
<1> DEFINE M == {k \in Nat : k <= n => f[1..k] \in Seq(Line)}
<1> HIDE DEF f
<1>6. 0 \in M
  <2>1. {} \in SUBSET (1..n) /\ 1..0 = {}
    OBVIOUS
  <2>2. f[{}] = <<>>
    BY <1>5, <2>1
  <2>3. <<>> \in Seq(Line)
    OBVIOUS
  <2> QED
    BY <2>1, <2>2, <2>3
<1>7. \A k \in Nat : k \in M => k + 1 \in M
  <2> SUFFICES ASSUME NEW k \in Nat, k \in M, k + 1 <= n PROVE f[1..(k + 1)] \in Seq(Line)
    OBVIOUS
  <2> DEFINE s == 1..(k + 1)
  <2>1. Max(s) = k + 1
    <3>1. s \subseteq Nat /\ k + 1 \in s /\ \A y \in s : y <= k + 1
      OBVIOUS
    <3> HIDE DEF s
    <3> QED
      BY <3>1, GreatestIs
  <2>2. s \ {k + 1} = 1..k /\ s \in SUBSET (1..n) /\ s # {} /\ k + 1 \in 1..n
    <3>1. s \ {k + 1} = 1..k
      OBVIOUS
    <3>2. n \in Nat
      OBVIOUS
    <3>3. s \in SUBSET (1..n) /\ k + 1 \in s
      BY <3>2
    <3> HIDE DEF s
    <3> QED
      BY <3>1, <3>3
  <2>3. f[1..k] \in Seq(Line) /\ b[k + 1] \in Line
    <3>1. k <= n
      OBVIOUS
    <3> QED
      BY <2>2, <3>1
  <2> HIDE DEF s
  <2>4. f[s] = AddLine(f[s \ {Max(s)}], b[Max(s)])
    BY <1>5, <2>2
  <2>5. f[s] \in Seq(Line)
    BY <2>1, <2>2, <2>3, <2>4, AddLineType
  <2> QED
    BY <2>5 DEF s
<1>8. n \in M
  <2> HIDE DEF M
  <2> QED
    BY <1>6, <1>7, Induction
<1> QED
  BY <1>1, <1>8

-------------------------------------------------------------------------------
(* Texts.                                                                   *)

LEMMA JoinedType ==
    ASSUME NEW b \in Seq(Line)
    PROVE  Joined(b) \in Seq(Line)
BY FoldIs DEF Joined

LEMMA UnitsType ==
    ASSUME NEW lines \in Seq(Line), NEW m \in 0..Len(lines)
    PROVE  Units(lines, m) \in Nat /\ m <= Units(lines, m)
<1> DEFINE T == {l \in 1..m : lines[l].kind = "item"}
<1>1. IsFiniteSet(1..m) /\ T \in SUBSET (1..m)
  BY FS_Interval
<1>2. IsFiniteSet(T)
  BY <1>1, FS_Subset
<1>3. Cardinality(T) \in Nat
  BY <1>2, FS_CardinalityType
<1> HIDE DEF T
<1> QED
  BY <1>3 DEF Units, T

LEMMA PrefixType ==
    ASSUME NEW lines \in Seq(Line), NEW n \in Nat
    PROVE  Prefix(lines, n) \in Seq(Line)
<1> DEFINE W     == {m \in DOMAIN lines : Units(lines, m) <= n}
           whole == Cardinality(W)
           half  == IF Units(lines, whole) < n /\ whole < Len(lines)
                    THEN <<Open([lines[whole + 1] EXCEPT !.value = Damaged])>> ELSE <<>>
<1>1. IsFiniteSet(1..Len(lines)) /\ Cardinality(1..Len(lines)) = Len(lines) /\ W \in SUBSET (1..Len(lines))
  <2>1. W \in SUBSET (1..Len(lines))
    OBVIOUS
  <2>2. Len(lines) \in Nat
    OBVIOUS
  <2>3. Cardinality(1..Len(lines)) = IF 1 > Len(lines) THEN 0 ELSE Len(lines) - 1 + 1
    BY <2>2, FS_Interval
  <2>4. Cardinality(1..Len(lines)) = Len(lines)
    BY <2>2, <2>3
  <2> QED
    BY <2>1, <2>2, <2>4, FS_Interval
<1>2. IsFiniteSet(W) /\ whole <= Len(lines)
  BY <1>1, FS_Subset
<1>3. whole \in Nat
  BY <1>2, FS_CardinalityType
<1> HIDE DEF W, whole
<1>4. half \in Seq(Line)
  <2>1. CASE whole < Len(lines)
    <3>1. lines[whole + 1] \in Line
      BY <1>3, <2>1
    <3>2. Open([lines[whole + 1] EXCEPT !.value = Damaged]) \in Line
      BY <3>1 DEF Line, Open
    <3> QED
      BY <3>2
  <2>2. CASE ~(whole < Len(lines))
    BY <2>2
  <2> QED
    BY <2>1, <2>2
<1>5. SubSeq(lines, 1, whole) \in Seq(Line)
  BY <1>2, <1>3
<1> HIDE DEF half
<1>6. SubSeq(lines, 1, whole) \o half \in Seq(Line)
  BY <1>4, <1>5
<1> QED
  BY <1>6 DEF Prefix, half, whole, W

LEMMA HeaderIs ==
    ASSUME NEW lines \in Seq(Line), NEW s
    PROVE  LET h == HeaderAt(lines, s)
               I == {n \in 1..Len(lines) : IsSection(lines[n]) /\ lines[n].name = s}
           IN  \/ h = 0 /\ I = {}
               \/ h \in I /\ \A n \in I : h <= n
<1> DEFINE I == {n \in 1..Len(lines) : IsSection(lines[n]) /\ lines[n].name = s}
<1>1. HeaderAt(lines, s) = IF I # {} THEN Min(I) ELSE 0
  BY DEF HeaderAt, SelectInSeq
<1>2. I \subseteq Nat
  OBVIOUS
<1> HIDE DEF I
<1>3. I # {} => Min(I) \in I /\ \A n \in I : Min(I) <= n
  BY <1>2, LeastIs
<1> QED
  BY <1>1, <1>3 DEF I

LEMMA SectionEndIs ==
    ASSUME NEW lines \in Seq(Line), NEW h \in 0..Len(lines)
    PROVE  /\ SectionEnd(lines, h) \in (h + 1)..(Len(lines) + 1)
           /\ SectionEnd(lines, h) <= Len(lines) => IsSection(lines[SectionEnd(lines, h)])
           /\ \A n \in (h + 1)..(SectionEnd(lines, h) - 1) : ~IsSection(lines[n])
<1> DEFINE T == {n \in h + 1..Len(lines) : IsSection(lines[n])} \cup {Len(lines) + 1}
<1>1. T \subseteq Nat /\ T # {} /\ Len(lines) \in Nat
  OBVIOUS
<1>2. Min(T) \in T /\ \A n \in T : Min(T) <= n
  <2> HIDE DEF T
  <2> QED
    BY <1>1, LeastIs
<1>3. SectionEnd(lines, h) = Min(T)
  BY DEF SectionEnd
<1> DEFINE e == SectionEnd(lines, h)
<1>4. e \in T /\ \A n \in T : e <= n
  BY <1>2, <1>3
<1> HIDE DEF e
<1>5. e \in (h + 1)..(Len(lines) + 1)
  BY <1>1, <1>4
<1>6. e <= Len(lines) => IsSection(lines[e])
  BY <1>1, <1>4, <1>5
<1>7. ASSUME NEW n \in (h + 1)..(e - 1) PROVE ~IsSection(lines[n])
  <2>1. n \in (h + 1)..Len(lines) /\ ~(e <= n)
    BY <1>1, <1>5
  <2> QED
    BY <1>4, <2>1
<1> QED
  BY <1>5, <1>6, <1>7 DEF e

LEMMA KeysAre ==
    ASSUME NEW lines \in Seq(Line), NEW h \in 0..Len(lines), NEW k
    PROVE  LET K == KeysOf(lines, h, k)
           IN  /\ K \subseteq (h + 1)..Len(lines) /\ K \subseteq DOMAIN lines
               /\ K # {} => Min(K) \in K /\ \A n \in K : Min(K) <= n
<1> DEFINE K == KeysOf(lines, h, k)
<1>1. K \subseteq (h + 1)..Len(lines)
  <2>1. SectionEnd(lines, h) \in (h + 1)..(Len(lines) + 1) /\ Len(lines) \in Nat
    BY SectionEndIs
  <2>2. ASSUME NEW n \in K PROVE n \in (h + 1)..Len(lines)
    <3>1. n \in (h + 1)..(SectionEnd(lines, h) - 1)
      BY DEF KeysOf
    <3> QED
      BY <2>1, <3>1
  <2> QED
    BY <2>2
<1> HIDE DEF K
<1>2. K \subseteq DOMAIN lines /\ K \subseteq Nat
  BY <1>1
<1> QED
  BY <1>1, <1>2, LeastIs DEF K

LEMMA ValueType ==
    ASSUME NEW lines \in Seq(Line), NEW s, NEW k
    PROVE  _GetPrivateProfileItemValue(lines, s, k) \in Values \cup {Absent, Damaged}
<1> DEFINE h == HeaderAt(lines, s)
           K == KeysOf(lines, h, k)
<1>1. h \in 0..Len(lines)
  BY HeaderIs
<1> HIDE DEF h
<1>2. K # {} => Min(K) \in DOMAIN lines
  BY <1>1, KeysAre
<1> HIDE DEF K
<1>3. K # {} => lines[Min(K)].value \in Values \cup {Absent, Damaged}
  <2> SUFFICES ASSUME K # {} PROVE lines[Min(K)].value \in Values \cup {Absent, Damaged}
    OBVIOUS
  <2>1. lines[Min(K)] \in Line
    BY <1>2
  <2> QED
    BY <2>1 DEF Line
<1> QED
  BY <1>3 DEF _GetPrivateProfileItemValue, h, K

-------------------------------------------------------------------------------
(* Edits.                                                                   *)

LEMMA InsertType ==
    ASSUME NEW lines \in Seq(Line), NEW n \in 1..Len(lines), NEW l \in Line
    PROVE  InsertAt(lines, n, l) \in Seq(Line)
<1>1. SubSeq(lines, 1, n - 1) \in Seq(Line) /\ SubSeq(lines, n, Len(lines)) \in Seq(Line)
  OBVIOUS
<1>2. <<l>> \in Seq(Line)
  OBVIOUS
<1> QED
  BY <1>1, <1>2 DEF InsertAt

LEMMA ItemType == \A k \in Keys : \A v \in Values : Item(k, v) \in Line
BY DEF Item, Line

LEMMA HeaderType == \A s \in Sections : Header(s) \in Line
BY DEF Header, Line

LEMMA SetValueType ==
    ASSUME NEW lines \in Seq(Line), NEW s \in Sections, NEW k \in Keys, NEW v \in Values
    PROVE  SetValue(lines, s, k, v) \in Seq(Line)
<1> DEFINE h     == HeaderAt(lines, s)
           e     == SectionEnd(lines, h)
           found == KeysOf(lines, h, k)
           last  == Len(lines)
<1>1. Header(s) \in Line /\ Item(k, v) \in Line
  BY ItemType, HeaderType
<1>2. h \in 0..last /\ last \in Nat
  BY HeaderIs
<1>3. e \in (h + 1)..(last + 1)
  BY <1>2, SectionEndIs
<1>4. found # {} => Min(found) \in DOMAIN lines
  BY <1>2, KeysAre
<1> HIDE DEF h, e, found
<1>5. CASE h = 0
  BY <1>1, <1>5 DEF SetValue, h
<1>6. CASE h # 0 /\ found # {}
  <2>1. lines[Min(found)] \in Line
    BY <1>4, <1>6
  <2>2. [lines[Min(found)] EXCEPT !.value = v, !.nl = TRUE] \in Line
    BY <2>1 DEF Line
  <2>3. ReplaceAt(lines, Min(found), [lines[Min(found)] EXCEPT !.value = v, !.nl = TRUE]) \in Seq(Line)
    BY <1>4, <1>6, <2>2 DEF ReplaceAt
  <2> QED
    BY <1>6, <2>3 DEF SetValue, h, found
<1>7. CASE h # 0 /\ found = {} /\ e <= last
  <2>1. e \in 1..last
    BY <1>2, <1>3, <1>7
  <2>2. InsertAt(lines, e, Item(k, v)) \in Seq(Line)
    BY <1>1, <2>1, InsertType
  <2> QED
    BY <1>7, <2>2 DEF SetValue, h, found, e
<1>8. CASE h # 0 /\ found = {} /\ ~(e <= last)
  <2>1. h < last => last \in 1..last
    BY <1>2
  <2>2. h < last => InsertAt(lines, last, Item(k, v)) \in Seq(Line)
    BY <1>1, <2>1, InsertType
  <2>3. Append(lines, Item(k, v)) \in Seq(Line)
    BY <1>1
  <2> QED
    BY <1>8, <2>2, <2>3 DEF SetValue, h, found, e
<1> QED
  BY <1>5, <1>6, <1>7, <1>8

LEMMA RemoveKeyType ==
    ASSUME NEW lines \in Seq(Line), NEW s, NEW k
    PROVE  RemoveKey(lines, s, k) \in Seq(Line)
<1> DEFINE h == HeaderAt(lines, s)
           K == KeysOf(lines, h, k)
<1>1. h \in 0..Len(lines)
  BY HeaderIs
<1> HIDE DEF h
<1>2. K # {} => Min(K) \in DOMAIN lines
  BY <1>1, KeysAre
<1> HIDE DEF K
<1>3. ASSUME NEW n \in DOMAIN lines PROVE RemoveAt(lines, n) \in Seq(Line)
  <2>1. SubSeq(lines, 1, n - 1) \in Seq(Line) /\ SubSeq(lines, n + 1, Len(lines)) \in Seq(Line)
    OBVIOUS
  <2> QED
    BY <2>1 DEF RemoveAt
<1> QED
  BY <1>2, <1>3 DEF RemoveKey, h, K

LEMMA PickedType ==
    ASSUME NEW lines \in Seq(Line), NEW keep
    PROVE  Picked(lines, keep) \in Seq(Line)
<1> DEFINE parts == [n \in DOMAIN lines |-> IF n \in keep THEN <<lines[n]>> ELSE <<>>]
<1>1. parts \in Seq(Seq(Line))
  <2>1. ASSUME NEW n \in DOMAIN lines PROVE parts[n] \in Seq(Line)
    OBVIOUS
  <2>2. DOMAIN parts = 1..Len(lines) /\ Len(lines) \in Nat /\ parts \in [1..Len(lines) -> Seq(Line)]
    BY <2>1
  <2> HIDE DEF parts
  <2> QED
    BY <2>2
<1> HIDE DEF parts
<1> QED
  BY <1>1, FlattenIs DEF Picked, parts

LEMMA ReplaceSectionType ==
    ASSUME NEW lines \in Seq(Line), NEW s \in Sections, NEW items \in Seq(Line)
    PROVE  ReplaceSection(lines, s, items) \in Seq(Line)
<1> DEFINE gone  == LinesOf(lines, s)
           parts == [n \in DOMAIN lines |->
                       IF n \notin gone THEN <<lines[n]>>
                       ELSE IF IsSection(lines[n]) THEN <<lines[n]>> \o items
                       ELSE <<>>]
<1> HIDE DEF gone
<1>1. parts \in Seq(Seq(Line))
  <2>1. ASSUME NEW n \in DOMAIN lines PROVE parts[n] \in Seq(Line)
    <3>1. <<lines[n]>> \in Seq(Line)
      OBVIOUS
    <3>2. <<lines[n]>> \o items \in Seq(Line)
      BY <3>1
    <3> QED
      BY <3>1, <3>2
  <2>2. DOMAIN parts = 1..Len(lines) /\ Len(lines) \in Nat /\ parts \in [1..Len(lines) -> Seq(Line)]
    BY <2>1
  <2> HIDE DEF parts
  <2> QED
    BY <2>2
<1>2. <<Header(s)>> \in Seq(Line)
  BY HeaderType
<1>3. lines \o <<Header(s)>> \o items \in Seq(Line)
  BY <1>2
<1> HIDE DEF parts
<1> QED
  BY <1>1, <1>3, FlattenIs DEF ReplaceSection, parts, gone

\* The edits that a call asks for, as IniFile makes them.
Edits == [op : {"set", "replace"}, s : Sections, k : Keys, v : Values]
         \cup [op : {"remove"}, s : Sections, k : Keys, v : {Absent}]
         \cup [op : {"drop", "delete", "clear"}, s : Sections, k : {Absent}, v : {Absent}]

LEMMA EditedType ==
    ASSUME NEW lines \in Seq(Line), NEW c \in Edits
    PROVE  Edited(lines, c) \in Seq(Line)
<1>1. c.s \in Sections /\ c.op \in {"set", "replace", "remove", "drop", "delete", "clear"}
  BY DEF Edits
<1>2. CASE c.op \in {"set", "replace"}
  <2>1. c.k \in Keys /\ c.v \in Values
    BY <1>2 DEF Edits
  <2>2. <<Item(c.k, c.v)>> \in Seq(Line)
    BY <2>1, ItemType
  <2>3. SetValue(lines, c.s, c.k, c.v) \in Seq(Line)
    BY <1>1, <2>1, SetValueType
  <2>4. ReplaceSection(lines, c.s, <<Item(c.k, c.v)>>) \in Seq(Line)
    BY <1>1, <2>2, ReplaceSectionType
  <2> QED
    BY <1>2, <2>3, <2>4 DEF Edited
<1>3. CASE c.op = "remove"
  BY <1>3, RemoveKeyType DEF Edited
<1>4. CASE c.op \in {"drop", "delete"}
  BY <1>4, PickedType DEF Edited, RemoveSection, DeleteSection
<1>5. CASE c.op = "clear"
  <2>1. <<>> \in Seq(Line)
    OBVIOUS
  <2>2. ReplaceSection(lines, c.s, <<>>) \in Seq(Line)
    BY <1>1, <2>1, ReplaceSectionType
  <2> QED
    BY <1>5, <2>2 DEF Edited
<1> QED
  BY <1>1, <1>2, <1>3, <1>4, <1>5

LEMMA DecodedType ==
    ASSUME NEW f \in Files, NEW lines \in Decoded(f)
    PROVE  lines \in Seq(Line)
<1>1. f.lines \in Seq(Line)
  BY DEF Files
<1>2. Scrap \in Seq(Line)
  <2>1. Open(Other) \in Line
    BY DEF Open, Other, Line
  <2> QED
    BY <2>1 DEF Scrap
<1>3. f.lines \o Scrap \in Seq(Line)
  BY <1>1, <1>2
<1>4. Joined(f.lines \o Scrap) \in Seq(Line)
  BY <1>3, JoinedType
<1>5. lines \in {f.lines, Joined(f.lines \o Scrap), Scrap}
  BY DEF Decoded
<1> QED
  BY <1>1, <1>2, <1>4, <1>5

LEMMA CodedType ==
    ASSUME NEW f \in Files, NEW format \in Codings(f), NEW lines \in Seq(Line)
    PROVE  Coded(format, lines) \in Files
<1>1. Scrap \in Seq(Line)
  <2>1. Open(Other) \in Line
    BY DEF Open, Other, Line
  <2> QED
    BY <2>1 DEF Scrap
<1> QED
  BY <1>1 DEF Coded, Files

LEMMA SavedType ==
    ASSUME NEW f \in Files
    PROVE  Saved(f) \in [store : [Sections \X Keys -> Values \cup {Absent, Damaged}],
                         names : SUBSET Sections, form : {"clean", "loose", "coded"}]
<1>1. f.lines \in Seq(Line)
  BY DEF Files
<1>2. Table(f) \in [Sections \X Keys -> Values \cup {Absent, Damaged}]
  <2>1. ASSUME NEW x \in Sections \X Keys
        PROVE  (IF f.format = "raw" THEN Absent ELSE _GetPrivateProfileItemValue(f.lines, x[1], x[2]))
               \in Values \cup {Absent, Damaged}
    BY <1>1, ValueType
  <2> QED
    BY <2>1 DEF Table
<1>3. Named(f) \subseteq Sections
  BY DEF Named
<1> DEFINE form == IF f.format # "text" THEN "coded"
                   ELSE IF Ends(f.lines) /\ ~HasKeyTwice(f.lines) THEN "clean" ELSE "loose"
<1>4. form \in {"clean", "loose", "coded"}
  OBVIOUS
<1> HIDE DEF form
<1> QED
  BY <1>2, <1>3, <1>4 DEF Saved, form

-------------------------------------------------------------------------------
(* Types.                                                                   *)

Places  == {"idle", "opened", "locked", "read", "truncated", "sized", "done"}
Asked   == {NoCall} \cup Calls
           \cup [op : {"clear"}, s : Sections, k : {Absent}, v : {Absent}]
Answers == {"true", "false", Found, Absent, Damaged} \cup Values
Saves   == [store : [Sections \X Keys -> Values \cup {Absent, Damaged}],
            names : SUBSET Sections, form : {"clean", "loose", "coded"}]

\* A process that has the file open to write it is in a call that edits it, one
\* that has it open to read is in one that does not.
RightCall == \A p \in Procs : /\ pc[p] \in {"opened", "locked", "read"} => call[p] \in Edits
                              /\ pc[p] = "sized" => call[p] \in Calls /\ IsRead(call[p])
IniTypeInv == IniTypeOK /\ RightCall

Shared == /\ file \in Files /\ holder \in Procs \cup {NoProc} /\ saved \in Saves
Local  == /\ pc \in [Procs -> Places] /\ call \in [Procs -> Asked]
          /\ old \in [Procs -> Files] /\ out \in [Procs -> Files] /\ size \in [Procs -> Nat]
          /\ result \in [Procs -> Answers]
Marks  == /\ writes \in 0..MaxWrites /\ faults \in 0..MaxFaults
          /\ disturbed \in [Procs -> BOOLEAN] /\ trouble \in [Procs -> BOOLEAN]

LEMMA TypeParts == IniTypeOK <=> Shared /\ Local /\ Marks
BY DEF IniTypeOK, Shared, Local, Marks, Places, Asked, Answers, Saves

LEMMA NoFileType == NoFile \in Files
<1>1. <<>> \in Seq(Line)
  OBVIOUS
<1> QED
  BY <1>1 DEF NoFile, Files

LEMMA FaultType == ASSUME NEW b \in BOOLEAN, faults \in 0..MaxFaults, Fault(b)
                   PROVE  faults' \in 0..MaxFaults
BY IniFileAssumption DEF Fault

LEMMA CallTypes ==
    ASSUME NEW c \in Calls
    PROVE  /\ ~IsRead(c) => c \in Edits
           /\ c.op = "section" => [c EXCEPT !.op = "clear"] \in [op : {"clear"}, s : Sections, k : {Absent}, v : {Absent}]
           /\ c.op = "get" => c.k \in Keys
           /\ c.s \in Sections
<1>1. c \in [op : {"set", "replace"}, s : Sections, k : Keys, v : Values]
           \cup [op : {"get", "remove"}, s : Sections, k : Keys, v : {Absent}]
           \cup [op : {"names", "section", "drop", "delete"}, s : Sections, k : {Absent}, v : {Absent}]
  BY IniFileAssumption
<1>2. CASE c \in [op : {"set", "replace"}, s : Sections, k : Keys, v : Values]
  BY <1>2 DEF Edits, IsRead
<1>3. CASE c \in [op : {"get", "remove"}, s : Sections, k : Keys, v : {Absent}]
  BY <1>3 DEF Edits, IsRead
<1>4. CASE c \in [op : {"names", "section", "drop", "delete"}, s : Sections, k : {Absent}, v : {Absent}]
  BY <1>4 DEF Edits, IsRead
<1> QED
  BY <1>1, <1>2, <1>3, <1>4

LEMMA GotoType == ASSUME NEW p \in Procs, NEW l \in Places, pc \in [Procs -> Places], Goto(p, l)
                  PROVE  /\ pc' \in [Procs -> Places] /\ pc'[p] = l
                         /\ \A q \in Procs \ {p} : pc'[q] = pc[q]
BY DEF Goto

LEMMA ReturnType == ASSUME NEW p \in Procs, NEW r \in Answers, result \in [Procs -> Answers],
                           pc \in [Procs -> Places], Return(p, r)
                    PROVE  /\ pc' \in [Procs -> Places] /\ pc'[p] = "done"
                           /\ \A q \in Procs \ {p} : pc'[q] = pc[q]
                           /\ result' \in [Procs -> Answers]
BY DEF Return, Goto, Places

\* Only p has gone on, to a place where nothing is asked of its call.
LEMMA OthersCalls ==
    ASSUME RightCall, NEW p \in Procs,
           \A q \in Procs \ {p} : pc'[q] = pc[q] /\ call'[q] = call[q],
           /\ pc'[p] \in {"opened", "locked", "read"} => call'[p] \in Edits
           /\ pc'[p] = "sized" => call'[p] \in Calls /\ IsRead(call'[p])
    PROVE  RightCall'
<1> SUFFICES ASSUME NEW q \in Procs
             PROVE  /\ pc'[q] \in {"opened", "locked", "read"} => call'[q] \in Edits
                    /\ pc'[q] = "sized" => call'[q] \in Calls /\ IsRead(call'[q])
  BY DEF RightCall, IsRead
<1>1. CASE q = p
  BY <1>1
<1>2. CASE q # p
  BY <1>2 DEF RightCall
<1> QED
  BY <1>1, <1>2

LEMMA AnswerType ==
    ASSUME NEW lines \in Seq(Line), NEW c
    PROVE  Answer(lines, c) \in Answers
<1>1. _GetPrivateProfileItemValue(lines, c.s, c.k) \in Answers
  BY ValueType DEF Answers
<1> QED
  BY <1>1 DEF Answer, Answers

LEMMA IniTypeInit == Init => IniTypeInv
<1> SUFFICES ASSUME Init PROVE IniTypeInv
  OBVIOUS
<1>1. file \in Files
  BY IniFileAssumption DEF Init, Files
<1>2. saved \in Saves
  BY <1>1, SavedType DEF Init, Saves
<1>3. Local
  BY NoFileType DEF Init, Local, Places, Asked, Answers
<1>4. Marks
  BY IniFileAssumption DEF Init, Marks
<1>5. RightCall
  BY DEF Init, RightCall
<1>6. Shared
  BY <1>1, <1>2 DEF Init, Shared
<1> QED
  BY <1>3, <1>4, <1>5, <1>6, TypeParts DEF IniTypeInv

LEMMA IniTypeStep == IniTypeInv /\ [Next]_vars => IniTypeInv'
<1> SUFFICES ASSUME IniTypeInv, [Next]_vars PROVE IniTypeInv'
  OBVIOUS
<1>a. Shared /\ Local /\ Marks /\ RightCall
  BY TypeParts DEF IniTypeInv
<1>b. /\ pc \in [Procs -> Places] /\ call \in [Procs -> Asked]
      /\ old \in [Procs -> Files] /\ out \in [Procs -> Files] /\ size \in [Procs -> Nat]
      /\ result \in [Procs -> Answers]
  BY <1>a DEF Local
<1> SUFFICES Shared' /\ Local' /\ Marks' /\ RightCall'
  BY TypeParts, PTL DEF IniTypeInv
<1>1. ASSUME NEW p \in Procs, NEW c \in Calls, Write(p, c)
      PROVE  Shared' /\ Local' /\ Marks' /\ RightCall'
  <2>1. /\ ~IsRead(c) /\ call' = [call EXCEPT ![p] = c]
        /\ writes < MaxWrites /\ writes' = writes + 1
        /\ \/ Goto(p, "opened") /\ UNCHANGED result
           \/ Return(p, "false")
        /\ UNCHANGED <<file, holder, old, out, size, faults, disturbed, trouble, saved>>
    BY <1>1 DEF Write
  <2>2. /\ pc' \in [Procs -> Places] /\ result' \in [Procs -> Answers]
        /\ \A q \in Procs \ {p} : pc'[q] = pc[q]
        /\ pc'[p] \in {"opened", "done"}
    BY <1>b, <2>1, GotoType, ReturnType DEF Places, Answers
  <2>3. Shared'
    BY <1>a, <2>1 DEF Shared
  <2>4. call' \in [Procs -> Asked] /\ call'[p] = c /\ \A q \in Procs \ {p} : call'[q] = call[q]
    BY <1>b, <2>1 DEF Asked
  <2>5. Local'
    BY <1>b, <2>1, <2>2, <2>4 DEF Local
  <2>6. Marks'
    BY <1>a, <2>1, IniFileAssumption DEF Marks
  <2>7. RightCall'
    BY <1>a, <2>1, <2>2, <2>4, CallTypes, OthersCalls
  <2> QED
    BY <2>3, <2>5, <2>6, <2>7
<1>2. ASSUME NEW p \in Procs, NEW c \in Calls, ReadSize(p, c)
      PROVE  Shared' /\ Local' /\ Marks' /\ RightCall'
  <2>1. /\ IsRead(c) /\ call' = [call EXCEPT ![p] = c] /\ Goto(p, "sized")
        /\ size' = [size EXCEPT ![p] = Size(file.lines)]
        /\ disturbed' = [disturbed EXCEPT ![p] = \E q \in Procs : pc[q] = "truncated"]
        /\ UNCHANGED <<file, holder, old, out, result, writes, faults, trouble, saved>>
    BY <1>2 DEF ReadSize
  <2>2. pc' \in [Procs -> Places] /\ pc'[p] = "sized" /\ \A q \in Procs \ {p} : pc'[q] = pc[q]
    BY <1>b, <2>1, GotoType DEF Places
  <2>3. Shared'
    BY <1>a, <2>1 DEF Shared
  <2>4. call' \in [Procs -> Asked] /\ call'[p] = c /\ \A q \in Procs \ {p} : call'[q] = call[q]
    BY <1>b, <2>1 DEF Asked
  <2>5. Size(file.lines) \in Nat
    <3>1. file.lines \in Seq(Line)
      BY <1>a DEF Shared, Files
    <3>2. Len(file.lines) \in 0..Len(file.lines)
      BY <3>1
    <3> QED
      BY <3>1, <3>2, UnitsType DEF Size
  <2>6. Local'
    BY <1>b, <2>1, <2>2, <2>4, <2>5 DEF Local
  <2>7. Marks'
    BY <1>a, <2>1 DEF Marks
  <2>8. RightCall'
    BY <1>a, <2>1, <2>2, <2>4, OthersCalls
  <2> QED
    BY <2>3, <2>6, <2>7, <2>8
<1>3. ASSUME NEW p \in Procs, _nLockFile(p)
      PROVE  Shared' /\ Local' /\ Marks' /\ RightCall'
  <2>1. /\ pc[p] = "opened" /\ holder' = p /\ Goto(p, "locked")
        /\ UNCHANGED <<file, call, old, out, size, result, writes, faults, disturbed, trouble, saved>>
    BY <1>3 DEF _nLockFile
  <2>2. pc' \in [Procs -> Places] /\ pc'[p] = "locked" /\ \A q \in Procs \ {p} : pc'[q] = pc[q]
    BY <1>b, <2>1, GotoType DEF Places
  <2>3. Shared' /\ Marks'
    BY <1>a, <2>1 DEF Shared, Marks
  <2>4. Local'
    BY <1>b, <2>1, <2>2 DEF Local
  <2>5. call[p] \in Edits
    BY <1>a, <2>1 DEF RightCall
  <2>6. RightCall'
    BY <1>a, <2>1, <2>2, <2>5, OthersCalls
  <2> QED
    BY <2>3, <2>4, <2>6
<1>4. ASSUME NEW p \in Procs, ReadLocked(p)
      PROVE  Shared' /\ Local' /\ Marks' /\ RightCall'
  <2>1. PICK f \in {file, NoFile} : /\ old' = [old EXCEPT ![p] = f]
                                    /\ trouble' = [trouble EXCEPT ![p] = f # file]
                                    /\ Fault(f # file)
    BY <1>4 DEF ReadLocked
  <2>2. /\ pc[p] = "locked" /\ Goto(p, "read")
        /\ UNCHANGED <<file, holder, call, out, size, result, disturbed, writes, saved>>
    BY <1>4 DEF ReadLocked
  <2>3. pc' \in [Procs -> Places] /\ pc'[p] = "read" /\ \A q \in Procs \ {p} : pc'[q] = pc[q]
    BY <1>b, <2>2, GotoType DEF Places
  <2>4. Shared'
    BY <1>a, <2>2 DEF Shared
  <2>5. f \in Files
    BY <1>a, NoFileType DEF Shared
  <2>6. Local'
    BY <1>b, <2>1, <2>2, <2>3, <2>5 DEF Local
  <2>7. Marks'
    BY <1>a, <2>1, <2>2, FaultType DEF Marks
  <2>8. call[p] \in Edits
    BY <1>a, <2>2 DEF RightCall
  <2>9. RightCall'
    BY <1>a, <2>2, <2>3, <2>8, OthersCalls
  <2> QED
    BY <2>4, <2>6, <2>7, <2>9
<1>5. ASSUME NEW p \in Procs, Truncate(p)
      PROVE  Shared' /\ Local' /\ Marks' /\ RightCall'
  <2>1. pc[p] = "read"
    BY <1>5 DEF Truncate
  <2>2. call[p] \in Edits /\ old[p] \in Files
    BY <1>a, <1>b, <2>1 DEF RightCall
  <2>3. PICK lines \in Decoded(old[p]) : \E format \in Codings(old[p]) :
          LET new == Coded(format, Joined(Edited(lines, call[p])))
          IN  IF new.lines = <<>>
              THEN Return(p, "false") /\ UNCHANGED <<file, out, disturbed, trouble>>
              ELSE /\ Rewritten(NoFile)
                   /\ out' = [out EXCEPT ![p] = new]
                   /\ trouble' = [trouble EXCEPT ![p] = \/ @ \/ format # "text"
                                                        \/ old[p].format # "text"]
                   /\ Goto(p, "truncated") /\ UNCHANGED result
    BY <1>5 DEF Truncate
  <2>4. PICK format \in Codings(old[p]) :
          LET new == Coded(format, Joined(Edited(lines, call[p])))
          IN  IF new.lines = <<>>
              THEN Return(p, "false") /\ UNCHANGED <<file, out, disturbed, trouble>>
              ELSE /\ Rewritten(NoFile)
                   /\ out' = [out EXCEPT ![p] = new]
                   /\ trouble' = [trouble EXCEPT ![p] = \/ @ \/ format # "text"
                                                        \/ old[p].format # "text"]
                   /\ Goto(p, "truncated") /\ UNCHANGED result
    BY <2>3
  <2> DEFINE new == Coded(format, Joined(Edited(lines, call[p])))
  <2>5. new \in Files
    <3>1. lines \in Seq(Line)
      BY <2>2, DecodedType
    <3>2. Edited(lines, call[p]) \in Seq(Line)
      BY <2>2, <3>1, EditedType
    <3>3. Joined(Edited(lines, call[p])) \in Seq(Line)
      BY <3>2, JoinedType
    <3> QED
      BY <2>2, <3>3, CodedType
  <2> HIDE DEF new
  <2>6. \/ Return(p, "false") /\ UNCHANGED <<file, out, disturbed, trouble>>
        \/ /\ Rewritten(NoFile) /\ Goto(p, "truncated") /\ UNCHANGED result
           /\ out' = [out EXCEPT ![p] = new]
           /\ trouble' = [trouble EXCEPT ![p] = trouble[p] \/ format # "text" \/ old[p].format # "text"]
    BY <2>4 DEF new
  <2>7. old' = [old EXCEPT ![p] = NoFile] /\ UNCHANGED <<holder, call, size, writes, faults, saved>>
    BY <1>5 DEF Truncate
  <2>8. /\ pc' \in [Procs -> Places] /\ pc'[p] \in {"done", "truncated"}
        /\ \A q \in Procs \ {p} : pc'[q] = pc[q]
        /\ result' \in [Procs -> Answers]
    BY <1>b, <2>6, GotoType, ReturnType DEF Places, Answers
  <2>9. file' \in Files
    BY <1>a, <2>6, NoFileType DEF Shared, Rewritten
  <2>10. Shared'
    BY <1>a, <2>7, <2>9 DEF Shared
  <2>11. out' \in [Procs -> Files] /\ old' \in [Procs -> Files]
    BY <1>b, <2>5, <2>6, <2>7, NoFileType
  <2>12. Local'
    BY <1>b, <2>7, <2>8, <2>11 DEF Local
  <2>13. disturbed' \in [Procs -> BOOLEAN]
    BY <1>a, <2>6 DEF Marks, Rewritten
  <2>14. trouble' \in [Procs -> BOOLEAN]
    BY <1>a, <2>6 DEF Marks
  <2>15. Marks'
    BY <1>a, <2>7, <2>13, <2>14 DEF Marks
  <2>16. RightCall'
    BY <1>a, <2>7, <2>8, OthersCalls
  <2> QED
    BY <2>10, <2>12, <2>15, <2>16
<1>6. ASSUME NEW p \in Procs, WriteData(p)
      PROVE  Shared' /\ Local' /\ Marks' /\ RightCall'
  <2>1. PICK n \in 0..Size(out[p].lines) :
          /\ Rewritten(IF n = 0 THEN NoFile ELSE [out[p] EXCEPT !.lines = Prefix(@, n)])
          /\ saved' = Saved(file')
          /\ trouble' = [trouble EXCEPT ![p] = @ \/ n < Size(out[p].lines)]
          /\ Fault(n < Size(out[p].lines))
    BY <1>6 DEF WriteData
  <2>2. /\ out' = [out EXCEPT ![p] = NoFile] /\ Return(p, "true")
        /\ UNCHANGED <<holder, call, old, size, writes>>
    BY <1>6 DEF WriteData
  <2>3. /\ pc' \in [Procs -> Places] /\ pc'[p] = "done"
        /\ \A q \in Procs \ {p} : pc'[q] = pc[q]
        /\ result' \in [Procs -> Answers]
    BY <1>b, <2>2, ReturnType DEF Answers
  <2>4. out[p] \in Files
    BY <1>b
  <2>5. [out[p] EXCEPT !.lines = Prefix(@, n)] \in Files
    <3>1. Prefix(out[p].lines, n) \in Seq(Line)
      BY <2>4, PrefixType DEF Files
    <3> QED
      BY <2>4, <3>1 DEF Files
  <2>6. file' \in Files
    BY <2>1, <2>5, NoFileType DEF Rewritten
  <2>7. saved' \in Saves
    BY <2>1, <2>6, SavedType DEF Saves
  <2>8. Shared'
    BY <1>a, <2>2, <2>6, <2>7 DEF Shared
  <2>9. Local'
    BY <1>b, <2>2, <2>3, NoFileType DEF Local
  <2>10. faults' \in 0..MaxFaults
    <3>1. faults \in 0..MaxFaults
      BY <1>a DEF Marks
    <3>2. /\ faults' = faults + (IF n < Size(out[p].lines) THEN 1 ELSE 0)
          /\ faults' <= MaxFaults
      BY <2>1 DEF Fault
    <3> QED
      BY <3>1, <3>2, IniFileAssumption
  <2>11. disturbed' \in [Procs -> BOOLEAN] /\ trouble' \in [Procs -> BOOLEAN]
    BY <1>a, <2>1 DEF Marks, Rewritten
  <2>12. Marks'
    BY <1>a, <2>2, <2>10, <2>11 DEF Marks
  <2>13. RightCall'
    BY <1>a, <2>2, <2>3, OthersCalls
  <2> QED
    BY <2>8, <2>9, <2>12, <2>13
<1>7. ASSUME NEW p \in Procs, ReadText(p)
      PROVE  Shared' /\ Local' /\ Marks' /\ RightCall'
  <2> DEFINE got == IF Size(file.lines) < size[p] THEN <<>> ELSE Prefix(file.lines, size[p])
  <2>1. PICK lines \in IF got = <<>> THEN {got} ELSE Decoded([file EXCEPT !.lines = got]) :
          Return(p, Answer(lines, call[p]))
    BY <1>7 DEF ReadText
  <2>2. /\ size' = [size EXCEPT ![p] = 0] /\ disturbed' = [disturbed EXCEPT ![p] = FALSE]
        /\ UNCHANGED <<file, holder, call, old, out, writes, faults, trouble, saved>>
    BY <1>7 DEF ReadText
  <2>3. lines \in Seq(Line)
    <3>1. file \in Files /\ size[p] \in Nat
      BY <1>a, <1>b DEF Shared
    <3>2. Prefix(file.lines, size[p]) \in Seq(Line)
      BY <3>1, PrefixType DEF Files
    <3>3. <<>> \in Seq(Line)
      OBVIOUS
    <3>4. got \in Seq(Line)
      BY <3>2, <3>3
    <3> HIDE DEF got
    <3>5. [file EXCEPT !.lines = got] \in Files
      BY <3>1, <3>4 DEF Files
    <3> QED
      BY <2>1, <3>4, <3>5, DecodedType
  <2>4. Answer(lines, call[p]) \in Answers
    BY <2>3, AnswerType
  <2>5. /\ pc' \in [Procs -> Places] /\ pc'[p] = "done"
        /\ \A q \in Procs \ {p} : pc'[q] = pc[q]
        /\ result' \in [Procs -> Answers]
    BY <1>b, <2>1, <2>4, ReturnType
  <2>6. Shared'
    BY <1>a, <2>2 DEF Shared
  <2>7. Local'
    BY <1>b, <2>2, <2>5 DEF Local
  <2>8. Marks'
    BY <1>a, <2>2 DEF Marks
  <2>9. RightCall'
    BY <1>a, <2>2, <2>5, OthersCalls
  <2> QED
    BY <2>6, <2>7, <2>8, <2>9
<1>8. ASSUME NEW p \in Procs, Leave(p), NEW b \in BOOLEAN, Fault(b),
             \/ Goto(p, "idle") /\ call' = [call EXCEPT ![p] = NoCall]
             \/ /\ Goto(p, "opened") /\ call[p].op = "section"
                /\ call' = [call EXCEPT ![p].op = "clear"]
      PROVE  Shared' /\ Local' /\ Marks' /\ RightCall'
  <2>1. /\ holder' = IF holder = p THEN NoProc ELSE holder
        /\ old' = [old EXCEPT ![p] = NoFile] /\ out' = [out EXCEPT ![p] = NoFile]
        /\ size' = [size EXCEPT ![p] = 0] /\ result' = [result EXCEPT ![p] = Absent]
        /\ disturbed' = [disturbed EXCEPT ![p] = FALSE]
        /\ trouble' = [trouble EXCEPT ![p] = FALSE]
        /\ saved' = IF pc[p] = "truncated" THEN Saved(file) ELSE saved
        /\ UNCHANGED <<file, writes>>
    BY <1>8 DEF Leave
  <2>2. Saved(file) \in Saves
    BY <1>a, SavedType DEF Shared, Saves
  <2>3. Shared'
    BY <1>a, <2>1, <2>2 DEF Shared
  <2>4. /\ pc' \in [Procs -> Places] /\ \A q \in Procs \ {p} : pc'[q] = pc[q]
        /\ \/ pc'[p] = "idle"
           \/ /\ pc'[p] = "opened" /\ call[p].op = "section"
              /\ call' = [call EXCEPT ![p].op = "clear"]
    <3>1. CASE Goto(p, "idle")
      BY <1>b, <3>1, GotoType DEF Places
    <3>2. CASE Goto(p, "opened") /\ call[p].op = "section" /\ call' = [call EXCEPT ![p].op = "clear"]
      BY <1>b, <3>2, GotoType DEF Places
    <3> QED
      BY <1>8, <3>1, <3>2
  <2>5. ASSUME call[p].op = "section"
        PROVE  [call[p] EXCEPT !.op = "clear"]
                  \in [op : {"clear"}, s : Sections, k : {Absent}, v : {Absent}]
    <3>1. call[p] \in Calls
      BY <1>b, <2>5 DEF Asked, NoCall
    <3> QED
      BY <2>5, <3>1, CallTypes
  <2>6. call' \in [Procs -> Asked] /\ \A q \in Procs \ {p} : call'[q] = call[q]
    <3>1. CASE call' = [call EXCEPT ![p] = NoCall]
      BY <1>b, <3>1 DEF Asked
    <3>2. CASE call[p].op = "section" /\ call' = [call EXCEPT ![p].op = "clear"]
      <4>1. call' = [call EXCEPT ![p] = [call[p] EXCEPT !.op = "clear"]]
        BY <3>2
      <4>2. [call[p] EXCEPT !.op = "clear"] \in Asked
        BY <2>5, <3>2 DEF Asked
      <4> QED
        BY <1>b, <4>1, <4>2
    <3> QED
      BY <1>8, <3>1, <3>2
  <2>7. Local'
    BY <1>b, <2>1, <2>4, <2>6, NoFileType DEF Local, Answers
  <2>8. faults' \in 0..MaxFaults
    BY <1>a, <1>8, FaultType DEF Marks
  <2>9. Marks'
    BY <1>a, <2>1, <2>8 DEF Marks
  <2>10. pc'[p] = "opened" => call'[p] \in Edits
    <3> SUFFICES ASSUME pc'[p] = "opened" PROVE call'[p] \in Edits
      OBVIOUS
    <3>1. call[p].op = "section" /\ call' = [call EXCEPT ![p].op = "clear"]
      BY <2>4
    <3>2. call'[p] = [call[p] EXCEPT !.op = "clear"]
      BY <1>b, <3>1
    <3>3. call'[p] \in [op : {"clear"}, s : Sections, k : {Absent}, v : {Absent}]
      BY <2>5, <3>1, <3>2
    <3> QED
      BY <3>3 DEF Edits
  <2>11. RightCall'
    BY <1>a, <2>4, <2>6, <2>10, OthersCalls
  <2> QED
    BY <2>3, <2>7, <2>9, <2>11
<1>9. ASSUME NEW p \in Procs, Close(p)
      PROVE  Shared' /\ Local' /\ Marks' /\ RightCall'
  BY <1>9, <1>8 DEF Close
<1>10. ASSUME NEW p \in Procs, Dies(p)
      PROVE  Shared' /\ Local' /\ Marks' /\ RightCall'
  BY <1>10, <1>8 DEF Dies
<1>11. CASE UNCHANGED vars
  BY <1>a, <1>11 DEF vars, iniVars, Shared, Local, Marks, RightCall, IsRead
<1> QED
  BY <1>1, <1>2, <1>3, <1>4, <1>5, <1>6, <1>7, <1>9, <1>10, <1>11 DEF Next, Step

\* What is in the file and in the buffers of the processes is a text and stays
\* one with every edit, also where lines run together or a write is cut short,
\* and what a call returns is a value or one of its other answers.
THEOREM IniTyped == Spec => []IniTypeOK
<1>1. IniTypeInv => IniTypeOK
  BY DEF IniTypeInv
<1> QED
  BY IniTypeInit, IniTypeStep, <1>1, PTL DEF Spec

-------------------------------------------------------------------------------
(* Reading without the lock.                                                *)

LEMMA UnitsGrow ==
    ASSUME NEW lines \in Seq(Line), NEW m \in 0..Len(lines), NEW n \in 0..Len(lines), m <= n
    PROVE  Units(lines, m) <= Units(lines, n)
<1> DEFINE T(j) == {l \in 1..j : lines[l].kind = "item"}
<1>1. IsFiniteSet(1..n) /\ T(n) \in SUBSET (1..n) /\ T(m) \in SUBSET T(n)
  BY FS_Interval
<1>2. IsFiniteSet(T(n))
  BY <1>1, FS_Subset
<1>3. IsFiniteSet(T(m)) /\ Cardinality(T(m)) <= Cardinality(T(n))
  BY <1>1, <1>2, FS_Subset
<1>4. Cardinality(T(m)) \in Nat /\ Cardinality(T(n)) \in Nat
  BY <1>2, <1>3, FS_CardinalityType
<1>5. Units(lines, m) = m + Cardinality(T(m)) /\ Units(lines, n) = n + Cardinality(T(n))
  BY DEF Units
<1> HIDE DEF T
<1> QED
  BY <1>3, <1>4, <1>5

LEMMA WholePrefix ==
    ASSUME NEW lines \in Seq(Line)
    PROVE  Prefix(lines, Size(lines)) = lines
<1> DEFINE n == Size(lines)
           W == {m \in DOMAIN lines : Units(lines, m) <= n}
<1>1. W = 1..Len(lines)
  <2>1. ASSUME NEW m \in 1..Len(lines) PROVE Units(lines, m) <= n
    <3>1. m \in 0..Len(lines) /\ Len(lines) \in 0..Len(lines) /\ m <= Len(lines)
      OBVIOUS
    <3> QED
      BY <3>1, UnitsGrow DEF Size
  <2> QED
    BY <2>1
<1>2. Cardinality(W) = Len(lines)
  <2>1. Len(lines) \in Nat
    OBVIOUS
  <2>2. Cardinality(1..Len(lines)) = IF 1 > Len(lines) THEN 0 ELSE Len(lines) - 1 + 1
    BY <2>1, FS_Interval
  <2> HIDE DEF W
  <2> QED
    BY <1>1, <2>1, <2>2
<1> HIDE DEF W, n
<1>3. Prefix(lines, n) = SubSeq(lines, 1, Len(lines)) \o <<>>
  <2>1. ~(Len(lines) < Len(lines))
    OBVIOUS
  <2> QED
    BY <1>2, <2>1 DEF Prefix, W
<1>4. SubSeq(lines, 1, Len(lines)) \o <<>> = lines
  OBVIOUS
<1> QED
  BY <1>3, <1>4 DEF n

\* `text' is the first lines of `lines', but for a value that is cut.
Begins(text, lines) ==
    /\ text \in Seq(Line) /\ Len(text) <= Len(lines)
    /\ \A m \in 1..Len(text) : /\ text[m].kind = lines[m].kind /\ text[m].name = lines[m].name
                                /\ text[m].value \in {lines[m].value, Damaged}

LEMMA PrefixBegins ==
    ASSUME NEW lines \in Seq(Line), NEW n \in Nat
    PROVE  Begins(Prefix(lines, n), lines)
<1> DEFINE W     == {m \in DOMAIN lines : Units(lines, m) <= n}
           whole == Cardinality(W)
           cut   == Open([lines[whole + 1] EXCEPT !.value = Damaged])
           half  == IF Units(lines, whole) < n /\ whole < Len(lines) THEN <<cut>> ELSE <<>>
           text  == SubSeq(lines, 1, whole) \o half
<1>1. IsFiniteSet(1..Len(lines)) /\ Cardinality(1..Len(lines)) = Len(lines) /\ W \in SUBSET (1..Len(lines))
  <2>1. W \in SUBSET (1..Len(lines))
    OBVIOUS
  <2>2. Len(lines) \in Nat
    OBVIOUS
  <2>3. Cardinality(1..Len(lines)) = IF 1 > Len(lines) THEN 0 ELSE Len(lines) - 1 + 1
    BY <2>2, FS_Interval
  <2>4. Cardinality(1..Len(lines)) = Len(lines)
    BY <2>2, <2>3
  <2> QED
    BY <2>1, <2>2, <2>4, FS_Interval
<1>2. IsFiniteSet(W) /\ whole <= Len(lines)
  BY <1>1, FS_Subset
<1>3. whole \in Nat
  BY <1>2, FS_CardinalityType
<1>4. Prefix(lines, n) = text
  BY DEF Prefix
<1>5. Prefix(lines, n) \in Seq(Line)
  BY PrefixType
<1> HIDE DEF W, whole
<1>6. CASE half = <<>>
  <2>1. text = SubSeq(lines, 1, whole)
    BY <1>2, <1>3, <1>6
  <2>2. Len(text) = whole /\ \A m \in 1..whole : text[m] = lines[m]
    BY <1>2, <1>3, <2>1
  <2> HIDE DEF text
  <2> QED
    BY <1>2, <1>4, <1>5, <2>2 DEF Begins
<1>7. CASE half # <<>>
  <2>1. whole < Len(lines) /\ half = <<cut>>
    BY <1>7
  <2>2. lines[whole + 1] \in Line
    BY <1>3, <2>1
  <2>3. cut.kind = lines[whole + 1].kind /\ cut.name = lines[whole + 1].name /\ cut.value = Damaged
    BY <2>2 DEF Open, Line
  <2>4. cut \in Line
    BY <2>2 DEF Open, Line
  <2> HIDE DEF half, cut
  <2>5. text = SubSeq(lines, 1, whole) \o <<cut>>
    BY <2>1
  <2>6. /\ Len(text) = whole + 1 /\ \A m \in 1..whole : text[m] = lines[m]
        /\ text[whole + 1] = cut
    BY <1>3, <2>1, <2>4, <2>5
  <2> HIDE DEF text
  <2>7. ASSUME NEW m \in 1..Len(text)
        PROVE  /\ text[m].kind = lines[m].kind /\ text[m].name = lines[m].name
               /\ text[m].value \in {lines[m].value, Damaged}
    <3>1. m \in 1..whole \/ m = whole + 1
      BY <1>3, <2>6
    <3> QED
      BY <2>3, <2>6, <3>1
  <2>8. Len(text) <= Len(lines)
    BY <1>3, <2>1, <2>6
  <2> QED
    BY <1>4, <1>5, <2>7, <2>8 DEF Begins
<1> QED
  BY <1>6, <1>7

\* The value in the beginning of a text is that in the text, none, or cut.
LEMMA ValueOfBeginning ==
    ASSUME NEW lines \in Seq(Line), NEW text, Begins(text, lines), NEW s, NEW k
    PROVE  _GetPrivateProfileItemValue(text, s, k)
              \in {_GetPrivateProfileItemValue(lines, s, k), Absent, Damaged}
<1> DEFINE h  == HeaderAt(text, s)
           g  == HeaderAt(lines, s)
           K  == KeysOf(text, h, k)
           L  == KeysOf(lines, h, k)
           d  == SectionEnd(text, h)
           e  == SectionEnd(lines, h)
<1>1. /\ text \in Seq(Line) /\ Len(text) \in Nat /\ Len(lines) \in Nat /\ Len(text) <= Len(lines)
      /\ \A m \in 1..Len(text) : /\ text[m].kind = lines[m].kind /\ text[m].name = lines[m].name
                                  /\ text[m].value \in {lines[m].value, Damaged}
  BY DEF Begins
<1> SUFFICES ASSUME h # 0, K # {}
             PROVE  _GetPrivateProfileItemValue(text, s, k)
                       \in {_GetPrivateProfileItemValue(lines, s, k), Absent, Damaged}
  BY DEF _GetPrivateProfileItemValue
<1>2. /\ h \in 1..Len(text) /\ IsSection(text[h]) /\ text[h].name = s
      /\ \A n \in 1..Len(text) : IsSection(text[n]) /\ text[n].name = s => h <= n
  BY <1>1, HeaderIs
<1>3. h \in 1..Len(lines) /\ IsSection(lines[h]) /\ lines[h].name = s
  BY <1>1, <1>2 DEF IsSection
<1>4. /\ g \in 1..Len(lines) /\ IsSection(lines[g]) /\ lines[g].name = s
      /\ \A n \in 1..Len(lines) : IsSection(lines[n]) /\ lines[n].name = s => g <= n
  BY <1>3, HeaderIs
<1> HIDE DEF g
<1>5. g = h
  <2>1. g <= h
    BY <1>3, <1>4
  <2>2. g \in 1..Len(text)
    BY <1>1, <1>2, <1>4, <2>1
  <2>3. IsSection(text[g]) /\ text[g].name = s
    BY <1>1, <1>4, <2>2 DEF IsSection
  <2>4. h <= g
    BY <1>2, <2>2, <2>3
  <2> QED
    BY <1>2, <1>4, <2>1, <2>4
<1> HIDE DEF h
<1>6. /\ d \in (h + 1)..(Len(text) + 1)
      /\ \A n \in (h + 1)..(d - 1) : ~IsSection(text[n])
  BY <1>1, <1>2, SectionEndIs
<1>7. /\ e \in (h + 1)..(Len(lines) + 1)
      /\ e <= Len(lines) => IsSection(lines[e])
      /\ \A n \in (h + 1)..(e - 1) : ~IsSection(lines[n])
  BY <1>3, SectionEndIs
<1> DEFINE m == Min(K)
           x == Min(L)
<1>8. m \in K /\ \A n \in K : m <= n
  BY <1>1, <1>2, KeysAre
<1>9. L # {} => x \in L /\ \A n \in L : x <= n
  BY <1>3, KeysAre
<1>10. \A n : n \in K <=> n \in (h + 1)..(d - 1) /\ text[n].kind = "item" /\ text[n].name = k
  BY DEF KeysOf
<1>11. \A n : n \in L <=> n \in (h + 1)..(e - 1) /\ lines[n].kind = "item" /\ lines[n].name = k
  BY DEF KeysOf
<1>12. _GetPrivateProfileItemValue(text, s, k) = text[m].value
  BY DEF _GetPrivateProfileItemValue, h
<1>13. L # {} => _GetPrivateProfileItemValue(lines, s, k) = lines[x].value
  BY <1>2, <1>5 DEF _GetPrivateProfileItemValue, g
<1> HIDE DEF K, L, d, e, m, x
<1>14. m \in (h + 1)..(d - 1) /\ text[m].kind = "item" /\ text[m].name = k
  BY <1>8, <1>10
<1>15. m \in 1..Len(text) /\ h \in Nat /\ m \in Nat
  BY <1>1, <1>2, <1>6, <1>14
<1>16. ~(e <= m)
  <2> SUFFICES ASSUME e <= m PROVE FALSE
    OBVIOUS
  <2>1. e \in (h + 1)..(d - 1) /\ e \in 1..Len(text) /\ e <= Len(lines)
    BY <1>1, <1>2, <1>6, <1>7, <1>14, <1>15
  <2>2. IsSection(text[e])
    BY <1>1, <1>7, <2>1 DEF IsSection
  <2> QED
    BY <1>6, <2>1, <2>2
<1>17. m \in L
  <2>1. m \in (h + 1)..(e - 1)
    BY <1>7, <1>14, <1>15, <1>16
  <2>2. lines[m].kind = "item" /\ lines[m].name = k
    BY <1>1, <1>14, <1>15
  <2> QED
    BY <1>11, <2>1, <2>2
<1>18. x \in L /\ x <= m
  BY <1>9, <1>17
<1>19. x \in (h + 1)..(e - 1) /\ lines[x].kind = "item" /\ lines[x].name = k
  BY <1>11, <1>18
<1>20. x \in (h + 1)..(d - 1) /\ x \in 1..Len(text) /\ x \in Nat
  BY <1>1, <1>2, <1>6, <1>14, <1>15, <1>18, <1>19
<1>21. x \in K
  BY <1>1, <1>10, <1>19, <1>20
<1>22. x = m
  <2>1. m <= x
    BY <1>8, <1>21
  <2> QED
    BY <1>15, <1>18, <1>20, <2>1
<1>23. text[m].value \in {lines[m].value, Damaged}
  BY <1>1, <1>15
<1> QED
  BY <1>12, <1>13, <1>17, <1>22, <1>23

LEMMA NamesOfBeginning ==
    ASSUME NEW lines \in Seq(Line), NEW text, Begins(text, lines)
    PROVE  NamesOf(text) \subseteq NamesOf(lines)
<1> SUFFICES ASSUME NEW m \in DOMAIN text, IsSection(text[m])
             PROVE  text[m].name \in NamesOf(lines)
  BY DEF NamesOf
<1>1. text \in Seq(Line) /\ m \in 1..Len(text) /\ Len(text) <= Len(lines)
  BY DEF Begins
<1>2. m \in DOMAIN lines
  BY <1>1
<1>3. text[m].kind = lines[m].kind /\ text[m].name = lines[m].name
  BY <1>1 DEF Begins
<1> QED
  BY <1>2, <1>3 DEF NamesOf, IsSection

\* As long as nobody rewrites the file of a reader it has the length that the
\* reader saw.
SizeIsCurrent == \A p \in Procs : pc[p] = "sized" /\ ~disturbed[p] => size[p] = Size(file.lines)
ReadInv == IniTypeInv /\ SizeIsCurrent

LEMMA ReadInvInit == Init => ReadInv
<1>1. Init => SizeIsCurrent
  BY DEF Init, SizeIsCurrent
<1> QED
  BY <1>1, IniTypeInit DEF ReadInv

\* A step of p that leaves the file alone.
LEMMA SizeKept ==
    ASSUME ReadInv, NEW p \in Procs, UNCHANGED file,
           NEW l \in Places, l # "sized", Goto(p, l),
           \A q \in Procs \ {p} : size'[q] = size[q] /\ disturbed'[q] = disturbed[q]
    PROVE  SizeIsCurrent'
<1>1. pc \in [Procs -> Places]
  BY DEF ReadInv, IniTypeInv, IniTypeOK, Places
<1>2. pc'[p] = l /\ \A q \in Procs \ {p} : pc'[q] = pc[q]
  BY <1>1, GotoType
<1> SUFFICES ASSUME NEW q \in Procs, pc'[q] = "sized", ~disturbed'[q]
             PROVE  size'[q] = Size(file'.lines)
  BY DEF SizeIsCurrent, Size, Units
<1>3. q # p
  BY <1>2
<1> QED
  BY <1>2, <1>3 DEF ReadInv, SizeIsCurrent

\* A step of p that rewrites it.
LEMMA SizeDisturbed ==
    ASSUME ReadInv, NEW p \in Procs, NEW f, Rewritten(f),
           NEW l \in Places, l # "sized", Goto(p, l)
    PROVE  SizeIsCurrent'
<1>1. pc \in [Procs -> Places]
  BY DEF ReadInv, IniTypeInv, IniTypeOK, Places
<1>2. pc'[p] = l /\ \A q \in Procs \ {p} : pc'[q] = pc[q]
  BY <1>1, GotoType
<1> SUFFICES ASSUME NEW q \in Procs, pc'[q] = "sized", ~disturbed'[q]
             PROVE  FALSE
  BY DEF SizeIsCurrent, Size, Units
<1>3. pc[q] = "sized"
  BY <1>2
<1> QED
  BY <1>3 DEF Rewritten

LEMMA ReadInvStep == ReadInv /\ [Next]_vars => ReadInv'
<1> SUFFICES ASSUME ReadInv, [Next]_vars PROVE ReadInv'
  OBVIOUS
<1>a. IniTypeInv'
  BY IniTypeStep DEF ReadInv
<1>b. /\ pc \in [Procs -> Places] /\ size \in [Procs -> Nat] /\ disturbed \in [Procs -> BOOLEAN]
  BY DEF ReadInv, IniTypeInv, IniTypeOK, Places
<1> SUFFICES SizeIsCurrent'
  BY <1>a DEF ReadInv
<1>1. ASSUME NEW p \in Procs, NEW c \in Calls, Write(p, c) PROVE SizeIsCurrent'
  <2>1. UNCHANGED <<file, size, disturbed>>
    BY <1>1 DEF Write
  <2>2. \E l \in {"opened", "done"} : Goto(p, l)
    BY <1>1 DEF Write, Return
  <2> QED
    BY <2>1, <2>2, SizeKept DEF Places
<1>2. ASSUME NEW p \in Procs, NEW c \in Calls, ReadSize(p, c) PROVE SizeIsCurrent'
  <2>1. /\ UNCHANGED file /\ Goto(p, "sized") /\ size' = [size EXCEPT ![p] = Size(file.lines)]
        /\ \E d : disturbed' = [disturbed EXCEPT ![p] = d]
    BY <1>2 DEF ReadSize
  <2>2. \A q \in Procs \ {p} : pc'[q] = pc[q] /\ size'[q] = size[q] /\ disturbed'[q] = disturbed[q]
    BY <1>b, <2>1 DEF Goto
  <2>3. size'[p] = Size(file.lines)
    BY <1>b, <2>1
  <2> SUFFICES ASSUME NEW q \in Procs, pc'[q] = "sized", ~disturbed'[q]
               PROVE  size'[q] = Size(file'.lines)
    BY DEF SizeIsCurrent, Size, Units
  <2>4. CASE q = p
    BY <2>1, <2>3, <2>4
  <2>5. CASE q # p
    BY <2>1, <2>2, <2>5 DEF ReadInv, SizeIsCurrent
  <2> QED
    BY <2>4, <2>5
<1>3. ASSUME NEW p \in Procs, _nLockFile(p) PROVE SizeIsCurrent'
  <2>1. UNCHANGED <<file, size, disturbed>> /\ Goto(p, "locked")
    BY <1>3 DEF _nLockFile
  <2> QED
    BY <2>1, SizeKept DEF Places
<1>4. ASSUME NEW p \in Procs, ReadLocked(p) PROVE SizeIsCurrent'
  <2>1. UNCHANGED <<file, size, disturbed>> /\ Goto(p, "read")
    BY <1>4 DEF ReadLocked
  <2> QED
    BY <2>1, SizeKept DEF Places
<1>5. ASSUME NEW p \in Procs, Truncate(p) PROVE SizeIsCurrent'
  <2>1. \/ UNCHANGED file /\ UNCHANGED disturbed /\ Goto(p, "done")
        \/ Rewritten(NoFile) /\ Goto(p, "truncated")
    BY <1>5 DEF Truncate, Return
  <2>2. UNCHANGED size
    BY <1>5 DEF Truncate
  <2> QED
    BY <2>1, <2>2, SizeKept, SizeDisturbed DEF Places
<1>6. ASSUME NEW p \in Procs, WriteData(p) PROVE SizeIsCurrent'
  <2>1. /\ \E f : Rewritten(f)
        /\ Goto(p, "done")
    BY <1>6 DEF WriteData, Return
  <2> QED
    BY <2>1, SizeDisturbed DEF Places
<1>7. ASSUME NEW p \in Procs, ReadText(p) PROVE SizeIsCurrent'
  <2>1. /\ UNCHANGED file /\ size' = [size EXCEPT ![p] = 0]
        /\ disturbed' = [disturbed EXCEPT ![p] = FALSE] /\ Goto(p, "done")
    BY <1>7 DEF ReadText, Return
  <2> QED
    BY <1>b, <2>1, SizeKept DEF Places
<1>8. ASSUME NEW p \in Procs, Leave(p), Goto(p, "idle") \/ Goto(p, "opened") PROVE SizeIsCurrent'
  <2>1. /\ UNCHANGED file /\ size' = [size EXCEPT ![p] = 0]
        /\ disturbed' = [disturbed EXCEPT ![p] = FALSE]
    BY <1>8 DEF Leave
  <2> QED
    BY <1>b, <1>8, <2>1, SizeKept DEF Places
<1>9. ASSUME NEW p \in Procs, Close(p) \/ Dies(p) PROVE SizeIsCurrent'
  <2>1. Leave(p) /\ (Goto(p, "idle") \/ Goto(p, "opened"))
    BY <1>9 DEF Close, Dies
  <2> QED
    BY <2>1, <1>8
<1>10. CASE UNCHANGED vars
  BY <1>10 DEF vars, iniVars, ReadInv, SizeIsCurrent, Size, Units
<1> QED
  BY <1>1, <1>2, <1>3, <1>4, <1>5, <1>6, <1>7, <1>9, <1>10 DEF Next, Step

\* What the process p that reads in this step may be told.
TruthFor(p)  == LET c == call[p]
                IN  IF c.op = "get" THEN Table(file)[<<c.s, c.k>>]
                    ELSE IF c.s \in Named(file) THEN Found ELSE Absent
ToldRight(p) == \/ result'[p] = TruthFor(p)
                \/ disturbed[p] /\ result'[p] \in {Absent, Damaged}

LEMMA ReadTells ==
    ASSUME ReadInv, NEW p \in Procs, ReadText(p), file.format = "text"
    PROVE  ToldRight(p)
<1> DEFINE lines == file.lines
           c     == call[p]
           got   == IF Size(lines) < size[p] THEN <<>> ELSE Prefix(lines, size[p])
<1>1. /\ file \in Files /\ size[p] \in Nat /\ c \in Calls /\ pc[p] = "sized"
      /\ result \in [Procs -> Answers]
  BY DEF ReadInv, IniTypeInv, IniTypeOK, RightCall, ReadText, Answers
<1>2. lines \in Seq(Line)
  BY <1>1 DEF Files
<1>3. [file EXCEPT !.lines = got].format = "text" /\ [file EXCEPT !.lines = got].lines = got
  BY <1>1 DEF Files
<1>4. Decoded([file EXCEPT !.lines = got]) = {got}
  <2> HIDE DEF got
  <2> QED
    BY <1>3 DEF Decoded
<1>5. result'[p] = Answer(got, c)
  <2>1. PICK text \in IF got = <<>> THEN {got} ELSE Decoded([file EXCEPT !.lines = got]) :
          Return(p, Answer(text, c))
    BY DEF ReadText
  <2>2. text = got
    BY <1>4, <2>1
  <2> QED
    BY <1>1, <2>1, <2>2 DEF Return
<1>6. /\ c.s \in Sections
      /\ c.op = "get" => c.k \in Keys
  BY <1>1, CallTypes
<1>7. TruthFor(p) = Answer(lines, c)
  <2>1. CASE c.op = "get"
    <3>1. <<c.s, c.k>> \in Sections \X Keys
      BY <1>6, <2>1
    <3>2. Table(file)[<<c.s, c.k>>] = _GetPrivateProfileItemValue(lines, c.s, c.k)
      BY <3>1 DEF Table
    <3> QED
      BY <2>1, <3>2 DEF TruthFor, Answer
  <2>2. CASE c.op # "get"
    BY <1>6, <2>2 DEF TruthFor, Answer, Named
  <2> QED
    BY <2>1, <2>2
<1>8. CASE ~disturbed[p]
  <2>1. size[p] = Size(lines)
    BY <1>1, <1>8 DEF ReadInv, SizeIsCurrent
  <2>2. Size(lines) \in Nat
    BY <1>1, <2>1
  <2>3. got = lines
    BY <1>2, <2>1, <2>2, WholePrefix
  <2> QED
    BY <1>5, <1>7, <2>3 DEF ToldRight
<1>9. CASE disturbed[p]
  <2>1. Begins(got, lines)
    <3>1. Begins(<<>>, lines)
      BY <1>2 DEF Begins
    <3>2. Begins(Prefix(lines, size[p]), lines)
      BY <1>1, <1>2, PrefixBegins
    <3> QED
      BY <3>1, <3>2
  <2> HIDE DEF got, lines
  <2>2. Answer(got, c) \in {Answer(lines, c), Absent, Damaged}
    <3>1. CASE c.op = "get"
      BY <1>2, <2>1, <3>1, ValueOfBeginning DEF Answer
    <3>2. CASE c.op # "get"
      BY <1>2, <2>1, <3>2, NamesOfBeginning DEF Answer
    <3> QED
      BY <3>1, <3>2
  <2> QED
    BY <1>5, <1>7, <1>9, <2>2 DEF ToldRight
<1> QED
  BY <1>8, <1>9

\* Nothing but its own read takes a process from fstat to the end of its call.
LEMMA ReadsItself ==
    ASSUME ReadInv, [Next]_vars, NEW p \in Procs, pc[p] = "sized", pc'[p] = "done"
    PROVE  ReadText(p)
<1>1. pc \in [Procs -> Places]
  BY DEF ReadInv, IniTypeInv, IniTypeOK, Places
<1>2. PICK q \in Procs : Step(q)
  BY DEF Next, vars, iniVars
<1>3. q = p
  <2> SUFFICES ASSUME q # p PROVE pc'[p] = pc[p]
    OBVIOUS
  <2>1. \E l : Goto(q, l)
    BY <1>2 DEF Step, Write, ReadSize, _nLockFile, ReadLocked, Truncate, WriteData, ReadText,
                Close, Dies, Return
  <2> QED
    BY <1>1, <2>1 DEF Goto
<1>4. ~Close(p) /\ ~Dies(p)
  BY <1>1 DEF Close, Dies, Goto
<1> QED
  BY <1>2, <1>3, <1>4 DEF Step, Write, ReadSize, _nLockFile, ReadLocked, Truncate, WriteData

\* A reader, who has no lock, is told what the file has when it reads; one whose
\* file was rewritten since fstat may also find nothing or a value cut short,
\* but never the value of another key or of an earlier file.
THEOREM ReadsAreTrue == Spec => ReadsFile
<1>1. ReadInv /\ [Next]_vars =>
        \A p \in Procs : pc[p] = "sized" /\ pc'[p] = "done" /\ file.format = "text" => ToldRight(p)
  BY ReadTells, ReadsItself
<1>2. (\A p \in Procs : pc[p] = "sized" /\ pc'[p] = "done" /\ file.format = "text" => ToldRight(p))
      => \A p \in Procs :
           pc[p] = "sized" /\ pc'[p] = "done" /\ file.format = "text" =>
             LET c     == call[p]
                 truth == IF c.op = "get" THEN Table(file)[<<c.s, c.k>>]
                          ELSE IF c.s \in Named(file) THEN Found ELSE Absent
             IN  \/ result'[p] = truth
                 \/ disturbed[p] /\ result'[p] \in {Absent, Damaged}
  BY DEF ToldRight, TruthFor
<1> QED
  BY <1>1, <1>2, ReadInvInit, ReadInvStep, PTL DEF Spec, ReadsFile
=============================================================================
