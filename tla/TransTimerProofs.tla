--------------------------- MODULE TransTimerProofs ---------------------------
(***************************************************************************)
(* The transceive timer turns free after exactly its timeout, for every    *)
(* timeout and every width of the counter.                                 *)
(***************************************************************************)
EXTENDS TransTimer, TLAPS

LEMMA WrapInts == \A n \in Int : -MaxInt - 1 <= n /\ n <= 2 * MaxInt + 1 => ToInt(n) \in Ints
BY TimerAssumption DEF ToInt, Ints

\* Every variable has its type in every reachable state.
THEOREM TimerTypeCorrect == TimerSpec => []TimerTypeOK
<1> USE TimerAssumption
<1>1. TimerInit => TimerTypeOK
  <2>1. TimerInit => /\ timerCounter \in Ints /\ transcStartTime \in Ints
                     /\ transcTimeout \in {0, Timeout} /\ rounds \in 0..Timeout
    BY DEF TimerInit, Ints
  <2>2. TimerInit => /\ runTimer \in BOOLEAN /\ transcTimerStarted \in BOOLEAN
                     /\ wrapped \in BOOLEAN /\ early \in BOOLEAN
    BY DEF TimerInit
  <2> QED
    BY <2>1, <2>2 DEF TimerInit, TimerTypeOK
<1>2. TimerTypeOK /\ [TimerNext]_timerVars => TimerTypeOK'
  <2> SUFFICES ASSUME TimerTypeOK, [TimerNext]_timerVars
               PROVE  TimerTypeOK'
    OBVIOUS
  <2> USE DEF TimerTypeOK, counterVars, transcVars
  <2>1. CASE Begin
    BY <2>1 DEF Begin
  <2>2. CASE Test
    BY <2>2 DEF Test
  <2>3. CASE Tick
    BY <2>3, WrapInts DEF Tick, Ints
  <2>4. CASE RL8000_WinTimerOpen
    <3>1. transcStartTime' \in Ints /\ transcTimeout' \in {0, Timeout}
      BY <2>4 DEF RL8000_WinTimerOpen, Ints
    <3>2. transcTimerStarted' \in BOOLEAN
      BY <2>4 DEF RL8000_WinTimerOpen
    <3> QED
      BY <2>4, <3>1, <3>2 DEF RL8000_WinTimerOpen
  <2>5. CASE StartWait
    <3>1. transcStartTime' \in Ints /\ transcTimeout' \in {0, Timeout} /\ rounds' \in 0..Timeout
      BY <2>5 DEF StartWait, WinTranscTimer_Start
    <3>2. transcTimerStarted' \in BOOLEAN /\ wrapped' \in BOOLEAN
      BY <2>5 DEF StartWait, WinTranscTimer_Start
    <3> QED
      BY <2>5, <3>1, <3>2 DEF StartWait
  <2>6. CASE TimedOut \/ GotAnswer \/ Join
    BY <2>6 DEF TimedOut, GotAnswer, Join
  <2>7. CASE RL8000_WinKillTimer
    BY <2>7 DEF RL8000_WinKillTimer
  <2>8. CASE UNCHANGED timerVars
    BY <2>8 DEF timerVars
  <2> QED
    BY <2>1, <2>2, <2>3, <2>4, <2>5, <2>6, <2>7, <2>8 DEF TimerNext, TimerThread, Program
<1> QED
  BY <1>1, <1>2, PTL DEF TimerSpec

\* While a call waits and the counter has not wrapped, it is as far past the
\* start time as rounds have gone by.
Counted ==
    main = "wait" /\ ~wrapped =>
        /\ transcTimerStarted /\ transcTimeout = Timeout
        /\ timerCounter >= transcStartTime + rounds
        /\ rounds < Timeout => timerCounter = transcStartTime + rounds

\* The timer is free exactly when its timeout has gone by, up to the int range.
THEOREM TimerIsOnTime == TimerSpec => []FreeOnTime
<1> USE TimerAssumption
<1>1. TimerInit => Counted
  BY DEF TimerInit, Counted
<1>2. TimerTypeOK /\ Counted /\ [TimerNext]_timerVars => Counted'
  <2> SUFFICES ASSUME TimerTypeOK, Counted, [TimerNext]_timerVars
               PROVE  Counted'
    OBVIOUS
  <2> USE DEF Counted, counterVars, transcVars
  <2>1. CASE Tick
    <3> SUFFICES ASSUME main' = "wait", ~wrapped'
                 PROVE  Counted'
      BY DEF Counted
    <3>1. ~wrapped /\ timerCounter # MaxInt /\ main = "wait"
      BY <2>1 DEF Tick
    <3>2. timerCounter' = timerCounter + 1
      BY <2>1, <3>1 DEF Tick, ToInt, TimerTypeOK, Ints
    <3> QED
      BY <2>1, <3>1, <3>2 DEF Tick, TimerTypeOK, Ints
  <2>2. CASE StartWait
    BY <2>2 DEF StartWait, WinTranscTimer_Start, TimerTypeOK, Ints
  <2>3. CASE Begin \/ Test
    BY <2>3 DEF Begin, Test
  <2>4. CASE RL8000_WinTimerOpen \/ TimedOut \/ GotAnswer \/ RL8000_WinKillTimer \/ Join
    BY <2>4 DEF RL8000_WinTimerOpen, TimedOut, GotAnswer, RL8000_WinKillTimer, Join
  <2>5. CASE UNCHANGED timerVars
    BY <2>5 DEF timerVars
  <2> QED
    BY <2>1, <2>2, <2>3, <2>4, <2>5 DEF TimerNext, TimerThread, Program
<1>3. TimerTypeOK /\ Counted => FreeOnTime
  BY DEF TimerTypeOK, Counted, FreeOnTime, WinTranscTimer_IsFree, ToInt, Ints
<1> QED
  BY <1>1, <1>2, <1>3, TimerTypeCorrect, PTL DEF TimerSpec
===============================================================================
