------------------------------ MODULE TransTimer ------------------------------
(***************************************************************************)
(* Timer.cpp: the transceive timer, a counter that a thread of its own     *)
(* advances by 20 ms per round, and the one program thread that opens it,  *)
(* waits on it in CommTransceive and kills it.  Time is counted in rounds  *)
(* of the thread.  The counter is a C int: past MaxInt the builds wrap.    *)
(***************************************************************************)
EXTENDS Integers

CONSTANTS MaxInt,     \* the largest counter value
          Timeout     \* h->timeout, in rounds

ASSUME TimerAssumption == /\ MaxInt \in Nat /\ Timeout \in Nat
                          /\ 0 < Timeout /\ Timeout <= MaxInt

VARIABLES timerCounter, runTimer,
          transcStartTime, transcTimeout, transcTimerStarted,
          thread,    \* ThreadTimer: "none" "new" "test" "sleep" "done"
          main,      \* "closed" "idle" "wait" (CommTransceive) "join" (KillTimer)
          \* history of the current wait and kill:
          rounds,    \* rounds since the timer was started, at most Timeout
          wrapped,   \* the counter wrapped since then
          early      \* the kill came before the thread's first statement
counterVars == <<timerCounter, rounds, wrapped>>
transcVars  == <<transcStartTime, transcTimeout, transcTimerStarted>>
timerVars   == <<counterVars, transcVars, runTimer, thread, main, early>>

Ints == -MaxInt - 1..MaxInt
Unwrapped(n) == n                                  \* mutant of ToInt
ToInt(n) == IF n > MaxInt THEN n - 2 * MaxInt - 2 ELSE n

-------------------------------------------------------------------------------
(* ThreadTimer; mutant of its first statement: runTimer is left alone.      *)
BeginIdle == /\ thread = "new"
             /\ thread' = "test"
             /\ UNCHANGED <<counterVars, transcVars, runTimer, main, early>>
Begin == /\ thread = "new"
         /\ runTimer' = TRUE
         /\ thread' = "test"
         /\ UNCHANGED <<counterVars, transcVars, main, early>>

\* while(runTimer); mutant: the flag is read once, before the loop.
TestOnce == /\ thread = "test"
            /\ thread' = "sleep"
            /\ UNCHANGED <<counterVars, transcVars, runTimer, main, early>>
Test == /\ thread = "test"
        /\ thread' = IF runTimer THEN "sleep" ELSE "done"
        /\ UNCHANGED <<counterVars, transcVars, runTimer, main, early>>

Tick == /\ thread = "sleep"
        /\ timerCounter' = ToInt(timerCounter + 1)
        /\ rounds' = IF rounds < Timeout THEN rounds + 1 ELSE rounds
        /\ wrapped' = (wrapped \/ timerCounter = MaxInt)
        /\ thread' = "test"
        /\ UNCHANGED <<transcVars, runTimer, main, early>>

-------------------------------------------------------------------------------
(* The program's thread.                                                    *)

RL8000_WinTimerOpen ==
    /\ main = "closed"
    /\ transcTimeout' = 0 /\ transcStartTime' = 0 /\ transcTimerStarted' = FALSE
    /\ \/ thread' = "new" /\ main' = "idle"
       \/ UNCHANGED <<thread, main>>              \* pthread_create failed: -1
    /\ UNCHANGED <<counterVars, runTimer, early>>

\* Mutant: the start time is not taken.
StartFromZero(timeout) == /\ UNCHANGED transcStartTime
                          /\ transcTimeout' = timeout
                          /\ transcTimerStarted' = TRUE
WinTranscTimer_Start(timeout) == /\ transcStartTime' = timerCounter
                                 /\ transcTimeout' = timeout
                                 /\ transcTimerStarted' = TRUE

WinTranscTimer_IsFree ==
    \/ ~transcTimerStarted
    \/ timerCounter >= ToInt(transcStartTime + transcTimeout)

\* CommTransceive: start the timer, leave on an answer or a free timer.
StartWait == /\ main = "idle"
             /\ WinTranscTimer_Start(Timeout)
             /\ rounds' = 0 /\ wrapped' = FALSE
             /\ main' = "wait"
             /\ UNCHANGED <<timerCounter, runTimer, thread, early>>

TimedOut == /\ main = "wait" /\ WinTranscTimer_IsFree
            /\ main' = "idle"
            /\ UNCHANGED <<counterVars, transcVars, runTimer, thread, early>>

GotAnswer == /\ main = "wait"
             /\ main' = "idle"
             /\ UNCHANGED <<counterVars, transcVars, runTimer, thread, early>>

RL8000_WinKillTimer == /\ main = "idle"
                       /\ runTimer' = FALSE
                       /\ early' = (thread = "new")
                       /\ main' = "join"
                       /\ UNCHANGED <<counterVars, transcVars, thread>>

Join == /\ main = "join" /\ thread = "done"
        /\ main' = "closed" /\ thread' = "none"
        /\ UNCHANGED <<counterVars, transcVars, runTimer, early>>

TimerInit == /\ timerCounter = 0 /\ runTimer = FALSE
             /\ transcTimeout = 0 /\ transcStartTime = 0 /\ transcTimerStarted = FALSE
             /\ thread = "none" /\ main = "closed"
             /\ rounds = 0 /\ wrapped = FALSE /\ early = FALSE

TimerThread == Begin \/ Test \/ Tick
Program     == RL8000_WinTimerOpen \/ StartWait \/ TimedOut \/ GotAnswer
               \/ RL8000_WinKillTimer \/ Join
TimerNext   == TimerThread \/ Program

\* The system schedules the timer thread, and pthread_join returns once the
\* thread has ended.  Nothing makes the program open, wait or kill.
TimerSpec == TimerInit /\ [][TimerNext]_timerVars
TimerFairSpec == TimerSpec /\ WF_timerVars(TimerThread) /\ WF_timerVars(Join)

-------------------------------------------------------------------------------
TimerTypeOK ==
    /\ timerCounter \in Ints /\ transcStartTime \in Ints
    /\ transcTimeout \in {0, Timeout}
    /\ runTimer \in BOOLEAN /\ transcTimerStarted \in BOOLEAN
    /\ wrapped \in BOOLEAN /\ early \in BOOLEAN
    /\ thread \in {"none", "new", "test", "sleep", "done"}
    /\ main \in {"closed", "idle", "wait", "join"}
    /\ rounds \in 0..Timeout

\* While a call waits the timer turns free after exactly Timeout rounds and
\* stays free, unless the counter or the deadline passes MaxInt.
FreeOnTime ==
    main = "wait" /\ ~wrapped /\ transcStartTime + Timeout <= MaxInt
        => (WinTranscTimer_IsFree <=> rounds = Timeout)

\* A wait cannot go on for ever on a silent line: the timer turns free, even
\* when the counter has to wrap on the way.
EveryWaitCanEnd == main = "wait" ~> (main # "wait" \/ WinTranscTimer_IsFree)

\* KillTimer returns when the timer thread had reached its first statement.
KillReturnsOnceRunning == main = "join" /\ ~early ~> main = "closed"

\* main.cpp:310-311 kills the timer and then closes the port: KillTimer
\* always returns.
KillReturns == main = "join" ~> main = "closed"
===============================================================================
