------------------------- MODULE ScanAttemptsProofs -------------------------
(***************************************************************************)
(* What holds of ScanAttempts for any countries, pool, settings, timeouts  *)
(* and faults, proved with TLAPS.                                          *)
(***************************************************************************)
EXTENDS ScanAttempts, TLAPS

\* Where the steps of the task stand in an attempt: the watchdog is armed by
\* acquire only, and what stop left behind stays gone until the next launch.
AttemptKnows ==
    /\ pc \in {"acquire", "close", "stop"} => watchdog # "armed"
    /\ pc \in {"launch"} \cup BetweenAttempts \cup Over =>
          /\ ~ browser /\ context # "open" /\ watchdog # "armed"
          /\ driver => pc = "raised"
    /\ raising => pc \in {"kill", "stop", "raised"}

\* Once a dead page has been read the attempt can only fail: its context stays
\* closed, and that the cookies are refused is what raises.
BlindFails ==
    dom = "lost" =>
        /\ context # "open"
        /\ pc \in {"cookies", "raised"} \/ raising

\* What the loop knows of its attempts.
LoopKnows ==
    /\ Len(exits) = IF pc = "proxy" THEN attempt - 1 ELSE attempt
    /\ pc = "retry" => attempt = 1
    /\ pc \in {"retry", "completed", "waf_blocked"} =>
          opts = [attempts |-> attempt, proxies |-> tried]

\* A requested country of the pool is the first exit, the retry takes another
\* if there is one, and the exits are the countries tried.
CountryKnows ==
    requested \in Pool =>
        /\ attempt = 1 => country = requested
        /\ attempt = 2 => country \in IF Pool = {requested} THEN Pool ELSE Pool \ {requested}
        /\ tried = {requested, country}
        /\ Len(exits) >= 1 => exits[1] = requested
        /\ Len(exits) = 2 => exits[2] = country

IInv == TypeOK /\ AttemptKnows /\ BlindFails /\ LoopKnows /\ CountryKnows

USE PoolAssumption, SettingsAssumption, TimesAssumption
USE DEF loopVars, browserVars, contextVars, timeVars, pageVars, Goto, Alive

-----------------------------------------------------------------------------
LEMMA InitIInv == Init => IInv
<1> SUFFICES ASSUME Init PROVE IInv
    OBVIOUS
<1>1. TypeOK
  <2>1. tried \subseteq Countries /\ exits \in Seq(Pool \cup {Direct})
    BY DEF Init
  <2>2. opts \in [attempts : 0 .. 2, proxies : SUBSET Countries]
    BY DEF Init, NoOpts
  <2>3. age \in 0 .. ContextTimeout /\ since \in 0 .. GotoTimeout + LazyWait
    BY DEF Init
  <2>4. /\ requested \in Countries \cup {Direct} /\ country \in Countries \cup {Direct}
        /\ pc \in Steps
        /\ attempt \in 1 .. 2 /\ stored \in 0 .. 2
    BY DEF Init, Steps, BetweenAttempts
  <2>5. /\ driver \in BOOLEAN /\ browser \in BOOLEAN
        /\ context = "none" /\ watchdog = "none"
        /\ gotoError \in BOOLEAN /\ blocked \in BOOLEAN
        /\ dom = "unread" /\ raising \in BOOLEAN
    BY DEF Init
  <2>6. QED
    BY <2>1, <2>2, <2>3, <2>4, <2>5 DEF TypeOK
<1>2. AttemptKnows /\ BlindFails /\ LoopKnows /\ CountryKnows
    BY DEF Init, AttemptKnows, BlindFails, LoopKnows, CountryKnows, BetweenAttempts, Over
<1>3. QED
    BY <1>1, <1>2 DEF IInv

\* The exit of the next attempt.
LEMMA GetProxyIInv == IInv /\ GetProxy => IInv'
<1> SUFFICES ASSUME IInv, GetProxy PROVE IInv'
    OBVIOUS
<1> USE DEF IInv
<1>1. PICK c \in Exits(country) : exits' = Append(exits, c)
    BY DEF GetProxy
<1>2. c \in Pool \cup {Direct} /\ (country \in Pool => c = country)
    BY DEF Exits, TypeOK
<1>3. /\ exits \in Seq(Pool \cup {Direct})
      /\ exits' \in Seq(Pool \cup {Direct})
      /\ Len(exits') = Len(exits) + 1
      /\ exits'[Len(exits) + 1] = c
      /\ \A i \in 1 .. Len(exits) : exits'[i] = exits[i]
    BY <1>1, <1>2 DEF TypeOK
<1>4. /\ pc = "proxy" /\ pc' = "launch"
      /\ UNCHANGED <<requested, attempt, country, tried, opts, stored, browserVars,
                     contextVars, timeVars, pageVars, raising>>
    BY DEF GetProxy
<1>5. TypeOK'
    BY <1>3, <1>4 DEF TypeOK, Steps
<1>6. AttemptKnows' /\ BlindFails'
    BY <1>4 DEF AttemptKnows, BlindFails, BetweenAttempts, Over
<1>7. LoopKnows'
    BY <1>3, <1>4 DEF LoopKnows, TypeOK
<1>8. CountryKnows'
  <2> SUFFICES ASSUME requested \in Pool PROVE CountryKnows'
    BY <1>4 DEF CountryKnows
  <2>1. country \in Pool /\ c = country
    BY <1>2 DEF CountryKnows, TypeOK
  <2>2. Len(exits) = attempt - 1 /\ attempt \in 1 .. 2
    BY <1>4 DEF LoopKnows, TypeOK
  <2>3. CASE attempt = 1
    BY <1>3, <1>4, <2>1, <2>2, <2>3 DEF CountryKnows
  <2>4. CASE attempt = 2
    BY <1>3, <1>4, <2>1, <2>2, <2>4 DEF CountryKnows
  <2>5. QED
    BY <2>2, <2>3, <2>4
<1>9. QED
    BY <1>5, <1>6, <1>7, <1>8

\* Steps that leave the loop's variables alone and do not come from or go to
\* the choice of a proxy or the end of the loop leave its part of the invariant.
LEMMA LoopFrame ==
    ASSUME IInv, UNCHANGED <<requested, loopVars>>,
           pc # "proxy", pc' \notin {"proxy", "retry", "completed", "waf_blocked"}
    PROVE  LoopKnows' /\ CountryKnows'
BY DEF IInv, LoopKnows, CountryKnows

\* The browser, its context and the page.
LEMMA LaunchIInv == IInv /\ (Launch \/ LaunchFails) => IInv'
<1> SUFFICES ASSUME IInv, Launch \/ LaunchFails PROVE IInv'
    OBVIOUS
<1>1. LoopKnows' /\ CountryKnows'
    BY LoopFrame DEF Launch, LaunchFails
<1>2. TypeOK'
    BY DEF IInv, TypeOK, Launch, LaunchFails, Steps, Over
<1>3. AttemptKnows' /\ BlindFails'
    BY DEF IInv, AttemptKnows, BlindFails, Launch, LaunchFails, BetweenAttempts, Over
<1>4. QED
    BY <1>1, <1>2, <1>3 DEF IInv

LEMMA AcquireIInv == IInv /\ (Acquire \/ AcquireFails) => IInv'
<1> SUFFICES ASSUME IInv, Acquire \/ AcquireFails PROVE IInv'
    OBVIOUS
<1>1. LoopKnows' /\ CountryKnows'
    BY LoopFrame DEF Acquire, AcquireFails
<1>2. TypeOK'
  <2>1. age' \in 0 .. ContextTimeout
    BY DEF IInv, TypeOK, Acquire, AcquireFails
  <2>2. context' \in {"none", "open"} /\ pc' \in Steps
    BY DEF Acquire, AcquireFails, Steps, OnPage, Closing
  <2>3. QED
    BY <2>1, <2>2 DEF IInv, TypeOK, Acquire, AcquireFails
<1>3. AttemptKnows' /\ BlindFails'
    BY DEF IInv, AttemptKnows, BlindFails, Acquire, AcquireFails, BetweenAttempts, Over
<1>4. QED
    BY <1>1, <1>2, <1>3 DEF IInv

PageSteps ==
    \/ PageRaises \/ OpenPage \/ Robots \/ Navigate \/ NavigateFails \/ LazyWaitOver
    \/ Drain \/ Judge \/ Screenshot

LEMMA PageIInv == IInv /\ PageSteps => IInv'
<1> SUFFICES ASSUME IInv, PageSteps PROVE IInv'
    OBVIOUS
<1>1. /\ UNCHANGED <<requested, loopVars, browserVars, contextVars, age>>
      /\ pc \in OnPage /\ pc' \in OnPage \cup {"release", "kill"}
      /\ raising' = raising \/ pc' = "kill"
    BY DEF PageSteps, PageRaises, OpenPage, Robots, Navigate, NavigateFails, EndGoto,
       LazyWaitOver, Drain, Judge, Screenshot, PageStep, OnPage
<1>2. LoopKnows' /\ CountryKnows'
    BY <1>1, LoopFrame DEF OnPage
<1>3. since' \in {0, since} /\ gotoError' \in BOOLEAN /\ blocked' \in BOOLEAN
      /\ dom' \in {"unread", "read", "lost"} /\ raising' \in BOOLEAN
    BY DEF IInv, TypeOK, PageSteps, PageRaises, OpenPage, Robots, Navigate, NavigateFails,
       EndGoto, LazyWaitOver, Drain, Judge, Screenshot, PageStep
<1>4. TypeOK'
    BY <1>1, <1>3 DEF IInv, TypeOK, Steps, OnPage, Closing
<1>5. AttemptKnows'
    BY <1>1 DEF IInv, AttemptKnows, PageSteps, PageRaises, OpenPage, Robots, Navigate,
       NavigateFails, EndGoto, LazyWaitOver, Drain, Judge, Screenshot, PageStep, OnPage,
       BetweenAttempts, Over
<1>6. BlindFails'
    BY <1>1 DEF IInv, BlindFails, AttemptKnows, PageSteps, PageRaises, OpenPage, Robots,
       Navigate, NavigateFails, EndGoto, LazyWaitOver, Drain, Judge, Screenshot, PageStep,
       OnPage, TypeOK
<1>7. QED
    BY <1>2, <1>4, <1>5, <1>6 DEF IInv

\* release and stop, and the watchdog beside them.
CloseSteps == Release \/ CloseContext \/ Kill \/ Stop \/ StopFails

LEMMA CloseIInv == IInv /\ CloseSteps => IInv'
<1> SUFFICES ASSUME IInv, CloseSteps PROVE IInv'
    OBVIOUS
<1>1. /\ UNCHANGED <<requested, loopVars, timeVars, pageVars, raising>>
      /\ pc \in Closing /\ pc' \in Closing \cup {"raised", "decide"}
    BY DEF CloseSteps, Release, CloseContext, Kill, Stop, StopFails, AfterStop, Closing
<1>2. LoopKnows' /\ CountryKnows'
    BY <1>1, LoopFrame DEF Closing
<1>3. TypeOK'
  <2>1. pc' \in Steps
    BY <1>1 DEF Steps, Closing, BetweenAttempts, Over
  <2>2. /\ driver' \in BOOLEAN /\ browser' \in BOOLEAN
        /\ context' \in {context, "closed"} /\ watchdog' \in {watchdog, "none"}
    BY DEF IInv, TypeOK, CloseSteps, Release, CloseContext, Kill, Stop, StopFails, Disarmed
  <2>3. QED
    BY <1>1, <2>1, <2>2 DEF IInv, TypeOK
<1>4. AttemptKnows'
    BY DEF IInv, TypeOK, AttemptKnows, CloseSteps, Release, CloseContext, Kill, Stop, StopFails,
       AfterStop, Disarmed, BetweenAttempts, Over
<1>5. BlindFails'
    BY <1>1 DEF IInv, BlindFails, CloseSteps, Release, CloseContext, Kill, Stop, StopFails,
       AfterStop, Closing
<1>6. QED
    BY <1>2, <1>3, <1>4, <1>5 DEF IInv

LEMMA WatchdogIInv == IInv /\ (WatchdogFires \/ WatchdogCloses \/ Tick) => IInv'
<1> SUFFICES ASSUME IInv, WatchdogFires \/ WatchdogCloses \/ Tick PROVE IInv'
    OBVIOUS
<1>1. UNCHANGED <<requested, pc, loopVars, browserVars, pageVars, raising>>
    BY DEF WatchdogFires, WatchdogCloses, Tick
<1>2. LoopKnows' /\ CountryKnows'
    BY <1>1 DEF IInv, LoopKnows, CountryKnows
<1>3. context' \in {context, "closed"} /\ watchdog' \in {watchdog, "closing", "over"}
    BY DEF WatchdogFires, WatchdogCloses, Tick
<1>4. age' \in 0 .. ContextTimeout /\ since' \in 0 .. GotoTimeout + LazyWait
    BY DEF IInv, TypeOK, WatchdogFires, WatchdogCloses, Tick
<1>5. TypeOK'
    BY <1>1, <1>3, <1>4 DEF IInv, TypeOK
<1>6. AttemptKnows' /\ BlindFails'
    BY <1>1, <1>3 DEF IInv, AttemptKnows, BlindFails, BetweenAttempts, Over
<1>7. QED
    BY <1>2, <1>5, <1>6 DEF IInv

\* The verdict of an attempt and the step to the next one.
LEMMA DecideIInv == IInv /\ Decide => IInv'
<1> SUFFICES ASSUME IInv, Decide PROVE IInv'
    OBVIOUS
<1>1. TypeOK'
    BY DEF IInv, TypeOK, Decide, Steps, BetweenAttempts, Over
<1>2. AttemptKnows' /\ BlindFails'
    BY DEF IInv, AttemptKnows, BlindFails, Decide, BetweenAttempts, Over
<1>3. LoopKnows' /\ CountryKnows'
    BY DEF IInv, TypeOK, LoopKnows, CountryKnows, Decide, ShouldRetryBlocked
<1>4. QED
    BY <1>1, <1>2, <1>3 DEF IInv

LEMMA RetryIInv == IInv /\ (Retry \/ RetryFails) => IInv'
<1> SUFFICES ASSUME IInv, Retry \/ RetryFails PROVE IInv'
    OBVIOUS
<1> USE DEF IInv
<1>1. CASE RetryFails
  <2>1. TypeOK' /\ AttemptKnows' /\ BlindFails'
    BY <1>1 DEF TypeOK, AttemptKnows, BlindFails, RetryFails, Steps, BetweenAttempts, Over
  <2>2. LoopKnows' /\ CountryKnows'
    BY <1>1, LoopFrame DEF RetryFails
  <2>3. QED
    BY <2>1, <2>2
<1>2. CASE Retry
  <2>1. attempt = 1 /\ Len(exits) = 1 /\ pc' = "proxy" /\ attempt' = 2
    BY <1>2 DEF Retry, LoopKnows, TypeOK
  <2>2. country' \in Countries \cup {Direct} /\ tried' \in SUBSET Countries
    BY <1>2 DEF Retry, TypeOK, OtherCountries
  <2>3. TypeOK'
    BY <1>2, <2>1, <2>2 DEF Retry, TypeOK, Steps, BetweenAttempts
  <2>4. AttemptKnows' /\ BlindFails'
    BY <1>2 DEF AttemptKnows, BlindFails, Retry, BetweenAttempts, Over
  <2>5. LoopKnows'
    BY <1>2, <2>1 DEF Retry, LoopKnows
  <2>6. CountryKnows'
    BY <1>2, <2>1 DEF Retry, CountryKnows, OtherCountries
  <2>7. QED
    BY <2>3, <2>4, <2>5, <2>6
<1>3. QED
    BY <1>1, <1>2

LEMMA StepIInv == IInv /\ [Next]_vars => IInv'
<1> SUFFICES ASSUME IInv, [Next]_vars PROVE IInv'
    OBVIOUS
<1>1. CASE UNCHANGED vars
    BY <1>1 DEF vars, IInv, TypeOK, AttemptKnows, BlindFails, LoopKnows, CountryKnows
<1>2. CASE Next
    BY <1>1, <1>2, GetProxyIInv, LaunchIInv, AcquireIInv, PageIInv, CloseIInv, WatchdogIInv,
       DecideIInv, RetryIInv
    DEF Next, Progress, Fault, Finished, PageSteps, CloseSteps
<1>3. QED
    BY <1>1, <1>2

LEMMA Inductive == Spec => []IInv
BY InitIInv, StepIInv, PTL DEF Spec

-----------------------------------------------------------------------------
(***************************************************************************)
(* The theorems.                                                           *)
(***************************************************************************)
\* The state stays well-formed; in particular no timer outruns its limit, and
\* no scan is tried a third time.
THEOREM AttemptsTypes == Spec => []TypeOK
BY Inductive, PTL DEF IInv

\* However an attempt of _scan_once ends, no browser, open context or armed
\* watchdog is left, and a driver only by a scan that fails.
THEOREM AttemptsLeaveNothingOpen == Spec => []NothingLeftOpen
<1>1. IInv => NothingLeftOpen
    BY DEF IInv, AttemptKnows, NothingLeftOpen
<1>2. QED
    BY <1>1, Inductive, PTL

\* Whenever the watchdog closes the context, PageController.run makes no report
\* from a page it could not read.
THEOREM NoReportFromDeadPage == Spec => []NoBlindReport
<1>1. IInv => NoBlindReport
    BY DEF IInv, AttemptKnows, BlindFails, NoBlindReport
<1>2. QED
    BY <1>1, Inductive, PTL

\* The country a request names is used, and left for the retry, for every pool.
THEOREM RequestedCountryHonoured == Spec => []CountryHonoured
<1>1. IInv => CountryHonoured
  <2> SUFFICES ASSUME IInv, requested \in Pool PROVE CountryHonoured
    BY DEF CountryHonoured
  <2> USE DEF IInv
  <2>1. attempt \in 1 .. 2 /\ Len(exits) \in Nat /\ Len(exits) <= attempt
    BY DEF LoopKnows, TypeOK
  <2>2. exits # <<>> => Len(exits) >= 1
    BY DEF TypeOK
  <2>3. Len(exits) = 2 => attempt = 2 /\ exits[2] = country
    BY <2>1 DEF CountryKnows
  <2>4. QED
    BY <2>1, <2>2, <2>3 DEF CountryHonoured, CountryKnows
<1>2. QED
    BY <1>1, Inductive, PTL

\* What the row says about the exits of a finished scan is what happened.
THEOREM RowTellsExits == Spec => []ExitsRecorded
<1>1. IInv => ExitsRecorded
  <2> SUFFICES ASSUME IInv, pc \in {"completed", "waf_blocked"} PROVE ExitsRecorded
    BY DEF ExitsRecorded
  <2> USE DEF IInv
  <2>1. /\ opts = [attempts |-> attempt, proxies |-> tried]
        /\ Len(exits) = attempt /\ attempt \in 1 .. 2
    BY DEF LoopKnows, TypeOK
  <2>2. ASSUME requested \in Pool PROVE tried = {exits[i] : i \in DOMAIN exits}
    <3>1. DOMAIN exits = 1 .. Len(exits)
        BY DEF TypeOK
    <3>2. CASE attempt = 1
      <4>1. DOMAIN exits = {1} /\ exits[1] = requested /\ tried = {requested}
        BY <2>1, <2>2, <3>1, <3>2 DEF CountryKnows
      <4>2. QED
        BY <4>1
    <3>3. CASE attempt = 2
      <4>1. /\ DOMAIN exits = {1, 2} /\ exits[1] = requested /\ exits[2] = country
            /\ tried = {requested, country}
        BY <2>1, <2>2, <3>1, <3>3 DEF CountryKnows
      <4>2. QED
        BY <4>1
    <3>4. QED
        BY <2>1, <3>2, <3>3
  <2>3. QED
    BY <2>1, <2>2 DEF ExitsRecorded
<1>2. QED
    BY <1>1, Inductive, PTL

-----------------------------------------------------------------------------
(***************************************************************************)
(* The attempts are one running task of ScanLifecycle.                     *)
(***************************************************************************)
TaskAction ==
    Task!ScanOnce("worker") \/ Task!UpdateOptions("worker") \/ Task!Raise("worker")

\* The task of ScanLifecycle depends on four things only.
LEMMA TaskFrame ==
    ASSUME TaskStep' = TaskStep, Verdict' = Verdict, attempt' = attempt, stored' = stored
    PROVE  UNCHANGED Task!vars
BY DEF Task!vars, Task!apiVars, Task!rowVars, Task!brokerVars, Task!workVars

\* An exception is one from a step of the task that may raise.
LEMMA TaskRaises ==
    ASSUME pc \notin Over, pc' = "raised", attempt' = attempt, stored' = stored
    PROVE  Task!Raise("worker")
<1>1. /\ TaskStep \in {"scan", "options"} /\ TaskStep' = "mark_failed"
      /\ Verdict' = Verdict
    BY DEF TaskStep, Verdict, Over
<1>2. QED
    BY <1>1 DEF Task!Raise, Task!CanFail, Task!BeforeCommit, Task!AfterCommit, Task!apiVars,
       Task!rowVars, Task!brokerVars

\* A verdict ends the task's scan step.
LEMMA TaskDecides == IInv /\ Decide => Task!ScanOnce("worker")
<1> SUFFICES ASSUME IInv, Decide PROVE Task!ScanOnce("worker")
    OBVIOUS
<1>1. /\ TaskStep = "scan" /\ Verdict = "none"
      /\ attempt' = attempt /\ stored' = stored
      /\ blocked \in BOOLEAN
    BY DEF Decide, TaskStep, Verdict, IInv, TypeOK
<1>2. CASE blocked /\ ShouldRetryBlocked(attempt)
  <2>1. TaskStep' = "options" /\ Verdict' = Verdict
    BY <1>1, <1>2 DEF Decide, TaskStep, Verdict
  <2>2. QED
    BY <1>1, <1>2, <2>1 DEF Task!ScanOnce, Task!Move, Task!ShouldRetryBlocked,
       ShouldRetryBlocked, Task!apiVars, Task!rowVars, Task!brokerVars
<1>3. CASE ~ (blocked /\ ShouldRetryBlocked(attempt))
  <2>1. /\ TaskStep' = "persist"
        /\ Verdict' = IF blocked THEN "waf_blocked" ELSE "completed"
    BY <1>1, <1>3 DEF Decide, TaskStep, Verdict
  <2>2. QED
    BY <1>1, <1>3, <2>1 DEF Task!ScanOnce, Task!Move, Task!ShouldRetryBlocked,
       ShouldRetryBlocked, Task!apiVars, Task!rowVars, Task!brokerVars
<1>4. QED
    BY <1>2, <1>3

LEMMA TaskRetries == IInv /\ Retry => Task!UpdateOptions("worker")
<1> SUFFICES ASSUME IInv, Retry PROVE Task!UpdateOptions("worker")
    OBVIOUS
<1>1. /\ TaskStep = "options" /\ TaskStep' = "scan" /\ Verdict' = Verdict
      /\ attempt' = attempt + 1 /\ stored' = attempt
    BY DEF Retry, TaskStep, Verdict, IInv, LoopKnows
<1>2. QED
    BY <1>1 DEF Task!UpdateOptions, Task!Move, Task!apiVars, Task!brokerVars

\* Everything else that _scan_once, release, stop and the watchdog do is within
\* one step of the task.
LEMMA TaskStutters ==
    ASSUME IInv, Next, pc' # "raised" \/ pc \in Over, ~ Decide, ~ Retry
    PROVE  UNCHANGED Task!vars
<1>1. attempt' = attempt /\ stored' = stored
    BY DEF Next, Progress, Fault, Finished, GetProxy, Launch, LaunchFails, Acquire, AcquireFails,
       PageRaises, OpenPage, Robots, Navigate, NavigateFails, EndGoto, LazyWaitOver, Drain, Judge,
       Screenshot, PageStep, Release, CloseContext, Kill, Stop, StopFails, RetryFails,
       WatchdogFires, WatchdogCloses, Tick, vars
<1>2. \/ pc' = pc
      \/ {pc, pc'} \cap ({"retry", "completed", "waf_blocked", "raised"}) = {}
    BY DEF Next, Progress, Fault, Finished, GetProxy, Launch, LaunchFails, Acquire, AcquireFails,
       PageRaises, OpenPage, Robots, Navigate, NavigateFails, EndGoto, LazyWaitOver, Drain, Judge,
       Screenshot, PageStep, Release, CloseContext, Kill, Stop, AfterStop, StopFails, RetryFails,
       WatchdogFires, WatchdogCloses, Tick, vars, Over
<1>3. TaskStep' = TaskStep /\ Verdict' = Verdict
    BY <1>2 DEF TaskStep, Verdict
<1>4. QED
    BY <1>1, <1>3, TaskFrame

\* What browser, proxies and watchdog do to a scan is what ScanLifecycle says a
\* running task does, for every pool, setting, timeout and fault.
THEOREM AttemptsRefineTask == Spec => RefinesTask
<1>1. ASSUME IInv, [Next]_vars PROVE TaskAction \/ UNCHANGED Task!vars
  <2>1. CASE UNCHANGED vars
    BY <2>1, TaskFrame DEF vars, TaskStep, Verdict
  <2>2. CASE Next /\ pc' = "raised" /\ pc \notin Over
    <3>1. attempt' = attempt /\ stored' = stored
        BY <2>2 DEF Next, Progress, Fault, Finished, GetProxy, Launch, LaunchFails, Acquire,
           AcquireFails, PageRaises, OpenPage, Robots, Navigate, NavigateFails, EndGoto,
           LazyWaitOver, Drain, Judge, Screenshot, PageStep, Release, CloseContext, Kill, Stop,
           StopFails, Decide, Retry, RetryFails, WatchdogFires, WatchdogCloses, Tick, Over
    <3>2. QED
        BY <2>2, <3>1, TaskRaises DEF TaskAction
  <2>3. CASE Next /\ ~ (pc' = "raised" /\ pc \notin Over)
    BY <1>1, <2>3, TaskDecides, TaskRetries, TaskStutters DEF TaskAction
  <2>4. QED
    BY <1>1, <2>1, <2>2, <2>3
<1>2. QED
    BY <1>1, Inductive, PTL DEF Spec, RefinesTask, TaskAction

-----------------------------------------------------------------------------
(***************************************************************************)
(* The attempts come to an end: what is left to do gets less with every    *)
(* step, whoever takes it.                                                 *)
(***************************************************************************)
\* Steps of this attempt that the task has before it.
StepsLeft ==
    CASE pc = "proxy" -> 16
      [] pc = "launch" -> 15
      [] pc = "acquire" -> 14
      [] pc = "page" -> 13
      [] pc = "robots" -> 12
      [] pc = "goto" -> 11
      [] pc = "wait" -> 10
      [] pc = "drain" -> 9
      [] pc = "cookies" -> 8
      [] pc = "screenshot" -> 7
      [] pc = "release" -> 6
      [] pc = "close" -> 5
      [] pc = "kill" -> 4
      [] pc = "stop" -> 3
      [] pc = "decide" -> 2
      [] pc = "retry" -> 1
      [] OTHER -> 0

\* What the watchdog, and the timer of the current step, may still do.
WatchdogLeft ==
    CASE watchdog = "armed" -> 2 + (ContextTimeout - age)
      [] watchdog = "closing" -> 1
      [] OTHER -> 0

TimerLeft ==
    CASE pc = "goto" /\ since < GotoTimeout -> GotoTimeout - since
      [] pc = "wait" /\ since < LazyWait -> LazyWait - since
      [] OTHER -> 0

\* A step of the task outweighs whatever it gives the clocks to do.
Weight == ContextTimeout + GotoTimeout + LazyWait + 3

Left == (StepsLeft + 16 * (2 - attempt)) * Weight + WatchdogLeft + TimerLeft

LEMMA Outweighs ==
    ASSUME NEW m \in Nat, NEW n \in Nat, m < n, NEW w \in Nat,
           NEW u \in Nat, u < w, NEW v \in Nat
    PROVE  m * w + u < n * w + v
<1>1. PICK d \in Nat : n = (m + 1) + d
  <2>1. n - (m + 1) \in Nat /\ n = (m + 1) + (n - (m + 1))
    OBVIOUS
  <2> QED
    BY <2>1
<1>2. n * w = (m + 1) * w + d * w /\ (m + 1) * w = m * w + w
    BY <1>1
<1>3. d * w \in Nat /\ m * w \in Nat
    OBVIOUS
<1>4. QED
    BY <1>2, <1>3

\* With s steps left in attempt a before, t in attempt b after, and the clocks' u, v, x, y.
LEMMA StepOutweighs ==
    ASSUME NEW s \in 0 .. 16, NEW t \in 0 .. 16, NEW a \in 1 .. 2, NEW b \in 1 .. 2,
           \/ b = a /\ t < s
           \/ a = 1 /\ b = 2 /\ s = 1 /\ t = 16,
           NEW w \in Nat, NEW u \in Nat, NEW v \in Nat, NEW x \in Nat, NEW y \in Nat, x + y < w
    PROVE  (t + 16 * (2 - b)) * w + x + y < (s + 16 * (2 - a)) * w + u + v
<1> DEFINE m == t + 16 * (2 - b)
           n == s + 16 * (2 - a)
<1>1. m \in Nat /\ n \in Nat /\ m < n
    OBVIOUS
<1> HIDE DEF m, n
<1>2. m * w + (x + y) < n * w + (u + v)
    BY <1>1, Outweighs
<1>3. m * w \in Nat /\ n * w \in Nat
    BY <1>1
<1>4. m * w + x + y < n * w + u + v
    BY <1>2, <1>3
<1>5. QED
    BY <1>4 DEF m, n

LEMMA SumsCompare ==
    /\ \A a, b, c, d \in Nat : a < b /\ c <= d => a + c < b + d /\ c + a < d + b
    /\ \A k, a, b, c, d \in Nat : a + b < c + d => k + a + b < k + c + d
    /\ \A a \in 0 .. ContextTimeout + 2, b \in 0 .. GotoTimeout + LazyWait :
          a \in Nat /\ b \in Nat /\ a + b < Weight
BY DEF Weight

\* The clocks have less to do than one step weighs.
LEMMA ClocksBounded ==
    ASSUME TypeOK
    PROVE  /\ StepsLeft \in 0 .. 16 /\ attempt \in 1 .. 2 /\ Weight \in Nat
           /\ WatchdogLeft \in Nat /\ TimerLeft \in Nat
           /\ WatchdogLeft + TimerLeft < Weight
<1>1. StepsLeft \in 0 .. 16
    BY DEF StepsLeft
<1>2. WatchdogLeft \in 0 .. ContextTimeout + 2
    BY DEF WatchdogLeft, TypeOK
<1>3. TimerLeft \in 0 .. GotoTimeout + LazyWait
    BY DEF TimerLeft, TypeOK
<1>4. attempt \in 1 .. 2 /\ Weight \in Nat
    BY DEF Weight, TypeOK
<1>5. QED
    BY <1>1, <1>2, <1>3, <1>4, SumsCompare, Zenon

\* As much holds after a step.
LEMMA ClocksBoundedAfter ==
    ASSUME TypeOK'
    PROVE  /\ StepsLeft' \in 0 .. 16 /\ attempt' \in 1 .. 2 /\ Weight' = Weight
           /\ WatchdogLeft' \in Nat /\ TimerLeft' \in Nat
           /\ WatchdogLeft' + TimerLeft' < Weight
<1>1. StepsLeft' \in 0 .. 16
    BY DEF StepsLeft
<1>2. age' \in 0 .. ContextTimeout /\ since' \in Nat /\ attempt' \in 1 .. 2
    BY DEF TypeOK
<1>3. WatchdogLeft' \in 0 .. ContextTimeout + 2
    BY <1>2 DEF WatchdogLeft
<1>4. TimerLeft' \in 0 .. GotoTimeout + LazyWait
    BY <1>2 DEF TimerLeft
<1>5. Weight' = Weight
    BY DEF Weight
<1>6. QED
    BY <1>1, <1>2, <1>3, <1>4, <1>5, SumsCompare, Zenon

\* A step of the task, or one attempt less.
LEMMA StepTaken ==
    ASSUME TypeOK, TypeOK',
           \/ attempt' = attempt /\ StepsLeft' < StepsLeft
           \/ attempt = 1 /\ attempt' = 2 /\ StepsLeft = 1 /\ StepsLeft' = 16
    PROVE  Left' < Left
<1>1. /\ StepsLeft \in 0 .. 16 /\ attempt \in 1 .. 2 /\ Weight \in Nat
      /\ WatchdogLeft \in Nat /\ TimerLeft \in Nat
    BY ClocksBounded
<1>2. /\ StepsLeft' \in 0 .. 16 /\ attempt' \in 1 .. 2 /\ Weight' = Weight
      /\ WatchdogLeft' \in Nat /\ TimerLeft' \in Nat
      /\ WatchdogLeft' + TimerLeft' < Weight
    BY ClocksBoundedAfter
<1>3. (StepsLeft' + 16 * (2 - attempt')) * Weight + WatchdogLeft' + TimerLeft' < Left
    BY <1>1, <1>2, StepOutweighs, Zenon DEF Left
<1>4. QED
    BY <1>2, <1>3, Zenon DEF Left

\* A tick is one second less of a timer that runs, or of two.
LEMMA TickTaken ==
    ASSUME TypeOK, TypeOK', Tick
    PROVE  WatchdogLeft' + TimerLeft' < WatchdogLeft + TimerLeft
<1>1. age \in 0 .. ContextTimeout /\ since \in Nat
    BY DEF TypeOK
<1>2. pc' = pc /\ watchdog' = watchdog
    BY DEF Tick
<1>3. /\ WatchdogLeft \in Nat /\ TimerLeft \in Nat
      /\ WatchdogLeft' \in Nat /\ TimerLeft' \in Nat
    BY ClocksBounded, ClocksBoundedAfter
<1>4. CASE watchdog = "armed"
  <2>1. age < ContextTimeout /\ age' = age + 1
    BY <1>4 DEF Tick
  <2>2. WatchdogLeft' < WatchdogLeft
    BY <1>1, <1>2, <1>4, <2>1 DEF WatchdogLeft
  <2>3. TimerLeft' <= TimerLeft
    BY <1>1, <1>2 DEF Tick, TimerLeft
  <2> QED
    BY <1>3, <2>2, <2>3, SumsCompare, Zenon
<1>5. CASE watchdog # "armed"
  <2>1. /\ pc \in {"goto", "wait"} /\ since' = since + 1
        /\ pc = "goto" => since < GotoTimeout
        /\ pc = "wait" => since < LazyWait
    BY <1>5 DEF Tick
  <2>2. WatchdogLeft' <= WatchdogLeft
    BY <1>1, <1>2, <1>5 DEF WatchdogLeft
  <2>3. TimerLeft' < TimerLeft
    BY <1>1, <1>2, <2>1 DEF TimerLeft
  <2> QED
    BY <1>3, <2>2, <2>3, SumsCompare, Zenon
<1>6. QED
    BY <1>4, <1>5

\* Time passes, or the watchdog does its work: the task stands where it stood.
LEMMA ClockworkTaken ==
    ASSUME TypeOK, TypeOK', Clockwork
    PROVE  Left' < Left
<1>1. StepsLeft' = StepsLeft /\ attempt' = attempt /\ Weight' = Weight
    BY DEF Clockwork, Tick, WatchdogFires, WatchdogCloses, StepsLeft, Weight
<1>2. /\ WatchdogLeft \in Nat /\ TimerLeft \in Nat
      /\ WatchdogLeft' \in Nat /\ TimerLeft' \in Nat
    BY ClocksBounded, ClocksBoundedAfter
<1>3. WatchdogLeft' + TimerLeft' < WatchdogLeft + TimerLeft
  <2>1. CASE Tick
    BY <2>1, TickTaken
  <2>2. CASE WatchdogFires \/ WatchdogCloses
    <3>1. WatchdogLeft' < WatchdogLeft
      BY <2>2 DEF WatchdogFires, WatchdogCloses, WatchdogLeft, TypeOK
    <3>2. TimerLeft' <= TimerLeft
      BY <1>2, <2>2 DEF WatchdogFires, WatchdogCloses, TimerLeft, TypeOK
    <3> QED
      BY <1>2, <3>1, <3>2, SumsCompare, Zenon
  <2>3. QED
    BY <2>1, <2>2 DEF Clockwork
<1> DEFINE k == (StepsLeft + 16 * (2 - attempt)) * Weight
<1>4. k \in Nat
    BY ClocksBounded
<1>5. Left = k + WatchdogLeft + TimerLeft /\ Left' = k + WatchdogLeft' + TimerLeft'
    BY <1>1, Zenon DEF Left
<1> HIDE DEF k
<1>6. QED
    BY <1>2, <1>3, <1>4, <1>5, SumsCompare, Zenon

\* However pages, proxies, faults and timers mingle, every step brings the end of
\* the attempts nearer, and no scan takes more than a fixed number of them: at most
\* two attempts, each with its watchdog and its timers (settings.scan).
THEOREM AttemptsAreFinite ==
    Spec => /\ [](Left \in 0 .. 33 * Weight)
            /\ [][Left' < Left]_vars
<1>1. ASSUME IInv, IInv', Next PROVE Left' < Left \/ UNCHANGED vars
  <2>0. TypeOK /\ TypeOK'
    BY <1>1 DEF IInv
  <2>1. CASE Clockwork
    BY <2>0, <2>1, ClockworkTaken
  <2>2. CASE Retry
    <3>1. attempt = 1 /\ attempt' = 2 /\ StepsLeft = 1 /\ StepsLeft' = 16
      BY <1>1, <2>2 DEF IInv, Retry, LoopKnows, StepsLeft
    <3> QED
      BY <2>0, <3>1, StepTaken
  <2>3. ASSUME attempt' = attempt, StepsLeft' < StepsLeft PROVE Left' < Left
    BY <2>0, <2>3, StepTaken
  <2>4. CASE GetProxy \/ Launch \/ Acquire \/ OpenPage \/ Robots
    BY <2>3, <2>4 DEF GetProxy, Launch, Acquire, OpenPage, Robots, PageStep, StepsLeft
  <2>5. CASE LazyWaitOver \/ Judge \/ PageRaises \/ Screenshot
    BY <2>3, <2>5 DEF LazyWaitOver, Judge, PageRaises, Screenshot, PageStep, StepsLeft
  <2>6. CASE Release \/ CloseContext \/ Kill \/ Stop \/ Decide
    BY <2>3, <2>6 DEF Release, CloseContext, Kill, Stop, Decide, AfterStop, StepsLeft
  <2>7. CASE Navigate \/ NavigateFails \/ Drain \/ Fault
    BY <2>3, <2>7 DEF Navigate, NavigateFails, EndGoto, Drain, PageStep, Fault, LaunchFails,
       AcquireFails, StopFails, RetryFails, StepsLeft
  <2>8. CASE Finished
    BY <2>8 DEF Finished
  <2>9. QED
    BY <1>1, <2>1, <2>2, <2>4, <2>5, <2>6, <2>7, <2>8 DEF Next, Progress, Clockwork
<1>2. ASSUME IInv PROVE Left \in 0 .. 33 * Weight
  <2>1. /\ StepsLeft \in 0 .. 16 /\ attempt \in 1 .. 2 /\ Weight \in Nat
        /\ WatchdogLeft \in Nat /\ TimerLeft \in Nat
        /\ WatchdogLeft + TimerLeft < Weight
    BY <1>2, ClocksBounded DEF IInv
  <2> DEFINE m == StepsLeft + 16 * (2 - attempt)
  <2>2. m \in 0 .. 32
    BY <2>1
  <2>3. Left = m * Weight + WatchdogLeft + TimerLeft
    BY DEF Left
  <2> HIDE DEF m
  <2>4. \A k \in 0 .. 32 : k * Weight \in Nat /\ k * Weight <= 32 * Weight
    BY <2>1
  <2>5. QED
    BY <2>1, <2>2, <2>3, <2>4
<1>3. QED
    BY <1>1, <1>2, Inductive, PTL DEF Spec
=============================================================================
