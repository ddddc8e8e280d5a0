---------------------------- MODULE ScanAttempts ----------------------------
(***************************************************************************)
(* The attempts of one scan task: the loop of _run_scan and _scan_once in  *)
(* workers/tasks.py, the proxy pool of workers/proxy.py, the browser and   *)
(* its watched context (engine/browser/context_manager.py), and the steps  *)
(* of the page controller (engine/page/controller.py).                     *)
(*                                                                         *)
(* Attempt and watchdog share an event loop: each goes on when the other   *)
(* awaits.  A timer that is due goes off before time passes.               *)
(***************************************************************************)
EXTENDS Naturals, Sequences, FiniteSets

CONSTANTS
    Countries,        \* exit countries a request may ask for
    Pool,             \* those AUTHSCOPE_PROXY_POOL has a proxy for
    Direct,           \* no country
    RetryBlockedOnce, \* settings.scan.retry_blocked_once
    RespectRobots,    \* settings.scan.respect_robots_txt
    ContextTimeout,   \* settings.scan.timeout_seconds
    GotoTimeout,      \* timeout of page.goto
    LazyWait,         \* settings.scan.lazy_captcha_wait_seconds
    Faults            \* the places where a step may raise by itself

FaultPlaces == {"launch", "acquire", "page", "stop", "options"}

ASSUME PoolAssumption == Pool \subseteq Countries /\ Direct \notin Countries
ASSUME SettingsAssumption == RetryBlockedOnce \in BOOLEAN /\ RespectRobots \in BOOLEAN
ASSUME TimesAssumption == ContextTimeout \in Nat /\ GotoTimeout \in Nat /\ LazyWait \in Nat
ASSUME FaultsAssumption == Faults \subseteq FaultPlaces

VARIABLES
    requested,   \* options["proxy_country"], or Direct
    pc,          \* where the task stands
    attempt, country, tried,  \* locals of the loop
    exits,       \* the country each attempt went out from
    opts,        \* what the last attempt put into the options
    stored,      \* attempts in the options of the scan's row
    driver,      \* the Playwright driver runs
    browser,     \* the browser runs
    context,     \* the browser context of the attempt
    watchdog,    \* its _reap task
    age,         \* time since acquire
    since,       \* time since goto or the lazy wait began
    gotoError,   \* the navigation failed
    dom,         \* what the page's evaluations gave
    blocked,     \* artifact.blocked
    raising      \* an exception is on its way out of _scan_once

loopVars == <<attempt, country, tried, exits, opts, stored>>
browserVars == <<driver, browser>>
contextVars == <<context, watchdog>>
timeVars == <<age, since>>
pageVars == <<gotoError, dom, blocked>>
vars == <<requested, pc, loopVars, browserVars, contextVars, timeVars, pageVars, raising>>

OnPage == {"page", "robots", "goto", "wait", "drain", "cookies", "screenshot"}
Closing == {"release", "close", "kill", "stop"}
BetweenAttempts == {"proxy", "decide", "retry"}
Over == {"completed", "waf_blocked", "raised"}
Steps == OnPage \cup Closing \cup BetweenAttempts \cup Over \cup {"launch", "acquire"}

CanFail(place) == place \in Faults

NoOpts == [attempts |-> 0, proxies |-> {}]

Init ==
    /\ requested \in Countries \cup {Direct}
    /\ pc = "proxy"
    /\ attempt = 1
    /\ country = requested
    /\ tried = {requested} \ {Direct}
    /\ exits = <<>>
    /\ opts = NoOpts
    /\ stored = 0
    /\ driver = FALSE /\ browser = FALSE
    /\ context = "none" /\ watchdog = "none"
    /\ age = 0 /\ since = 0
    /\ gotoError = FALSE /\ dom = "unread" /\ blocked = FALSE
    /\ raising = FALSE

Goto(from, to) == pc = from /\ pc' = to

-----------------------------------------------------------------------------
(***************************************************************************)
(* ProxyManager.                                                           *)
(***************************************************************************)
\* get_proxy: a country that is not in the pool is replaced by any that is.
Exits(c) == IF Pool = {} THEN {Direct} ELSE IF c \in Pool THEN {c} ELSE Pool

\* get_different_country_proxy.
OtherCountries(c) == Pool \ {c}

GetProxy ==
    /\ Goto("proxy", "launch")
    /\ \E c \in Exits(country) : exits' = Append(exits, c)
    /\ UNCHANGED <<requested, attempt, country, tried, opts, stored, browserVars,
                   contextVars, timeVars, pageVars, raising>>

-----------------------------------------------------------------------------
(***************************************************************************)
(* _scan_once: start and acquire.                                          *)
(***************************************************************************)
Launch ==
    /\ Goto("launch", "acquire")
    /\ driver' = TRUE /\ browser' = TRUE
    /\ context' = "none" /\ watchdog' = "none"
    /\ gotoError' = FALSE /\ dom' = "unread" /\ blocked' = FALSE
    /\ UNCHANGED <<requested, loopVars, timeVars, raising>>

\* mgr.start stands before the try: nothing stops the driver.
LaunchFails ==
    /\ CanFail("launch")
    /\ Goto("launch", "raised")
    /\ driver' \in BOOLEAN
    /\ UNCHANGED <<requested, loopVars, browser, contextVars, timeVars, pageVars, raising>>


Acquire ==
    /\ Goto("acquire", "page")
    /\ context' = "open" /\ watchdog' = "armed" /\ age' = 0
    /\ UNCHANGED <<requested, loopVars, browserVars, since, pageVars, raising>>

\* Tracing may fail to start on a context that is not watched yet.
AcquireFails ==
    /\ CanFail("acquire")
    /\ Goto("acquire", "kill")
    /\ context' \in {"none", "open"}
    /\ raising' = TRUE
    /\ UNCHANGED <<requested, loopVars, browserVars, watchdog, timeVars, pageVars>>

-----------------------------------------------------------------------------
(***************************************************************************)
(* PageController.run.  A call on a closed context raises; some of them    *)
(* are guarded.                                                            *)
(***************************************************************************)
Alive == context = "open"

PageStep(from, to) ==
    /\ Goto(from, to)
    /\ UNCHANGED <<requested, loopVars, browserVars, contextVars, age, raising>>

\* An unguarded call raises, and _scan_once goes to its finally.
PageRaises ==
    /\ \/ pc \in {"page", "wait", "cookies"} /\ ~ Alive
       \/ pc \in {"page", "cookies"} /\ CanFail("page")
    /\ pc' = "kill"
    /\ raising' = TRUE
    /\ UNCHANGED <<requested, loopVars, browserVars, contextVars, timeVars, pageVars>>

OpenPage == PageStep("page", "robots") /\ Alive /\ UNCHANGED <<since, pageVars>>

\* robots.txt is read through the context or around it, and never raises.
Robots ==
    \/ /\ PageStep("robots", "goto")
       /\ since' = 0
       /\ UNCHANGED pageVars
    \/ /\ RespectRobots
       /\ PageStep("robots", "release")
       /\ blocked' = TRUE
       /\ UNCHANGED <<since, gotoError, dom>>

EndGoto == PageStep("goto", "wait") /\ since' = 0 /\ UNCHANGED <<dom, blocked>>

Navigate == EndGoto /\ Alive /\ UNCHANGED gotoError

\* A network error, the timeout, or the context was closed: all are swallowed.
NavigateFails == EndGoto /\ gotoError' = TRUE

LazyWaitOver ==
    /\ PageStep("wait", "drain")
    /\ Alive /\ since >= LazyWait
    /\ UNCHANGED <<since, pageVars>>

\* Three guarded evaluations, which a busy page may keep from ever returning.
Drain ==
    /\ PageStep("drain", "cookies")
    /\ dom' \in IF Alive THEN {"read", "unread"} ELSE {"lost"}
    /\ UNCHANGED <<since, gotoError, blocked>>

\* Bug: reading the cookies is guarded like the evaluations before it.
JudgeGuarded ==
    /\ PageStep("cookies", "screenshot")
    /\ blocked' \in IF Alive THEN BOOLEAN ELSE {FALSE}
    /\ UNCHANGED <<since, gotoError, dom>>

\* The cookies are read; then status and markers say if the page was blocked.
\* The status is that of the last response whose callback is through: the model
\* leaves it open.
Judge ==
    /\ PageStep("cookies", "screenshot")
    /\ Alive
    /\ blocked' \in BOOLEAN
    /\ UNCHANGED <<since, gotoError, dom>>

\* Guarded; closing the page of a closed context is no error.
Screenshot == PageStep("screenshot", "release") /\ UNCHANGED <<since, pageVars>>

-----------------------------------------------------------------------------
(***************************************************************************)
(* release, stop and the watchdog.                                         *)
(***************************************************************************)
Disarmed == IF watchdog = "armed" THEN "none" ELSE watchdog

Release ==
    /\ Goto("release", "close")
    /\ watchdog' = Disarmed
    /\ UNCHANGED <<requested, loopVars, browserVars, context, timeVars, pageVars, raising>>

CloseContext ==
    /\ Goto("close", "kill")
    /\ context' = "closed"
    /\ UNCHANGED <<requested, loopVars, browserVars, watchdog, timeVars, pageVars, raising>>

\* stop: the watchdogs of contexts that were not released are cancelled.
Kill ==
    /\ Goto("kill", "stop")
    /\ watchdog' = Disarmed
    /\ UNCHANGED <<requested, loopVars, browserVars, context, timeVars, pageVars, raising>>

AfterStop == IF raising THEN "raised" ELSE "decide"

\* Bug: the browser is left to the next attempt.
StopDriverOnly ==
    /\ Goto("stop", AfterStop)
    /\ driver' = FALSE
    /\ UNCHANGED <<requested, loopVars, browser, contextVars, timeVars, pageVars, raising>>

\* The browser takes its contexts along.
Stop ==
    /\ Goto("stop", AfterStop)
    /\ browser' = FALSE /\ driver' = FALSE
    /\ context' = "closed"
    /\ UNCHANGED <<requested, loopVars, watchdog, timeVars, pageVars, raising>>

\* The browser is gone already, and closing it raises: the driver goes on.
StopFails ==
    /\ CanFail("stop")
    /\ Goto("stop", "raised")
    /\ browser' = FALSE
    /\ context' = "closed"
    /\ UNCHANGED <<requested, loopVars, driver, watchdog, timeVars, pageVars, raising>>

WatchdogFires ==
    /\ watchdog = "armed" /\ age >= ContextTimeout
    /\ watchdog' = "closing"
    /\ UNCHANGED <<requested, pc, loopVars, browserVars, context, timeVars, pageVars, raising>>

WatchdogCloses ==
    /\ watchdog = "closing"
    /\ watchdog' = "over"
    /\ context' = "closed"
    /\ UNCHANGED <<requested, pc, loopVars, browserVars, timeVars, pageVars, raising>>

\* Time is told where a timer runs.
Tick ==
    /\ watchdog = "armed" \/ pc \in {"goto", "wait"}
    /\ watchdog = "armed" => age < ContextTimeout
    /\ pc = "goto" => since < GotoTimeout
    /\ pc = "wait" => since < LazyWait
    /\ age' = IF watchdog = "armed" THEN age + 1 ELSE age
    /\ since' = IF pc \in {"goto", "wait"} THEN since + 1 ELSE since
    /\ UNCHANGED <<requested, pc, loopVars, browserVars, contextVars, pageVars, raising>>

-----------------------------------------------------------------------------
(***************************************************************************)
(* The loop.                                                               *)
(***************************************************************************)
\* Bug: one retry too many.
ShouldRetryTwice(n) == n <= 2 /\ RetryBlockedOnce

ShouldRetryBlocked(n) == n = 1 /\ RetryBlockedOnce

Decide ==
    /\ Goto("decide", IF ~ blocked THEN "completed"
                      ELSE IF ShouldRetryBlocked(attempt) THEN "retry" ELSE "waf_blocked")
    /\ opts' = [attempts |-> attempt, proxies |-> tried]
    /\ UNCHANGED <<requested, attempt, country, tried, exits, stored, browserVars,
                   contextVars, timeVars, pageVars, raising>>

\* Bug: the new country is asked for but not noted.
RetryUnnoted ==
    /\ Goto("retry", "proxy")
    /\ IF OtherCountries(country) = {} THEN UNCHANGED country
       ELSE country' \in OtherCountries(country)
    /\ attempt' = attempt + 1
    /\ stored' = opts.attempts
    /\ UNCHANGED <<requested, tried, exits, opts, browserVars, contextVars, timeVars,
                   pageVars, raising>>

\* Bug: any country of the pool will do.
RetryAnywhere ==
    /\ Goto("retry", "proxy")
    /\ IF Pool = {} THEN UNCHANGED <<country, tried>>
       ELSE country' \in Pool /\ tried' = tried \cup {country'}
    /\ attempt' = attempt + 1
    /\ stored' = opts.attempts
    /\ UNCHANGED <<requested, exits, opts, browserVars, contextVars, timeVars, pageVars, raising>>

\* Bug: the attempt goes into the row but is not counted.
RetryUncounted ==
    /\ Goto("retry", "proxy")
    /\ stored' = opts.attempts
    /\ UNCHANGED <<requested, attempt, country, tried, exits, opts, browserVars,
                   contextVars, timeVars, pageVars, raising>>

\* Another country if the pool has one; then the attempt goes into the row.
Retry ==
    /\ Goto("retry", "proxy")
    /\ IF OtherCountries(country) = {} THEN UNCHANGED <<country, tried>>
       ELSE country' \in OtherCountries(country) /\ tried' = tried \cup {country'}
    /\ attempt' = attempt + 1
    /\ stored' = opts.attempts
    /\ UNCHANGED <<requested, exits, opts, browserVars, contextVars, timeVars, pageVars, raising>>

RetryFails ==
    /\ CanFail("options")
    /\ Goto("retry", "raised")
    /\ UNCHANGED <<requested, loopVars, browserVars, contextVars, timeVars, pageVars, raising>>

-----------------------------------------------------------------------------
\* What the task does whatever the page does.
Progress ==
    \/ GetProxy \/ Launch \/ Acquire \/ OpenPage \/ Robots \/ LazyWaitOver \/ Judge
    \/ PageRaises \/ Screenshot \/ Release \/ CloseContext \/ Kill \/ Stop \/ Decide \/ Retry

Fault == LaunchFails \/ AcquireFails \/ StopFails \/ RetryFails

\* What hangs on the page and ends only with a timer.
PageEnds ==
    \/ NavigateFails /\ (~ Alive \/ since >= GotoTimeout)
    \/ Drain /\ ~ Alive

Clockwork == Tick \/ WatchdogFires \/ WatchdogCloses

Finished == pc \in Over /\ UNCHANGED vars

Next ==
    \/ Progress \/ Navigate \/ NavigateFails \/ Drain \/ Fault
    \/ Tick \/ WatchdogFires \/ WatchdogCloses
    \/ Finished

Spec == Init /\ [][Next]_vars

\* The task and the timers go on; the page need never answer.
Fairness == WF_vars(Progress) /\ WF_vars(PageEnds) /\ WF_vars(Clockwork)

FairSpec == Spec /\ Fairness
-----------------------------------------------------------------------------
TypeOK ==
    /\ requested \in Countries \cup {Direct}
    /\ pc \in Steps
    /\ attempt \in 1 .. 2
    /\ country \in Countries \cup {Direct}
    /\ tried \subseteq Countries
    /\ exits \in Seq(Pool \cup {Direct})
    /\ opts \in [attempts : 0 .. 2, proxies : SUBSET Countries]
    /\ stored \in 0 .. 2
    /\ driver \in BOOLEAN /\ browser \in BOOLEAN
    /\ context \in {"none", "open", "closed"}
    /\ watchdog \in {"none", "armed", "closing", "over"}
    /\ age \in 0 .. ContextTimeout
    /\ since \in 0 .. GotoTimeout + LazyWait
    /\ gotoError \in BOOLEAN /\ blocked \in BOOLEAN
    /\ dom \in {"unread", "read", "lost"}
    /\ raising \in BOOLEAN

\* However an attempt ends, and wherever the watchdog was in between, it leaves
\* no browser, no open context and no armed watchdog behind; only a scan that
\* fails can leave its driver (the finally of _scan_once, release, _kill).
NothingLeftOpen ==
    pc \in BetweenAttempts \cup Over =>
        /\ ~ browser /\ context # "open" /\ watchdog # "armed"
        /\ driver => pc = "raised"

\* A context that was closed under the page before it was read never makes a
\* report: the scan fails instead of looking completed and harmless (the
\* watchdog's kill is noticed by the unguarded calls of PageController.run).
NoBlindReport == pc \in {"decide", "retry", "completed", "waf_blocked"} => dom # "lost"

\* A requested country of the pool is the exit of the first attempt, and never
\* that of the retry if the pool has another (README:583).
CountryHonoured ==
    requested \in Pool =>
        /\ exits # <<>> => exits[1] = requested
        /\ Len(exits) = 2 /\ Pool # {requested} => exits[2] # requested

\* The options of a finished scan tell how often it was tried and, when its
\* country was in the pool, through which countries it really went out.
ExitsRecorded ==
    pc \in {"completed", "waf_blocked"} =>
        /\ opts.attempts = Len(exits)
        /\ requested \in Pool => opts.proxies = {exits[i] : i \in DOMAIN exits}


\* docs/BUILD_LOG.md:108: "Navigation failures (DNS/timeout/net-error) still yield
\* partial evidence instead of failing the scan".
NavigationFailuresYieldEvidence == pc = "raised" => ~ gotoError

-----------------------------------------------------------------------------
(***************************************************************************)
(* The attempts as one task of ScanLifecycle sees them.                    *)
(***************************************************************************)
TaskStep ==
    CASE pc = "retry" -> "options"
      [] pc \in {"completed", "waf_blocked"} -> "persist"
      [] pc = "raised" -> "mark_failed"
      [] OTHER -> "scan"

Verdict == IF pc \in {"completed", "waf_blocked"} THEN pc ELSE "none"

Task == INSTANCE ScanLifecycle WITH
    Scans <- {"scan"}, Users <- {"user"}, Urls <- {"url"}, Workers <- {"worker"},
    None <- "none", Faults <- {"scan", "options"}, MaxDeliveries <- 1,
    request <- [s \in {"scan"} |-> [user |-> "user", url |-> "url", force |-> TRUE]],
    api <- [s \in {"scan"} |-> "accepted"],
    hit <- [s \in {"scan"} |-> "none"],
    status <- [s \in {"scan"} |-> "running"],
    report <- [s \in {"scan"} |-> "none"],
    attempts <- [s \in {"scan"} |-> stored],
    cache <- [u \in {"url"} |-> "none"],
    ready <- {}, unacked <- {"scan"},
    deliveries <- [s \in {"scan"} |-> 1],
    pc <- [w \in {"worker"} |-> TaskStep],
    task <- [w \in {"worker"} |-> "scan"],
    attempt <- [w \in {"worker"} |-> attempt],
    verdict <- [w \in {"worker"} |-> Verdict]

\* Proxies, browser, watchdog and page together do nothing but what ScanLifecycle
\* lets a running task do: one outcome per attempt, one retry, or an exception.
RefinesTask ==
    [][\/ Task!ScanOnce("worker") \/ Task!UpdateOptions("worker")
       \/ Task!Raise("worker")]_(Task!vars)
=============================================================================
