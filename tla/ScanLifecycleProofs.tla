------------------------ MODULE ScanLifecycleProofs ------------------------
(***************************************************************************)
(* What holds of ScanLifecycle for any number of requests, users, URLs and *)
(* workers and any set of faults, proved with TLAPS.                       *)
(***************************************************************************)
EXTENDS ScanLifecycle, TLAPS

\* What a worker knows of its task while it runs it.
WorkerKnows ==
    \A w \in Workers :
        /\ pc[w] # "idle" => task[w] \in Scans
        /\ pc[w] = "idle" => task[w] = None
        /\ pc[w] = "options" => attempt[w] = 1
        /\ pc[w] \in {"persist"} \cup AfterCommit => verdict[w] \in Verdicts
        /\ pc[w] \in AfterCommit => report[task[w]] # "none"

\* What create_scan knows of a request it looks up in the cache.
HandlerKnows ==
    \A s \in Scans :
        /\ api[s] \in {"lookup", "check"} => ~ request[s].force
        /\ api[s] = "check" => /\ hit[s] \in Scans
                               /\ request[hit[s]].url = request[s].url

\* The inductive invariant of the steps that any fault may interrupt.
IInv == /\ TypeOK
        /\ WorkerKnows
        /\ HandlerKnows
        /\ ReportMatchesStatus
        /\ CacheHoldsReported

-----------------------------------------------------------------------------
\* Before the first request there is nothing to know.
LEMMA InitIInv == Init => IInv
BY NoneAssumption
   DEF Init, IInv, TypeOK, WorkerKnows, HandlerKnows, ReportMatchesStatus,
       CacheHoldsReported, ApiStates, Statuses, Terminal, Verdicts, WorkStates,
       BeforeCommit, AfterCommit

USE DEF apiVars, rowVars, brokerVars, workVars, Statuses, Terminal, Verdicts

\* Every step of the handler, the broker and the workers preserves IInv.
LEMMA NextIInv == IInv /\ [Next]_vars => IInv'
<1> SUFFICES ASSUME IInv, [Next]_vars PROVE IInv'
    OBVIOUS
<1> USE NoneAssumption DEF IInv
<1>1. ASSUME NEW s \in Scans, Request(s) PROVE IInv'
    BY <1>1 DEF Request, ApiMove, TypeOK, WorkerKnows, HandlerKnows, ReportMatchesStatus,
       CacheHoldsReported, ApiStates
<1>2. ASSUME NEW s \in Scans, LookupCache(s) PROVE IInv'
  <2> DEFINE found == cache[request[s].url]
  <2>1. /\ ~ request[s].force
        /\ found # None => found \in Scans /\ request[found].url = request[s].url
    BY <1>2 DEF LookupCache, ApiMove, TypeOK, HandlerKnows, CacheHoldsReported
  <2>2. CASE found # None /\ ApiMove(s, "lookup", "check") /\ hit' = [hit EXCEPT ![s] = found]
    BY <1>2, <2>1, <2>2 DEF LookupCache, ApiMove, TypeOK, WorkerKnows, HandlerKnows,
       ReportMatchesStatus, CacheHoldsReported, ApiStates
  <2>3. CASE ApiMove(s, "lookup", "insert") /\ UNCHANGED hit
    BY <1>2, <2>3 DEF LookupCache, ApiMove, TypeOK, WorkerKnows, HandlerKnows,
       ReportMatchesStatus, CacheHoldsReported, ApiStates
  <2>4. QED
    BY <1>2, <2>2, <2>3 DEF LookupCache
<1>3. ASSUME NEW s \in Scans, CheckCached(s) PROVE IInv'
    BY <1>3 DEF CheckCached, ApiMove, TypeOK, WorkerKnows, HandlerKnows, ReportMatchesStatus,
       CacheHoldsReported, ApiStates
<1>4. ASSUME NEW s \in Scans, InsertScan(s) PROVE IInv'
    BY <1>4 DEF InsertScan, ApiMove, TypeOK, WorkerKnows, HandlerKnows, ReportMatchesStatus,
       CacheHoldsReported, ApiStates
<1>5. ASSUME NEW s \in Scans, Enqueue(s) PROVE IInv'
    BY <1>5 DEF Enqueue, ApiMove, TypeOK, WorkerKnows, HandlerKnows, ReportMatchesStatus,
       CacheHoldsReported, ApiStates
<1>6. ASSUME NEW s \in Scans, RequestFails(s) PROVE IInv'
    BY <1>6 DEF RequestFails, TypeOK, WorkerKnows, HandlerKnows, ReportMatchesStatus,
       CacheHoldsReported, ApiStates
<1>7. ASSUME NEW s \in Scans, Redeliver(s) PROVE IInv'
    BY <1>7 DEF Redeliver, TypeOK, WorkerKnows, HandlerKnows, ReportMatchesStatus,
       CacheHoldsReported
<1>8. ASSUME NEW u \in Urls, ExpireCache(u) PROVE IInv'
    BY <1>8 DEF ExpireCache, TypeOK, WorkerKnows, HandlerKnows, ReportMatchesStatus,
       CacheHoldsReported
<1>9. ASSUME NEW w \in Workers, NEW s \in Scans, Receive(w, s) PROVE IInv'
    BY <1>9 DEF Receive, HandOut, TypeOK, WorkerKnows, HandlerKnows, ReportMatchesStatus,
       CacheHoldsReported, WorkStates, BeforeCommit, AfterCommit
<1>10. ASSUME NEW w \in Workers, Start(w) PROVE IInv'
    BY <1>10 DEF Start, Move, TypeOK, WorkerKnows, HandlerKnows, ReportMatchesStatus,
       CacheHoldsReported, WorkStates, BeforeCommit, AfterCommit
<1>11. ASSUME NEW w \in Workers, ScanOnce(w) PROVE IInv'
    BY <1>11 DEF ScanOnce, ShouldRetryBlocked, Move, TypeOK, WorkerKnows, HandlerKnows,
       ReportMatchesStatus, CacheHoldsReported, WorkStates, BeforeCommit, AfterCommit
<1>12. ASSUME NEW w \in Workers, UpdateOptions(w) PROVE IInv'
    BY <1>12 DEF UpdateOptions, Move, TypeOK, WorkerKnows, HandlerKnows, ReportMatchesStatus,
       CacheHoldsReported, WorkStates, BeforeCommit, AfterCommit
<1>13. ASSUME NEW w \in Workers, Persist(w) PROVE IInv'
    BY <1>13 DEF Persist, Move, TypeOK, WorkerKnows, HandlerKnows, ReportMatchesStatus,
       CacheHoldsReported, WorkStates, BeforeCommit, AfterCommit
<1>14. ASSUME NEW w \in Workers, SelectHooks(w) PROVE IInv'
    BY <1>14 DEF SelectHooks, AfterHooks, Move, TypeOK, WorkerKnows, HandlerKnows,
       ReportMatchesStatus, CacheHoldsReported, WorkStates, BeforeCommit, AfterCommit
<1>15. ASSUME NEW w \in Workers, Dispatch(w) PROVE IInv'
    BY <1>15 DEF Dispatch, AfterHooks, Move, TypeOK, WorkerKnows, HandlerKnows,
       ReportMatchesStatus, CacheHoldsReported, WorkStates, BeforeCommit, AfterCommit
<1>16. ASSUME NEW w \in Workers, CacheResult(w) PROVE IInv'
    BY <1>16 DEF CacheResult, Move, TypeOK, WorkerKnows, HandlerKnows, ReportMatchesStatus,
       CacheHoldsReported, WorkStates, BeforeCommit, AfterCommit
<1>17. ASSUME NEW w \in Workers, MarkFailed(w) PROVE IInv'
    BY <1>17 DEF MarkFailed, Move, TypeOK, WorkerKnows, HandlerKnows, ReportMatchesStatus,
       CacheHoldsReported, WorkStates, BeforeCommit, AfterCommit
<1>18. ASSUME NEW w \in Workers, Ack(w) \/ Crash(w) \/ ChildLost(w) PROVE IInv'
  <2>1. /\ Drop(w)
        /\ unacked' \subseteq unacked
        /\ UNCHANGED <<apiVars, rowVars, cache, ready, deliveries>>
    BY <1>18 DEF Ack, Crash, ChildLost
  <2>2. TypeOK'
    BY <2>1 DEF Drop, TypeOK, WorkStates
  <2>3. WorkerKnows'
    BY <2>1 DEF Drop, TypeOK, WorkerKnows, AfterCommit
  <2>4. QED
    BY <2>1, <2>2, <2>3 DEF HandlerKnows, ReportMatchesStatus, CacheHoldsReported
<1>19. ASSUME NEW w \in Workers, StartFails(w) \/ Raise(w) \/ MarkFailedFails(w)
       PROVE IInv'
    BY <1>19 DEF StartFails, Raise, MarkFailedFails, Move, TypeOK, WorkerKnows, HandlerKnows,
       ReportMatchesStatus, CacheHoldsReported, WorkStates, BeforeCommit, AfterCommit
<1>20. CASE UNCHANGED vars
    BY <1>20 DEF vars, TypeOK, WorkerKnows, HandlerKnows, ReportMatchesStatus,
       CacheHoldsReported
<1>21. QED
    BY <1>1, <1>2, <1>3, <1>4, <1>5, <1>6, <1>7, <1>8, <1>9, <1>10, <1>11, <1>12, <1>13,
       <1>14, <1>15, <1>16, <1>17, <1>18, <1>19, <1>20
       DEF Next, ApiStep, WorkerStep, WorkerFault, Rest

\* IInv holds in every reachable state, whatever the faults.
THEOREM Invariance == Spec => []IInv
BY InitIInv, NextIInv, PTL DEF Spec

\* Every variable keeps its type: above all, no scan is attempted a third time.
THEOREM TypeCorrect == Spec => []TypeOK
<1>1. IInv => TypeOK
    BY DEF IInv
<1>2. QED
    BY <1>1, Invariance, PTL

\* No fault, not even a message redelivered under a running task, separates a
\* scan's status from its report.
THEOREM ReportsMatch == Spec => []ReportMatchesStatus
<1>1. IInv => ReportMatchesStatus
    BY DEF IInv
<1>2. QED
    BY <1>1, Invariance, PTL

\* The result cache never leads to a scan of another URL or without a report.
THEOREM CacheSound == Spec => []CacheHoldsReported
<1>1. IInv => CacheHoldsReported
    BY DEF IInv
<1>2. QED
    BY <1>1, Invariance, PTL

\* The answer given from the cache is right when it is given.
THEOREM CachedAnswersSound == Spec => CachedAnswersAreUsable
<1>1. IInv /\ [Next]_vars => [\A s \in Scans : UsableCachedAnswer(s)]_vars
  <2> SUFFICES ASSUME IInv, Next, NEW s \in Scans, api[s] # "cached", api'[s] = "cached"
               PROVE  UsableCachedAnswer(s)
    BY DEF UsableCachedAnswer
  <2>1. CheckCached(s)
    <3>1. ASSUME NEW r \in Scans, Request(r) \/ LookupCache(r) \/ InsertScan(r) \/ Enqueue(r)
                                     \/ RequestFails(r)
          PROVE  FALSE
        BY <3>1 DEF Request, LookupCache, InsertScan, Enqueue, RequestFails, ApiMove, IInv, TypeOK
    <3>2. ASSUME NEW r \in Scans, CheckCached(r) PROVE r = s
        BY <3>2 DEF CheckCached, ApiMove, IInv, TypeOK
    <3>3. ASSUME NEW r \in Scans, Redeliver(r) PROVE FALSE
        BY <3>3 DEF Redeliver
    <3>4. ASSUME NEW u \in Urls, ExpireCache(u) PROVE FALSE
        BY <3>4 DEF ExpireCache
    <3>5. ASSUME NEW w \in Workers, NEW r \in Scans, Receive(w, r) PROVE FALSE
        BY <3>5 DEF Receive, HandOut
    <3>6. ASSUME NEW w \in Workers, WorkerStep(w) \/ WorkerFault(w) PROVE FALSE
        BY <3>6 DEF WorkerStep, WorkerFault, Start, ScanOnce, UpdateOptions, Persist,
           SelectHooks, Dispatch, CacheResult, MarkFailed, Ack, StartFails, Raise,
           MarkFailedFails, Crash, ChildLost
    <3>7. ~ Rest
        BY DEF Rest, vars
    <3>8. QED
        BY <3>1, <3>2, <3>3, <3>4, <3>5, <3>6, <3>7 DEF Next, ApiStep
  <2>2. Usable(s, hit[s]) /\ api[s] = "check"
    BY <2>1 DEF CheckCached, ApiMove, IInv, TypeOK
  <2>3. QED
    BY <2>2 DEF Usable, UsableCachedAnswer, IInv, HandlerKnows, ReportMatchesStatus
<1>2. QED
    BY <1>1, Invariance, PTL DEF Spec, CachedAnswersAreUsable

-----------------------------------------------------------------------------
(***************************************************************************)
(* A queue that never hands out a message whose task still runs.           *)
(***************************************************************************)
NoOverrun == "overrun" \notin Faults

\* Only requests that were accepted have messages, and each has at most one.
OneMessage ==
    /\ ready \cap unacked = {}
    /\ \A s \in ready \cup unacked : api[s] = "accepted"

\* What the row of a task says at each step of its worker.
RowFollowsTask ==
    \A w \in Workers :
        /\ pc[w] \in BeforeCommit => status[task[w]] = "running"
        /\ pc[w] \in AfterCommit => status[task[w]] = verdict[w]
        /\ pc[w] \in AfterCommit => report[task[w]] = verdict[w]

AttemptsAllowed == IF RetryBlockedOnce THEN 2 ELSE 1

\* The attempt a worker makes is one the policy allows, and a blocked verdict
\* is given only at the last of them.
AttemptFollowsPolicy ==
    \A w \in Workers :
        /\ pc[w] \in BeforeCommit => attempt[w] \in 1 .. AttemptsAllowed
        /\ pc[w] = "options" => RetryBlockedOnce
        /\ pc[w] = "persist" /\ verdict[w] = "waf_blocked" => attempt[w] = AttemptsAllowed

SInv == /\ IInv
        /\ OneMessage
        /\ OneHolder
        /\ RowFollowsTask
        /\ AttemptFollowsPolicy
        /\ BlockedMeansRetried

\* No message, no task and no row: SInv holds at the start.
LEMMA InitSInv == Init => SInv
<1>1. Init => IInv
    BY InitIInv
<1>2. Init => OneMessage /\ OneHolder /\ RowFollowsTask /\ AttemptFollowsPolicy
                /\ BlockedMeansRetried
    BY DEF Init, OneMessage, OneHolder, RowFollowsTask, AttemptFollowsPolicy,
       BlockedMeansRetried, BeforeCommit, AfterCommit
<1>3. QED
    BY <1>1, <1>2 DEF SInv

\* A step of the handler neither touches a worker nor a row that exists.
LEMMA HandlerSInv ==
    ASSUME SInv, IInv', NEW s \in Scans, Request(s) \/ ApiStep(s) \/ RequestFails(s)
    PROVE  SInv'
<1>1. UNCHANGED <<workVars, unacked, report, attempts>>
    BY DEF ApiStep, Request, LookupCache, CheckCached, InsertScan, Enqueue, RequestFails
<1>2. CASE Enqueue(s)
    BY <1>1, <1>2 DEF Enqueue, ApiMove, SInv, IInv, TypeOK, OneMessage, OneHolder, RowFollowsTask,
       AttemptFollowsPolicy, BlockedMeansRetried
<1>3. CASE InsertScan(s)
  <2>1. s \notin ready \cup unacked
    BY <1>3 DEF InsertScan, ApiMove, SInv, OneMessage
  <2>2. \A w \in Workers : pc[w] # "idle" => task[w] # s
    BY <2>1 DEF SInv, OneHolder
  <2>3. OneMessage' /\ OneHolder' /\ AttemptFollowsPolicy'
    BY <1>1, <1>3, <2>1 DEF InsertScan, ApiMove, SInv, IInv, TypeOK, OneMessage, OneHolder,
       AttemptFollowsPolicy
  <2>4. RowFollowsTask'
    BY <1>1, <1>3, <2>2 DEF InsertScan, SInv, IInv, TypeOK, RowFollowsTask, BeforeCommit,
       AfterCommit
  <2>5. BlockedMeansRetried'
    BY <1>1, <1>3 DEF InsertScan, SInv, IInv, TypeOK, BlockedMeansRetried
  <2>6. QED
    BY <2>3, <2>4, <2>5 DEF SInv
<1>4. CASE Request(s) \/ LookupCache(s) \/ CheckCached(s) \/ RequestFails(s)
  <2>1. /\ UNCHANGED <<status, ready>>
        /\ api[s] # "accepted"
        /\ api' = [api EXCEPT ![s] = api'[s]]
    BY <1>4 DEF Request, LookupCache, CheckCached, RequestFails, ApiMove, SInv, IInv, TypeOK
  <2>2. QED
    BY <1>1, <2>1 DEF SInv, IInv, TypeOK, OneMessage, OneHolder, RowFollowsTask,
       AttemptFollowsPolicy, BlockedMeansRetried
<1>5. QED
    BY <1>2, <1>3, <1>4 DEF ApiStep

\* A step of a worker that keeps its task changes only its own locals and the
\* row of that task.
LEMMA WorkerFrame ==
    ASSUME IInv, NEW w \in Workers, WorkerStep(w) \/ WorkerFault(w),
           ~ (Ack(w) \/ Crash(w) \/ ChildLost(w))
    PROVE  /\ pc[w] # "idle"
           /\ UNCHANGED <<apiVars, brokerVars, task>>
           /\ pc' = [pc EXCEPT ![w] = pc'[w]]
           /\ status' = [status EXCEPT ![task[w]] = status'[task[w]]]
           /\ report' = [report EXCEPT ![task[w]] = report'[task[w]]]
           /\ attempts' = [attempts EXCEPT ![task[w]] = attempts'[task[w]]]
           /\ attempt' = [attempt EXCEPT ![w] = attempt'[w]]
           /\ verdict' = [verdict EXCEPT ![w] = verdict'[w]]
BY DEF WorkerStep, WorkerFault, Start, ScanOnce, UpdateOptions, Persist, SelectHooks, Dispatch,
   CacheResult, MarkFailed, StartFails, Raise, MarkFailedFails, Move, IInv, TypeOK,
   BeforeCommit, AfterCommit

\* Hence it disturbs only what the invariant says of that task.
LEMMA WorkerSInv ==
    ASSUME SInv, IInv', NEW w \in Workers, WorkerStep(w) \/ WorkerFault(w)
    PROVE  SInv'
<1> USE DEF SInv, BeforeCommit, AfterCommit
<1>1. ASSUME Ack(w) \/ Crash(w) \/ ChildLost(w) PROVE SInv'
  <2>1. /\ Drop(w)
        /\ pc[w] # "idle"
        /\ unacked' \in {unacked, unacked \ {task[w]}}
        /\ UNCHANGED <<apiVars, rowVars, cache, ready, deliveries>>
    BY <1>1 DEF Ack, Crash, ChildLost
  <2>2. OneMessage'
    BY <2>1 DEF OneMessage
  <2>3. OneHolder'
    BY <2>1, NoneAssumption DEF Drop, IInv, TypeOK, WorkerKnows, OneHolder
  <2>4. RowFollowsTask' /\ AttemptFollowsPolicy' /\ BlockedMeansRetried'
    BY <2>1 DEF Drop, IInv, TypeOK, RowFollowsTask, AttemptFollowsPolicy, BlockedMeansRetried
  <2>5. QED
    BY <2>2, <2>3, <2>4
<1>2. CASE ~ (Ack(w) \/ Crash(w) \/ ChildLost(w))
  <2>1. /\ pc[w] # "idle"
        /\ UNCHANGED <<apiVars, brokerVars, task>>
        /\ pc' = [pc EXCEPT ![w] = pc'[w]]
        /\ status' = [status EXCEPT ![task[w]] = status'[task[w]]]
        /\ report' = [report EXCEPT ![task[w]] = report'[task[w]]]
        /\ attempts' = [attempts EXCEPT ![task[w]] = attempts'[task[w]]]
        /\ attempt' = [attempt EXCEPT ![w] = attempt'[w]]
        /\ verdict' = [verdict EXCEPT ![w] = verdict'[w]]
    BY <1>2, WorkerFrame
  <2>2. /\ task[w] \in Scans
        /\ \A v \in Workers : v # w /\ pc[v] # "idle" => task[v] # task[w]
    BY <2>1, NoneAssumption DEF IInv, WorkerKnows, OneHolder
  <2>3. OneMessage' /\ OneHolder'
    BY <2>1 DEF OneMessage, OneHolder, IInv, TypeOK
  <2>4. /\ pc'[w] \in BeforeCommit =>
              /\ status'[task[w]] = "running"
              /\ attempt'[w] \in 1 .. AttemptsAllowed
        /\ pc'[w] = "options" => RetryBlockedOnce
        /\ pc'[w] = "persist" /\ verdict'[w] = "waf_blocked" => attempt'[w] = AttemptsAllowed
        /\ pc'[w] \in AfterCommit =>
              status'[task[w]] = verdict'[w] /\ report'[task[w]] = verdict'[w]
        /\ status'[task[w]] = "waf_blocked" => attempts'[task[w]] = AttemptsAllowed
    <3> USE <2>2, RetryAssumption DEF IInv, TypeOK, WorkerKnows, RowFollowsTask,
                AttemptFollowsPolicy, AttemptsAllowed, BlockedMeansRetried
    <3>1. CASE Start(w)
        BY <3>1 DEF Start, Move
    <3>2. CASE ScanOnce(w)
        BY <3>2 DEF ScanOnce, Move, ShouldRetryBlocked
    <3>3. CASE UpdateOptions(w)
        BY <3>3 DEF UpdateOptions, Move
    <3>4. CASE Persist(w)
        BY <3>4 DEF Persist, Move
    <3>5. CASE SelectHooks(w)
        BY <3>5 DEF SelectHooks, Move, AfterHooks
    <3>6. CASE Dispatch(w) \/ CacheResult(w)
        BY <3>6 DEF Dispatch, CacheResult, Move, AfterHooks
    <3>7. CASE MarkFailed(w)
        BY <3>7 DEF MarkFailed, Move
    <3>8. CASE StartFails(w) \/ Raise(w) \/ MarkFailedFails(w)
        BY <3>8 DEF StartFails, Raise, MarkFailedFails, Move
    <3>9. QED
        BY <1>2, <3>1, <3>2, <3>3, <3>4, <3>5, <3>6, <3>7, <3>8 DEF WorkerStep, WorkerFault
  <2>5. ASSUME NEW v \in Workers, v # w
        PROVE  /\ pc'[v] = pc[v] /\ task'[v] = task[v]
               /\ attempt'[v] = attempt[v] /\ verdict'[v] = verdict[v]
               /\ pc[v] # "idle" => /\ status'[task[v]] = status[task[v]]
                                    /\ report'[task[v]] = report[task[v]]
    BY <2>1, <2>2, <2>5 DEF IInv, TypeOK, WorkerKnows
  <2>6. RowFollowsTask' /\ AttemptFollowsPolicy'
    <3>1. task'[w] = task[w]
        BY <2>1
    <3>2. ASSUME NEW v \in Workers, v # w
          PROVE  /\ pc'[v] \in BeforeCommit => status'[task'[v]] = "running"
                 /\ pc'[v] \in AfterCommit =>
                        status'[task'[v]] = verdict'[v] /\ report'[task'[v]] = verdict'[v]
                 /\ pc'[v] \in BeforeCommit => attempt'[v] \in 1 .. AttemptsAllowed
                 /\ pc'[v] = "options" => RetryBlockedOnce
                 /\ pc'[v] = "persist" /\ verdict'[v] = "waf_blocked" =>
                        attempt'[v] = AttemptsAllowed
        BY <2>5, <3>2 DEF RowFollowsTask, AttemptFollowsPolicy
    <3>3. QED
        BY <2>4, <3>1, <3>2 DEF RowFollowsTask, AttemptFollowsPolicy, AttemptsAllowed
  <2>7. BlockedMeansRetried'
    BY <2>1, <2>2, <2>4 DEF BlockedMeansRetried, AttemptsAllowed, IInv, TypeOK
  <2>8. QED
    BY <2>3, <2>6, <2>7
<1>3. QED
    BY <1>1, <1>2

\* Every step preserves SInv if no message is handed out under a running task.
LEMMA NextSInv == NoOverrun /\ SInv /\ [Next]_vars => SInv'
<1> SUFFICES ASSUME NoOverrun, SInv, [Next]_vars PROVE SInv'
    OBVIOUS
<1>1. IInv'
    BY NextIInv DEF SInv
<1>2. ASSUME NEW s \in Scans, Request(s) \/ ApiStep(s) \/ RequestFails(s) PROVE SInv'
    BY <1>1, <1>2, HandlerSInv
<1>3. ASSUME NEW s \in Scans, Redeliver(s) PROVE SInv'
    BY <1>1, <1>3 DEF Redeliver, CanFail, NoOverrun, SInv, IInv, TypeOK, WorkerKnows, OneMessage,
       OneHolder, RowFollowsTask, AttemptFollowsPolicy, BlockedMeansRetried
<1>4. ASSUME NEW u \in Urls, ExpireCache(u) PROVE SInv'
    BY <1>1, <1>4 DEF ExpireCache, SInv, OneMessage, OneHolder, RowFollowsTask,
       AttemptFollowsPolicy, BlockedMeansRetried
<1>5. ASSUME NEW w \in Workers, NEW s \in Scans, Receive(w, s) PROVE SInv'
  <2>1. \A v \in Workers : task[v] # s
    BY <1>5, NoneAssumption DEF Receive, HandOut, SInv, IInv, TypeOK, OneMessage, OneHolder,
       WorkerKnows
  <2>2. OneMessage'
    BY <1>5 DEF Receive, HandOut, SInv, IInv, TypeOK, OneMessage
  <2>3. OneHolder'
    BY <1>5, <2>1 DEF Receive, HandOut, SInv, IInv, TypeOK, OneHolder
  <2>4. RowFollowsTask' /\ AttemptFollowsPolicy' /\ BlockedMeansRetried'
    BY <1>5 DEF Receive, HandOut, SInv, IInv, TypeOK, RowFollowsTask, AttemptFollowsPolicy,
       BlockedMeansRetried, BeforeCommit, AfterCommit
  <2>5. QED
    BY <1>1, <2>2, <2>3, <2>4 DEF SInv
<1>6. ASSUME NEW w \in Workers, WorkerStep(w) \/ WorkerFault(w) PROVE SInv'
    BY <1>1, <1>6, WorkerSInv
<1>7. CASE UNCHANGED vars
    BY <1>1, <1>7 DEF vars, SInv, OneMessage, OneHolder, RowFollowsTask,
       AttemptFollowsPolicy, BlockedMeansRetried
<1>8. QED
    BY <1>2, <1>3, <1>4, <1>5, <1>6, <1>7 DEF Next, Rest

\* Without overruns SInv holds in every reachable state.
THEOREM SingleDelivery == ASSUME NoOverrun PROVE Spec => []SInv
<1>1. SInv /\ [Next]_vars => SInv'
    BY NextSInv
<1>2. QED
    BY <1>1, InitSInv, PTL DEF Spec

\* What the webhooks and the cache are given is what the database shows.
THEOREM NotifiedResults == ASSUME NoOverrun PROVE Spec => []NotifiedResultIsStored
<1>1. SInv => NotifiedResultIsStored
    BY DEF SInv, RowFollowsTask, NotifiedResultIsStored
<1>2. QED
    BY <1>1, SingleDelivery, PTL

\* A scan is given up as blocked only after all the attempts the policy allows.
THEOREM BlockedScansRetried == ASSUME NoOverrun PROVE Spec => []BlockedMeansRetried
<1>1. SInv => BlockedMeansRetried
    BY DEF SInv
<1>2. QED
    BY <1>1, SingleDelivery, PTL

-----------------------------------------------------------------------------
(***************************************************************************)
(* Faults that leave a scan settled or its message with the broker.        *)
(***************************************************************************)
Recoverable == Faults \cap {"overrun", "start", "mark_failed", "lost"} = {}

\* A task raises only after it has recorded the failure.
RaisedIsSettled == \A w \in Workers : pc[w] = "raised" => status[task[w]] \in Terminal

FInv == SInv /\ RaisedIsSettled /\ NeverForgotten

\* No request has been accepted at the start.
LEMMA InitFInv == Init => FInv
<1>1. Init => RaisedIsSettled /\ NeverForgotten
    BY DEF Init, RaisedIsSettled, NeverForgotten
<1>2. QED
    BY <1>1, InitSInv DEF FInv

\* Every step preserves FInv if only recoverable faults happen.
LEMMA NextFInv == Recoverable /\ FInv /\ [Next]_vars => FInv'
<1> SUFFICES ASSUME Recoverable, FInv, [Next]_vars PROVE FInv'
    OBVIOUS
<1> USE DEF FInv
<1>1. SInv'
    BY NextSInv DEF Recoverable, NoOverrun
<1>2. ASSUME NEW s \in Scans, Request(s) \/ ApiStep(s) \/ RequestFails(s)
      PROVE  RaisedIsSettled' /\ NeverForgotten'
  <2>1. /\ UNCHANGED <<workVars, unacked>>
        /\ ready' \in {ready, ready \cup {s}}
        /\ api' = [api EXCEPT ![s] = api'[s]]
        /\ api'[s] = "accepted" => s \in ready'
    BY <1>2 DEF ApiStep, Request, LookupCache, CheckCached, InsertScan, Enqueue, RequestFails,
       ApiMove, SInv, IInv, TypeOK
  <2>2. status' = status \/ (InsertScan(s) /\ \A w \in Workers : pc[w] # "idle" => task[w] # s)
    BY <1>2 DEF ApiStep, Request, LookupCache, CheckCached, InsertScan, Enqueue, RequestFails,
       ApiMove, SInv, OneMessage, OneHolder
  <2>3. RaisedIsSettled'
    <3>1. \A w \in Workers : pc[w] = "raised" => status'[task[w]] = status[task[w]]
        BY <2>2 DEF InsertScan, SInv, IInv, TypeOK, WorkerKnows
    <3>2. QED
        BY <2>1, <3>1 DEF RaisedIsSettled
  <2>4. NeverForgotten'
    BY <2>1, <2>2 DEF InsertScan, ApiMove, NeverForgotten, SInv, IInv, TypeOK
  <2>5. QED
    BY <2>3, <2>4
<1>3. ASSUME NEW s \in Scans, Redeliver(s) PROVE RaisedIsSettled' /\ NeverForgotten'
    BY <1>3 DEF Redeliver, RaisedIsSettled, NeverForgotten
<1>4. ASSUME NEW u \in Urls, ExpireCache(u) PROVE RaisedIsSettled' /\ NeverForgotten'
    BY <1>4 DEF ExpireCache, RaisedIsSettled, NeverForgotten
<1>5. ASSUME NEW w \in Workers, NEW s \in Scans, Receive(w, s)
      PROVE  RaisedIsSettled' /\ NeverForgotten'
    BY <1>5 DEF Receive, HandOut, RaisedIsSettled, NeverForgotten, SInv, IInv, TypeOK
<1>6. ASSUME NEW w \in Workers, Ack(w) \/ Crash(w) \/ ChildLost(w)
      PROVE  RaisedIsSettled' /\ NeverForgotten'
  <2>1. Ack(w) => status[task[w]] \in Terminal
    BY DEF Ack, RaisedIsSettled, SInv, IInv, WorkerKnows, RowFollowsTask, AfterCommit
  <2>2. ~ ChildLost(w)
    BY DEF ChildLost, CanFail, Recoverable
  <2>3. QED
    BY <1>6, <2>1, <2>2 DEF Ack, Crash, Drop, RaisedIsSettled, NeverForgotten, SInv, IInv, TypeOK
<1>7. ASSUME NEW w \in Workers, WorkerStep(w) \/ WorkerFault(w),
             ~ (Ack(w) \/ Crash(w) \/ ChildLost(w))
      PROVE  RaisedIsSettled' /\ NeverForgotten'
  <2>1. /\ pc[w] # "idle"
        /\ UNCHANGED <<apiVars, brokerVars, task>>
        /\ pc' = [pc EXCEPT ![w] = pc'[w]]
        /\ status' = [status EXCEPT ![task[w]] = status'[task[w]]]
    BY <1>7, WorkerFrame DEF SInv
  <2>2. /\ task[w] \in unacked
        /\ \A v \in Workers : v # w /\ pc[v] # "idle" => task[v] # task[w]
    BY <2>1, NoneAssumption DEF SInv, IInv, WorkerKnows, OneHolder
  <2>3. pc'[w] = "raised" => MarkFailed(w)
    BY <1>7 DEF WorkerStep, WorkerFault, Start, ScanOnce, UpdateOptions, Persist, SelectHooks,
       Dispatch, AfterHooks, CacheResult, StartFails, Raise, MarkFailedFails, Move, CanFail,
       Recoverable, SInv, IInv, TypeOK
  <2>4. pc'[w] = "raised" => status'[task[w]] = "failed"
    BY <2>3 DEF MarkFailed, Move, SInv, IInv, TypeOK, WorkerKnows
  <2>5. ASSUME NEW v \in Workers, pc'[v] = "raised" PROVE status'[task'[v]] \in Terminal
    <3>1. CASE v = w
        BY <2>1, <2>4, <2>5, <3>1
    <3>2. CASE v # w
        BY <2>1, <2>2, <2>5, <3>2 DEF RaisedIsSettled, SInv, IInv, TypeOK, WorkerKnows
    <3>3. QED
        BY <3>1, <3>2
  <2>6. NeverForgotten'
    BY <2>1, <2>2 DEF NeverForgotten, SInv, IInv, TypeOK
  <2>7. QED
    BY <2>5, <2>6 DEF RaisedIsSettled
<1>8. CASE UNCHANGED vars
  <2>1. UNCHANGED <<api, status, ready, unacked, pc, task>>
    BY <1>8 DEF vars
  <2>2. QED
    BY <1>1, <2>1 DEF RaisedIsSettled, NeverForgotten
<1>9. RaisedIsSettled' /\ NeverForgotten'
    BY <1>2, <1>3, <1>4, <1>5, <1>6, <1>7, <1>8 DEF Next, Rest
<1>10. QED
    BY <1>1, <1>9

\* With such faults an accepted scan settles or stays with the broker: this is
\* the safety half of Settles.
THEOREM AcceptedScansKept == ASSUME Recoverable PROVE Spec => []NeverForgotten
<1>1. FInv /\ [Next]_vars => FInv'
    BY NextFInv
<1>2. FInv => NeverForgotten
    BY DEF FInv
<1>3. QED
    BY <1>1, <1>2, InitFInv, PTL DEF Spec

\* A message handed out is with a worker, unless that worker has died.
HeldOrAgain ==
    \A s \in unacked : (\E w \in Workers : task[w] = s) \/ deliveries[s] < MaxDeliveries

LEMMA NextHeldOrAgain == IInv /\ HeldOrAgain /\ [Next]_vars => HeldOrAgain'
<1> SUFFICES ASSUME IInv, HeldOrAgain, [Next]_vars PROVE HeldOrAgain'
    OBVIOUS
<1>1. ASSUME NEW s \in Scans, Request(s) \/ ApiStep(s) \/ RequestFails(s) \/ Redeliver(s)
      PROVE  unacked' \subseteq unacked /\ UNCHANGED <<task, deliveries>>
    BY <1>1 DEF ApiStep, Request, LookupCache, CheckCached, InsertScan, Enqueue, RequestFails,
       Redeliver
<1>2. ASSUME NEW w \in Workers, NEW s \in Scans, Receive(w, s) PROVE HeldOrAgain'
  <2>1. /\ unacked' = unacked \cup {s} /\ task' = [task EXCEPT ![w] = s]
        /\ deliveries' = [deliveries EXCEPT ![s] = @ + 1]
        /\ pc[w] = "idle"
    BY <1>2 DEF Receive, HandOut
  <2>2. task[w] = None /\ task'[w] = s
    BY <2>1 DEF IInv, TypeOK, WorkerKnows
  <2>3. ASSUME NEW t \in unacked, t # s
        PROVE  (\E v \in Workers : task'[v] = t) \/ deliveries'[t] < MaxDeliveries
    <3>1. t \in Scans /\ deliveries'[t] = deliveries[t]
      BY <2>1, <2>3 DEF IInv, TypeOK
    <3>2. \A v \in Workers : task[v] = t => task'[v] = t
      BY <2>1, <2>2, <3>1, NoneAssumption DEF IInv, TypeOK
    <3>3. QED
      BY <3>1, <3>2 DEF HeldOrAgain
  <2>4. QED
    BY <2>1, <2>2, <2>3 DEF HeldOrAgain
<1>3. ASSUME NEW w \in Workers, Ack(w) \/ Crash(w) \/ ChildLost(w) PROVE HeldOrAgain'
  <2>1. /\ unacked' \subseteq unacked /\ deliveries' = deliveries
        /\ task' = [task EXCEPT ![w] = None]
        /\ task[w] \notin unacked' \/ deliveries[task[w]] < MaxDeliveries
    BY <1>3 DEF Ack, Crash, ChildLost, Drop
  <2>2. QED
    BY <2>1 DEF HeldOrAgain, IInv, TypeOK
<1>4. ASSUME NEW w \in Workers, WorkerStep(w) \/ WorkerFault(w),
             ~ (Ack(w) \/ Crash(w) \/ ChildLost(w))
      PROVE  UNCHANGED <<brokerVars, task>>
    BY <1>4, WorkerFrame
<1>5. ASSUME NEW u \in Urls, ExpireCache(u) PROVE UNCHANGED <<brokerVars, task>>
    BY <1>5 DEF ExpireCache
<1>6. CASE UNCHANGED vars
    BY <1>6 DEF vars, HeldOrAgain
<1>7. QED
    BY <1>1, <1>2, <1>3, <1>4, <1>5, <1>6 DEF Next, Rest, HeldOrAgain

\* With such faults somebody can always go on with an accepted scan that is not
\* settled: it waits in the queue, or its task stands at a step, or the broker may hand
\* it out again.  TasksAreFinite says that a task comes to its end.
THEOREM OpenScansAreServed ==
    ASSUME Recoverable
    PROVE  Spec => [](\A s \in Scans : api[s] = "accepted" /\ status[s] \notin Terminal =>
                         \/ s \in ready
                         \/ \E w \in Workers : task[w] = s /\ pc[w] # "idle"
                         \/ s \in unacked /\ deliveries[s] < MaxDeliveries)
<1>1. FInv /\ HeldOrAgain /\ [Next]_vars => (FInv /\ HeldOrAgain)'
    BY NextFInv, NextHeldOrAgain DEF FInv, SInv
<1>2. Init => HeldOrAgain
    BY DEF Init, HeldOrAgain
<1>3. FInv /\ HeldOrAgain =>
          \A s \in Scans : api[s] = "accepted" /\ status[s] \notin Terminal =>
             \/ s \in ready
             \/ \E w \in Workers : task[w] = s /\ pc[w] # "idle"
             \/ s \in unacked /\ deliveries[s] < MaxDeliveries
  <2> SUFFICES ASSUME FInv, HeldOrAgain, NEW s \in Scans, api[s] = "accepted",
                      status[s] \notin Terminal, s \notin ready
               PROVE  \/ \E w \in Workers : task[w] = s /\ pc[w] # "idle"
                      \/ s \in unacked /\ deliveries[s] < MaxDeliveries
    OBVIOUS
  <2>1. s \in unacked
    BY DEF FInv, NeverForgotten
  <2>2. \A w \in Workers : task[w] = s => pc[w] # "idle"
    BY NoneAssumption DEF FInv, SInv, IInv, WorkerKnows
  <2>3. QED
    BY <2>1, <2>2 DEF HeldOrAgain
<1>4. QED
    BY <1>1, <1>2, <1>3, InitFInv, PTL DEF Spec

-----------------------------------------------------------------------------
(***************************************************************************)
(* A task comes to its end.                                                *)
(***************************************************************************)
\* Steps a task has before it at most.
TaskLeft(w) ==
    CASE pc[w] = "start" -> 10
      [] pc[w] = "scan" -> IF attempt[w] = 1 THEN 9 ELSE 7
      [] pc[w] = "options" -> 8
      [] pc[w] = "persist" -> 6
      [] pc[w] = "hooks" -> 5
      [] pc[w] = "dispatch" -> 4
      [] pc[w] = "cache" -> 3
      [] pc[w] = "mark_failed" -> 2
      [] pc[w] \in {"return", "raised"} -> 1
      [] OTHER -> 0

\* Under every fault a task ends after ten steps at most: each of them brings it nearer
\* its end, and no other worker, request or redelivery sets it back (the loop of
\* _run_scan, with one retry, and its except clause).
THEOREM TasksAreFinite ==
    Spec => [][\A w \in Workers : pc[w] # "idle" =>
                  TaskLeft(w)' < TaskLeft(w) \/ UNCHANGED <<pc[w], task[w], attempt[w], verdict[w]>>]_vars
<1>1. ASSUME IInv, Next
      PROVE  \A w \in Workers : pc[w] # "idle" =>
                TaskLeft(w)' < TaskLeft(w) \/ UNCHANGED <<pc[w], task[w], attempt[w], verdict[w]>>
  <2> SUFFICES ASSUME NEW w \in Workers, pc[w] # "idle"
               PROVE  \/ TaskLeft(w)' < TaskLeft(w)
                      \/ UNCHANGED <<pc[w], task[w], attempt[w], verdict[w]>>
    OBVIOUS
  <2> USE <1>1
  <2>1. CASE Start(w) \/ StartFails(w) \/ ScanOnce(w) \/ UpdateOptions(w) \/ Persist(w)
    BY <2>1 DEF Start, StartFails, ScanOnce, UpdateOptions, Persist, Move, ShouldRetryBlocked,
       TaskLeft, IInv, TypeOK, WorkerKnows
  <2>2. CASE SelectHooks(w) \/ Dispatch(w) \/ CacheResult(w) \/ MarkFailed(w) \/ MarkFailedFails(w)
    BY <2>2 DEF SelectHooks, Dispatch, CacheResult, MarkFailed, MarkFailedFails, AfterHooks, Move,
       TaskLeft, IInv, TypeOK
  <2>3. CASE Raise(w)
    BY <2>3 DEF Raise, BeforeCommit, AfterCommit, TaskLeft, IInv, TypeOK
  <2>4. CASE Ack(w) \/ Crash(w) \/ ChildLost(w)
    <3>1. TaskLeft(w)' = 0
      BY <2>4 DEF Ack, Crash, ChildLost, Drop, TaskLeft, IInv, TypeOK
    <3>2. TaskLeft(w) \in 1 .. 10
      BY DEF TaskLeft, IInv, TypeOK, WorkStates, BeforeCommit, AfterCommit
    <3>3. QED
      BY <3>1, <3>2
  <2>5. ASSUME NEW v \in Workers, v # w,
               WorkerStep(v) \/ WorkerFault(v) \/ \E s \in Scans : Receive(v, s)
        PROVE  UNCHANGED <<pc[w], task[w], attempt[w], verdict[w]>>
    <3>1. CASE Ack(v) \/ Crash(v) \/ ChildLost(v) \/ \E s \in Scans : Receive(v, s)
      BY <2>5, <3>1 DEF Ack, Crash, ChildLost, Drop, Receive, HandOut, IInv, TypeOK
    <3>2. CASE ~ (Ack(v) \/ Crash(v) \/ ChildLost(v) \/ \E s \in Scans : Receive(v, s))
      BY <2>5, <3>2, WorkerFrame DEF IInv, TypeOK
    <3>3. QED
      BY <3>1, <3>2
  <2>6. ASSUME UNCHANGED workVars
        PROVE  UNCHANGED <<pc[w], task[w], attempt[w], verdict[w]>>
    BY <2>6
  <2>7. ASSUME NEW s \in Scans, Request(s) \/ ApiStep(s) \/ RequestFails(s) \/ Redeliver(s)
        PROVE  UNCHANGED workVars
    BY <2>7 DEF ApiStep, Request, LookupCache, CheckCached, InsertScan, Enqueue, RequestFails,
       Redeliver
  <2>8. (\E u \in Urls : ExpireCache(u)) \/ Rest => UNCHANGED workVars
    BY DEF ExpireCache, Rest, vars
  <2>9. \A s \in Scans : ~ Receive(w, s)
    BY DEF Receive, HandOut
  <2>10. QED
    BY <2>1, <2>2, <2>3, <2>4, <2>5, <2>6, <2>7, <2>8, <2>9 DEF Next, WorkerStep, WorkerFault
<1>2. QED
    BY <1>1, Invariance, PTL DEF Spec

-----------------------------------------------------------------------------
(***************************************************************************)
(* ScanLifecycle implements ScanPromise as long as no worker crashes or is *)
(* overrun and nothing fails after the commit of the report.  Each of the  *)
(* five faults left out breaks the promise: a notification or cache write  *)
(* that raises turns a completed scan into a failed one, and a redelivered *)
(* message sets a settled scan running again.                              *)
(***************************************************************************)
EarlyFaultsOnly == Faults \cap {"hooks", "dispatch", "cache", "crash", "overrun"} = {}

\* A scan with a message in the queue has never been started, and a message
\* handed out is with a worker.
MessageIsFresh ==
    /\ \A s \in ready : status[s] = "queued"
    /\ \A s \in unacked : \E w \in Workers : task[w] = s

\* A task that has not committed its report finds its row unsettled.
TaskIsUnsettled ==
    \A w \in Workers :
        /\ pc[w] = "start" => status[task[w]] = "queued"
        /\ pc[w] = "mark_failed" => status[task[w]] = "running"

\* The row exists once the handler has inserted it, and not before.
RowFollowsHandler ==
    \A s \in Scans :
        /\ api[s] \in {"idle", "lookup", "check", "insert", "cached"} => status[s] = "absent"
        /\ api[s] = "enqueue" => status[s] = "queued"
        /\ api[s] = "accepted" => status[s] # "absent"

PInv == SInv /\ MessageIsFresh /\ TaskIsUnsettled /\ RowFollowsHandler

\* PInv holds at the start: the queue is empty and no row exists.
LEMMA InitPInv == Init => PInv
<1>1. Init => MessageIsFresh /\ TaskIsUnsettled /\ RowFollowsHandler
    BY DEF Init, MessageIsFresh, TaskIsUnsettled, RowFollowsHandler
<1>2. QED
    BY <1>1, InitSInv DEF PInv

USE DEF apiVars, rowVars, brokerVars, workVars, Statuses, Terminal, Verdicts

\* Every step preserves PInv while only early faults happen.
LEMMA NextPInv == EarlyFaultsOnly /\ PInv /\ [Next]_vars => PInv'
<1> SUFFICES ASSUME EarlyFaultsOnly, PInv, [Next]_vars PROVE PInv'
    OBVIOUS
<1> USE DEF PInv
<1> DEFINE Fresh == MessageIsFresh /\ TaskIsUnsettled /\ RowFollowsHandler
<1>1. SInv'
    BY NextSInv DEF EarlyFaultsOnly, NoOverrun
<1>2. ASSUME NEW s \in Scans, Request(s) \/ ApiStep(s) \/ RequestFails(s) PROVE Fresh'
  <2>1. /\ UNCHANGED <<pc, task, unacked>>
        /\ api' = [api EXCEPT ![s] = api'[s]]
    BY <1>2 DEF ApiStep, Request, LookupCache, CheckCached, InsertScan, Enqueue, RequestFails,
       ApiMove, SInv, IInv, TypeOK
  <2>2. CASE InsertScan(s)
    <3>1. s \notin ready \cup unacked
        BY <2>2 DEF InsertScan, ApiMove, SInv, OneMessage
    <3>2. \A w \in Workers : pc[w] # "idle" => task[w] # s
        BY <3>1 DEF SInv, OneHolder
    <3>3. MessageIsFresh'
        BY <2>1, <2>2, <3>1 DEF InsertScan, MessageIsFresh, SInv, IInv, TypeOK
    <3>4. TaskIsUnsettled'
        BY <2>1, <2>2, <3>2 DEF InsertScan, TaskIsUnsettled, SInv, IInv, TypeOK
    <3>5. RowFollowsHandler'
        BY <2>2 DEF InsertScan, ApiMove, RowFollowsHandler, SInv, IInv, TypeOK
    <3>6. QED
        BY <3>3, <3>4, <3>5
  <2>3. CASE Enqueue(s)
    BY <2>1, <2>3 DEF Enqueue, ApiMove, MessageIsFresh, TaskIsUnsettled, RowFollowsHandler, SInv,
       IInv, TypeOK
  <2>4. CASE Request(s) \/ LookupCache(s) \/ CheckCached(s) \/ RequestFails(s)
    <3>1. /\ UNCHANGED <<status, ready>>
          /\ api[s] \in {"idle", "lookup", "check", "insert", "enqueue"}
          /\ api'[s] \in {"lookup", "check", "insert", "cached"} => api[s] \in {"idle", "lookup", "check"}
          /\ api'[s] \in {"lookup", "check", "insert", "cached", "error"}
        BY <2>4 DEF Request, LookupCache, CheckCached, RequestFails, ApiMove, SInv, IInv, TypeOK
    <3>2. QED
        BY <2>1, <3>1 DEF MessageIsFresh, TaskIsUnsettled, RowFollowsHandler, SInv, IInv, TypeOK
  <2>5. QED
    BY <1>2, <2>2, <2>3, <2>4 DEF ApiStep
<1>3. ASSUME NEW s \in Scans, Redeliver(s) PROVE FALSE
    BY <1>3 DEF Redeliver, CanFail, EarlyFaultsOnly, MessageIsFresh
<1>4. ASSUME NEW u \in Urls, ExpireCache(u) PROVE Fresh'
    BY <1>4 DEF ExpireCache, MessageIsFresh, TaskIsUnsettled, RowFollowsHandler
<1>5. ASSUME NEW w \in Workers, NEW s \in Scans, Receive(w, s) PROVE Fresh'
  <2>1. /\ UNCHANGED <<apiVars, status>>
        /\ ready' = ready \ {s} /\ unacked' = unacked \cup {s}
        /\ pc' = [pc EXCEPT ![w] = "start"] /\ task' = [task EXCEPT ![w] = s]
        /\ task[w] = None /\ s \in ready
    BY <1>5 DEF Receive, HandOut, SInv, IInv, WorkerKnows
  <2>2. MessageIsFresh'
    <3>1. \A r \in ready' : status'[r] = "queued"
        BY <2>1 DEF MessageIsFresh
    <3>2. task'[w] = s
        BY <2>1 DEF SInv, IInv, TypeOK
    <3>3. ASSUME NEW r \in unacked PROVE \E v \in Workers : task'[v] = r
        BY <2>1, NoneAssumption DEF MessageIsFresh, SInv, IInv, TypeOK
    <3>4. QED
        BY <2>1, <3>1, <3>2, <3>3 DEF MessageIsFresh
  <2>3. TaskIsUnsettled' /\ RowFollowsHandler'
    BY <2>1 DEF MessageIsFresh, TaskIsUnsettled, RowFollowsHandler, SInv, IInv, TypeOK
  <2>4. QED
    BY <2>2, <2>3
<1>6. ASSUME NEW w \in Workers, Ack(w) \/ Crash(w) \/ ChildLost(w) PROVE Fresh'
  <2>1. /\ UNCHANGED <<apiVars, status, ready>>
        /\ unacked' = unacked \ {task[w]}
        /\ pc' = [pc EXCEPT ![w] = "idle"] /\ task' = [task EXCEPT ![w] = None]
    BY <1>6 DEF Ack, Crash, ChildLost, Drop, CanFail, EarlyFaultsOnly
  <2>2. MessageIsFresh'
    BY <2>1 DEF MessageIsFresh, SInv, IInv, TypeOK
  <2>3. TaskIsUnsettled' /\ RowFollowsHandler'
    BY <2>1 DEF TaskIsUnsettled, RowFollowsHandler, SInv, IInv, TypeOK
  <2>4. QED
    BY <2>2, <2>3
<1>7. ASSUME NEW w \in Workers, WorkerStep(w) \/ WorkerFault(w),
             ~ (Ack(w) \/ Crash(w) \/ ChildLost(w))
      PROVE  Fresh'
  <2>1. /\ pc[w] # "idle"
        /\ UNCHANGED <<apiVars, brokerVars, task>>
        /\ pc' = [pc EXCEPT ![w] = pc'[w]]
        /\ status' = [status EXCEPT ![task[w]] = status'[task[w]]]
    BY <1>7, WorkerFrame DEF SInv
  <2>2. /\ task[w] \in unacked \ ready
        /\ \A v \in Workers : v # w /\ pc[v] # "idle" => task[v] # task[w]
        /\ api[task[w]] = "accepted"
    BY <2>1, NoneAssumption DEF SInv, IInv, WorkerKnows, OneHolder, OneMessage
  <2>3. MessageIsFresh'
    BY <2>1, <2>2 DEF MessageIsFresh, SInv, IInv, TypeOK
  <2>4. pc'[w] = "mark_failed" => status'[task[w]] = "running"
    BY <1>7 DEF WorkerStep, WorkerFault, Start, ScanOnce, UpdateOptions, Persist, SelectHooks,
       Dispatch, AfterHooks, CacheResult, MarkFailed, StartFails, Raise, MarkFailedFails, Move,
       CanFail, EarlyFaultsOnly, BeforeCommit, AfterCommit, SInv, IInv, TypeOK, RowFollowsTask
  <2>5. pc'[w] # "start" /\ status'[task[w]] # "absent"
    BY <1>7, <2>2 DEF WorkerStep, WorkerFault, Start, ScanOnce, UpdateOptions, Persist, SelectHooks,
       Dispatch, AfterHooks, CacheResult, MarkFailed, StartFails, Raise, MarkFailedFails, Move,
       BeforeCommit, AfterCommit, SInv, IInv, TypeOK, WorkerKnows, RowFollowsHandler
  <2>6. TaskIsUnsettled'
    BY <2>1, <2>2, <2>4, <2>5 DEF TaskIsUnsettled, SInv, IInv, TypeOK, WorkerKnows
  <2>7. RowFollowsHandler'
    BY <2>1, <2>2, <2>5 DEF RowFollowsHandler, SInv, IInv, TypeOK
  <2>8. QED
    BY <2>3, <2>6, <2>7
<1>8. CASE UNCHANGED vars
  <2>1. UNCHANGED <<api, status, ready, unacked, pc, task>>
    BY <1>8 DEF vars
  <2>2. Fresh'
    BY <2>1 DEF MessageIsFresh, TaskIsUnsettled, RowFollowsHandler
  <2>3. QED
    BY <1>1, <2>2
<1>9. QED
    BY <1>1, <1>2, <1>3, <1>4, <1>5, <1>6, <1>7, <1>8 DEF Next, Rest

\* PInv holds in every reachable state.
THEOREM EarlyFaults == ASSUME EarlyFaultsOnly PROVE Spec => []PInv
<1>1. PInv /\ [Next]_vars => PInv'
    BY NextPInv
<1>2. QED
    BY <1>1, InitPInv, PTL DEF Spec

-----------------------------------------------------------------------------
\* What a step may do to a scan's status: the whole of its lifecycle.
StatusSteps(s) ==
    \/ status'[s] = status[s]
    \/ status[s] = "absent" /\ status'[s] = "queued"
    \/ status[s] = "queued" /\ status'[s] = "running"
    \/ status[s] = "running" /\ status'[s] \in Terminal

\* At most one scan moves in a step, and none when a request is answered.
LEMMA StatusStep ==
    ASSUME EarlyFaultsOnly, PInv, Next
    PROVE  \/ UNCHANGED status
           \/ \E s \in Scans : /\ StatusSteps(s)
                               /\ status' = [status EXCEPT ![s] = status'[s]]
                               /\ \A r \in Scans : Answer(r)' = Answer(r)
<1> USE DEF PInv
<1>1. ASSUME NEW s \in Scans, ApiStep(s) \/ Request(s) \/ RequestFails(s)
      PROVE  UNCHANGED status \/ InsertScan(s)
    BY <1>1 DEF ApiStep, Request, LookupCache, CheckCached, Enqueue, RequestFails
<1>2. ASSUME NEW s \in Scans, InsertScan(s)
      PROVE  /\ StatusSteps(s)
             /\ status' = [status EXCEPT ![s] = status'[s]]
             /\ \A r \in Scans : Answer(r)' = Answer(r)
  <2>1. StatusSteps(s) /\ status' = [status EXCEPT ![s] = status'[s]]
    BY <1>2 DEF InsertScan, ApiMove, StatusSteps, RowFollowsHandler, SInv, IInv, TypeOK
  <2>2. \A r \in Scans : Answer(r)' = Answer(r)
    BY <1>2 DEF InsertScan, ApiMove, Answer, SInv, IInv, TypeOK
  <2>3. QED
    BY <2>1, <2>2
<1>3. ASSUME NEW w \in Workers, WorkerStep(w) \/ WorkerFault(w),
             ~ (Ack(w) \/ Crash(w) \/ ChildLost(w))
      PROVE  /\ task[w] \in Scans
             /\ StatusSteps(task[w])
             /\ status' = [status EXCEPT ![task[w]] = status'[task[w]]]
             /\ \A r \in Scans : Answer(r)' = Answer(r)
  <2>1. /\ pc[w] # "idle"
        /\ UNCHANGED apiVars
        /\ status' = [status EXCEPT ![task[w]] = status'[task[w]]]
    BY <1>3, WorkerFrame DEF SInv
  <2>2. task[w] \in Scans
    BY <2>1 DEF SInv, IInv, WorkerKnows
  <2>3. StatusSteps(task[w])
    BY <1>3, <2>2 DEF WorkerStep, WorkerFault, Start, ScanOnce, UpdateOptions, Persist, SelectHooks,
       Dispatch, CacheResult, MarkFailed, StartFails, Raise, MarkFailedFails, Move, StatusSteps,
       BeforeCommit, AfterCommit, SInv, IInv, TypeOK, WorkerKnows, RowFollowsTask, TaskIsUnsettled
  <2>4. \A r \in Scans : Answer(r)' = Answer(r)
    BY <2>1 DEF Answer
  <2>5. QED
    BY <2>1, <2>2, <2>3, <2>4
<1>4. ASSUME NEW w \in Workers, Ack(w) \/ Crash(w) \/ ChildLost(w) PROVE UNCHANGED status
    BY <1>4 DEF Ack, Crash, ChildLost
<1>5. ASSUME NEW w \in Workers, NEW s \in Scans, Receive(w, s) PROVE UNCHANGED status
    BY <1>5 DEF Receive, HandOut
<1>6. Rest => UNCHANGED status
    BY DEF Rest, vars
<1>7. ASSUME NEW u \in Urls, ExpireCache(u) PROVE UNCHANGED status
    BY <1>7 DEF ExpireCache
<1>8. ASSUME NEW s \in Scans, Redeliver(s) PROVE UNCHANGED status
    BY <1>8 DEF Redeliver
<1>9. QED
    BY <1>1, <1>2, <1>3, <1>4, <1>5, <1>6, <1>7, <1>8 DEF Next

\* The contract the polling client relies on: a settled status is final.
THEOREM SettledIsFinal == ASSUME EarlyFaultsOnly PROVE Spec => TerminalIsFinal
<1>1. PInv /\ [Next]_vars => [\A s \in Scans : SettledStays(s)]_vars
  <2> SUFFICES ASSUME PInv, Next, NEW s \in Scans PROVE SettledStays(s)
    OBVIOUS
  <2>1. CASE UNCHANGED status
    BY <2>1 DEF SettledStays
  <2>2. CASE \E r \in Scans : StatusSteps(r) /\ status' = [status EXCEPT ![r] = status'[r]]
    BY <2>2 DEF StatusSteps, SettledStays, PInv, SInv, IInv, TypeOK
  <2>3. QED
    BY <2>1, <2>2, StatusStep
<1>2. QED
    BY <1>1, EarlyFaults, PTL DEF Spec, TerminalIsFinal

-----------------------------------------------------------------------------
\* Requests are never altered, and only two steps of the handler answer one.
LEMMA AnswerStep ==
    ASSUME PInv, Next
    PROVE  /\ UNCHANGED request
           /\ \/ \A r \in Scans : Answer(r)' = Answer(r)
              \/ \E s \in Scans : Enqueue(s)
              \/ \E s \in Scans : CheckCached(s) /\ Usable(s, hit[s])
<1> USE DEF PInv, SInv, IInv, TypeOK
<1>1. ASSUME NEW s \in Scans, Request(s) \/ LookupCache(s) \/ InsertScan(s) \/ RequestFails(s)
                                 \/ CheckCached(s)
      PROVE  /\ UNCHANGED request
             /\ ~ (CheckCached(s) /\ Usable(s, hit[s])) => \A r \in Scans : Answer(r)' = Answer(r)
    BY <1>1 DEF Request, LookupCache, InsertScan, RequestFails, CheckCached, ApiMove, Answer
<1>2. ASSUME NEW s \in Scans, Enqueue(s) PROVE UNCHANGED request
    BY <1>2 DEF Enqueue
<1>3. ASSUME NEW s \in Scans, Redeliver(s) PROVE UNCHANGED apiVars
    BY <1>3 DEF Redeliver
<1>4. ASSUME NEW u \in Urls, ExpireCache(u) PROVE UNCHANGED apiVars
    BY <1>4 DEF ExpireCache
<1>5. ASSUME NEW w \in Workers, NEW s \in Scans, Receive(w, s) PROVE UNCHANGED apiVars
    BY <1>5 DEF Receive, HandOut
<1>6. ASSUME NEW w \in Workers, WorkerStep(w) \/ WorkerFault(w) PROVE UNCHANGED apiVars
    BY <1>6 DEF WorkerStep, WorkerFault, Start, ScanOnce, UpdateOptions, Persist, SelectHooks,
       Dispatch, CacheResult, MarkFailed, Ack, StartFails, Raise, MarkFailedFails, Crash, ChildLost
<1>7. Rest => UNCHANGED apiVars
    BY DEF Rest, vars
<1>8. UNCHANGED apiVars => UNCHANGED request /\ \A r \in Scans : Answer(r)' = Answer(r)
    BY DEF Answer
<1>9. QED
    BY <1>1, <1>2, <1>3, <1>4, <1>5, <1>6, <1>7, <1>8 DEF Next, ApiStep

\* A step of ScanLifecycle is a step of ScanPromise or leaves the client's view
\* as it was.
LEMMA PromiseStep ==
    ASSUME EarlyFaultsOnly, PInv, Next
    PROVE  [Promise!Next]_(Promise!vars)
<1> DEFINE R == [s \in Scans |-> Result(s)]
           A == [s \in Scans |-> Answer(s)]
<1> USE DEF PInv, SInv, IInv, TypeOK
<1>1. UNCHANGED request
    BY AnswerStep
<1>2. CASE \E s \in Scans : Enqueue(s)
  <2>1. PICK s \in Scans : Enqueue(s)
    BY <1>2
  <2>2. R' = R
    BY <2>1 DEF Enqueue, Result
  <2>3. A' = [A EXCEPT ![s] = s] /\ A[s] = None
    BY <2>1 DEF Enqueue, ApiMove, Answer
  <2>4. R[s] # "unknown"
    BY <2>1 DEF Enqueue, ApiMove, Result, RowFollowsHandler
  <2>5. Promise!AnswerFresh(s)
    BY <1>1, <2>2, <2>3, <2>4 DEF Promise!AnswerFresh
  <2>6. QED
    BY <2>5 DEF Promise!Next
<1>3. CASE \E s \in Scans : CheckCached(s) /\ Usable(s, hit[s])
  <2>1. PICK s \in Scans : CheckCached(s) /\ Usable(s, hit[s])
    BY <1>3
  <2>2. R' = R
    BY <2>1 DEF CheckCached, Result
  <2>3. A' = [A EXCEPT ![s] = hit[s]] /\ A[s] = None
    BY <2>1 DEF CheckCached, ApiMove, Answer
  <2>4. /\ hit[s] \in Scans /\ ~ request[s].force
        /\ request[hit[s]].user = request[s].user
        /\ request[hit[s]].url = request[s].url
        /\ status[hit[s]] = "completed"
    BY <2>1 DEF CheckCached, ApiMove, Usable, HandlerKnows
  <2>5. R[hit[s]] = "completed"
    BY <2>4 DEF Result
  <2>6. Promise!AnswerCached(s, hit[s])
    BY <1>1, <2>2, <2>3, <2>4, <2>5 DEF Promise!AnswerCached
  <2>7. QED
    BY <2>4, <2>6 DEF Promise!Next
<1>4. CASE UNCHANGED status /\ \A r \in Scans : Answer(r)' = Answer(r)
  <2>1. R' = R /\ A' = A
    BY <1>4 DEF Result
  <2>2. QED
    BY <1>1, <2>1 DEF Promise!vars
<1>5. CASE \E s \in Scans : /\ StatusSteps(s)
                            /\ status' = [status EXCEPT ![s] = status'[s]]
                            /\ \A r \in Scans : Answer(r)' = Answer(r)
  <2>1. PICK s \in Scans : /\ StatusSteps(s)
                           /\ status' = [status EXCEPT ![s] = status'[s]]
                           /\ \A r \in Scans : Answer(r)' = Answer(r)
    BY <1>5
  <2>2. A' = A
    BY <2>1
  <2>2a. \A r \in Scans : r # s => Result(r)' = Result(r)
    <3>1. \A r \in Scans : r # s => status'[r] = status[r]
        BY <2>1
    <3>2. QED
        BY <3>1, Zenon DEF Result
  <2>3. CASE status[s] = "absent" /\ status'[s] = "queued"
    <3>0. Result(s) = "unknown" /\ Result(s)' = "pending"
        BY <2>3 DEF Result, Terminal, Verdicts
    <3>1. R[s] = "unknown" /\ R' = [R EXCEPT ![s] = "pending"]
        BY <2>2a, <3>0
    <3>2. Promise!Accept(s)
        BY <1>1, <2>2, <3>1 DEF Promise!Accept
    <3>3. QED
        BY <3>2 DEF Promise!Next
  <2>4. CASE status[s] = "running" /\ status'[s] \in Terminal
    <3>0. Result(s) = "pending" /\ Result(s)' = status'[s]
        BY <2>4 DEF Result, Terminal, Verdicts
    <3>1. R[s] = "pending" /\ R' = [R EXCEPT ![s] = status'[s]]
        BY <2>2a, <3>0
    <3>2. Promise!Settle(s, status'[s])
        BY <1>1, <2>2, <3>1 DEF Promise!Settle
    <3>3. QED
        BY <2>4, <3>2 DEF Promise!Next, Promise!Terminal
  <2>5. CASE status'[s] = status[s] \/ (status[s] = "queued" /\ status'[s] = "running")
    <3>0. Result(s)' = Result(s)
        BY <2>5 DEF Result, Terminal, Verdicts
    <3>1. R' = R
        BY <2>2a, <3>0
    <3>2. QED
        BY <1>1, <2>2, <3>1 DEF Promise!vars
  <2>6. QED
    BY <2>1, <2>3, <2>4, <2>5 DEF StatusSteps
<1>6. QED
    BY <1>2, <1>3, <1>4, <1>5, AnswerStep, StatusStep

\* The queue, the workers and the cache together keep the client's contract,
\* for any number of requests and workers.
THEOREM PromiseKept == ASSUME EarlyFaultsOnly PROVE Spec => KeepsPromise
<1>1. Init => Promise!Init
    BY DEF Init, Promise!Init, Result, Answer
<1>2. PInv /\ [Next]_vars => [Promise!Next]_(Promise!vars)
  <2> SUFFICES ASSUME PInv, [Next]_vars PROVE [Promise!Next]_(Promise!vars)
    OBVIOUS
  <2>1. CASE Next
    BY <2>1, PromiseStep
  <2>2. CASE UNCHANGED vars
    BY <2>2 DEF vars, Promise!vars, Result, Answer
  <2>3. QED
    BY <2>1, <2>2
<1>3. QED
    BY <1>1, <1>2, EarlyFaults, PTL DEF Spec, KeepsPromise, Promise!Spec
=============================================================================
