--------------------------- MODULE ScanLifecycle ---------------------------
(***************************************************************************)
(* The life of a scan, from POST /v1/scans to the last step of the worker  *)
(* task: api/routes/scans.py (create_scan), the Celery queue on Redis      *)
(* (workers/celery_app.py), the task loop of workers/tasks.py, the rows    *)
(* of the scans table it writes, and the result cache.                     *)
(*                                                                         *)
(* Every await on the database, on Redis or on the browser is a step of    *)
(* its own, and each of them may fail: Faults names the places that do.    *)
(***************************************************************************)
EXTENDS Naturals, FiniteSets

CONSTANTS
    Scans,            \* ids create_scan may hand out: one per request
    Users,            \* owners of API keys
    Urls,             \* normalized target URLs
    Workers,          \* Celery worker processes
    None,             \* no scan id
    RetryBlockedOnce, \* settings.scan.retry_blocked_once
    Faults,           \* the places where a step may go wrong
    MaxDeliveries     \* bound: times the broker hands out one message

\* Where a step can fail, in the order a scan meets them.
FaultPlaces == {"lookup", "api_db", "enqueue", "start", "scan", "options",
                "persist", "hooks", "dispatch", "cache",
                "mark_failed", "crash", "lost", "overrun"}

ASSUME NoneAssumption == None \notin Scans
ASSUME RetryAssumption == RetryBlockedOnce \in BOOLEAN
ASSUME FaultsAssumption == Faults \subseteq FaultPlaces
ASSUME DeliveriesAssumption == MaxDeliveries \in Nat \ {0}

VARIABLES
    request,     \* the clients' requests: [user, url, force], per scan id
    api,         \* where create_scan stands with each request
    hit,         \* the scan id it read from the result cache
    status,      \* scans.status ("absent": the row is not inserted)
    report,      \* the persisted report: its status, or "none"
    attempts,    \* scans.options["attempts"], 0 while it is not set
    cache,       \* the result cache: URL -> scan id
    ready,       \* messages in the Celery queue
    unacked,     \* messages handed out and not yet acknowledged
    deliveries,  \* how often each message was handed out
    pc,          \* where the task of each worker stands
    task,        \* the scan it runs
    attempt,     \* local `attempt` of _run_scan
    verdict      \* local `final_status`: from the last artifact

apiVars    == <<request, api, hit>>
rowVars    == <<status, report, attempts>>
brokerVars == <<ready, unacked, deliveries>>
workVars   == <<pc, task, attempt, verdict>>
vars == <<apiVars, rowVars, cache, brokerVars, workVars>>

Verdicts == {"completed", "waf_blocked"}
Terminal == Verdicts \cup {"failed"}
Statuses == {"absent", "queued", "running"} \cup Terminal

ApiStates == {"idle", "lookup", "check", "insert", "enqueue",
              "accepted", "cached", "error"}

\* Steps of _run_scan before the commit of the report, in _finalize after it,
\* and after the loop.
BeforeCommit == {"scan", "options", "persist"}
AfterCommit  == {"hooks", "dispatch", "cache", "return"}
WorkStates   == {"idle", "start", "mark_failed", "raised"}
                    \cup BeforeCommit \cup AfterCommit

CanFail(place) == place \in Faults

Init ==
    /\ request \in [Scans -> [user : Users, url : Urls, force : BOOLEAN]]
    /\ api = [s \in Scans |-> "idle"]
    /\ hit = [s \in Scans |-> None]
    /\ status = [s \in Scans |-> "absent"]
    /\ report = [s \in Scans |-> "none"]
    /\ attempts = [s \in Scans |-> 0]
    /\ cache = [u \in Urls |-> None]
    /\ ready = {}
    /\ unacked = {}
    /\ deliveries = [s \in Scans |-> 0]
    /\ pc = [w \in Workers |-> "idle"]
    /\ task = [w \in Workers |-> None]
    /\ attempt = [w \in Workers |-> 0]
    /\ verdict = [w \in Workers |-> "none"]

-----------------------------------------------------------------------------
(***************************************************************************)
(* create_scan.                                                            *)
(***************************************************************************)
ApiMove(s, from, to) ==
    /\ api[s] = from
    /\ api' = [api EXCEPT ![s] = to]

\* A request arrives and passes the URL check; force skips the cache.
Request(s) ==
    /\ ApiMove(s, "idle", IF request[s].force THEN "insert" ELSE "lookup")
    /\ UNCHANGED <<request, hit, rowVars, cache, brokerVars, workVars>>

\* lookup_cached_scan: a Redis error counts as a miss.
LookupCache(s) ==
    LET found == cache[request[s].url]
    IN  /\ \/ /\ found # None
              /\ ApiMove(s, "lookup", "check")
              /\ hit' = [hit EXCEPT ![s] = found]
           \/ /\ found = None \/ CanFail("lookup")
              /\ ApiMove(s, "lookup", "insert")
              /\ UNCHANGED hit
        /\ UNCHANGED <<request, rowVars, cache, brokerVars, workVars>>

\* Bug: the status is not looked at again.
UsableWhenOwn(s, t) == request[t].user = request[s].user

\* Bug: anybody's completed scan will do.
UsableWhenCompleted(s, t) == status[t] = "completed"

\* The cached scan answers the request if it is the caller's and completed.
Usable(s, t) == request[t].user = request[s].user /\ status[t] = "completed"

CheckCached(s) ==
    /\ ApiMove(s, "check", IF Usable(s, hit[s]) THEN "cached" ELSE "insert")
    /\ UNCHANGED <<request, hit, rowVars, cache, brokerVars, workVars>>

\* The row is committed before the task is sent.
InsertScan(s) ==
    /\ ApiMove(s, "insert", "enqueue")
    /\ status' = [status EXCEPT ![s] = "queued"]
    /\ UNCHANGED <<request, hit, report, attempts, cache, brokerVars, workVars>>

\* run_scan.delay: the message enters the queue and the client gets its id.
Enqueue(s) ==
    /\ ApiMove(s, "enqueue", "accepted")
    /\ ready' = ready \cup {s}
    /\ UNCHANGED <<request, hit, rowVars, cache, unacked, deliveries, workVars>>

\* The database fails in the handler, or the broker refuses the message:
\* the client gets a 500, and a row that was committed stays "queued".
RequestFails(s) ==
    /\ \/ api[s] \in {"check", "insert"} /\ CanFail("api_db")
       \/ api[s] = "enqueue" /\ CanFail("enqueue")
    /\ api' = [api EXCEPT ![s] = "error"]
    /\ UNCHANGED <<request, hit, rowVars, cache, brokerVars, workVars>>

\* The entry's time to live runs out.
ExpireCache(u) ==
    /\ cache[u] # None
    /\ cache' = [cache EXCEPT ![u] = None]
    /\ UNCHANGED <<apiVars, rowVars, brokerVars, workVars>>

-----------------------------------------------------------------------------
(***************************************************************************)
(* The broker: a message is acknowledged when its task has ended           *)
(* (task_acks_late), and handed out again when its holder has died.        *)
(***************************************************************************)
HandOut(w, s) ==
    /\ pc[w] = "idle"
    /\ s \in ready
    /\ ready' = ready \ {s}
    /\ deliveries' = [deliveries EXCEPT ![s] = @ + 1]
    /\ pc' = [pc EXCEPT ![w] = "start"]
    /\ task' = [task EXCEPT ![w] = s]
    /\ UNCHANGED <<apiVars, rowVars, cache, attempt, verdict>>

\* Bug: the message is acknowledged as it is received (task_acks_late unset).
ReceiveAckedEarly(w, s) == HandOut(w, s) /\ UNCHANGED unacked

Receive(w, s) ==
    /\ HandOut(w, s)
    /\ unacked' = unacked \cup {s}

\* The visibility timeout passes.  "overrun" says that it may pass while the
\* task still runs: no setting of celery_app.py bounds the task's time.
Redeliver(s) ==
    /\ s \in unacked
    /\ (\A w \in Workers : task[w] # s) \/ CanFail("overrun")
    /\ deliveries[s] < MaxDeliveries
    /\ ready' = ready \cup {s}
    /\ unacked' = unacked \ {s}
    /\ UNCHANGED <<apiVars, rowVars, cache, deliveries, workVars>>

\* The worker forgets the task it held.
Drop(w) ==
    /\ pc' = [pc EXCEPT ![w] = "idle"]
    /\ task' = [task EXCEPT ![w] = None]
    /\ attempt' = [attempt EXCEPT ![w] = 0]
    /\ verdict' = [verdict EXCEPT ![w] = "none"]

\* The task returned or raised; its message is acknowledged either way.
Ack(w) ==
    /\ pc[w] \in {"return", "raised"}
    /\ unacked' = unacked \ {task[w]}
    /\ Drop(w)
    /\ UNCHANGED <<apiVars, rowVars, cache, ready, deliveries>>

\* The whole worker dies: its message stays unacknowledged.
Crash(w) ==
    /\ CanFail("crash")
    /\ pc[w] # "idle"
    /\ deliveries[task[w]] < MaxDeliveries
    /\ Drop(w)
    /\ UNCHANGED <<apiVars, rowVars, cache, brokerVars>>

\* The pool process running the task is killed (out of memory): the parent
\* acknowledges the message, task_reject_on_worker_lost not being set.
ChildLost(w) ==
    /\ CanFail("lost")
    /\ pc[w] # "idle"
    /\ unacked' = unacked \ {task[w]}
    /\ Drop(w)
    /\ UNCHANGED <<apiVars, rowVars, cache, ready, deliveries>>

-----------------------------------------------------------------------------
(***************************************************************************)
(* _run_scan.                                                              *)
(***************************************************************************)
Move(w, from, to) ==
    /\ pc[w] = from
    /\ pc' = [pc EXCEPT ![w] = to]

\* Bug: one retry too many, whatever the setting says.
ShouldRetryTwice(n) == n <= 2

\* Exactly one retry for a blocked first attempt.
ShouldRetryBlocked(n) == n = 1 /\ RetryBlockedOnce

\* The row is read and set to "running", outside the try that records failures.
Start(w) ==
    /\ Move(w, "start", "scan")
    /\ status' = [status EXCEPT ![task[w]] = "running"]
    /\ attempt' = [attempt EXCEPT ![w] = 1]
    /\ UNCHANGED <<apiVars, report, attempts, cache, brokerVars, task, verdict>>

StartFails(w) ==
    /\ CanFail("start")
    /\ Move(w, "start", "raised")
    /\ UNCHANGED <<apiVars, rowVars, cache, brokerVars, task, attempt, verdict>>

\* One navigation attempt; a blocked first attempt is retried.
ScanOnce(w) ==
    /\ \E blocked \in BOOLEAN :
          IF blocked /\ ShouldRetryBlocked(attempt[w])
          THEN Move(w, "scan", "options") /\ UNCHANGED verdict
          ELSE /\ Move(w, "scan", "persist")
               /\ verdict' = [verdict EXCEPT ![w] =
                                IF blocked THEN "waf_blocked" ELSE "completed"]
    /\ UNCHANGED <<apiVars, rowVars, cache, brokerVars, task, attempt>>

\* Bug: the attempt is recorded but not counted.
UpdateOptionsOnly(w) ==
    /\ Move(w, "options", "scan")
    /\ attempts' = [attempts EXCEPT ![task[w]] = attempt[w]]
    /\ UNCHANGED <<apiVars, status, report, cache, brokerVars, task, attempt, verdict>>

\* The attempt is recorded in the row and the loop goes round.
UpdateOptions(w) ==
    /\ Move(w, "options", "scan")
    /\ attempts' = [attempts EXCEPT ![task[w]] = attempt[w]]
    /\ attempt' = [attempt EXCEPT ![w] = @ + 1]
    /\ UNCHANGED <<apiVars, status, report, cache, brokerVars, task, verdict>>

\* Bug: the transaction is not committed.
PersistUncommitted(w) ==
    /\ Move(w, "persist", "hooks")
    /\ UNCHANGED <<apiVars, rowVars, cache, brokerVars, task, attempt, verdict>>

\* Bug: findings of an earlier run are kept.
PersistFirstFindings(w) ==
    /\ Move(w, "persist", "hooks")
    /\ status' = [status EXCEPT ![task[w]] = verdict[w]]
    /\ report' = [report EXCEPT ![task[w]] = IF @ = "none" THEN verdict[w] ELSE @]
    /\ attempts' = [attempts EXCEPT ![task[w]] = attempt[w]]
    /\ UNCHANGED <<apiVars, cache, brokerVars, task, attempt, verdict>>

\* Bug: the options are not written with the report.
PersistWithoutOptions(w) ==
    /\ Move(w, "persist", "hooks")
    /\ status' = [status EXCEPT ![task[w]] = verdict[w]]
    /\ report' = [report EXCEPT ![task[w]] = verdict[w]]
    /\ UNCHANGED <<apiVars, attempts, cache, brokerVars, task, attempt, verdict>>

\* _finalize up to the commit: signatures, detectors, aggregation and evidence
\* go before it; one transaction replaces the findings and sets status and
\* options.
Persist(w) ==
    /\ Move(w, "persist", "hooks")
    /\ status' = [status EXCEPT ![task[w]] = verdict[w]]
    /\ report' = [report EXCEPT ![task[w]] = verdict[w]]
    /\ attempts' = [attempts EXCEPT ![task[w]] = attempt[w]]
    /\ UNCHANGED <<apiVars, cache, brokerVars, task, attempt, verdict>>

\* What follows the webhooks: only completed scans are cached.
AfterHooks(w) == IF verdict[w] = "completed" THEN "cache" ELSE "return"

\* The user's active webhooks are read: there may be none.
SelectHooks(w) ==
    /\ Move(w, "hooks", "dispatch") \/ Move(w, "hooks", AfterHooks(w))
    /\ UNCHANGED <<apiVars, rowVars, cache, brokerVars, task, attempt, verdict>>

\* dispatch_report returns: every hook was delivered to or dead-lettered.
Dispatch(w) ==
    /\ Move(w, "dispatch", AfterHooks(w))
    /\ UNCHANGED <<apiVars, rowVars, cache, brokerVars, task, attempt, verdict>>

CacheResult(w) ==
    /\ Move(w, "cache", "return")
    /\ cache' = [cache EXCEPT ![request[task[w]].url] = task[w]]
    /\ UNCHANGED <<apiVars, rowVars, brokerVars, task, attempt, verdict>>

\* Bug: nothing records the failure in the row.
RaiseUnrecorded(w) ==
    /\ pc[w] \in (BeforeCommit \cup AfterCommit) \ {"return"}
    /\ CanFail(pc[w])
    /\ pc' = [pc EXCEPT ![w] = "raised"]
    /\ UNCHANGED <<apiVars, rowVars, cache, brokerVars, task, attempt, verdict>>

\* An exception inside the try, before the commit of the report or after it.  The
\* call had no effect; one that had and raised all the same fails at the next step.
Raise(w) ==
    /\ pc[w] \in (BeforeCommit \cup AfterCommit) \ {"return"}
    /\ CanFail(pc[w])
    /\ pc' = [pc EXCEPT ![w] = "mark_failed"]
    /\ UNCHANGED <<apiVars, rowVars, cache, brokerVars, task, attempt, verdict>>

\* _mark_failed overwrites whatever status the row has, then the task raises.
MarkFailed(w) ==
    /\ Move(w, "mark_failed", "raised")
    /\ status' = [status EXCEPT ![task[w]] = "failed"]
    /\ UNCHANGED <<apiVars, report, attempts, cache, brokerVars, task, attempt, verdict>>

\* The update fails too, and the error is swallowed.
MarkFailedFails(w) ==
    /\ CanFail("mark_failed")
    /\ Move(w, "mark_failed", "raised")
    /\ UNCHANGED <<apiVars, rowVars, cache, brokerVars, task, attempt, verdict>>

-----------------------------------------------------------------------------
ApiStep(s) == LookupCache(s) \/ CheckCached(s) \/ InsertScan(s) \/ Enqueue(s)

\* What a live worker goes on to do.
WorkerStep(w) ==
    \/ Start(w) \/ ScanOnce(w) \/ UpdateOptions(w) \/ Persist(w) \/ SelectHooks(w)
    \/ Dispatch(w) \/ CacheResult(w) \/ MarkFailed(w) \/ Ack(w)

\* What may go wrong with it.
WorkerFault(w) ==
    StartFails(w) \/ Raise(w) \/ MarkFailedFails(w) \/ Crash(w) \/ ChildLost(w)

\* Every request is answered and every message acknowledged.
Quiet ==
    /\ \A s \in Scans : api[s] \in {"accepted", "cached", "error"}
    /\ \A w \in Workers : pc[w] = "idle"
    /\ ready = {} /\ unacked = {}

Rest == Quiet /\ UNCHANGED vars

Next ==
    \/ \E s \in Scans : Request(s) \/ ApiStep(s) \/ RequestFails(s) \/ Redeliver(s)
    \/ \E u \in Urls : ExpireCache(u)
    \/ \E w \in Workers, s \in Scans : Receive(w, s)
    \/ \E w \in Workers : WorkerStep(w) \/ WorkerFault(w)
    \/ Rest

Spec == Init /\ [][Next]_vars

\* The API process and the workers keep running, and the broker keeps serving:
\* nothing is assumed about clients, about faults, or about cache expiry.  WorkerStep
\* includes Dispatch, so receivers of webhooks are taken to end their answers, which
\* their timeout does not enforce (WebhookDelivery): a scan is settled before its
\* round, but a worker that is held there takes no other message.
Fairness ==
    /\ \A s \in Scans : WF_vars(ApiStep(s)) /\ WF_vars(Redeliver(s))
    /\ \A w \in Workers :
          WF_vars(WorkerStep(w)) /\ WF_vars(\E s \in Scans : Receive(w, s))

FairSpec == Spec /\ Fairness

-----------------------------------------------------------------------------
TypeOK ==
    /\ request \in [Scans -> [user : Users, url : Urls, force : BOOLEAN]]
    /\ api \in [Scans -> ApiStates]
    /\ hit \in [Scans -> Scans \cup {None}]
    /\ status \in [Scans -> Statuses]
    /\ report \in [Scans -> Verdicts \cup {"none"}]
    /\ attempts \in [Scans -> 0 .. 2]
    /\ cache \in [Urls -> Scans \cup {None}]
    /\ ready \subseteq Scans
    /\ unacked \subseteq Scans
    /\ deliveries \in [Scans -> Nat]
    /\ pc \in [Workers -> WorkStates]
    /\ task \in [Workers -> Scans \cup {None}]
    /\ attempt \in [Workers -> 0 .. 2]
    /\ verdict \in [Workers -> Verdicts \cup {"none"}]


\* Safety that no fault may break.

\* A scan whose status says that it finished shows the report of exactly that
\* run: persist_report replaces the findings and the status in one transaction,
\* also when a redelivered task writes over an earlier result.
ReportMatchesStatus ==
    \A s \in Scans : status[s] \in Verdicts => report[s] = status[s]

\* An entry of the result cache is the scan of that URL and has a report:
\* nothing that was blocked in every run, failed early or is still waiting for
\* its first report ever gets there.
CacheHoldsReported ==
    \A u \in Urls : cache[u] # None =>
        /\ request[cache[u]].url = u
        /\ report[cache[u]] # "none"

\* A request is answered from the cache only with a scan of the same user and
\* URL that is completed, with its report, at that moment, and never when it
\* asked for force: the entry was read in an earlier step, and since then the
\* scan may have been run again or marked failed (create_scan).
UsableCachedAnswer(s) ==
    api[s] # "cached" /\ api'[s] = "cached" =>
        LET t == hit[s]
        IN  /\ ~ request[s].force
            /\ request[t].user = request[s].user
            /\ request[t].url = request[s].url
            /\ status[t] = "completed" /\ report[t] = "completed"

CachedAnswersAreUsable == [][\A s \in Scans : UsableCachedAnswer(s)]_vars

-----------------------------------------------------------------------------
\* Safety of a queue that hands a message to one worker at a time: no message
\* is handed out again under a task that still runs ("overrun" not in Faults).

\* A task works on a message of its own that is unacknowledged and not queued.
OneHolder ==
    /\ \A v, w \in Workers : task[v] = task[w] /\ task[v] # None => v = w
    /\ \A w \in Workers : pc[w] # "idle" => task[w] \in unacked \ ready

\* The webhooks, the cache and the counters are given the result that the
\* database shows: nothing changes the row between the commit of the report
\* and the end of the task (README: the POST holds the same report as
\* GET /v1/scans/{id}).
NotifiedResultIsStored ==
    \A w \in Workers : pc[w] \in AfterCommit =>
        status[task[w]] = verdict[w] /\ report[task[w]] = verdict[w]

\* A scan ends waf_blocked only after as many attempts as the retry policy
\* allows, and its row says how many those were, also when a redelivered task
\* had recorded its first attempt before the worker died.
BlockedMeansRetried ==
    \A s \in Scans : status[s] = "waf_blocked" =>
        attempts[s] = IF RetryBlockedOnce THEN 2 ELSE 1

\* An accepted scan is settled or its message is still with the broker: no
\* crash of a worker and no failure after the task's first step loses it.
NeverForgotten ==
    \A s \in Scans : api[s] = "accepted" =>
        status[s] \in Terminal \/ s \in ready \cup unacked

\* Every accepted scan eventually shows a settled status (the reason for
\* task_acks_late and for the except clause of _run_scan).
Settles == \A s \in Scans : api[s] = "accepted" ~> status[s] \in Terminal

-----------------------------------------------------------------------------
\* Safety of a scan that is run once and whose notification cannot fail.

\* A settled status does not change again (TERMINAL_STATUSES in
\* mcp_server/client.py, which stops polling at the first of them).
SettledStays(s) == status[s] \in Terminal => status'[s] = status[s]

TerminalIsFinal == [][\A s \in Scans : SettledStays(s)]_vars

\* The client's view: queued and running are both "pending".
Result(s) ==
    CASE status[s] = "absent"                -> "unknown"
      [] status[s] \in {"queued", "running"} -> "pending"
      [] status[s] \in Terminal              -> status[s]

Answer(s) ==
    CASE api[s] = "accepted" -> s
      [] api[s] = "cached"   -> hit[s]
      [] OTHER               -> None

Promise == INSTANCE ScanPromise
              WITH result <- [s \in Scans |-> Result(s)],
                   answer <- [s \in Scans |-> Answer(s)]

\* Seen by the clients, the queue, the workers and the cache implement
\* ScanPromise.
KeepsPromise == Promise!Spec

=============================================================================
