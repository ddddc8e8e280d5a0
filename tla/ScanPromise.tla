---------------------------- MODULE ScanPromise ----------------------------
(***************************************************************************)
(* What a client of POST /v1/scans is promised, with no worker, broker,    *)
(* cache or database in sight.  A request is either given a scan of its    *)
(* own, which starts "pending" and then settles once and for all, or is    *)
(* answered with an earlier completed scan of the same user and URL.       *)
(* mcp_server/client.py waits for a status of TERMINAL_STATUSES and never  *)
(* looks again, so it relies on exactly this contract.                     *)
(***************************************************************************)
CONSTANTS
    Scans,      \* scan ids, one for each request that may be made
    None        \* not a scan id: the request has no answer yet

VARIABLES
    request,    \* what the client asked for: [user, url, force], per request
    result,     \* the client's view of each scan
    answer      \* the scan id each request was answered with

Terminal == {"completed", "waf_blocked", "failed"}

Results == {"unknown", "pending"} \cup Terminal

Init ==
    /\ result = [s \in Scans |-> "unknown"]
    /\ answer = [s \in Scans |-> None]

\* A request gets a scan of its own.
Accept(s) ==
    /\ result[s] = "unknown"
    /\ result' = [result EXCEPT ![s] = "pending"]
    /\ UNCHANGED <<request, answer>>

\* The client is told the id of its own scan, whatever became of it meanwhile.
AnswerFresh(s) ==
    /\ result[s] # "unknown"
    /\ answer[s] = None
    /\ answer' = [answer EXCEPT ![s] = s]
    /\ UNCHANGED <<request, result>>

\* The client is told the id of an earlier result, unless it asked for force.
AnswerCached(s, t) ==
    /\ ~ request[s].force
    /\ result[t] = "completed"
    /\ request[t].user = request[s].user
    /\ request[t].url = request[s].url
    /\ answer[s] = None
    /\ answer' = [answer EXCEPT ![s] = t]
    /\ UNCHANGED <<request, result>>

\* A scan settles; there is no way back.
Settle(s, v) ==
    /\ result[s] = "pending"
    /\ result' = [result EXCEPT ![s] = v]
    /\ UNCHANGED <<request, answer>>

Next ==
    \/ \E s \in Scans : Accept(s) \/ AnswerFresh(s)
    \/ \E s, t \in Scans : AnswerCached(s, t)
    \/ \E s \in Scans, v \in Terminal : Settle(s, v)

vars == <<request, result, answer>>

Spec == Init /\ [][Next]_vars
=============================================================================
