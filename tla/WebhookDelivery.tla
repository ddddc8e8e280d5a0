-------------------------- MODULE WebhookDelivery --------------------------
(***************************************************************************)
(* Reports sent to the customers' webhooks: the round a worker makes after *)
(* it has committed a report (the end of _finalize in workers/tasks.py,    *)
(* dispatch_report and deliver in workers/webhooks.py), the dead-letter    *)
(* list on Redis, and POST /v1/webhooks/dlq/{dlq_id}/redrive of            *)
(* api/routes/webhooks.py, while customers register and delete webhooks.   *)
(*                                                                         *)
(* A run is one execution of a scan's task: a redelivered message starts   *)
(* another run of the same scan.                                           *)
(***************************************************************************)
EXTENDS Naturals

CONSTANTS
    Hooks,         \* rows of the webhooks table: two may have the same URL
    Scans,
    Runs,          \* executions of scan tasks
    Redrives,      \* API requests that re-drive an entry, one at a time each
    HookUser, HookUrl,   \* functions of Hooks
    ScanUser,            \* function of Scans
    RunScan,             \* function of Runs
    Unusable,      \* URLs that httpx rejects with InvalidURL
    None,          \* no webhook
    MaxAttempts,   \* MAX_ATTEMPTS
    Faults         \* what else may go wrong

FaultPlaces == {"dlq", "remove", "crash"}

ASSUME HooksAssumption ==
    /\ RunScan \in [Runs -> Scans]
    /\ DOMAIN ScanUser = Scans
    /\ DOMAIN HookUser = Hooks /\ DOMAIN HookUrl = Hooks
    /\ None \notin Hooks
    /\ Runs \cap Redrives = {}
ASSUME AttemptsAssumption == MaxAttempts \in Nat \ {0}
ASSUME FaultsAssumption == Faults \subseteq FaultPlaces

Senders == Runs \cup Redrives

VARIABLES
    registered,  \* active rows of the webhooks table
    status,      \* column of scans; "completed" stands for waf_blocked as well
    dlq,         \* the dead-letter list
    accepted,    \* <<scan, hook>>: a receiver took that report, signed for that hook
    pc,          \* where each sender stands
    via,         \* the webhook it posts to
    tries,       \* POSTs of the current call of deliver
    selected,    \* webhook_pairs of each run
    todo,        \* those its loop has not come to
    entry        \* the dead-letter entry of each redrive

vars == <<registered, status, dlq, accepted, pc, via, tries, selected, todo, entry>>
loopVars == <<selected, todo>>

\* An entry is written for one webhook of one run (its dlq_id), but it only
\* tells the URL, the scan and the user.
Entries == Runs \X Hooks
EntryScan(e) == RunScan[e[1]]
EntryUser(e) == ScanUser[RunScan[e[1]]]
EntryUrl(e)  == HookUrl[e[2]]

NoEntry == <<None, None>>

Over == {"done", "raised", "crashed"}
RunStates == {"idle", "running", "commit", "select", "next", "post", "dead_letter",
              "mark_failed"} \cup Over
RedriveStates == {"idle", "hook", "scan", "post", "remove"}

CanFail(place) == place \in Faults

Init ==
    /\ registered \in SUBSET Hooks
    /\ status = [s \in Scans |-> "queued"]
    /\ dlq = {}
    /\ accepted = {}
    /\ pc = [p \in Senders |-> "idle"]
    /\ via = [p \in Senders |-> None]
    /\ tries = [p \in Senders |-> 0]
    /\ selected = [r \in Runs |-> {}]
    /\ todo = [r \in Runs |-> {}]
    /\ entry = [d \in Redrives |-> NoEntry]

-----------------------------------------------------------------------------
(***************************************************************************)
(* register_webhook and delete_webhook.                                    *)
(***************************************************************************)
Register(h) ==
    /\ h \notin registered
    /\ registered' = registered \cup {h}
    /\ UNCHANGED <<status, dlq, accepted, pc, via, tries, loopVars, entry>>

Delete(h) ==
    /\ h \in registered
    /\ registered' = registered \ {h}
    /\ UNCHANGED <<status, dlq, accepted, pc, via, tries, loopVars, entry>>

-----------------------------------------------------------------------------
(***************************************************************************)
(* deliver, for both of its callers.                                       *)
(***************************************************************************)
Goto(p, from, to) ==
    /\ pc[p] = from
    /\ pc' = [pc EXCEPT ![p] = to]

\* A sender turns to a webhook, or away from it.
Address(p, h) ==
    /\ via' = [via EXCEPT ![p] = h]
    /\ tries' = [tries EXCEPT ![p] = 0]

\* The API answers a re-drive request.
Respond(d, from) ==
    /\ Goto(d, from, "idle")
    /\ Address(d, None)
    /\ entry' = [entry EXCEPT ![d] = NoEntry]

ScanOf(p) == IF p \in Runs THEN RunScan[p] ELSE EntryScan(entry[p])

Take(p) == accepted' = accepted \cup {<<ScanOf(p), via[p]>>}

\* register_webhook looks at the scheme of a URL only.
Rejected(p) == HookUrl[via[p]] \in Unusable

\* The receiver answers 2xx.
PostDelivered(p) ==
    /\ pc[p] = "post" /\ ~ Rejected(p)
    /\ Take(p)
    /\ \/ /\ p \in Runs
          /\ Goto(p, "post", "next")
          /\ Address(p, None)
       \/ /\ p \in Redrives
          /\ Goto(p, "post", "remove")
          /\ UNCHANGED <<via, tries>>
    /\ UNCHANGED <<registered, status, dlq, loopVars, entry>>

\* deliver returns False: its caller has to deal with it.
GiveUp(p) ==
    \/ /\ p \in Runs
       /\ Goto(p, "post", "dead_letter")
       /\ UNCHANGED <<via, tries, entry>>
    \/ /\ p \in Redrives
       /\ Respond(p, "post")

Again(p) ==
    /\ Goto(p, "post", "post")
    /\ tries' = [tries EXCEPT ![p] = @ + 1]
    /\ UNCHANGED <<via, entry>>

Refuse(p) ==
    /\ pc[p] = "post" /\ ~ Rejected(p)
    /\ Take(p) \/ UNCHANGED accepted
    /\ UNCHANGED <<registered, status, dlq, loopVars>>

\* Bug: one attempt too many.
PostFailsLate(p) ==
    /\ Refuse(p)
    /\ IF tries[p] < MaxAttempts THEN Again(p) ELSE GiveUp(p)

\* Bug: the last attempt starts over.
PostFailsForEver(p) ==
    /\ Refuse(p)
    /\ IF tries[p] + 1 < MaxAttempts THEN Again(p)
       ELSE tries' = [tries EXCEPT ![p] = 0] /\ UNCHANGED <<pc, via, entry>>

\* It answers otherwise, or httpx raises an HTTPError: the receiver may have
\* taken the report all the same.  The last attempt is final.
PostFails(p) ==
    /\ Refuse(p)
    /\ IF tries[p] + 1 < MaxAttempts THEN Again(p) ELSE GiveUp(p)

\* Bug: the round stands outside the try that records failures.
PostRaisesUnrecorded(p) ==
    /\ pc[p] = "post" /\ Rejected(p)
    /\ \/ /\ p \in Runs
          /\ Goto(p, "post", "raised")
          /\ UNCHANGED <<via, tries, entry>>
       \/ /\ p \in Redrives
          /\ Respond(p, "post")
    /\ UNCHANGED <<registered, status, dlq, accepted, loopVars>>

\* httpx.InvalidURL is no HTTPError: it leaves deliver, and the loop around it.
PostRaises(p) ==
    /\ pc[p] = "post" /\ Rejected(p)
    /\ \/ /\ p \in Runs
          /\ Goto(p, "post", "mark_failed")
          /\ UNCHANGED <<via, tries, entry>>
       \/ /\ p \in Redrives
          /\ Respond(p, "post")
    /\ UNCHANGED <<registered, status, dlq, accepted, loopVars>>

-----------------------------------------------------------------------------
(***************************************************************************)
(* The round of a run.                                                     *)
(***************************************************************************)
SetStatus(r, new) == status' = [status EXCEPT ![RunScan[r]] = new]

\* The task sets its scan to "running": the report is not available meanwhile.
Begin(r) ==
    /\ Goto(r, "idle", "running")
    /\ SetStatus(r, "running")
    /\ UNCHANGED <<registered, dlq, accepted, via, tries, loopVars, entry>>

\* The page is scanned: ScanAttempts tells how.
Scan(r) ==
    /\ Goto(r, "running", "commit")
    /\ UNCHANGED <<registered, status, dlq, accepted, via, tries, loopVars, entry>>

Commit(r) ==
    /\ Goto(r, "commit", "select")
    /\ SetStatus(r, "completed")
    /\ UNCHANGED <<registered, dlq, accepted, via, tries, loopVars, entry>>

\* Bug: the webhooks of every user are read.
SelectEveryone(r) ==
    /\ Goto(r, "select", "next")
    /\ selected' = [selected EXCEPT ![r] = registered]
    /\ todo' = [todo EXCEPT ![r] = registered]
    /\ UNCHANGED <<registered, status, dlq, accepted, via, tries, entry>>

\* The user's active webhooks are read once, for the whole round.
Select(r) ==
    LET hooks == {h \in registered : HookUser[h] = ScanUser[RunScan[r]]}
    IN  /\ Goto(r, "select", "next")
        /\ selected' = [selected EXCEPT ![r] = hooks]
        /\ todo' = [todo EXCEPT ![r] = hooks]
        /\ UNCHANGED <<registered, status, dlq, accepted, via, tries, entry>>

\* The rows come in no particular order.
NextHook(r, h) ==
    /\ h \in todo[r]
    /\ Goto(r, "next", "post")
    /\ Address(r, h)
    /\ todo' = [todo EXCEPT ![r] = @ \ {h}]
    /\ UNCHANGED <<registered, status, dlq, accepted, selected, entry>>

Finish(r) ==
    /\ todo[r] = {}
    /\ Goto(r, "next", "done")
    /\ UNCHANGED <<registered, status, dlq, accepted, via, tries, loopVars, entry>>

\* Bug: one entry for a scan and URL is enough.
DeadLetterOnce(r) ==
    /\ Goto(r, "dead_letter", "next")
    /\ dlq' = IF \E e \in dlq : EntryScan(e) = RunScan[r] /\ EntryUrl(e) = HookUrl[via[r]]
              THEN dlq ELSE dlq \cup {<<r, via[r]>>}
    /\ Address(r, None)
    /\ UNCHANGED <<registered, status, accepted, loopVars, entry>>

DeadLetter(r) ==
    /\ Goto(r, "dead_letter", "next")
    /\ dlq' = dlq \cup {<<r, via[r]>>}
    /\ Address(r, None)
    /\ UNCHANGED <<registered, status, accepted, loopVars, entry>>

\* Redis refuses the push.
DeadLetterFails(r) ==
    /\ CanFail("dlq")
    /\ Goto(r, "dead_letter", "mark_failed")
    /\ UNCHANGED <<registered, status, dlq, accepted, via, tries, loopVars, entry>>

\* The exception has left _finalize: _run_scan marks the scan failed.
MarkFailed(r) ==
    /\ Goto(r, "mark_failed", "raised")
    /\ SetStatus(r, "failed")
    /\ UNCHANGED <<registered, dlq, accepted, via, tries, loopVars, entry>>

Crash(r) ==
    /\ CanFail("crash")
    /\ pc[r] \notin Over \cup {"idle"}
    /\ pc' = [pc EXCEPT ![r] = "crashed"]
    /\ UNCHANGED <<registered, status, dlq, accepted, via, tries, loopVars, entry>>

-----------------------------------------------------------------------------
(***************************************************************************)
(* redrive_dead_letter: what it reads first is used after several awaits.  *)
(***************************************************************************)
\* The entry is on the list and belongs to the caller.
FindEntry(d, e) ==
    /\ e \in dlq
    /\ Goto(d, "idle", "hook")
    /\ entry' = [entry EXCEPT ![d] = e]
    /\ UNCHANGED <<registered, status, dlq, accepted, via, tries, loopVars>>

\* An active webhook of the user with the entry's URL: not always the one that
\* the report could not be delivered to.
Matching(e) == {h \in registered : HookUser[h] = EntryUser(e) /\ HookUrl[h] = EntryUrl(e)}

FindHook(d) ==
    /\ pc[d] = "hook"
    /\ \/ /\ Matching(entry[d]) = {}
          /\ Respond(d, "hook")
       \/ \E h \in Matching(entry[d]) :
             /\ Goto(d, "hook", "scan")
             /\ Address(d, h)
             /\ UNCHANGED entry
    /\ UNCHANGED <<registered, status, dlq, accepted, loopVars>>

\* The report is rebuilt from the database if the scan still shows one.
FindScan(d) ==
    /\ pc[d] = "scan"
    /\ IF status[EntryScan(entry[d])] = "completed"
       THEN Goto(d, "scan", "post") /\ UNCHANGED <<via, tries, entry>>
       ELSE Respond(d, "scan")
    /\ UNCHANGED <<registered, status, dlq, accepted, loopVars>>

\* LREM by the exact value read: nothing happens if another request was faster.
Remove(d) ==
    /\ pc[d] = "remove"
    /\ dlq' = dlq \ {entry[d]}
    /\ Respond(d, "remove")
    /\ UNCHANGED <<registered, status, accepted, loopVars>>

RemoveFails(d) ==
    /\ CanFail("remove")
    /\ Respond(d, "remove")
    /\ UNCHANGED <<registered, status, dlq, accepted, loopVars>>

-----------------------------------------------------------------------------
Post(p) == PostDelivered(p) \/ PostFails(p) \/ PostRaises(p)

RunStep(r) ==
    \/ Scan(r) \/ Commit(r) \/ Select(r) \/ Finish(r) \/ Post(r) \/ DeadLetter(r) \/ MarkFailed(r)
    \/ \E h \in Hooks : NextHook(r, h)

RedriveStep(d) == FindHook(d) \/ FindScan(d) \/ Post(d) \/ Remove(d)

Next ==
    \/ \E h \in Hooks : Register(h) \/ Delete(h)
    \/ \E r \in Runs : Begin(r) \/ RunStep(r) \/ DeadLetterFails(r) \/ Crash(r)
    \/ \E d \in Redrives : RedriveStep(d) \/ RemoveFails(d)
    \/ \E d \in Redrives, e \in Entries : FindEntry(d, e)

Spec == Init /\ [][Next]_vars

\* What a worker does without the answer of a receiver.
OwnStep(r) == RunStep(r) /\ (pc[r] = "post" => Rejected(r))

\* A worker goes on with what it has begun, PostgreSQL and Redis answer it.
\* Receivers, customers and faults do as they like: the timeout of httpx is for
\* each connection, read and write, so that a receiver that keeps sending need
\* never come to the end of its answer.
Fairness == \A r \in Runs : WF_vars(OwnStep(r))

FairSpec == Spec /\ Fairness

-----------------------------------------------------------------------------
TypeOK ==
    /\ registered \subseteq Hooks
    /\ status \in [Scans -> {"queued", "running", "completed", "failed"}]
    /\ dlq \subseteq Entries
    /\ accepted \subseteq Scans \X Hooks
    /\ pc \in [Senders -> RunStates \cup RedriveStates]
    /\ via \in [Senders -> Hooks \cup {None}]
    /\ tries \in [Senders -> 0 .. MaxAttempts - 1]
    /\ selected \in [Runs -> SUBSET Hooks]
    /\ todo \in [Runs -> SUBSET Hooks]
    /\ entry \in [Redrives -> Entries \cup {NoEntry}]

\* The report of an entry's scan arrived at the entry's URL, signed for some
\* webhook its user had there.
Arrived(e) ==
    \E h \in Hooks : /\ <<EntryScan(e), h>> \in accepted
                     /\ HookUser[h] = EntryUser(e)
                     /\ HookUrl[h] = EntryUrl(e)

\* The round is at this webhook, or raised or died there.
InHand(r, h) == h = via[r] /\ pc[r] \in {"post", "dead_letter"}
StoppedAt(r, h) == h = via[r] /\ pc[r] \in {"mark_failed", "raised", "crashed"}

\* A webhook that the round has gone on from got the report, now or from a
\* re-drive, or its entry is on the dead-letter list: retries, concurrent
\* re-drives and deleted webhooks lose nothing (README:552).  The webhook a round
\* stopped at is excepted: if Redis refused its entry (or httpx its URL), nobody
\* knows of it any more, nor of those after it.
NothingVanishes ==
    \A r \in Runs : \A h \in selected[r] \ todo[r] :
        InHand(r, h) \/ StoppedAt(r, h) \/ <<r, h>> \in dlq \/ Arrived(<<r, h>>)

\* A report only ever reaches webhooks of the scan's owner, by the round of the
\* worker or by a re-drive, whoever else registered the same URL.
OwnersOnly ==
    \A s \in Scans, h \in Hooks : <<s, h>> \in accepted => HookUser[h] = ScanUser[s]

\* One POST of a round stays without an end to its answer.
HeldByReceiver(r) == \E n \in 0 .. MaxAttempts - 1 : [](pc[r] = "post" /\ tries[r] = n)

\* Whatever receivers answer, a round comes to its end (MAX_ATTEMPTS): only a
\* single answer that never ends can hold a scan's worker for ever, never retries
\* or a long list of webhooks.
RoundEnds == \A r \in Runs : pc[r] = "select" ~> pc[r] \in Over \/ HeldByReceiver(r)

-----------------------------------------------------------------------------
(***************************************************************************)
(* The runs as ScanLifecycle sees them: a worker each, whose task holds    *)
(* its message already.  What it tells apart and a round does not, the     *)
(* report and the attempts of the row, are those of an earlier run.        *)
(***************************************************************************)
TaskStep(r) ==
    CASE pc[r] = "idle" -> "start"
      [] pc[r] = "running" -> "scan"
      [] pc[r] = "commit" -> "persist"
      [] pc[r] = "select" -> "hooks"
      [] pc[r] \in {"next", "post", "dead_letter"} -> "dispatch"
      [] pc[r] = "done" -> "cache"
      [] pc[r] = "crashed" -> "idle"
      [] OTHER -> pc[r]

Started(r) == pc[r] \notin {"idle", "crashed"}
Scanned(r) == Started(r) /\ pc[r] # "running"

Lifecycle == INSTANCE ScanLifecycle WITH
    Users <- {ScanUser[s] : s \in Scans}, Urls <- {"url"}, Workers <- Runs,
    RetryBlockedOnce <- FALSE, Faults <- {"dispatch", "crash"}, MaxDeliveries <- 2,
    request <- [s \in Scans |-> [user |-> ScanUser[s], url |-> "url", force |-> TRUE]],
    api <- [s \in Scans |-> "accepted"],
    hit <- [s \in Scans |-> None],
    report <- [s \in Scans |-> "completed"],
    attempts <- [s \in Scans |-> 1],
    cache <- [u \in {"url"} |-> None],
    ready <- {}, unacked <- Scans,
    deliveries <- [s \in Scans |-> 1],
    pc <- [r \in Runs |-> TaskStep(r)],
    task <- [r \in Runs |-> IF pc[r] = "crashed" THEN None ELSE RunScan[r]],
    attempt <- [r \in Runs |-> IF Started(r) THEN 1 ELSE 0],
    verdict <- [r \in Runs |-> IF Scanned(r) THEN "completed" ELSE "none"]

\* Rounds, receivers, re-drives and customers together do to the scans nothing but
\* what ScanLifecycle lets its tasks do: a round ends as one step, with the scan as
\* it was, or marks it failed, and a re-drive never touches the row.
RefinesLifecycle == [][Lifecycle!Next]_(Lifecycle!vars)

-----------------------------------------------------------------------------
\* README:552: "Failed deliveries retry with exponential backoff, then land in
\* the DLQ".  Every webhook of a round that has ended got the report or has an
\* entry.
EveryHookSettled ==
    \A r \in Runs : pc[r] \in {"done", "raised"} =>
        \A h \in selected[r] : <<r, h>> \in dlq \/ Arrived(<<r, h>>)
=============================================================================
