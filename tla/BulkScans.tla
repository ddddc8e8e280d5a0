----------------------------- MODULE BulkScans -----------------------------
(***************************************************************************)
(* Bulk requests on top of ScanLifecycle: create_bulk_scan and             *)
(* get_bulk_progress of api/routes/scans.py.  One request sends the rows   *)
(* of a file one after the other while the workers already run the first   *)
(* of them; the scans of a batch are held together by nothing but the      *)
(* batch_id in their options, which the task reads at its start and writes *)
(* back twice.                                                             *)
(*                                                                         *)
(* A row that passes the URL check is handled like a forced request: every *)
(* step here is a step of ScanLifecycle or leaves its variables alone.     *)
(***************************************************************************)
EXTENDS ScanLifecycle, Sequences

CONSTANTS
    Rejected,    \* a line whose URL the check refuses (UrlRejectedError)
    Malformed,   \* a line whose URL makes it raise something else (a bad port)
    Files,       \* the files a client may send: sequences of lines
    MaxBulkUrls  \* MAX_BULK_URLS

\* A line with an acceptable URL is the id that its scan gets: each its own.
ASSUME LinesAssumption ==
    /\ Rejected \notin Scans /\ Malformed \notin Scans /\ Rejected # Malformed
    /\ Files \subseteq Seq(Scans \cup {Rejected, Malformed})
    /\ \A f \in Files : \A i, j \in DOMAIN f : f[i] = f[j] /\ f[i] \in Scans => i = j
ASSUME BulkAssumption == MaxBulkUrls \in Nat

VARIABLES
    lines,     \* the URLs that _parse_csv_urls finds in the body
    bulk,      \* where create_bulk_scan stands
    results,   \* its local `results`: a scan id, or Rejected with a reason
    tagged,    \* scans whose options name the batch
    opts,      \* workers whose local `opts` names it
    stranded   \* history: the fault that left a scan with nobody to settle it

bulkVars == <<lines, bulk, results, tagged, opts, stranded>>
allVars == <<vars, bulkVars>>

BulkStates == {"idle", "loop", "answered", "refused", "error"}
Strandings == {"enqueue", "start", "mark_failed", "lost"}

RowsOf(f) == {f[i] : i \in DOMAIN f} \cap Scans
Rows == RowsOf(lines)

BulkInit ==
    /\ Init
    /\ lines \in Files
    /\ \E u \in Users : \A s \in Rows : request[s].user = u /\ request[s].force
    /\ bulk = "idle"
    /\ results = <<>>
    /\ tagged = {}
    /\ opts = {}
    /\ stranded = [s \in Scans |-> "no"]

Strand(s, fault) == stranded' = [stranded EXCEPT ![s] = fault]

-----------------------------------------------------------------------------
(***************************************************************************)
(* create_bulk_scan.  It stands at the first line without a result.        *)
(***************************************************************************)
Line == lines[Len(results) + 1]

AtLine == bulk = "loop" /\ Len(results) < Len(lines)

\* An empty or too long list is refused with a 400 before any row is made.
Upload ==
    /\ bulk = "idle"
    /\ bulk' = IF lines = <<>> \/ Len(lines) > MaxBulkUrls THEN "refused" ELSE "loop"
    /\ UNCHANGED <<vars, lines, results, tagged, opts, stranded>>

SkipLine ==
    /\ AtLine /\ Line = Rejected
    /\ results' = Append(results, Rejected)
    /\ UNCHANGED <<vars, lines, bulk, tagged, opts, stranded>>

\* Bug: the exception is swallowed and the line is counted as accepted.
LineSwallowed ==
    /\ AtLine /\ Line = Malformed
    /\ results' = Append(results, Line)
    /\ UNCHANGED <<vars, lines, bulk, tagged, opts, stranded>>

\* The exception of parts.port is not caught: a 500 in the middle of the loop.
LineRaises ==
    /\ AtLine /\ Line = Malformed
    /\ bulk' = "error"
    /\ UNCHANGED <<vars, lines, results, tagged, opts, stranded>>

StartRow ==
    /\ AtLine /\ Line \in Scans
    /\ Request(Line)
    /\ UNCHANGED bulkVars

\* The row of a batch is inserted with the batch's id in its options.
InsertRow(s) ==
    /\ InsertScan(s)
    /\ tagged' = IF s \in Rows THEN tagged \cup {s} ELSE tagged
    /\ UNCHANGED <<lines, bulk, results, opts, stranded>>

\* delay returns, and the loop goes on to the next line.
SendRow(s) ==
    /\ Enqueue(s)
    /\ results' = IF s \in Rows THEN Append(results, s) ELSE results
    /\ UNCHANGED <<lines, bulk, tagged, opts, stranded>>

\* Bug: the loop goes on after a row that failed, and lists it.
RowFailsListed(s) ==
    /\ RequestFails(s)
    /\ results' = IF s \in Rows THEN Append(results, s) ELSE results
    /\ IF api[s] = "enqueue" THEN Strand(s, "enqueue") ELSE UNCHANGED stranded
    /\ UNCHANGED <<lines, bulk, tagged, opts>>

\* A row that cannot be inserted or sent ends the whole request with a 500; one
\* that was inserted stays, and nobody will ever run it.
RowFails(s) ==
    /\ RequestFails(s)
    /\ bulk' = IF s \in Rows THEN "error" ELSE bulk
    /\ IF api[s] = "enqueue" THEN Strand(s, "enqueue") ELSE UNCHANGED stranded
    /\ UNCHANGED <<lines, results, tagged, opts>>

Reply ==
    /\ bulk = "loop" /\ Len(results) = Len(lines)
    /\ bulk' = "answered"
    /\ UNCHANGED <<vars, lines, results, tagged, opts, stranded>>

\* BulkScanAccepted: its counts.
Skipped == Cardinality({i \in DOMAIN results : results[i] = Rejected})
Accepted == Len(results) - Skipped

-----------------------------------------------------------------------------
(***************************************************************************)
(* get_bulk_progress: one query over the rows whose options name the batch *)
(***************************************************************************)
InBatch(statuses) == {s \in tagged : status[s] \in statuses}

Total == Cardinality(InBatch(Statuses \ {"absent"}))
Finished == Cardinality(InBatch(Terminal))

-----------------------------------------------------------------------------
(***************************************************************************)
(* The task.                                                               *)
(***************************************************************************)
\* The options are read with the row.
ReadOptions(w) ==
    /\ Start(w)
    /\ opts' = IF task[w] \in tagged THEN opts \cup {w} ELSE opts \ {w}
    /\ UNCHANGED <<lines, bulk, results, tagged, stranded>>

\* Bug: what the scan did replaces the options instead of being added to them.
WriteNewOptions(w) ==
    /\ UpdateOptions(w) \/ Persist(w)
    /\ tagged' = tagged \ {task[w]}
    /\ UNCHANGED <<lines, bulk, results, opts, stranded>>

\* The row's options become those that were read, with the attempts added.
WriteOptions(w) ==
    /\ UpdateOptions(w) \/ Persist(w)
    /\ tagged' = IF w \in opts THEN tagged \cup {task[w]} ELSE tagged \ {task[w]}
    /\ UNCHANGED <<lines, bulk, results, opts, stranded>>

\* The worker goes back to waiting, or dies.
Leave(w) ==
    /\ Ack(w) \/ Crash(w)
    /\ opts' = opts \ {w}
    /\ UNCHANGED <<lines, bulk, results, tagged, stranded>>

ProcessLost(w) ==
    /\ ChildLost(w)
    /\ Strand(task[w], "lost")
    /\ opts' = opts \ {w}
    /\ UNCHANGED <<lines, bulk, results, tagged>>

\* The first update of the row fails, or the one that should mark it failed.
UpdateLost(w) ==
    /\ \/ StartFails(w) /\ Strand(task[w], "start")
       \/ MarkFailedFails(w) /\ Strand(task[w], "mark_failed")
    /\ UNCHANGED <<lines, bulk, results, tagged, opts>>

\* Everything else leaves the batch alone.
Elsewhere ==
    /\ \/ \E s \in Scans :
             \/ s \notin Rows /\ Request(s)
             \/ LookupCache(s) \/ CheckCached(s) \/ Redeliver(s)
       \/ \E u \in Urls : ExpireCache(u)
       \/ \E w \in Workers, s \in Scans : Receive(w, s)
       \/ \E w \in Workers :
             ScanOnce(w) \/ SelectHooks(w) \/ Dispatch(w) \/ CacheResult(w)
                \/ MarkFailed(w) \/ Raise(w)
    /\ UNCHANGED bulkVars

\* Every request is answered, the rows after a 500 having never been one.
BulkRest ==
    /\ bulk \in {"answered", "refused", "error"}
    /\ \A s \in Scans : \/ api[s] \in {"accepted", "cached", "error"}
                        \/ s \in Rows /\ api[s] = "idle"
    /\ \A w \in Workers : pc[w] = "idle"
    /\ ready = {} /\ unacked = {}
    /\ UNCHANGED allVars

Loop == SkipLine \/ LineRaises \/ StartRow \/ Reply

BulkNext ==
    \/ Upload \/ Loop
    \/ \E s \in Scans : InsertRow(s) \/ SendRow(s) \/ RowFails(s)
    \/ \E w \in Workers : ReadOptions(w) \/ WriteOptions(w) \/ Leave(w)
                            \/ ProcessLost(w) \/ UpdateLost(w)
    \/ Elsewhere
    \/ BulkRest

BulkSpec == BulkInit /\ [][BulkNext]_allVars

\* The handler goes on with its file like with anything else it has begun.
BulkFairSpec == BulkSpec /\ Fairness /\ WF_allVars(Loop)
-----------------------------------------------------------------------------
BulkTypeOK ==
    /\ lines \in Files
    /\ bulk \in BulkStates
    /\ results \in Seq(Scans \cup {Rejected})
    /\ tagged \subseteq Scans
    /\ opts \subseteq Workers
    /\ stranded \in [Scans -> Strandings \cup {"no"}]

\* An answered bulk request tells of every line what became of it, and the
\* batch goes on showing exactly the rows that were accepted, however often
\* their options were rewritten meanwhile (create_bulk_scan against
\* get_bulk_progress, through the options of _run_scan).
BatchIsWhole ==
    bulk = "answered" =>
        /\ results = lines
        /\ tagged = Rows
        /\ Total = Accepted

\* The progress of a batch never goes back: neither the rows nor the finished
\* rows it counts become fewer (get_bulk_progress, asked again and again).
ProgressGrows == [][Total' >= Total /\ Finished' >= Finished]_allVars

\* A scan that is neither settled nor with the broker was hit by one of four
\* faults: the broker refused it, the first update of its task failed, the
\* update that should mark it failed did, or its process was lost.  Nothing
\* else, and no other row of its batch, can leave a scan waiting for ever.
LossIsNamed ==
    \A s \in Scans :
        status[s] \in {"queued", "running"} /\ s \notin ready \cup unacked =>
            api[s] = "enqueue" \/ stranded[s] # "no"

\* Every row that was inserted settles unless one of those faults hits that very
\* row, also when the request it came with ended in a 500 at a later line.
RowsSettle ==
    \A s \in Scans : status[s] # "absent" ~> status[s] \in Terminal \/ stranded[s] # "no"
=============================================================================
