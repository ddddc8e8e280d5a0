-------------------------- MODULE BulkScansProofs --------------------------
(***************************************************************************)
(* A bulk request does nothing to the lifecycle of its scans: what is      *)
(* proved of ScanLifecycle holds of BulkScans.  Then what a batch shows,   *)
(* for any files, numbers of scans and workers, proved with TLAPS.         *)
(***************************************************************************)
EXTENDS BulkScans, ScanLifecycleProofs, FiniteSetTheorems, FunctionTheorems

\* Every step of the bulk model is a step of ScanLifecycle or leaves it alone.
LEMMA BulkStep == [BulkNext]_allVars => [Next]_vars
<1> SUFFICES ASSUME [BulkNext]_allVars PROVE [Next]_vars
    OBVIOUS
<1>1. CASE Upload \/ Loop
  <2>1. StartRow => Next
    BY DEF StartRow, Next
  <2>2. QED
    BY <1>1, <2>1 DEF Upload, Loop, SkipLine, LineRaises, Reply
<1>2. ASSUME NEW s \in Scans, InsertRow(s) \/ SendRow(s) \/ RowFails(s) PROVE Next
    BY <1>2 DEF InsertRow, SendRow, RowFails, Next, ApiStep
<1>3. ASSUME NEW w \in Workers,
             ReadOptions(w) \/ WriteOptions(w) \/ Leave(w) \/ ProcessLost(w) \/ UpdateLost(w)
      PROVE  Next
    BY <1>3 DEF ReadOptions, WriteOptions, Leave, ProcessLost, UpdateLost, Next, WorkerStep,
       WorkerFault
<1>4. CASE Elsewhere
    BY <1>4 DEF Elsewhere, Next, ApiStep, WorkerStep, WorkerFault
<1>5. CASE UNCHANGED allVars
    BY <1>5 DEF allVars
<1>6. QED
    BY <1>1, <1>2, <1>3, <1>4, <1>5 DEF BulkNext, BulkRest

\* Bulk requests are clients of the same lifecycle (create_bulk_scan adds rows
\* and messages like create_scan, and nothing else).
THEOREM BulkImplementsLifecycle == BulkSpec => Spec
<1>1. BulkInit => Init
    BY DEF BulkInit
<1>2. QED
    BY <1>1, BulkStep, PTL DEF BulkSpec, Spec

\* The promise to the client and the finality of a settled status are kept for
\* the rows of a batch as well (scans.py, _run_scan).
THEOREM BulkKeepsPromise ==
    ASSUME EarlyFaultsOnly PROVE BulkSpec => KeepsPromise /\ TerminalIsFinal
<1>1. QED
    BY BulkImplementsLifecycle, PromiseKept, SettledIsFinal, PTL

-----------------------------------------------------------------------------
(***************************************************************************)
(* The batch while its request is read and its tasks run, whatever fails.  *)
(***************************************************************************)
\* Only accepted scans have messages and tasks.
TasksAccepted ==
    /\ \A s \in ready \cup unacked : api[s] = "accepted"
    /\ \A w \in Workers : pc[w] # "idle" => api[task[w]] = "accepted"

\* The lines before the handler's place were dealt with, those after it not.
LinesInOrder ==
    /\ Len(results) <= Len(lines)
    /\ \A i \in 1 .. Len(results) : results[i] = lines[i]
    /\ \A i \in 1 .. Len(lines) : lines[i] \in Scans =>
          /\ i <= Len(results) => api[lines[i]] = "accepted"
          /\ i > Len(results) + 1 => api[lines[i]] = "idle"

\* Rows are on their way only while the loop runs.
LoopState ==
    /\ bulk \in {"idle", "refused"} => \A s \in Rows : api[s] = "idle"
    /\ \A s \in Rows : api[s] \in {"insert", "enqueue"} => bulk = "loop"
    /\ bulk = "answered" => Len(results) = Len(lines)

\* The batch is what was inserted for it, and its tasks know that they belong
\* to it.
RowsTagged ==
    /\ \A s \in Rows : request[s].force /\ api[s] \notin {"lookup", "check", "cached"}
    /\ tagged \subseteq Rows
    /\ \A s \in Rows : api[s] \in {"enqueue", "accepted"} => s \in tagged
    /\ \A s \in tagged : status[s] # "absent"
    /\ \A w \in Workers : pc[w] \in BeforeCommit => (w \in opts <=> task[w] \in tagged)

BInv == IInv /\ BulkTypeOK /\ TasksAccepted /\ LinesInOrder /\ LoopState /\ RowsTagged

USE DEF apiVars, rowVars, brokerVars, workVars, Statuses, Terminal, Verdicts

\* No line has been read.
LEMMA InitBInv == BulkInit => BInv
<1> SUFFICES ASSUME BulkInit PROVE BInv
    OBVIOUS
<1>1. IInv
    BY InitIInv DEF BulkInit
<1>2. lines \in Seq(Scans \cup {Rejected, Malformed})
    BY LinesAssumption DEF BulkInit
<1>3. BulkTypeOK /\ TasksAccepted /\ LinesInOrder /\ LoopState /\ RowsTagged
    BY <1>2, NoneAssumption DEF BulkInit, Init, BulkTypeOK, BulkStates, TasksAccepted,
       LinesInOrder, LoopState, RowsTagged, Rows, RowsOf, BeforeCommit
<1>4. QED
    BY <1>1, <1>3 DEF BInv

\* The lines of the file as a sequence, each id at one place only.
LEMMA FileLines ==
    ASSUME BulkTypeOK
    PROVE  /\ lines \in Seq(Scans \cup {Rejected, Malformed})
           /\ Len(lines) \in Nat /\ DOMAIN lines = 1 .. Len(lines)
           /\ Rows \subseteq Scans
           /\ \A s \in Rows : \E i \in 1 .. Len(lines) : lines[i] = s
           /\ \A i \in 1 .. Len(lines) : lines[i] \in Scans => lines[i] \in Rows
           /\ \A i, j \in 1 .. Len(lines) : lines[i] = lines[j] /\ lines[i] \in Scans => i = j
<1>1. lines \in Seq(Scans \cup {Rejected, Malformed})
    BY LinesAssumption DEF BulkTypeOK
<1>2. DOMAIN lines = 1 .. Len(lines) /\ Len(lines) \in Nat
    BY <1>1
<1>3. \A i, j \in DOMAIN lines : lines[i] = lines[j] /\ lines[i] \in Scans => i = j
    BY LinesAssumption DEF BulkTypeOK
<1>4. QED
    BY <1>1, <1>2, <1>3 DEF Rows, RowsOf

\* The row that is being inserted or sent is the one of the line the loop is at.
LEMMA RowAtLine ==
    ASSUME BInv, NEW s \in Rows, api[s] \in {"insert", "enqueue"}
    PROVE  /\ Len(results) < Len(lines)
           /\ s = lines[Len(results) + 1]
           /\ bulk = "loop"
<1>1. PICK i \in 1 .. Len(lines) : lines[i] = s
    BY FileLines DEF BInv
<1>2. i = Len(results) + 1
  <2>1. Len(results) \in Nat /\ Len(lines) \in Nat /\ s \in Scans
    BY FileLines DEF BInv, BulkTypeOK
  <2>2. ~ (i <= Len(results)) /\ ~ (i > Len(results) + 1)
    BY <1>1, <2>1 DEF BInv, LinesInOrder
  <2>3. QED
    BY <2>1, <2>2
<1>3. QED
    BY <1>1, <1>2, FileLines DEF BInv, LoopState, BulkTypeOK

\* The steps of the loop that touch no scan.
LEMMA LoopBInv ==
    ASSUME BInv, Upload \/ SkipLine \/ LineRaises \/ Reply
    PROVE  BInv'
<1> USE DEF BInv
<1>1. UNCHANGED <<vars, lines, tagged, opts, stranded>>
    BY DEF Upload, SkipLine, LineRaises, Reply
<1>2. UNCHANGED <<request, api, status, report, attempts, cache, ready, unacked, deliveries,
                 hit, pc, task, attempt, verdict>>
    BY <1>1 DEF vars
<1>3. IInv'
    BY <1>2, NextIInv DEF vars
<1>4. TasksAccepted' /\ RowsTagged'
    BY <1>1, <1>2 DEF TasksAccepted, RowsTagged, Rows
<1>5. CASE SkipLine
  <2>1. /\ Len(results') = Len(results) + 1
        /\ results' \in Seq(Scans \cup {Rejected})
        /\ \A i \in 1 .. Len(results) : results'[i] = results[i]
        /\ results'[Len(results) + 1] = lines[Len(results) + 1]
        /\ Len(results) < Len(lines)
    BY <1>5 DEF SkipLine, AtLine, Line, BulkTypeOK
  <2>2. Rejected \notin Scans
    BY LinesAssumption
  <2>3. BulkTypeOK'
    BY <1>1, <1>5, <2>1 DEF SkipLine, BulkTypeOK
  <2>4. LinesInOrder'
    <3>1. Len(results) \in Nat /\ Len(lines) \in Nat
        BY FileLines DEF BulkTypeOK
    <3>2. \A i \in 1 .. Len(results') : results'[i] = lines[i]
        BY <2>1, <3>1 DEF LinesInOrder
    <3>3. \A i \in 1 .. Len(lines) : lines[i] \in Scans =>
              /\ i <= Len(results') => api[lines[i]] = "accepted"
              /\ i > Len(results') + 1 => api[lines[i]] = "idle"
        <4> SUFFICES ASSUME NEW i \in 1 .. Len(lines), lines[i] \in Scans
                     PROVE  /\ i <= Len(results') => api[lines[i]] = "accepted"
                            /\ i > Len(results') + 1 => api[lines[i]] = "idle"
            OBVIOUS
        <4>1. i # Len(results) + 1
            BY <1>5, <2>2 DEF SkipLine, Line
        <4>2. QED
            BY <2>1, <3>1, <4>1 DEF LinesInOrder
    <3>4. QED
        BY <1>1, <1>2, <2>1, <3>1, <3>2, <3>3 DEF LinesInOrder
  <2>5. LoopState'
    BY <1>1, <1>2, <1>5 DEF SkipLine, AtLine, LoopState, Rows
  <2>6. QED
    BY <1>3, <1>4, <2>3, <2>4, <2>5
<1>6. CASE Upload \/ LineRaises \/ Reply
  <2>1. BulkTypeOK'
    BY <1>1, <1>6 DEF Upload, LineRaises, Reply, BulkTypeOK, BulkStates
  <2>2. ASSUME LineRaises \/ Reply, NEW s \in Rows PROVE api[s] \notin {"insert", "enqueue"}
    <3>1. Line = Malformed \/ Len(results) = Len(lines)
        BY <2>2 DEF LineRaises, Reply
    <3>2. s \in Scans /\ Malformed \notin Scans
        BY FileLines, LinesAssumption
    <3>3. Len(results) \in Nat /\ Len(lines) \in Nat
        BY FileLines DEF BulkTypeOK
    <3>4. QED
        BY <3>1, <3>2, <3>3, RowAtLine DEF Line
  <2>3. LinesInOrder'
    BY <1>1, <1>2, <1>6 DEF Upload, LineRaises, Reply, LinesInOrder
  <2>4. LoopState'
    BY <1>1, <1>2, <1>6, <2>2 DEF Upload, LineRaises, Reply, AtLine, LoopState, Rows
  <2>5. QED
    BY <1>3, <1>4, <2>1, <2>3, <2>4
<1>7. QED
    BY <1>5, <1>6

\* A step of the handler: what it does to the messages and to other requests.
LEMMA HandlerFrame ==
    ASSUME BInv, NEW s \in Scans, Request(s) \/ ApiStep(s) \/ RequestFails(s)
    PROVE  /\ UNCHANGED <<request, unacked, pc, task>>
           /\ ready' = ready \/ (ready' = ready \cup {s} /\ api'[s] = "accepted")
           /\ api[s] # "accepted"
           /\ \A r \in Scans : r # s => api'[r] = api[r]
           /\ \A r \in Scans : r # s => status'[r] = status[r]
           /\ status[s] # "absent" => status'[s] # "absent"
           /\ TasksAccepted'
<1> USE DEF BInv
<1>1. /\ UNCHANGED <<request, unacked, pc, task>>
      /\ ready' = ready \/ (ready' = ready \cup {s} /\ api'[s] = "accepted")
      /\ api[s] # "accepted"
      /\ api' = [api EXCEPT ![s] = api'[s]]
      /\ status' = status \/ status' = [status EXCEPT ![s] = "queued"]
    BY DEF Request, ApiStep, LookupCache, CheckCached, InsertScan, Enqueue, RequestFails, ApiMove,
       IInv, TypeOK
<1>2. \A r \in Scans : r # s => api'[r] = api[r]
    BY <1>1 DEF IInv, TypeOK
<1>3. TasksAccepted'
  <2>1. \A w \in Workers : pc[w] # "idle" => task[w] \in Scans
    BY DEF IInv, WorkerKnows
  <2>2. QED
    BY <1>1, <1>2, <2>1 DEF TasksAccepted, IInv, TypeOK
<1>4. QED
    BY <1>1, <1>2, <1>3 DEF IInv, TypeOK

\* Steps of the handler for rows of the batch and for other requests.
LEMMA HandlerBInv ==
    ASSUME BInv, NEW s \in Scans,
           \/ StartRow /\ s = Line
           \/ InsertRow(s) \/ SendRow(s) \/ RowFails(s)
           \/ /\ (s \notin Rows /\ Request(s)) \/ LookupCache(s) \/ CheckCached(s)
              /\ UNCHANGED bulkVars
    PROVE  BInv'
<1> USE DEF BInv
<1>1. Request(s) \/ ApiStep(s) \/ RequestFails(s)
    BY DEF StartRow, InsertRow, SendRow, RowFails, ApiStep
<1>2. IInv' /\ TasksAccepted'
    BY <1>1, NextIInv, HandlerFrame DEF Next
<1>3. UNCHANGED <<lines, opts>> /\ Rows' = Rows
    BY DEF StartRow, InsertRow, SendRow, RowFails, bulkVars, Rows
<1>4. Len(results) \in Nat /\ Len(lines) \in Nat /\ Rows \subseteq Scans
    BY FileLines DEF BulkTypeOK
<1>5. ASSUME StartRow, s = Line PROVE s \in Rows /\ s = lines[Len(results) + 1]
  <2>1. Len(results) + 1 \in 1 .. Len(lines) /\ s = lines[Len(results) + 1]
    BY <1>4, <1>5 DEF StartRow, AtLine, Line
  <2>2. QED
    BY <2>1, FileLines
<1>6. CASE s \notin Rows
  <2>1. UNCHANGED <<bulk, results, tagged>>
    BY <1>5, <1>6 DEF InsertRow, SendRow, RowFails, bulkVars
  <2>2. BulkTypeOK'
    BY <1>3, <2>1 DEF StartRow, InsertRow, SendRow, RowFails, Strand, bulkVars, BulkTypeOK,
       Strandings
  <2>3. \A r \in Rows : api'[r] = api[r] /\ status'[r] = status[r]
    BY <1>1, <1>4, <1>6, HandlerFrame
  <2>4. \A i \in 1 .. Len(lines) : lines[i] \in Scans => api'[lines[i]] = api[lines[i]]
    BY <2>3, FileLines
  <2>5. LinesInOrder' /\ LoopState'
    BY <1>3, <2>1, <2>3, <2>4 DEF LinesInOrder, LoopState
  <2>6. RowsTagged'
    BY <1>1, <1>3, <1>4, <2>1, <2>3, HandlerFrame DEF RowsTagged
  <2>7. QED
    BY <1>2, <2>2, <2>5, <2>6
<1>7. CASE s \in Rows
  <2>1. request[s].force /\ api[s] \notin {"lookup", "check", "cached"}
    BY <1>7 DEF RowsTagged
  <2>2. \/ StartRow /\ s = Line
        \/ InsertRow(s) \/ SendRow(s) \/ RowFails(s)
    BY <1>7, <2>1 DEF LookupCache, CheckCached, ApiMove
  <2>3. Len(results) < Len(lines) /\ s = lines[Len(results) + 1] /\ bulk = "loop"
    BY <1>4, <1>5, <1>7, <2>1, <2>2, RowAtLine
       DEF StartRow, AtLine, InsertRow, InsertScan, SendRow, Enqueue, RowFails, RequestFails, ApiMove
  <2>4. \A i \in 1 .. Len(lines) :
            lines[i] \in Scans /\ i # Len(results) + 1 => api'[lines[i]] = api[lines[i]]
    BY <1>1, <1>4, <2>3, FileLines, HandlerFrame
  <2>5. CASE SendRow(s)
    <3>1. /\ Len(results') = Len(results) + 1
          /\ results' \in Seq(Scans \cup {Rejected})
          /\ \A i \in 1 .. Len(results) : results'[i] = results[i]
          /\ results'[Len(results) + 1] = s
        BY <1>7, <2>5 DEF SendRow, BulkTypeOK
    <3>2. api'[s] = "accepted" /\ UNCHANGED <<bulk, tagged, stranded, status>>
        BY <2>5 DEF SendRow, Enqueue, ApiMove, IInv, TypeOK
    <3>3. api[s] = "enqueue"
        BY <2>5 DEF SendRow, Enqueue, ApiMove
    <3>4. BulkTypeOK'
        BY <1>3, <3>1, <3>2 DEF BulkTypeOK
    <3>5. \A i \in 1 .. Len(results') : results'[i] = lines[i]
        BY <1>4, <2>3, <3>1 DEF LinesInOrder
    <3>6. ASSUME NEW i \in 1 .. Len(lines), lines[i] \in Scans
          PROVE  /\ i <= Len(results') => api'[lines[i]] = "accepted"
                 /\ i > Len(results') + 1 => api'[lines[i]] = "idle"
        <4>1. CASE i = Len(results) + 1
            BY <1>4, <2>3, <3>1, <3>2, <4>1
        <4>2. CASE i # Len(results) + 1
            BY <1>4, <2>4, <3>1, <3>6, <4>2 DEF LinesInOrder
        <4>3. QED
            BY <4>1, <4>2
    <3>7. LinesInOrder'
        BY <1>3, <1>4, <2>3, <3>1, <3>5, <3>6 DEF LinesInOrder
    <3>8. \A r \in Rows : r # s => api'[r] = api[r]
        BY <1>1, <1>4, HandlerFrame
    <3>9. LoopState'
        BY <1>3, <1>7, <2>3, <3>2, <3>8 DEF LoopState
    <3>10. RowsTagged'
        BY <1>1, <1>3, <1>4, <3>2, <3>3, <3>8, HandlerFrame DEF RowsTagged
    <3>11. QED
        BY <1>2, <3>4, <3>7, <3>9, <3>10
  <2>6. CASE (StartRow /\ s = Line) \/ InsertRow(s) \/ RowFails(s)
    <3>1. UNCHANGED results
        BY <2>6 DEF StartRow, InsertRow, RowFails, bulkVars
    <3>2. /\ api'[s] \in {"insert", "enqueue", "error"}
          /\ api'[s] \in {"insert", "enqueue"} => bulk' = "loop"
          /\ bulk' \in {"loop", "error"}
          /\ api'[s] = "enqueue" => s \in tagged' /\ status'[s] # "absent"
        BY <1>7, <2>1, <2>3, <2>6 DEF StartRow, Request, InsertRow, InsertScan, RowFails,
           RequestFails, ApiMove, bulkVars, IInv, TypeOK
    <3>3. tagged' = tagged \/ (InsertRow(s) /\ tagged' = tagged \cup {s})
        BY <1>7, <2>6 DEF StartRow, InsertRow, RowFails, bulkVars
    <3>4. BulkTypeOK'
        BY <1>3, <1>4, <1>7, <2>6, <3>1, <3>2, <3>3 DEF StartRow, InsertRow, RowFails, Strand,
           bulkVars, BulkTypeOK, BulkStates, Strandings
    <3>5. ASSUME NEW i \in 1 .. Len(lines), lines[i] \in Scans
          PROVE  /\ i <= Len(results) => api'[lines[i]] = "accepted"
                 /\ i > Len(results) + 1 => api'[lines[i]] = "idle"
        BY <1>4, <2>4, <3>5 DEF LinesInOrder
    <3>6. LinesInOrder'
        BY <1>3, <3>1, <3>5 DEF LinesInOrder
    <3>7. \A r \in Rows : r # s => api'[r] = api[r] /\ status'[r] = status[r]
        BY <1>1, <1>4, HandlerFrame
    <3>8. LoopState'
        <4>1. \A r \in Rows : r # s => api[r] \notin {"insert", "enqueue"}
            BY <2>3, RowAtLine
        <4>2. QED
            BY <1>3, <1>7, <2>3, <3>1, <3>2, <3>7, <4>1 DEF LoopState
    <3>9. InsertRow(s) => status'[s] # "absent" /\ api[s] = "insert"
        BY DEF InsertRow, InsertScan, ApiMove, IInv, TypeOK
    <3>10. \A w \in Workers : pc[w] \in BeforeCommit => (task[w] \in tagged' <=> task[w] \in tagged)
        BY <3>3, <3>9 DEF TasksAccepted, BeforeCommit
    <3>11. RowsTagged'
        <4>1. \A r \in Rows : request'[r].force /\ api'[r] \notin {"lookup", "check", "cached"}
            BY <1>1, <1>4, <2>1, <3>2, <3>7, HandlerFrame DEF RowsTagged
        <4>2. tagged' \subseteq Rows /\ \A r \in tagged' : status'[r] # "absent"
            BY <1>1, <1>4, <1>7, <3>3, <3>7, <3>9, HandlerFrame DEF RowsTagged
        <4>3. \A r \in Rows : api'[r] \in {"enqueue", "accepted"} => r \in tagged'
            BY <3>2, <3>3, <3>7 DEF RowsTagged
        <4>4. QED
            BY <1>1, <1>3, <1>4, <3>10, <4>1, <4>2, <4>3, HandlerFrame DEF RowsTagged
    <3>12. QED
        BY <1>2, <3>4, <3>6, <3>8, <3>11
  <2>7. QED
    BY <2>2, <2>5, <2>6
<1>8. QED
    BY <1>6, <1>7

\* Steps of the tasks leave requests, handler and file alone.
LEMMA TaskBInv ==
    ASSUME BInv, NEW w \in Workers,
           \/ ReadOptions(w) \/ WriteOptions(w) \/ Leave(w) \/ ProcessLost(w) \/ UpdateLost(w)
           \/ (ScanOnce(w) \/ SelectHooks(w) \/ Dispatch(w) \/ CacheResult(w) \/ MarkFailed(w)
                  \/ Raise(w)) /\ UNCHANGED bulkVars
    PROVE  BInv'
<1> USE DEF BInv
<1>1. WorkerStep(w) \/ WorkerFault(w)
    BY DEF ReadOptions, WriteOptions, Leave, ProcessLost, UpdateLost, WorkerStep, WorkerFault
<1>2. IInv'
    BY <1>1, NextIInv DEF Next
<1>3. /\ UNCHANGED <<apiVars, ready>>
      /\ unacked' \subseteq unacked
      /\ pc[w] # "idle" /\ task[w] \in Scans
      /\ \A v \in Workers : v # w => pc'[v] = pc[v] /\ task'[v] = task[v]
      /\ pc'[w] = "idle" \/ task'[w] = task[w]
      /\ \A s \in Scans : status[s] # "absent" => status'[s] # "absent"
    BY <1>1 DEF WorkerStep, WorkerFault, Start, ScanOnce, UpdateOptions, Persist, SelectHooks,
       Dispatch, CacheResult, MarkFailed, Ack, StartFails, Raise, MarkFailedFails, Crash, ChildLost,
       Drop, Move, BeforeCommit, AfterCommit, IInv, TypeOK, WorkerKnows
<1>4. UNCHANGED <<lines, bulk, results>> /\ Rows' = Rows
    BY DEF ReadOptions, WriteOptions, Leave, ProcessLost, UpdateLost, bulkVars, Rows
<1>5. TasksAccepted'
    BY <1>3 DEF TasksAccepted
<1>6. LinesInOrder' /\ LoopState'
    BY <1>3, <1>4 DEF LinesInOrder, LoopState
<1>7. tagged' = tagged
  <2>1. WriteOptions(w) => pc[w] \in BeforeCommit
    BY DEF WriteOptions, UpdateOptions, Persist, Move, BeforeCommit
  <2>2. QED
    BY <2>1 DEF ReadOptions, WriteOptions, Leave, ProcessLost, UpdateLost, bulkVars, RowsTagged
<1>8. BulkTypeOK'
  <2>1. opts' \subseteq opts \cup {w}
    BY DEF ReadOptions, WriteOptions, Leave, ProcessLost, UpdateLost, bulkVars
  <2>2. opts' \subseteq Workers
    BY <2>1 DEF BulkTypeOK
  <2>3. stranded' = stranded \/ \E f \in Strandings : stranded' = [stranded EXCEPT ![task[w]] = f]
    BY DEF ReadOptions, WriteOptions, Leave, ProcessLost, UpdateLost, Strand, Strandings, bulkVars
  <2>4. stranded' \in [Scans -> Strandings \cup {"no"}]
    BY <2>3 DEF BulkTypeOK
  <2>5. QED
    BY <1>4, <1>7, <2>2, <2>4 DEF BulkTypeOK
<1>9. \A v \in Workers : pc'[v] \in BeforeCommit => (v \in opts' <=> task'[v] \in tagged')
  <2>1. \A v \in Workers : v # w => (v \in opts' <=> v \in opts)
    BY DEF ReadOptions, WriteOptions, Leave, ProcessLost, UpdateLost, bulkVars, BulkTypeOK
  <2>2. CASE ReadOptions(w)
    BY <1>3, <1>7, <2>1, <2>2 DEF ReadOptions, Start, RowsTagged, BulkTypeOK
  <2>3. CASE ~ ReadOptions(w)
    <3>1. pc'[w] \in BeforeCommit => pc[w] \in BeforeCommit /\ (w \in opts' <=> w \in opts)
        BY <2>3 DEF WriteOptions, Leave, ProcessLost, UpdateLost, bulkVars, ScanOnce, UpdateOptions,
           Persist, SelectHooks, AfterHooks, Dispatch, CacheResult, MarkFailed, Raise, Ack, Crash,
           ChildLost, Drop, StartFails, MarkFailedFails, Move, BeforeCommit, AfterCommit, IInv,
           TypeOK
    <3>2. pc'[w] \in BeforeCommit => task'[w] = task[w]
        BY <1>3 DEF BeforeCommit
    <3>3. QED
        BY <1>3, <1>7, <2>1, <3>1, <3>2 DEF RowsTagged
  <2>4. QED
    BY <2>2, <2>3
<1>10. RowsTagged'
  <2>1. tagged \subseteq Scans
    BY DEF BulkTypeOK
  <2>2. QED
    BY <1>3, <1>4, <1>7, <1>9, <2>1 DEF RowsTagged
<1>11. QED
    BY <1>2, <1>5, <1>6, <1>8, <1>10

\* BInv is inductive.
LEMMA NextBInv == BInv /\ [BulkNext]_allVars => BInv'
<1> SUFFICES ASSUME BInv, [BulkNext]_allVars PROVE BInv'
    OBVIOUS
<1> USE DEF BInv
<1>1. CASE Upload \/ SkipLine \/ LineRaises \/ Reply
    BY <1>1, LoopBInv
<1>2. CASE StartRow
    BY <1>2, HandlerBInv DEF StartRow
<1>3. ASSUME NEW s \in Scans, InsertRow(s) \/ SendRow(s) \/ RowFails(s) PROVE BInv'
    BY <1>3, HandlerBInv
<1>4. ASSUME NEW w \in Workers,
             ReadOptions(w) \/ WriteOptions(w) \/ Leave(w) \/ ProcessLost(w) \/ UpdateLost(w)
      PROVE  BInv'
    BY <1>4, TaskBInv
<1>5. CASE /\ \/ \E s \in Scans : Redeliver(s)
              \/ \E u \in Urls : ExpireCache(u)
              \/ \E w \in Workers, s \in Scans : Receive(w, s)
           /\ UNCHANGED bulkVars
  <2>1. Next
    BY <1>5 DEF Next
  <2>2. /\ UNCHANGED <<apiVars, rowVars>>
        /\ ready' \cup unacked' \subseteq ready \cup unacked
    BY <1>5 DEF Redeliver, ExpireCache, Receive, HandOut
  <2>3. \A v \in Workers : \/ pc'[v] = pc[v] /\ task'[v] = task[v]
                           \/ pc'[v] = "start" /\ task'[v] \in ready
    BY <1>5 DEF Redeliver, ExpireCache, Receive, HandOut, IInv, TypeOK
  <2>4. TasksAccepted'
    BY <2>2, <2>3 DEF TasksAccepted
  <2>5. /\ UNCHANGED <<lines, bulk, results, tagged, opts, stranded>>
        /\ UNCHANGED <<request, api, status>>
        /\ Rows' = Rows
    <3>1. UNCHANGED bulkVars
        BY <1>5
    <3>2. QED
        BY <2>2, <3>1 DEF bulkVars, Rows
  <2>6. BulkTypeOK' /\ LinesInOrder' /\ LoopState'
    BY <2>5 DEF BulkTypeOK, LinesInOrder, LoopState
  <2>7. \A v \in Workers : pc'[v] \in BeforeCommit => pc'[v] = pc[v] /\ task'[v] = task[v]
    BY <2>3 DEF BeforeCommit
  <2>8. RowsTagged'
    BY <2>5, <2>7 DEF RowsTagged
  <2>9. QED
    BY <2>1, <2>4, <2>6, <2>8, NextIInv
<1>6. CASE Elsewhere
  <2>1. ASSUME NEW s \in Scans, UNCHANGED bulkVars,
               \/ s \notin Rows /\ Request(s)
               \/ LookupCache(s) \/ CheckCached(s)
        PROVE  BInv'
    BY <2>1, HandlerBInv
  <2>2. ASSUME NEW w \in Workers, UNCHANGED bulkVars,
               ScanOnce(w) \/ SelectHooks(w) \/ Dispatch(w) \/ CacheResult(w) \/ MarkFailed(w)
                  \/ Raise(w)
        PROVE  BInv'
    BY <2>2, TaskBInv
  <2>3. UNCHANGED bulkVars
    BY <1>6 DEF Elsewhere
  <2>4. CASE \E s \in Scans : \/ s \notin Rows /\ Request(s)
                             \/ LookupCache(s) \/ CheckCached(s)
    BY <2>1, <2>3, <2>4
  <2>5. CASE \E w \in Workers : ScanOnce(w) \/ SelectHooks(w) \/ Dispatch(w) \/ CacheResult(w)
                                \/ MarkFailed(w) \/ Raise(w)
    BY <2>2, <2>3, <2>5
  <2>6. QED
    BY <1>5, <1>6, <2>3, <2>4, <2>5 DEF Elsewhere
<1>7. CASE UNCHANGED allVars
  <2>1. UNCHANGED <<vars, bulkVars, request, api, status, ready, unacked, pc, task>>
    BY <1>7 DEF allVars, vars
  <2>2. IInv'
    BY <2>1, NextIInv
  <2>3. QED
    BY <2>1, <2>2 DEF bulkVars, BulkTypeOK, TasksAccepted, LinesInOrder, LoopState, RowsTagged, Rows
<1>8. QED
    BY <1>1, <1>2, <1>3, <1>4, <1>6, <1>7 DEF BulkNext, Loop, BulkRest

\* BInv holds in every reachable state, whatever fails.
LEMMA BatchInvariance == BulkSpec => []BInv
<1>1. QED
    BY InitBInv, NextBInv, PTL DEF BulkSpec

\* The types of the bulk model.
THEOREM BulkTypes == BulkSpec => []BulkTypeOK
<1>1. BInv => BulkTypeOK
    BY DEF BInv
<1>2. QED
    BY <1>1, BatchInvariance, PTL

\* What an answered bulk request says of its lines is what get_bulk_progress
\* counts, for any file, whatever fails and however often tasks are run.
THEOREM BatchesStayWhole == BulkSpec => []BatchIsWhole
<1>1. BInv => BatchIsWhole
  <2> SUFFICES ASSUME BInv, bulk = "answered"
               PROVE  results = lines /\ tagged = Rows /\ Total = Accepted
    BY DEF BatchIsWhole
  <2> DEFINE n == Len(lines)
             A == {i \in 1 .. n : lines[i] \in Scans}
             R == {i \in 1 .. n : lines[i] = Rejected}
  <2>1. /\ n \in Nat /\ Len(results) = n
        /\ results \in Seq(Scans \cup {Rejected})
        /\ \A i \in 1 .. n : results[i] = lines[i]
    BY FileLines DEF BInv, BulkTypeOK, LinesInOrder, LoopState
  <2>2. results = lines
    BY <2>1, FileLines DEF BInv
  <2>3. tagged = Rows
    <3>1. \A s \in Rows : api[s] = "accepted"
        BY <2>1, FileLines DEF BInv, LinesInOrder
    <3>2. QED
        BY <3>1 DEF BInv, RowsTagged
  <2>4. Total = Cardinality(Rows)
    <3>1. InBatch(Statuses \ {"absent"}) = tagged
        BY DEF BInv, BulkTypeOK, RowsTagged, InBatch, IInv, TypeOK
    <3>2. QED
        BY <2>3, <3>1 DEF Total
  <2>5. Cardinality(A) = Cardinality(Rows) /\ IsFiniteSet(A)
    <3>1. IsFiniteSet(1 .. n)
        BY <2>1, FS_Interval
    <3>2. IsFiniteSet(A)
        BY <3>1, FS_Subset
    <3> DEFINE f == [i \in A |-> lines[i]]
    <3>3. f \in Bijection(A, Rows)
        <4>1. f \in [A -> Rows]
            BY FileLines DEF BInv
        <4>2. \A i, j \in A : f[i] = f[j] => i = j
            BY FileLines DEF BInv
        <4>3. \A s \in Rows : \E i \in A : f[i] = s
            BY FileLines DEF BInv
        <4>4. QED
            BY <4>1, <4>2, <4>3, Fun_IsBij
    <3>4. ExistsBijection(A, Rows)
        BY <3>3 DEF ExistsBijection
    <3>5. QED
        BY <3>2, <3>4, FS_Bijection
  <2>6. Skipped = Cardinality(R) /\ Accepted = n - Cardinality(R)
    BY <2>1, <2>2, FileLines DEF BInv, Skipped, Accepted
  <2>7. Cardinality(R) = n - Cardinality(A) /\ Cardinality(A) \in Nat
    <3>1. IsFiniteSet(1 .. n) /\ Cardinality(1 .. n) = n
        <4>1. 1 \in Int /\ n \in Int
            BY <2>1
        <4>2. /\ IsFiniteSet(1 .. n)
              /\ Cardinality(1 .. n) = IF 1 > n THEN 0 ELSE n - 1 + 1
            BY <4>1, FS_Interval, Zenon
        <4>3. QED
            BY <2>1, <4>2
    <3>2. R \cap A = {} /\ R = (1 .. n) \ A /\ (1 .. n) \cap A = A
        BY <2>1, LinesAssumption
    <3>3. Cardinality((1 .. n) \ A) = Cardinality(1 .. n) - Cardinality((1 .. n) \cap A)
        BY <3>1, FS_Difference, Zenon
    <3>4. Cardinality(A) \in Nat
        BY <2>5, FS_CardinalityType
    <3>5. QED
        BY <2>1, <3>1, <3>2, <3>3, <3>4
  <2>8. Total = Accepted
    BY <2>1, <2>4, <2>5, <2>6, <2>7
  <2>9. QED
    BY <2>2, <2>3, <2>8
<1>2. QED
    BY <1>1, BatchInvariance, PTL

-----------------------------------------------------------------------------
(***************************************************************************)
(* Who is left waiting for ever, when a message has one holder at a time.  *)
(***************************************************************************)
\* A task raises with its row settled, or after a fault that is on record.
RaisedIsNamed ==
    \A w \in Workers : pc[w] = "raised" =>
        status[task[w]] \in Terminal \/ stranded[task[w]] # "no"

LInv == BInv /\ SInv /\ RaisedIsNamed /\ LossIsNamed

\* A handler's step: a row that is inserted is on its way into the queue.
LEMMA HandlerLInv ==
    ASSUME LInv, NEW s \in Scans,
           \/ Request(s) /\ UNCHANGED stranded
           \/ (LookupCache(s) \/ CheckCached(s)) /\ UNCHANGED stranded
           \/ InsertRow(s) \/ SendRow(s) \/ RowFails(s)
    PROVE  RaisedIsNamed' /\ LossIsNamed'
<1> USE DEF LInv
<1>1. Request(s) \/ ApiStep(s) \/ RequestFails(s)
    BY DEF InsertRow, SendRow, RowFails, ApiStep
<1>2. \A r \in Scans : stranded'[r] = stranded[r] \/ stranded'[r] # "no"
    BY DEF InsertRow, SendRow, RowFails, Strand, BInv, BulkTypeOK
<1>3. \A w \in Workers : pc[w] # "idle" => task[w] \in Scans /\ task[w] # s
    BY <1>1, HandlerFrame DEF BInv, TasksAccepted, SInv, IInv, WorkerKnows
<1>4. RaisedIsNamed'
    BY <1>1, <1>2, <1>3, HandlerFrame DEF RaisedIsNamed
<1>5. api'[s] = "enqueue" \/ s \in ready' \/ stranded'[s] # "no" \/ status'[s] \notin {"queued", "running"}
    BY DEF Request, LookupCache, CheckCached, InsertRow, InsertScan, SendRow, Enqueue, RowFails,
       RequestFails, Strand, ApiMove, LossIsNamed, SInv, IInv, TypeOK, OneMessage, BInv, BulkTypeOK
<1>6. LossIsNamed'
    BY <1>1, <1>2, <1>5, HandlerFrame DEF LossIsNamed
<1>7. QED
    BY <1>4, <1>6

\* A task's step: it holds its message until the row is settled or the fault is
\* on record.
LEMMA TaskLInv ==
    ASSUME LInv, NEW w \in Workers,
           \/ ReadOptions(w) \/ WriteOptions(w) \/ Leave(w) \/ ProcessLost(w) \/ UpdateLost(w)
           \/ (ScanOnce(w) \/ SelectHooks(w) \/ Dispatch(w) \/ CacheResult(w) \/ MarkFailed(w)
                  \/ Raise(w)) /\ UNCHANGED bulkVars
    PROVE  RaisedIsNamed' /\ LossIsNamed'
<1> USE DEF LInv
<1>1. pc[w] # "idle" /\ task[w] \in Scans /\ task[w] \in unacked
  <2>1. pc[w] # "idle"
    BY DEF ReadOptions, WriteOptions, Leave, ProcessLost, UpdateLost, Start, ScanOnce, UpdateOptions,
       Persist, SelectHooks, Dispatch, CacheResult, MarkFailed, Ack, StartFails, Raise,
       MarkFailedFails, Crash, ChildLost, Move, BeforeCommit, AfterCommit
  <2>2. QED
    BY <2>1 DEF SInv, IInv, WorkerKnows, OneHolder
<1>2. \A v \in Workers : v # w /\ pc[v] # "idle" => task[v] \in Scans /\ task[v] # task[w]
    BY <1>1, NoneAssumption DEF SInv, IInv, WorkerKnows, OneHolder
<1>3. \A r \in Scans : stranded'[r] = stranded[r] \/ stranded'[r] # "no"
    BY <1>1 DEF ReadOptions, WriteOptions, Leave, ProcessLost, UpdateLost, Strand, bulkVars, BInv,
       BulkTypeOK
<1>4. CASE Leave(w) \/ ProcessLost(w)
  <2>1. /\ UNCHANGED <<apiVars, ready, status>>
        /\ \A v \in Workers : pc'[v] = "raised" => v # w /\ pc[v] = "raised" /\ task'[v] = task[v]
        /\ unacked' = unacked \/ (unacked' = unacked \ {task[w]} /\ ~ Crash(w))
    BY <1>4 DEF Leave, ProcessLost, Ack, Crash, ChildLost, Drop, SInv, IInv, TypeOK
  <2>2. Ack(w) => status[task[w]] \in Terminal \/ stranded[task[w]] # "no"
    BY DEF Ack, RaisedIsNamed, SInv, IInv, WorkerKnows, RowFollowsTask, AfterCommit
  <2>3. ProcessLost(w) => stranded'[task[w]] = "lost"
    BY <1>1 DEF ProcessLost, Strand, BInv, BulkTypeOK
  <2>4. RaisedIsNamed'
    BY <1>2, <1>3, <2>1 DEF RaisedIsNamed
  <2>5. Leave(w) => UNCHANGED stranded
    BY DEF Leave
  <2>6. LossIsNamed'
    BY <1>1, <1>3, <1>4, <2>1, <2>2, <2>3, <2>5 DEF LossIsNamed, Leave, Crash
  <2>7. QED
    BY <2>4, <2>6
<1>5. CASE ~ (Leave(w) \/ ProcessLost(w))
  <2>1. WorkerStep(w) \/ WorkerFault(w)
    BY <1>5 DEF ReadOptions, WriteOptions, Leave, ProcessLost, UpdateLost, WorkerStep, WorkerFault
  <2>2. /\ UNCHANGED <<apiVars, brokerVars, task>>
        /\ pc' = [pc EXCEPT ![w] = pc'[w]]
        /\ status' = [status EXCEPT ![task[w]] = status'[task[w]]]
    <3>1. pc'[w] # "idle"
        BY <1>5 DEF ReadOptions, WriteOptions, UpdateLost, Start, UpdateOptions, Persist,
           StartFails, MarkFailedFails, ScanOnce, SelectHooks, AfterHooks, Dispatch, CacheResult,
           MarkFailed, Raise, Move, SInv, IInv, TypeOK
    <3>2. ~ (Ack(w) \/ Crash(w) \/ ChildLost(w))
        BY <3>1 DEF Ack, Crash, ChildLost, Drop, SInv, IInv, TypeOK
    <3>3. QED
        BY <2>1, <3>2, WorkerFrame DEF SInv
  <2>3. pc'[w] = "raised" => status'[task[w]] = "failed" \/ stranded'[task[w]] # "no"
    BY <1>1, <1>5 DEF ReadOptions, WriteOptions, Leave, ProcessLost, UpdateLost, Start, ScanOnce,
       UpdateOptions, Persist, SelectHooks, AfterHooks, Dispatch, CacheResult, StartFails, Raise,
       MarkFailed, MarkFailedFails, Move, Strand, BInv, BulkTypeOK, SInv, IInv, TypeOK
  <2>4. RaisedIsNamed'
    BY <1>1, <1>2, <1>3, <2>2, <2>3 DEF RaisedIsNamed, SInv, IInv, TypeOK
  <2>5. LossIsNamed'
    BY <1>1, <1>3, <2>2 DEF LossIsNamed, SInv, IInv, TypeOK
  <2>6. QED
    BY <2>4, <2>5
<1>6. QED
    BY <1>4, <1>5

\* Only the four faults leave a scan that nobody will settle, for any number of
\* requests and workers, if no message is handed out under a running task.
THEOREM LossesAreNamed == ASSUME NoOverrun PROVE BulkSpec => []LossIsNamed
<1>1. BulkInit => LInv
    BY InitBInv, InitSInv DEF BulkInit, Init, LInv, RaisedIsNamed, LossIsNamed
<1>2. LInv /\ [BulkNext]_allVars => LInv'
  <2> SUFFICES ASSUME LInv, [BulkNext]_allVars PROVE RaisedIsNamed' /\ LossIsNamed'
    BY NextBInv, NextSInv, BulkStep DEF LInv
  <2>1. CASE Upload \/ SkipLine \/ LineRaises \/ Reply \/ UNCHANGED allVars
    <3>1. UNCHANGED <<vars, stranded>>
        BY <2>1 DEF Upload, SkipLine, LineRaises, Reply, allVars, bulkVars
    <3>2. UNCHANGED <<api, status, ready, unacked, pc, task, stranded>>
        BY <3>1 DEF vars
    <3>3. QED
        BY <3>2 DEF LInv, RaisedIsNamed, LossIsNamed
  <2>2. CASE StartRow
    BY <2>2, HandlerLInv DEF StartRow, bulkVars
  <2>3. ASSUME NEW s \in Scans, InsertRow(s) \/ SendRow(s) \/ RowFails(s)
        PROVE  RaisedIsNamed' /\ LossIsNamed'
    BY <2>3, HandlerLInv
  <2>4. ASSUME NEW w \in Workers,
               ReadOptions(w) \/ WriteOptions(w) \/ Leave(w) \/ ProcessLost(w) \/ UpdateLost(w)
        PROVE  RaisedIsNamed' /\ LossIsNamed'
    BY <2>4, TaskLInv
  <2>5. CASE Elsewhere
    <3>1. UNCHANGED bulkVars /\ UNCHANGED stranded
        BY <2>5 DEF Elsewhere, bulkVars
    <3>2. ASSUME NEW s \in Scans, Request(s) \/ LookupCache(s) \/ CheckCached(s)
          PROVE  RaisedIsNamed' /\ LossIsNamed'
        BY <3>1, <3>2, HandlerLInv
    <3>3. ASSUME NEW w \in Workers,
                 ScanOnce(w) \/ SelectHooks(w) \/ Dispatch(w) \/ CacheResult(w) \/ MarkFailed(w)
                    \/ Raise(w)
          PROVE  RaisedIsNamed' /\ LossIsNamed'
        BY <3>1, <3>3, TaskLInv
    <3>4. CASE \/ \E s \in Scans : Redeliver(s)
               \/ \E u \in Urls : ExpireCache(u)
               \/ \E w \in Workers, s \in Scans : Receive(w, s)
        <4>1. /\ UNCHANGED <<api, status>>
              /\ ready' \cup unacked' = ready \cup unacked
            BY <3>4 DEF Redeliver, ExpireCache, Receive, HandOut
        <4>2. \A v \in Workers : pc'[v] = "raised" => pc[v] = "raised" /\ task'[v] = task[v]
            BY <3>4 DEF Redeliver, ExpireCache, Receive, HandOut, LInv, SInv, IInv, TypeOK
        <4>3. QED
            BY <3>1, <4>1, <4>2 DEF LInv, RaisedIsNamed, LossIsNamed
    <3>5. QED
        BY <2>5, <3>2, <3>3, <3>4 DEF Elsewhere
  <2>6. QED
    BY <2>1, <2>2, <2>3, <2>4, <2>5 DEF BulkNext, Loop, BulkRest
<1>3. LInv => LossIsNamed
    BY DEF LInv
<1>4. QED
    BY <1>1, <1>2, <1>3, PTL DEF BulkSpec

-----------------------------------------------------------------------------
(***************************************************************************)
(* Progress, while a settled status is final.                              *)
(***************************************************************************)
\* No step takes a row out of its batch.
LEMMA TagsStay == BInv /\ [BulkNext]_allVars => tagged \subseteq tagged'
<1> SUFFICES ASSUME BInv, [BulkNext]_allVars, tagged' # tagged PROVE tagged \subseteq tagged'
    OBVIOUS
<1>1. ASSUME NEW w \in Workers, WriteOptions(w) PROVE tagged' = tagged
  <2>1. pc[w] \in BeforeCommit
    BY <1>1 DEF WriteOptions, UpdateOptions, Persist, Move, BeforeCommit
  <2>2. QED
    BY <1>1, <2>1 DEF WriteOptions, BInv, RowsTagged
<1>2. ASSUME NEW s \in Scans, InsertRow(s) PROVE tagged \subseteq tagged'
    BY <1>2 DEF InsertRow
<1>3. QED
    BY <1>1, <1>2 DEF BulkNext, Upload, Loop, SkipLine, LineRaises, StartRow, Reply, SendRow,
       RowFails, ReadOptions, Leave, ProcessLost, UpdateLost, Elsewhere, BulkRest, allVars, bulkVars

\* A batch is finite, being the rows of one file.
LEMMA BatchIsFinite == BulkTypeOK => IsFiniteSet(Rows)
<1> SUFFICES ASSUME BulkTypeOK PROVE IsFiniteSet(Rows)
    OBVIOUS
<1> DEFINE A == {i \in 1 .. Len(lines) : lines[i] \in Scans}
           f == [i \in A |-> lines[i]]
<1>1. IsFiniteSet(1 .. Len(lines))
    BY FileLines, FS_Interval
<1>2. IsFiniteSet(A)
    BY <1>1, FS_Subset
<1>3. f \in [A -> Rows] /\ \A s \in Rows : \E i \in A : f[i] = s
    BY FileLines
<1>4. f \in Surjection(A, Rows)
    BY <1>3, Fun_IsSurj
<1>5. QED
    BY <1>2, <1>4, FS_Surjection

\* What a client that asks for the progress of a batch is shown never goes back.
THEOREM BatchProgressGrows == ASSUME EarlyFaultsOnly PROVE BulkSpec => ProgressGrows
<1>1. BulkSpec => [](BInv /\ PInv)
    BY BatchInvariance, BulkImplementsLifecycle, EarlyFaults, PTL
<1>2. BInv /\ PInv /\ [BulkNext]_allVars /\ BInv' =>
          [Total' >= Total /\ Finished' >= Finished]_allVars
  <2> SUFFICES ASSUME BInv, PInv, [BulkNext]_allVars, BInv'
               PROVE  Total' >= Total /\ Finished' >= Finished
    OBVIOUS
  <2>1. tagged \subseteq tagged' /\ tagged \subseteq Scans /\ tagged' \subseteq Rows'
    BY TagsStay DEF BInv, BulkTypeOK, RowsTagged
  <2>2. \A s \in Scans : StatusSteps(s)
    <3>1. [Next]_vars
        BY BulkStep
    <3>2. CASE UNCHANGED vars
        BY <3>2 DEF vars, StatusSteps
    <3>3. CASE Next
        BY <3>3, StatusStep DEF StatusSteps, BInv, IInv, TypeOK
    <3>4. QED
        BY <3>1, <3>2, <3>3
  <2>3. IsFiniteSet(tagged')
    <3>1. lines' = lines
        BY DEF BulkNext, Upload, Loop, SkipLine, LineRaises, StartRow, Reply, InsertRow, SendRow,
           RowFails, ReadOptions, WriteOptions, Leave, ProcessLost, UpdateLost, Elsewhere, BulkRest,
           allVars, bulkVars
    <3>2. IsFiniteSet(Rows) /\ Rows' = Rows
        BY <3>1, BatchIsFinite DEF BInv, Rows
    <3>3. QED
        BY <2>1, <3>2, FS_Subset
  <2>4. ASSUME NEW S, S \in {Terminal, Statuses \ {"absent"}}
        PROVE  Cardinality(InBatch(S)) <= Cardinality(InBatch(S)')
    <3>1. InBatch(S) \subseteq InBatch(S)'
        BY <2>1, <2>2, <2>4 DEF InBatch, StatusSteps, BInv, IInv, TypeOK
    <3>2. IsFiniteSet(InBatch(S)')
        BY <2>3, FS_Subset DEF InBatch
    <3>3. IsFiniteSet(InBatch(S))
        BY <3>1, <3>2, FS_Subset
    <3>4. QED
        BY <3>1, <3>2, FS_Subset
  <2>5. Total <= Total' /\ Finished <= Finished'
    BY <2>4 DEF Total, Finished
  <2>6. QED
    BY <2>5
<1>3. QED
    BY <1>1, <1>2, PTL DEF ProgressGrows, BulkSpec
=============================================================================
