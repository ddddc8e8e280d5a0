--------------------------- MODULE ReportHistory ---------------------------
(***************************************************************************)
(* The reports of one URL and one user over time, and GET /scans/{id}/diff *)
(* (api/routes/scans.py), which reads them while workers write: the scan   *)
(* and the one before it in one session, the findings of the scan in       *)
(* another.  Every statement sees what is committed when it runs.          *)
(***************************************************************************)
EXTENDS Report

CONSTANTS
    Scans, Readers,
    Pages,       \* artifacts the URL may yield
    Window,      \* query parameter `days`
    LastMoment,  \* bound: time that passes
    Faulty,      \* detectors that may fail
    MaxMishaps   \* bound: redeliveries, and failures of tasks that have reported

ASSUME PagesAssumption == Pages \subseteq Artifacts
ASSUME FaultyAssumption == Faulty \subseteq Detectors
ASSUME BoundsAssumption == {Window, MaxMishaps} \subseteq Nat /\ LastMoment \in Nat \ {0}

\* What a report is computed from.
Bases == [page : Pages, failed : SUBSET Faulty, winner : AuthSigs \cup {None}]

ASSUME NoneAssumption == None \notin Scans \cup Pages /\ None \notin Bases

VARIABLES
    now,
    created,    \* when a scan was created, 0 before
    status,     \* scans.status
    page,       \* the artifact of its running task
    mishaps,    \* how many of them there were
    basis,      \* what the rows of a scan were computed from, or None
    rpc,        \* where a request for a diff stands
    subject,    \* the scan asked for
    own,        \* the scores in its row, as read
    compared,   \* the previous scan, and
    previous,   \* the snapshot read of it
    security,   \* the subject's row of security_findings, as read
    current,    \* the snapshot of the subject
    steady      \* both scans were final when read, and not written since

scanVars == <<created, status, page, mishaps, basis>>
readVars == <<subject, own, compared, previous, security, current>>
vars == <<now, scanVars, rpc, readVars, steady>>

Reported == {"completed", "waf_blocked"}
Final == Reported \cup {"failed"}

Init ==
    /\ now = 1
    /\ created = [s \in Scans |-> 0]
    /\ status = [s \in Scans |-> "absent"]
    /\ page = [s \in Scans |-> None]
    /\ mishaps = 0
    /\ basis = [s \in Scans |-> None]
    /\ rpc = [d \in Readers |-> "idle"]
    /\ subject = [d \in Readers |-> None]
    /\ own = [d \in Readers |-> NoScores]
    /\ compared = [d \in Readers |-> None]
    /\ previous = [d \in Readers |-> None]
    /\ security = [d \in Readers |-> NoRow]
    /\ current = [d \in Readers |-> None]
    /\ steady = [d \in Readers |-> FALSE]

-----------------------------------------------------------------------------
(***************************************************************************)
(* The rows of a scan.                                                     *)
(***************************************************************************)
FindingsOf(s) == Findings(basis[s].page, basis[s].failed, basis[s].winner)

AuthOf(s) == IF basis[s] = None THEN NoRow ELSE AuthRow(FindingsOf(s))
SecurityOf(s) == IF basis[s] = None THEN NoRow ELSE SecurityRow(FindingsOf(s))
AntibotOf(s) == IF basis[s] = None THEN NoRow ELSE AntibotRow(basis[s].page, FindingsOf(s))
ScoresOf(s) == IF basis[s] = None THEN NoScores ELSE Scores(basis[s].page, FindingsOf(s))

SnapshotOf(s) == Snapshot(AuthOf(s), SecurityOf(s), AntibotOf(s), ScoresOf(s))

-----------------------------------------------------------------------------
(***************************************************************************)
(* The scans.                                                              *)
(***************************************************************************)
Tick ==
    /\ now < LastMoment
    /\ now' = now + 1
    /\ UNCHANGED <<scanVars, rpc, readVars, steady>>

\* No two scans of a URL are created at one moment.
Create(s) ==
    /\ status[s] = "absent" /\ now < LastMoment
    /\ now' = now + 1
    /\ created' = [created EXCEPT ![s] = now]
    /\ status' = [status EXCEPT ![s] = "queued"]
    /\ UNCHANGED <<page, mishaps, basis, rpc, readVars, steady>>

Mishap == mishaps < MaxMishaps /\ mishaps' = mishaps + 1

\* The task begins, perhaps again after a redelivery, and looks at the page.
Capture(s) ==
    /\ \/ status[s] = "queued" /\ UNCHANGED mishaps
       \/ status[s] \in {"running"} \cup Final /\ Mishap
    /\ status' = [status EXCEPT ![s] = "running"]
    /\ \E a \in Pages : page' = [page EXCEPT ![s] = a]
    /\ UNCHANGED <<now, created, basis, rpc, readVars, steady>>

\* The signature that the detector may have taken for the provider.
Choices(a) == IF Winners(a) = {} THEN {None} ELSE Winners(a)

\* Detectors, scores and report, written in one transaction.
Write(s) ==
    /\ status[s] = "running"
    /\ \E failed \in SUBSET Faulty, winner \in Choices(page[s]) :
          basis' = [basis EXCEPT ![s] = [page |-> page[s], failed |-> failed, winner |-> winner]]
    /\ status' = [status EXCEPT ![s] = IF page[s].blocked THEN "waf_blocked" ELSE "completed"]
    /\ page' = [page EXCEPT ![s] = None]
    /\ steady' = [d \in Readers |-> steady[d] /\ s \notin {subject[d], compared[d]}]
    /\ UNCHANGED <<now, created, mishaps, rpc, readVars>>

\* The task raises, before its report is written or after, in the notifications
\* that may take any time: _mark_failed keeps whatever rows there are.
MarkFailed(s) ==
    /\ \/ status[s] = "running" /\ UNCHANGED mishaps
       \/ status[s] \in Reported /\ Mishap
    /\ status' = [status EXCEPT ![s] = "failed"]
    /\ page' = [page EXCEPT ![s] = None]
    /\ UNCHANGED <<now, created, basis, rpc, readVars, steady>>

-----------------------------------------------------------------------------
(***************************************************************************)
(* get_scan_diff.                                                          *)
(***************************************************************************)
ReadStep(d, from, to) ==
    /\ rpc[d] = from
    /\ rpc' = [rpc EXCEPT ![d] = to]
    /\ UNCHANGED <<now, scanVars>>

\* Whatever the status of the scan.
ReadScan(d) ==
    /\ ReadStep(d, "idle", "previous")
    /\ \E s \in Scans :
          /\ status[s] # "absent"
          /\ subject' = [subject EXCEPT ![d] = s]
          /\ own' = [own EXCEPT ![d] = ScoresOf(s)]
          /\ steady' = [steady EXCEPT ![d] = status[s] \in Final]
    /\ UNCHANGED <<compared, previous, security, current>>

\* _previous_snapshot: reported, created before, within the window.
Prior(s) ==
    {p \in Scans : /\ status[p] \in Reported
                   /\ created[p] < created[s] /\ created[p] + Window >= now}

ReadPrevious(d) ==
    /\ ReadStep(d, "previous", "findings")
    /\ \E p \in Prior(subject[d]) :
          /\ \A q \in Prior(subject[d]) : created[q] <= created[p]
          /\ compared' = [compared EXCEPT ![d] = p]
          /\ previous' = [previous EXCEPT ![d] = SnapshotOf(p)]
    /\ UNCHANGED <<subject, own, security, current, steady>>

NoPrevious(d) ==
    /\ ReadStep(d, "previous", "nothing")
    /\ Prior(subject[d]) = {}
    /\ UNCHANGED <<readVars, steady>>

SnapshotRead(d, auth, sec, antibot) ==
    /\ current' = [current EXCEPT ![d] = Snapshot(auth, sec, antibot, own[d])]
    /\ UNCHANGED <<subject, own, compared, previous, steady>>

\* build_snapshot: the three rows are joined to that of auth_findings.
ReadFindings(d) ==
    LET s == subject[d]
    IN  /\ ReadStep(d, "findings", "answered")
        /\ AuthOf(s).there
        /\ SnapshotRead(d, AuthOf(s), SecurityOf(s), AntibotOf(s))
        /\ UNCHANGED security

\* Bug: without a row of auth_findings there is nothing.
ReadNothing(d) ==
    /\ ReadStep(d, "findings", "answered")
    /\ ~ AuthOf(subject[d]).there
    /\ SnapshotRead(d, NoRow, NoRow, NoRow)
    /\ UNCHANGED security

\* Where that row is missing, the others are read one by one.
NoAuthRow(d) ==
    /\ ReadStep(d, "findings", "security")
    /\ ~ AuthOf(subject[d]).there
    /\ UNCHANGED <<readVars, steady>>

ReadSecurity(d) ==
    /\ ReadStep(d, "security", "antibot")
    /\ security' = [security EXCEPT ![d] = SecurityOf(subject[d])]
    /\ UNCHANGED <<subject, own, compared, previous, current, steady>>

ReadAntibot(d) ==
    /\ ReadStep(d, "antibot", "answered")
    /\ SnapshotRead(d, NoRow, security[d], AntibotOf(subject[d]))
    /\ UNCHANGED security

-----------------------------------------------------------------------------
Next ==
    \/ Tick
    \/ \E s \in Scans : Create(s) \/ Capture(s) \/ Write(s) \/ MarkFailed(s)
    \/ \E d \in Readers :
          \/ ReadScan(d) \/ ReadPrevious(d) \/ NoPrevious(d)
          \/ ReadFindings(d) \/ NoAuthRow(d) \/ ReadSecurity(d) \/ ReadAntibot(d)

Spec == Init /\ [][Next]_vars

-----------------------------------------------------------------------------
Snapshots ==
    [provider : AuthSigs \cup {Custom, None}, flows : SUBSET Flows,
     captcha : CaptchaSigs \cup {None}, visible : BOOLEAN \cup {None},
     wafs : SUBSET WafSigs, fingerprinting : SUBSET (FingerprintSigs \cup {Reads}),
     hsts : BOOLEAN, csp : BOOLEAN, csrf : BOOLEAN, mfa : BOOLEAN,
     difficulty : 0 .. 100 \cup {None}, risk : 0 .. 100 \cup {None}]

TypeOK ==
    /\ now \in 1 .. LastMoment
    /\ created \in [Scans -> 0 .. LastMoment]
    /\ status \in [Scans -> {"absent", "queued", "running"} \cup Final]
    /\ page \in [Scans -> Pages \cup {None}]
    /\ mishaps \in 0 .. MaxMishaps
    /\ basis \in [Scans -> Bases \cup {None}]
    /\ rpc \in [Readers -> {"idle", "previous", "nothing", "findings", "security", "antibot",
                            "answered"}]
    /\ subject \in [Readers -> Scans \cup {None}]
    /\ own \in [Readers -> [difficulty : 0 .. 100 \cup {None}, risk : 0 .. 100 \cup {None}]]
    /\ compared \in [Readers -> Scans \cup {None}]
    /\ previous \in [Readers -> Snapshots \cup {None}]
    /\ current \in [Readers -> Snapshots \cup {None}]
    /\ security \in [Readers -> [there : BOOLEAN, hsts : BOOLEAN, csp : BOOLEAN,
                                 csrf : BOOLEAN, mfa : BOOLEAN] \cup {NoRow}]
    /\ steady \in [Readers -> BOOLEAN]

Answered(d) == rpc[d] = "answered"
Changes(d) == Diff(current[d], previous[d])

\* When no task writes to the two scans meanwhile, a diff compares the reports
\* that GET /scans/{id} shows of them, although it is read with up to five
\* statements in two sessions (build_snapshot).
AnswerIsStored ==
    \A d \in Readers : Answered(d) /\ steady[d] =>
        /\ current[d] = SnapshotOf(subject[d])
        /\ previous[d] = SnapshotOf(compared[d])

\* The changes turn the old snapshot into the new one, up to scores that one of
\* the two does not have.
Rebuilds(new, old, changes) ==
    /\ \A f \in Values :
          new[f] = IF f \in DOMAIN changes THEN changes[f].after ELSE old[f]
    /\ \A f \in Lists :
          new[f] = IF f \in DOMAIN changes
                   THEN (old[f] \ changes[f].removed) \cup changes[f].added ELSE old[f]
    /\ \A f \in Points : None \in {old[f], new[f]} \/
          new[f] = IF f \in DOMAIN changes THEN changes[f].after ELSE old[f]

\* A diff tells everything that changed (compute_diff).
DiffRebuilds ==
    \A d \in Readers : Answered(d) => Rebuilds(current[d], previous[d], Changes(d))

\* What a detector got to see of the page a report was computed from.
Seen(b, detector) ==
    IF detector \in b.failed THEN <<>> ELSE
    LET Hits(sigs) == [s \in sigs |-> b.page.hits[s]]
    IN  CASE detector = "auth" -> <<Hits(AuthSigs), b.page.loginField, b.page.flows>>
          [] detector = "security" -> <<Posture(b.page)>>
          [] detector = "captcha" -> <<Hits(CaptchaSigs), b.page.renders, b.page.widgets>>
          [] detector = "waf" -> <<Hits(WafSigs)>>
          [] detector = "fingerprinting" -> <<Hits(FingerprintSigs), b.page.reads>>

\* What a field of the diff depends on.
Evidence(b, field) ==
    CASE field \in {"provider", "flows"} -> <<Seen(b, "auth")>>
      [] field \in {"captcha", "visible"} -> <<Seen(b, "captcha")>>
      [] field = "wafs" -> <<Seen(b, "waf")>>
      [] field = "fingerprinting" -> <<Seen(b, "fingerprinting")>>
      [] field \in {"hsts", "csp", "csrf", "mfa"} -> <<Seen(b, "security")>>
      [] field = "risk" -> <<Seen(b, "security"), b.page.passwordField>>
      [] field = "difficulty" ->
            <<Seen(b, "waf"), Seen(b, "captcha"), Seen(b, "fingerprinting"), Seen(b, "security"),
              b.page.blocked, b.page.honeypot>>

\* Signatures of a page between which only the order of their rows decides.
Tied(a) == \E s, t \in Winners(a) : s # t

\* A change in a diff of two reports comes from the page or from a failure of the
\* detector that looks at it; a failing detector changes nothing that others found
\* (run_detectors).  The one other reason there is: the provider of a page on which
\* two signatures are on a par is the one whose row was read first, and only that
\* field can change without the page (IdenticalScansEmptyDiff shows that it does).
DiffExplained ==
    \A d \in Readers : Answered(d) /\ steady[d] /\ basis[subject[d]] # None =>
        \A f \in DOMAIN Changes(d) :
            \/ Evidence(basis[subject[d]], f) # Evidence(basis[compared[d]], f)
            \/ f = "provider" /\ Tied(basis[subject[d]].page)

\* Taking the findings one by one up to the cap of their kind gives their sum,
\* cut at the cap, in whatever order they are taken (BUILD_LOG:201).  Fingerprinting
\* has one cap of 20 for libraries and reads together, in the code (FINGERPRINT_CAP)
\* and in test_fingerprint_cap_20 of tests/test_scoring.py.  The docstring of
\* pipeline/scoring.py (line 10) has another one of 14 for the libraries, hence at
\* most 19 with reads: the code has no such cap, and gives three libraries 20.
ScoresAddUp ==
    \A s \in Scans : basis[s] # None =>
        LET f == FindingsOf(s)
            a == basis[s].page
        IN  ScoresOf(s).difficulty = Least(100,
                Least(40, SumFunction([w \in f.wafs |-> WafPoints(w)]))
                  + Least(25, SumFunction([c \in f.captchas |-> CaptchaPoints(a.widgets, c)]))
                  + Least(20, 7 * Cardinality(f.fingerprinting) - If(Reads \in f.fingerprinting, 2))
                  + If(a.blocked, 10) + If(a.honeypot, 4)
                  + If("security" \notin basis[s].failed /\ a.csrf, 3))

\* docs/IMPLEMENTATION_PLAN.md:440: "Identical consecutive scans -> empty diff".
\* Two finished scans that saw the same page.
IdenticalScansEmptyDiff ==
    \A d \in Readers : Answered(d) /\ steady[d] /\ basis[subject[d]] # None =>
        (basis[subject[d]].page = basis[compared[d]].page => DOMAIN Changes(d) = {})
=============================================================================
