------------------------ MODULE ReportHistoryProofs ------------------------
(***************************************************************************)
(* What a diff tells, for any scans, readers, pages and signatures, with   *)
(* any detectors failing at any time.                                      *)
(***************************************************************************)
EXTENDS ReportHistory, ReportProofs

\* The request has read the scan, and the one before it.
Asked == {"previous", "nothing", "findings", "security", "antibot", "answered"}
Comparing == {"findings", "security", "antibot", "answered"}

\* The part of TypeOK that the steps rely on.
Shape ==
    /\ status \in [Scans -> {"absent", "queued", "running"} \cup Final]
    /\ page \in [Scans -> Pages \cup {None}]
    /\ basis \in [Scans -> Bases \cup {None}]
    /\ rpc \in [Readers -> {"idle"} \cup Asked]
    /\ subject \in [Readers -> Scans \cup {None}]
    /\ compared \in [Readers -> Scans \cup {None}]
    /\ steady \in [Readers -> BOOLEAN]
    /\ DOMAIN own = Readers /\ DOMAIN previous = Readers
    /\ DOMAIN security = Readers /\ DOMAIN current = Readers

\* A running task holds a page, a reported scan has rows.
RowsBehindStatus ==
    \A s \in Scans : /\ status[s] = "running" => page[s] \in Pages
                     /\ status[s] \in Reported => basis[s] \in Bases

\* The provider of a report is one that its page allows.
Chosen(b) == b.winner \in Choices(b.page)
WinnersFit == \A s \in Scans : basis[s] # None => Chosen(basis[s])

\* A request knows which scans it compares.
ScansKnown ==
    \A d \in Readers :
        /\ rpc[d] \in Asked => subject[d] \in Scans
        /\ rpc[d] \in Comparing => compared[d] \in Scans /\ basis[compared[d]] \in Bases

\* As long as nobody writes to the two scans, what was read of them is right.
PiecesFit ==
    \A d \in Readers : steady[d] =>
        /\ rpc[d] \in Asked => own[d] = ScoresOf(subject[d])
        /\ rpc[d] \in Comparing => previous[d] = SnapshotOf(compared[d])
        /\ rpc[d] \in {"security", "antibot"} => AuthOf(subject[d]) = NoRow
        /\ rpc[d] = "antibot" => security[d] = SecurityOf(subject[d])
        /\ rpc[d] = "answered" => current[d] = SnapshotOf(subject[d])

IInv == Shape /\ RowsBehindStatus /\ WinnersFit /\ ScansKnown /\ PiecesFit

-----------------------------------------------------------------------------
\* What the rows of a scan hold depends on its basis alone.
LEMMA SameRows ==
    ASSUME NEW s \in Scans, basis'[s] = basis[s]
    PROVE  /\ ScoresOf(s)' = ScoresOf(s) /\ AuthOf(s)' = AuthOf(s)
           /\ SecurityOf(s)' = SecurityOf(s) /\ SnapshotOf(s)' = SnapshotOf(s)
  BY DEF ScoresOf, AuthOf, SecurityOf, AntibotOf, SnapshotOf, FindingsOf

\* A row of auth_findings that is not there is NoRow.
LEMMA RowOrNone ==
    ASSUME NEW s \in Scans, ~ AuthOf(s).there
    PROVE  AuthOf(s) = NoRow
  BY DEF AuthOf, AuthRow, NoRow

LEMMA Initially == Init => IInv
  BY DEF Init, IInv, Shape, RowsBehindStatus, WinnersFit, ScansKnown, PiecesFit, Asked, Comparing, Final,
         Reported

\* The steps that neither write rows nor read for a request.
LEMMA OutsideSteps ==
    ASSUME IInv,
           \/ Tick \/ UNCHANGED vars
           \/ \E s \in Scans : Create(s) \/ Capture(s) \/ MarkFailed(s)
    PROVE  IInv'
<1> USE DEF IInv, scanVars, readVars
<1>1. basis' = basis /\ rpc' = rpc /\ steady' = steady /\ readVars' = readVars
  BY DEF Tick, Create, Capture, MarkFailed, vars
<1>2. Shape'
  BY <1>1 DEF Shape, Tick, Create, Capture, MarkFailed, Final, Reported, vars
<1>3. RowsBehindStatus'
  <2> SUFFICES ASSUME NEW t \in Scans
               PROVE  /\ status'[t] = "running" => page'[t] \in Pages
                      /\ status'[t] \in Reported => basis'[t] \in Bases
    BY DEF RowsBehindStatus
  <2>1. CASE Tick \/ UNCHANGED vars
    BY <2>1 DEF RowsBehindStatus, Tick, vars
  <2>2. CASE \E s \in Scans : Create(s) \/ Capture(s) \/ MarkFailed(s)
    BY <1>1, <2>2 DEF RowsBehindStatus, Shape, Create, Capture, MarkFailed, Reported
  <2> QED
    BY <2>1, <2>2
<1>4. ScansKnown' /\ WinnersFit'
  BY <1>1 DEF ScansKnown, WinnersFit
<1>5. \A t \in Scans : /\ ScoresOf(t)' = ScoresOf(t) /\ AuthOf(t)' = AuthOf(t)
                       /\ SecurityOf(t)' = SecurityOf(t) /\ SnapshotOf(t)' = SnapshotOf(t)
  BY <1>1, SameRows
<1>6. PiecesFit'
  <2> SUFFICES ASSUME NEW d \in Readers, steady[d]
               PROVE  /\ rpc[d] \in Asked => own[d] = ScoresOf(subject[d])'
                      /\ rpc[d] \in Comparing => previous[d] = SnapshotOf(compared[d])'
                      /\ rpc[d] \in {"security", "antibot"} => AuthOf(subject[d])' = NoRow
                      /\ rpc[d] = "antibot" => security[d] = SecurityOf(subject[d])'
                      /\ rpc[d] = "answered" => current[d] = SnapshotOf(subject[d])'
    BY <1>1 DEF PiecesFit
  <2>1. rpc[d] \in Asked => subject[d] \in Scans
    BY DEF ScansKnown
  <2>2. rpc[d] \in Comparing => compared[d] \in Scans
    BY DEF ScansKnown
  <2>3. subject' = subject /\ compared' = compared
    BY <1>1
  <2> QED
    BY <1>5, <2>1, <2>2, <2>3 DEF PiecesFit, Asked, Comparing
<1> QED
  BY <1>2, <1>3, <1>4, <1>6

\* Whoever was reading the scan is not steady any more.
LEMMA WriteStep ==
    ASSUME IInv, NEW s \in Scans, Write(s)
    PROVE  IInv'
<1> USE DEF IInv, readVars
<1>1. PICK b \in Bases : basis' = [basis EXCEPT ![s] = b] /\ Chosen(b)
  <2>1. PICK failed \in SUBSET Faulty, winner \in Choices(page[s]) :
          basis' = [basis EXCEPT ![s] = [page |-> page[s], failed |-> failed, winner |-> winner]]
    BY DEF Write
  <2>2. winner \in AuthSigs \cup {None}
    BY <2>1 DEF Choices, Winners, Matched
  <2>3. page[s] \in Pages
    BY DEF Write, RowsBehindStatus
  <2> DEFINE b == [page |-> page[s], failed |-> failed, winner |-> winner]
  <2>4. b \in Bases
    BY <2>1, <2>2, <2>3 DEF Bases
  <2>5. Chosen(b)
    BY <2>1 DEF Chosen
  <2> QED
    BY <2>1, <2>4, <2>5
<1>2. Shape'
  BY <1>1 DEF Shape, Write, Final, Reported
<1>3. RowsBehindStatus'
  BY <1>1 DEF RowsBehindStatus, Shape, Write
<1>4. ScansKnown' /\ WinnersFit'
  BY <1>1 DEF ScansKnown, WinnersFit, Shape, Write
<1>5. \A t \in Scans \ {s} : /\ ScoresOf(t)' = ScoresOf(t) /\ AuthOf(t)' = AuthOf(t)
                             /\ SecurityOf(t)' = SecurityOf(t) /\ SnapshotOf(t)' = SnapshotOf(t)
  BY <1>1, SameRows DEF Shape
<1>6. PiecesFit'
  <2> SUFFICES ASSUME NEW d \in Readers, steady'[d]
               PROVE  /\ rpc[d] \in Asked => own[d] = ScoresOf(subject[d])'
                      /\ rpc[d] \in Comparing => previous[d] = SnapshotOf(compared[d])'
                      /\ rpc[d] \in {"security", "antibot"} => AuthOf(subject[d])' = NoRow
                      /\ rpc[d] = "antibot" => security[d] = SecurityOf(subject[d])'
                      /\ rpc[d] = "answered" => current[d] = SnapshotOf(subject[d])'
    BY DEF PiecesFit, Write
  <2>1. steady[d] /\ s # subject[d] /\ s # compared[d]
    BY DEF Write
  <2>2. rpc[d] \in Asked => subject[d] \in Scans \ {s}
    BY <2>1 DEF ScansKnown
  <2>3. rpc[d] \in Comparing => compared[d] \in Scans \ {s}
    BY <2>1 DEF ScansKnown
  <2>4. subject' = subject /\ compared' = compared
    BY DEF Write
  <2> QED
    BY <1>5, <2>1, <2>2, <2>3, <2>4 DEF PiecesFit, Asked, Comparing
<1> QED
  BY <1>2, <1>3, <1>4, <1>6

\* A step of one request leaves the scans and the other requests alone.
LEMMA ReaderStep ==
    ASSUME IInv, NEW d \in Readers,
           \/ ReadScan(d) \/ ReadPrevious(d) \/ NoPrevious(d)
           \/ ReadFindings(d) \/ NoAuthRow(d) \/ ReadSecurity(d) \/ ReadAntibot(d)
    PROVE  IInv'
<1> USE DEF IInv, scanVars, readVars, ReadStep, SnapshotRead
<1>1. /\ status' = status /\ page' = page /\ basis' = basis
      /\ rpc[d] \in {"idle"} \cup Asked
      /\ \A e \in Readers \ {d} :
            /\ rpc'[e] = rpc[e] /\ subject'[e] = subject[e] /\ own'[e] = own[e]
            /\ compared'[e] = compared[e] /\ previous'[e] = previous[e]
            /\ security'[e] = security[e] /\ current'[e] = current[e] /\ steady'[e] = steady[e]
  BY DEF Shape, ReadScan, ReadPrevious, NoPrevious, ReadFindings, NoAuthRow, ReadSecurity,
         ReadAntibot
<1>2. Shape'
  <2>1. CASE ReadScan(d)
    BY <2>1 DEF ReadScan, Shape, Asked, Final, Reported
  <2>2. CASE ReadPrevious(d)
    BY <2>2 DEF ReadPrevious, Prior, Shape, Asked
  <2>3. CASE NoPrevious(d) \/ NoAuthRow(d)
    BY <2>3 DEF NoPrevious, NoAuthRow, Shape, Asked
  <2>4. CASE ReadFindings(d) \/ ReadSecurity(d) \/ ReadAntibot(d)
    BY <2>4 DEF ReadFindings, ReadSecurity, ReadAntibot, Shape, Asked
  <2> QED
    BY <2>1, <2>2, <2>3, <2>4
<1>3. RowsBehindStatus' /\ WinnersFit'
  BY <1>1 DEF RowsBehindStatus, WinnersFit
<1>4. \A t \in Scans : /\ ScoresOf(t)' = ScoresOf(t) /\ AuthOf(t)' = AuthOf(t)
                       /\ SecurityOf(t)' = SecurityOf(t) /\ SnapshotOf(t)' = SnapshotOf(t)
  BY <1>1, SameRows
<1> DEFINE Known(e) ==
              /\ rpc[e] \in Asked => subject[e] \in Scans
              /\ rpc[e] \in Comparing => compared[e] \in Scans /\ basis[compared[e]] \in Bases
           Fit(e) == steady[e] =>
              /\ rpc[e] \in Asked => own[e] = ScoresOf(subject[e])
              /\ rpc[e] \in Comparing => previous[e] = SnapshotOf(compared[e])
              /\ rpc[e] \in {"security", "antibot"} => AuthOf(subject[e]) = NoRow
              /\ rpc[e] = "antibot" => security[e] = SecurityOf(subject[e])
              /\ rpc[e] = "answered" => current[e] = SnapshotOf(subject[e])
<1>5. ASSUME NEW e \in Readers \ {d} PROVE Known(e)' /\ Fit(e)'
  <2>1. Known(e) /\ Fit(e)
    BY DEF ScansKnown, PiecesFit
  <2>2. Known(e)'
    BY <1>1, <2>1
  <2>3. Fit(e)'
    BY <1>1, <1>4, <2>1 DEF Asked, Comparing
  <2> QED
    BY <2>2, <2>3
<1>6. Known(d) /\ Fit(d)
  BY DEF ScansKnown, PiecesFit
<1>7. Known(d)' /\ Fit(d)'
  <2>1. CASE ReadScan(d)
    <3>1. PICK s \in Scans : subject' = [subject EXCEPT ![d] = s]
                             /\ own' = [own EXCEPT ![d] = ScoresOf(s)]
      BY <2>1 DEF ReadScan
    <3>2. rpc'[d] = "previous" /\ subject'[d] = s /\ own'[d] = ScoresOf(s)
      BY <2>1, <3>1 DEF ReadScan, Shape
    <3> QED
      BY <1>4, <3>2 DEF Asked, Comparing
  <2>2. CASE ReadPrevious(d)
    <3>1. PICK p \in Prior(subject[d]) : compared' = [compared EXCEPT ![d] = p]
                                         /\ previous' = [previous EXCEPT ![d] = SnapshotOf(p)]
      BY <2>2 DEF ReadPrevious
    <3>2. p \in Scans /\ basis[p] \in Bases
      BY <3>1 DEF Prior, RowsBehindStatus
    <3>3. /\ rpc'[d] = "findings" /\ compared'[d] = p /\ previous'[d] = SnapshotOf(p)
          /\ rpc[d] = "previous" /\ subject'[d] = subject[d] /\ own'[d] = own[d]
          /\ steady'[d] = steady[d]
      BY <2>2, <3>1 DEF ReadPrevious, Shape
    <3> QED
      BY <1>1, <1>4, <1>6, <3>2, <3>3 DEF Asked, Comparing
  <2>3. CASE NoPrevious(d)
    <3>1. /\ rpc'[d] = "nothing" /\ rpc[d] = "previous" /\ subject'[d] = subject[d]
          /\ own'[d] = own[d] /\ steady'[d] = steady[d]
      BY <2>3 DEF NoPrevious, Shape
    <3> QED
      BY <1>4, <1>6, <3>1 DEF Asked, Comparing
  <2>4. CASE NoAuthRow(d)
    <3>1. /\ rpc'[d] = "security" /\ rpc[d] = "findings" /\ subject'[d] = subject[d]
          /\ own'[d] = own[d] /\ compared'[d] = compared[d] /\ previous'[d] = previous[d]
          /\ steady'[d] = steady[d]
      BY <2>4 DEF NoAuthRow, Shape
    <3>2. AuthOf(subject[d]) = NoRow
      BY <2>4, <1>6, <3>1, RowOrNone DEF NoAuthRow, Asked
    <3> QED
      BY <1>1, <1>4, <1>6, <3>1, <3>2 DEF Asked, Comparing
  <2>5. CASE ReadSecurity(d)
    <3>1. /\ rpc'[d] = "antibot" /\ rpc[d] = "security" /\ subject'[d] = subject[d]
          /\ own'[d] = own[d] /\ compared'[d] = compared[d] /\ previous'[d] = previous[d]
          /\ steady'[d] = steady[d] /\ security'[d] = SecurityOf(subject[d])
      BY <2>5 DEF ReadSecurity, Shape
    <3> QED
      BY <1>1, <1>4, <1>6, <3>1 DEF Asked, Comparing
  <2>6. CASE ReadFindings(d)
    <3>1. /\ rpc'[d] = "answered" /\ rpc[d] = "findings" /\ subject'[d] = subject[d]
          /\ own'[d] = own[d] /\ compared'[d] = compared[d] /\ previous'[d] = previous[d]
          /\ steady'[d] = steady[d]
          /\ current'[d] = Snapshot(AuthOf(subject[d]), SecurityOf(subject[d]),
                                    AntibotOf(subject[d]), own[d])
      BY <2>6 DEF ReadFindings, Shape
    <3>2. steady[d] => current'[d] = SnapshotOf(subject[d])
      BY <1>6, <3>1 DEF SnapshotOf, Asked
    <3> QED
      BY <1>1, <1>4, <1>6, <3>1, <3>2 DEF Asked, Comparing
  <2>7. CASE ReadAntibot(d)
    <3>1. /\ rpc'[d] = "answered" /\ rpc[d] = "antibot" /\ subject'[d] = subject[d]
          /\ own'[d] = own[d] /\ compared'[d] = compared[d] /\ previous'[d] = previous[d]
          /\ steady'[d] = steady[d]
          /\ current'[d] = Snapshot(NoRow, security[d], AntibotOf(subject[d]), own[d])
      BY <2>7 DEF ReadAntibot, Shape
    <3>2. steady[d] => current'[d] = SnapshotOf(subject[d])
      BY <1>6, <3>1 DEF SnapshotOf, Asked
    <3> QED
      BY <1>1, <1>4, <1>6, <3>1, <3>2 DEF Asked, Comparing
  <2> QED
    BY <2>1, <2>2, <2>3, <2>4, <2>5, <2>6, <2>7
<1> QED
  BY <1>2, <1>3, <1>5, <1>7 DEF ScansKnown, PiecesFit

\* The inductive invariant of the requests.
THEOREM RequestsKnow == Spec => []IInv
<1>1. IInv /\ [Next]_vars => IInv'
  <2> SUFFICES ASSUME IInv, [Next]_vars PROVE IInv'
    OBVIOUS
  <2>1. CASE Tick \/ UNCHANGED vars
    BY <2>1, OutsideSteps
  <2>2. CASE \E s \in Scans : Create(s) \/ Capture(s) \/ MarkFailed(s)
    BY <2>2, OutsideSteps
  <2>3. CASE \E s \in Scans : Write(s)
    BY <2>3, WriteStep
  <2>4. CASE \E d \in Readers :
               \/ ReadScan(d) \/ ReadPrevious(d) \/ NoPrevious(d)
               \/ ReadFindings(d) \/ NoAuthRow(d) \/ ReadSecurity(d) \/ ReadAntibot(d)
    BY <2>4, ReaderStep
  <2> QED
    BY <2>1, <2>2, <2>3, <2>4 DEF Next
<1> QED
  BY <1>1, Initially, PTL DEF Spec

\* AnswerIsStored: the pieces of an answer are those of the two stored reports,
\* unless a worker wrote to one of the scans meanwhile.
THEOREM AnswersAreStored == Spec => []AnswerIsStored
<1>1. IInv => AnswerIsStored
  BY DEF IInv, PiecesFit, AnswerIsStored, Answered, Asked, Comparing
<1> QED
  BY <1>1, RequestsKnow, PTL

-----------------------------------------------------------------------------
\* compute_diff, applied to any two snapshots whatever their lists and values
\* are: the changes turn the one into the other.
THEOREM DiffTellsAll ==
    ASSUME NEW new, NEW old
    PROVE  Rebuilds(new, old, Diff(new, old))
<1> DEFINE lists == ChangedLists(new, old)
           others == ChangedValues(new, old) \cup ChangedPoints(new, old)
           changes == Diff(new, old)
<1>1. changes = [f \in lists \cup others |->
                    IF f \in lists THEN ListDelta(old[f], new[f]) ELSE Changed(old[f], new[f])]
  BY DEF Diff
<1>2. DOMAIN changes = lists \cup others
  BY <1>1
<1>3. lists \subseteq Lists /\ others \subseteq Values \cup Points
  BY DEF ChangedLists, ChangedValues, ChangedPoints
<1>4. Lists \cap (Values \cup Points) = {} /\ Values \cap Points = {}
  BY DEF Lists, Values, Points
<1>5. ASSUME NEW f \in Values
      PROVE  new[f] = IF f \in DOMAIN changes THEN changes[f].after ELSE old[f]
  <2>1. f \in DOMAIN changes <=> new[f] # old[f]
    BY <1>2, <1>3, <1>4 DEF ChangedValues, ChangedPoints
  <2>2. f \in DOMAIN changes => changes[f] = Changed(old[f], new[f])
    BY <1>1, <1>2, <1>3, <1>4
  <2> QED
    BY <2>1, <2>2 DEF Changed
<1>6. ASSUME NEW f \in Lists
      PROVE  new[f] = IF f \in DOMAIN changes
                      THEN (old[f] \ changes[f].removed) \cup changes[f].added ELSE old[f]
  <2>1. f \in DOMAIN changes <=> ListDelta(old[f], new[f]) # NoDelta
    BY <1>2, <1>3, <1>4 DEF ChangedLists
  <2>2. f \in DOMAIN changes => changes[f] = ListDelta(old[f], new[f])
    BY <1>1, <1>2, <1>3, <1>4
  <2>3. ListDelta(old[f], new[f]) = NoDelta => new[f] = old[f]
    <3>1. ListDelta(old[f], new[f]).added = new[f] \ old[f]
          /\ ListDelta(old[f], new[f]).removed = old[f] \ new[f]
          /\ NoDelta.added = {} /\ NoDelta.removed = {}
      BY DEF ListDelta, NoDelta
    <3> QED
      BY <3>1
  <2>4. new[f] = (old[f] \ (old[f] \ new[f])) \cup (new[f] \ old[f])
    OBVIOUS
  <2> QED
    BY <2>1, <2>2, <2>3, <2>4 DEF ListDelta
<1>7. ASSUME NEW f \in Points, None \notin {old[f], new[f]}
      PROVE  new[f] = IF f \in DOMAIN changes THEN changes[f].after ELSE old[f]
  <2>1. f \in DOMAIN changes <=> new[f] # old[f]
    BY <1>2, <1>3, <1>4, <1>7 DEF ChangedValues, ChangedPoints
  <2>2. f \in DOMAIN changes => changes[f] = Changed(old[f], new[f])
    BY <1>1, <1>2, <1>3, <1>4
  <2> QED
    BY <2>1, <2>2 DEF Changed
<1> QED
  BY <1>5, <1>6, <1>7 DEF Rebuilds

\* DiffRebuilds: so it is for every answer to a request for a diff.
THEOREM DiffsTellAll == Spec => []DiffRebuilds
<1>1. DiffRebuilds
  BY DiffTellsAll DEF DiffRebuilds, Changes
<1> QED
  BY <1>1, PTL

-----------------------------------------------------------------------------
\* What a detector finds depends on what it sees alone, so that a failure of
\* another one changes nothing of it (run_detectors).
LEMMA SecuritySees ==
    ASSUME NEW b, NEW c, Seen(b, "security") = Seen(c, "security")
    PROVE  Findings(b.page, b.failed, b.winner).security
             = Findings(c.page, c.failed, c.winner).security
<1>1. "security" \in b.failed <=> "security" \in c.failed
  BY DEF Seen
<1>2. "security" \notin b.failed => Posture(b.page) = Posture(c.page)
  BY <1>1 DEF Seen
<1> QED
  BY <1>1, <1>2 DEF Findings, FoundBy

\* Signatures with the same hits match alike.
LEMMA SameMatches ==
    ASSUME NEW a, NEW z, NEW sigs,
           [s \in sigs |-> a.hits[s]] = [s \in sigs |-> z.hits[s]]
    PROVE  Matched(a, sigs) = Matched(z, sigs)
<1>1. \A s \in sigs : [t \in sigs |-> a.hits[t]][s] = [t \in sigs |-> z.hits[t]][s]
  OBVIOUS
<1>2. \A s \in sigs : a.hits[s] = z.hits[s]
  BY <1>1
<1> QED
  BY <1>2 DEF Matched

LEMMA SameWinners ==
    ASSUME NEW a, NEW z, [s \in AuthSigs |-> a.hits[s]] = [s \in AuthSigs |-> z.hits[s]]
    PROVE  Winners(a) = Winners(z)
<1>1. \A s \in AuthSigs : [t \in AuthSigs |-> a.hits[t]][s] = [t \in AuthSigs |-> z.hits[t]][s]
  OBVIOUS
<1>2. \A s \in AuthSigs : a.hits[s] = z.hits[s]
  BY <1>1
<1>3. Matched(a, AuthSigs) = Matched(z, AuthSigs)
  BY SameMatches
<1>4. \A s, t \in AuthSigs : Prefers(a, s, t) <=> Prefers(z, s, t)
  BY <1>2 DEF Prefers
<1>5. Matched(a, AuthSigs) \subseteq AuthSigs
  BY DEF Matched
<1> QED
  BY <1>3, <1>4, <1>5 DEF Winners

\* The auth detector: the flows, and whether there is a provider; which one, unless
\* two signatures are on a par.
LEMMA AuthSees ==
    ASSUME NEW b, NEW c, Seen(b, "auth") = Seen(c, "auth"), Chosen(b), Chosen(c)
    PROVE  LET f == Findings(b.page, b.failed, b.winner)
               g == Findings(c.page, c.failed, c.winner)
           IN  /\ f.flows = g.flows
               /\ (f.provider = None) <=> (g.provider = None)
               /\ f.provider = g.provider \/ Tied(b.page)
<1>1. "auth" \in b.failed <=> "auth" \in c.failed
  BY DEF Seen
<1>2. CASE "auth" \in b.failed
  BY <1>1, <1>2 DEF Findings, FoundBy
<1>3. CASE "auth" \notin b.failed
  <2>1. /\ [s \in AuthSigs |-> b.page.hits[s]] = [s \in AuthSigs |-> c.page.hits[s]]
        /\ b.page.loginField = c.page.loginField /\ b.page.flows = c.page.flows
    BY <1>1, <1>3 DEF Seen
  <2>2. Winners(b.page) = Winners(c.page)
    BY <2>1, SameWinners
  <2>3. b.winner = c.winner \/ {b.winner, c.winner} \subseteq Winners(b.page)
    <3>1. b.winner \in IF Winners(b.page) = {} THEN {None} ELSE Winners(b.page)
      BY DEF Chosen, Choices
    <3>2. c.winner \in IF Winners(c.page) = {} THEN {None} ELSE Winners(c.page)
      BY DEF Chosen, Choices
    <3> HIDE DEF Winners
    <3> QED
      BY <2>2, <3>1, <3>2
  <2>4. b.winner = c.winner \/ Tied(b.page)
    BY <2>3 DEF Tied
  <2>5. \A w \in Winners(b.page) : w # None /\ Provider(b.page, w) # None
                                   /\ Provider(c.page, w) # None
    BY SignaturesAssumption DEF Winners, Matched, Provider, Signatures
  <2>6. \A w : Provider(b.page, w) = Provider(c.page, w)
    BY <2>1 DEF Provider
  <2>7. /\ Findings(b.page, b.failed, b.winner).provider = Provider(b.page, b.winner)
        /\ Findings(c.page, c.failed, c.winner).provider = Provider(c.page, c.winner)
        /\ Findings(b.page, b.failed, b.winner).flows = b.page.flows
        /\ Findings(c.page, c.failed, c.winner).flows = c.page.flows
    BY <1>1, <1>3 DEF Findings, FoundBy, Detectors
  <2> QED
    BY <2>1, <2>3, <2>4, <2>5, <2>6, <2>7
<1> QED
  BY <1>2, <1>3

LEMMA CaptchaSees ==
    ASSUME NEW b, NEW c, Seen(b, "captcha") = Seen(c, "captcha")
    PROVE  /\ Findings(b.page, b.failed, b.winner).captchas
                = Findings(c.page, c.failed, c.winner).captchas
           /\ \/ Findings(b.page, b.failed, b.winner).captchas = {}
              \/ b.page.widgets = c.page.widgets
<1>1. "captcha" \in b.failed <=> "captcha" \in c.failed
  BY DEF Seen
<1>2. CASE "captcha" \in b.failed
  BY <1>1, <1>2 DEF Findings, FoundBy
<1>3. CASE "captcha" \notin b.failed
  <2>1. /\ [s \in CaptchaSigs |-> b.page.hits[s]] = [s \in CaptchaSigs |-> c.page.hits[s]]
        /\ b.page.renders = c.page.renders /\ b.page.widgets = c.page.widgets
    BY <1>1, <1>3 DEF Seen
  <2>2. Matched(b.page, CaptchaSigs) = Matched(c.page, CaptchaSigs)
    BY <2>1, SameMatches
  <2>3. Captchas(b.page) = Captchas(c.page)
    BY <2>1, <2>2 DEF Captchas
  <2> QED
    BY <1>1, <1>3, <2>1, <2>3 DEF Findings, FoundBy
<1> QED
  BY <1>2, <1>3

LEMMA WafSees ==
    ASSUME NEW b, NEW c, Seen(b, "waf") = Seen(c, "waf")
    PROVE  Findings(b.page, b.failed, b.winner).wafs
             = Findings(c.page, c.failed, c.winner).wafs
<1>1. "waf" \in b.failed <=> "waf" \in c.failed
  BY DEF Seen
<1>2. "waf" \notin b.failed =>
        [s \in WafSigs |-> b.page.hits[s]] = [s \in WafSigs |-> c.page.hits[s]]
  BY <1>1 DEF Seen
<1>3. "waf" \notin b.failed => Wafs(b.page) = Wafs(c.page)
  BY <1>2, SameMatches DEF Wafs
<1> QED
  BY <1>1, <1>3 DEF Findings, FoundBy

LEMMA FingerprintingSees ==
    ASSUME NEW b, NEW c, Seen(b, "fingerprinting") = Seen(c, "fingerprinting")
    PROVE  Findings(b.page, b.failed, b.winner).fingerprinting
             = Findings(c.page, c.failed, c.winner).fingerprinting
<1>1. "fingerprinting" \in b.failed <=> "fingerprinting" \in c.failed
  BY DEF Seen
<1>2. "fingerprinting" \notin b.failed =>
        /\ [s \in FingerprintSigs |-> b.page.hits[s]] = [s \in FingerprintSigs |-> c.page.hits[s]]
        /\ b.page.reads = c.page.reads
  BY <1>1 DEF Seen
<1>3. "fingerprinting" \notin b.failed => Fingerprinting(b.page) = Fingerprinting(c.page)
  BY <1>2, SameMatches DEF Fingerprinting
<1> QED
  BY <1>1, <1>3 DEF Findings, FoundBy

LEMMA SameWidgets ==
    ASSUME NEW found, NEW w, NEW v, found = {} \/ w = v
    PROVE  /\ TopCaptcha(w, found) = TopCaptcha(v, found)
           /\ TopCaptcha(w, found) = None \/ w = v
           /\ [c \in found |-> CaptchaPoints(w, c)] = [c \in found |-> CaptchaPoints(v, c)]
<1>1. CASE w = v
  BY <1>1
<1>2. CASE found = {}
  <2>1. TopCaptcha(w, found) = None /\ TopCaptcha(v, found) = None
    BY <1>2 DEF TopCaptcha
  <2>2. \A c \in found : CaptchaPoints(w, c) = CaptchaPoints(v, c)
    BY <1>2
  <2> HIDE DEF CaptchaPoints
  <2>3. [c \in found |-> CaptchaPoints(w, c)] = [c \in found |-> CaptchaPoints(v, c)]
    BY <2>2
  <2> QED
    BY <2>1, <2>3
<1> QED
  BY <1>1, <1>2

\* The fields of a snapshot, read off the findings that it is made from.
LEMMA FieldsOf ==
    ASSUME NEW s, basis[s] # None
    PROVE  LET a == basis[s].page
               f == FindingsOf(s)
               top == TopCaptcha(a.widgets, f.captchas)
               snapshot == SnapshotOf(s)
           IN  /\ snapshot.provider = f.provider
               /\ snapshot.flows = IF f.provider = None THEN {} ELSE f.flows
               /\ snapshot.captcha = top
               /\ snapshot.visible = IF top = None THEN None ELSE top \in a.widgets
               /\ snapshot.wafs = f.wafs
               /\ snapshot.fingerprinting = f.fingerprinting
               /\ snapshot.hsts = \E p \in f.security : "hsts" \in p.headers
               /\ snapshot.csp = \E p \in f.security : "csp" \in p.headers
               /\ snapshot.csrf = \E p \in f.security : p.csrf
               /\ snapshot.mfa = \E p \in f.security : p.mfa
               /\ snapshot.difficulty = Difficulty(a, f)
               /\ snapshot.risk = Risk(a, f)
<1> DEFINE a == basis[s].page
           f == FindingsOf(s)
<1>1. SnapshotOf(s) = Snapshot(AuthRow(f), SecurityRow(f), AntibotRow(a, f), Scores(a, f))
  BY DEF SnapshotOf, AuthOf, SecurityOf, AntibotOf, ScoresOf
<1> HIDE DEF f, a
<1>2. /\ Snapshot(AuthRow(f), SecurityRow(f), AntibotRow(a, f), Scores(a, f)).provider = f.provider
      /\ Snapshot(AuthRow(f), SecurityRow(f), AntibotRow(a, f), Scores(a, f)).flows
           = IF f.provider = None THEN {} ELSE f.flows
  BY DEF Snapshot, AuthRow, NoRow
<1>3. LET snapshot == Snapshot(AuthRow(f), SecurityRow(f), AntibotRow(a, f), Scores(a, f))
          top == TopCaptcha(a.widgets, f.captchas)
      IN  /\ snapshot.captcha = top
          /\ snapshot.visible = IF top = None THEN None ELSE top \in a.widgets
          /\ snapshot.wafs = f.wafs
          /\ snapshot.fingerprinting = f.fingerprinting
  BY DEF Snapshot, AntibotRow
<1>4. LET snapshot == Snapshot(AuthRow(f), SecurityRow(f), AntibotRow(a, f), Scores(a, f))
      IN  /\ snapshot.hsts = \E p \in f.security : "hsts" \in p.headers
          /\ snapshot.csp = \E p \in f.security : "csp" \in p.headers
          /\ snapshot.csrf = \E p \in f.security : p.csrf
          /\ snapshot.mfa = \E p \in f.security : p.mfa
  BY DEF Snapshot, SecurityRow
<1>5. LET snapshot == Snapshot(AuthRow(f), SecurityRow(f), AntibotRow(a, f), Scores(a, f))
      IN  snapshot.difficulty = Difficulty(a, f) /\ snapshot.risk = Risk(a, f)
  BY DEF Snapshot, Scores
<1> QED
  BY <1>1, <1>2, <1>3, <1>4, <1>5 DEF f, a

\* Two reports that were made from the same evidence of a field agree on it, but for
\* a provider among equals.
LEMMA EvidenceDecides ==
    ASSUME NEW s, NEW t, basis[s] # None, basis[t] # None,
           Chosen(basis[s]), Chosen(basis[t]),
           NEW field \in Values \cup Lists \cup Points,
           Evidence(basis[s], field) = Evidence(basis[t], field)
    PROVE  \/ SnapshotOf(s)[field] = SnapshotOf(t)[field]
           \/ field = "provider" /\ Tied(basis[s].page)
<1> DEFINE b == basis[s]
           c == basis[t]
           Same(detector) == Seen(b, detector) = Seen(c, detector)
<1>1. FindingsOf(s) = Findings(b.page, b.failed, b.winner)
      /\ FindingsOf(t) = Findings(c.page, c.failed, c.winner)
  BY DEF FindingsOf
<1>2. CASE field \in {"provider", "flows"}
  <2>1. Same("auth")
    BY <1>2 DEF Evidence
  <2>2. /\ FindingsOf(s).flows = FindingsOf(t).flows
        /\ (FindingsOf(s).provider = None) <=> (FindingsOf(t).provider = None)
        /\ FindingsOf(s).provider = FindingsOf(t).provider \/ Tied(b.page)
    BY <1>1, <2>1, AuthSees
  <2>3. \A x \in {s, t} :
            /\ SnapshotOf(x).provider = FindingsOf(x).provider
            /\ SnapshotOf(x).flows = IF FindingsOf(x).provider = None THEN {} ELSE FindingsOf(x).flows
    BY FieldsOf
  <2>4. SnapshotOf(s).flows = SnapshotOf(t).flows
    BY <2>2, <2>3
  <2>5. SnapshotOf(s).provider = SnapshotOf(t).provider \/ Tied(b.page)
    BY <2>2, <2>3
  <2> QED
    BY <1>2, <2>4, <2>5
<1>3. CASE field \in {"captcha", "visible"}
  <2>1. Same("captcha")
    BY <1>3 DEF Evidence
  <2>2. /\ FindingsOf(s).captchas = FindingsOf(t).captchas
        /\ FindingsOf(s).captchas = {} \/ b.page.widgets = c.page.widgets
    BY <1>1, <2>1, CaptchaSees
  <2>3. LET top == TopCaptcha(b.page.widgets, FindingsOf(s).captchas)
        IN  /\ top = TopCaptcha(c.page.widgets, FindingsOf(t).captchas)
            /\ top = None \/ b.page.widgets = c.page.widgets
    BY <2>2, SameWidgets
  <2> DEFINE top(x) == TopCaptcha(basis[x].page.widgets, FindingsOf(x).captchas)
             visible(x) == IF top(x) = None THEN None ELSE top(x) \in basis[x].page.widgets
  <2>4. SnapshotOf(s).captcha = top(s) /\ SnapshotOf(t).captcha = top(t)
    BY FieldsOf
  <2>5. SnapshotOf(s).visible = visible(s) /\ SnapshotOf(t).visible = visible(t)
    BY FieldsOf
  <2>6. visible(s) = visible(t)
    BY <2>3
  <2> QED
    BY <1>3, <2>3, <2>4, <2>5, <2>6
<1>4. CASE field = "wafs"
  <2>1. Same("waf")
    BY <1>4 DEF Evidence
  <2>2. FindingsOf(s).wafs = FindingsOf(t).wafs
    BY <1>1, <2>1, WafSees
  <2>3. SnapshotOf(s).wafs = SnapshotOf(t).wafs
    BY <2>2, FieldsOf
  <2> QED
    BY <1>4, <2>3
<1>5. CASE field = "fingerprinting"
  <2>1. Same("fingerprinting")
    BY <1>5 DEF Evidence
  <2>2. FindingsOf(s).fingerprinting = FindingsOf(t).fingerprinting
    BY <1>1, <2>1, FingerprintingSees
  <2>3. SnapshotOf(s).fingerprinting = SnapshotOf(t).fingerprinting
    BY <2>2, FieldsOf
  <2> QED
    BY <1>5, <2>3
<1>6. CASE field \in {"hsts", "csp", "csrf", "mfa"}
  <2>1. Same("security")
    BY <1>6 DEF Evidence
  <2>2. FindingsOf(s).security = FindingsOf(t).security
    BY <1>1, <2>1, SecuritySees
  <2> DEFINE has(x, header) == \E p \in FindingsOf(x).security : header \in p.headers
             csrf(x) == \E p \in FindingsOf(x).security : p.csrf
             mfa(x) == \E p \in FindingsOf(x).security : p.mfa
  <2>3. \A x \in {s, t} : /\ SnapshotOf(x).hsts = has(x, "hsts") /\ SnapshotOf(x).csp = has(x, "csp")
                          /\ SnapshotOf(x).csrf = csrf(x) /\ SnapshotOf(x).mfa = mfa(x)
    BY FieldsOf
  <2>4. /\ has(s, "hsts") = has(t, "hsts") /\ has(s, "csp") = has(t, "csp")
        /\ csrf(s) = csrf(t) /\ mfa(s) = mfa(t)
    BY <2>2
  <2> HIDE DEF has, csrf, mfa
  <2>5. /\ SnapshotOf(s).hsts = SnapshotOf(t).hsts /\ SnapshotOf(s).csp = SnapshotOf(t).csp
        /\ SnapshotOf(s).csrf = SnapshotOf(t).csrf /\ SnapshotOf(s).mfa = SnapshotOf(t).mfa
    BY <2>3, <2>4
  <2> QED
    BY <1>6, <2>5
<1>7. CASE field = "risk"
  <2>1. Same("security") /\ b.page.passwordField = c.page.passwordField
    BY <1>7 DEF Evidence
  <2>2. FindingsOf(s).security = FindingsOf(t).security
    BY <1>1, <2>1, SecuritySees
  <2>3. Risk(b.page, FindingsOf(s)) = Risk(c.page, FindingsOf(t))
    BY <2>1, <2>2 DEF Risk
  <2> QED
    BY <1>7, <2>3, FieldsOf
<1>8. CASE field = "difficulty"
  <2>1. /\ Same("waf") /\ Same("captcha") /\ Same("fingerprinting") /\ Same("security")
        /\ b.page.blocked = c.page.blocked /\ b.page.honeypot = c.page.honeypot
    BY <1>8 DEF Evidence
  <2>2. /\ FindingsOf(s).wafs = FindingsOf(t).wafs
        /\ FindingsOf(s).fingerprinting = FindingsOf(t).fingerprinting
        /\ FindingsOf(s).security = FindingsOf(t).security
    BY <1>1, <2>1, WafSees, FingerprintingSees, SecuritySees
  <2>3. /\ FindingsOf(s).captchas = FindingsOf(t).captchas
        /\ FindingsOf(s).captchas = {} \/ b.page.widgets = c.page.widgets
    BY <1>1, <2>1, CaptchaSees
  <2>4. [x \in FindingsOf(s).captchas |-> CaptchaPoints(b.page.widgets, x)]
          = [x \in FindingsOf(t).captchas |-> CaptchaPoints(c.page.widgets, x)]
    BY <2>3, SameWidgets
  <2>5. SumOfFactors(b.page, FindingsOf(s)) = SumOfFactors(c.page, FindingsOf(t))
    BY <2>1, <2>2, <2>4 DEF SumOfFactors
  <2> QED
    BY <1>8, <2>5, FieldsOf DEF Difficulty
<1> QED
  BY <1>2, <1>3, <1>4, <1>5, <1>6, <1>7, <1>8 DEF Values, Lists, Points

\* DiffExplained: nothing changes in a diff of two stored reports unless the page
\* did, or the detector failed that looks at it, or, of the provider alone, the page
\* has signatures on a par, of which the order of their rows picks one.
THEOREM ChangesHaveReasons == Spec => []DiffExplained
<1>1. IInv => DiffExplained
  <2> SUFFICES ASSUME IInv, NEW d \in Readers, Answered(d), steady[d], basis[subject[d]] # None,
                      NEW field \in DOMAIN Changes(d)
               PROVE  \/ Evidence(basis[subject[d]], field) # Evidence(basis[compared[d]], field)
                      \/ field = "provider" /\ Tied(basis[subject[d]].page)
    BY DEF DiffExplained
  <2>1. /\ current[d] = SnapshotOf(subject[d]) /\ previous[d] = SnapshotOf(compared[d])
        /\ basis[compared[d]] \in Bases
    BY DEF IInv, PiecesFit, ScansKnown, Answered, Comparing
  <2>2. /\ basis[compared[d]] # None
        /\ Chosen(basis[subject[d]]) /\ Chosen(basis[compared[d]])
    <3>1. basis[compared[d]] # None
      BY <2>1, NoneAssumption
    <3>2. subject[d] \in Scans /\ compared[d] \in Scans
      BY DEF IInv, ScansKnown, Answered, Asked, Comparing
    <3> QED
      BY <3>1, <3>2 DEF IInv, WinnersFit
  <2>3. /\ field \in ChangedLists(current[d], previous[d])
                       \cup ChangedValues(current[d], previous[d])
                       \cup ChangedPoints(current[d], previous[d])
    BY DEF Changes, Diff
  <2>4. /\ field \in Values \cup Lists \cup Points
        /\ current[d][field] # previous[d][field]
    BY <2>3 DEF ChangedLists, ChangedValues, ChangedPoints, ListDelta, NoDelta
  <2> QED
    BY <2>1, <2>2, <2>4, EvidenceDecides
<1> QED
  BY <1>1, RequestsKnow, PTL

-----------------------------------------------------------------------------
\* The rows of a scan.
AuthRows == [there : {TRUE}, provider : AuthSigs \cup {Custom}, flows : SUBSET Flows] \cup {NoRow}

SecurityRows ==
    [there : BOOLEAN, hsts : BOOLEAN, csp : BOOLEAN, csrf : BOOLEAN, mfa : BOOLEAN] \cup {NoRow}

AntibotRows ==
    [there : {TRUE}, captcha : CaptchaSigs \cup {None}, visible : BOOLEAN \cup {None},
     wafs : SUBSET WafSigs, fingerprinting : SUBSET (FingerprintSigs \cup {Reads})] \cup {NoRow}

ScorePairs == [difficulty : 0 .. 100 \cup {None}, risk : 0 .. 100 \cup {None}]

\* The snapshot of any rows.
LEMMA SnapshotTyped ==
    ASSUME NEW auth \in AuthRows, NEW sec \in SecurityRows, NEW antibot \in AntibotRows,
           NEW scores \in ScorePairs
    PROVE  Snapshot(auth, sec, antibot, scores) \in Snapshots
<1>1. /\ (IF auth.there THEN auth.provider ELSE None) \in AuthSigs \cup {Custom, None}
      /\ (IF auth.there THEN auth.flows ELSE {}) \in SUBSET Flows
  <2>1. CASE auth = NoRow
    BY <2>1 DEF NoRow
  <2>2. CASE auth # NoRow
    BY <2>2 DEF AuthRows
  <2> QED
    BY <2>1, <2>2
<1>2. /\ (sec.there /\ sec.hsts) \in BOOLEAN /\ (sec.there /\ sec.csp) \in BOOLEAN
      /\ (sec.there /\ sec.csrf) \in BOOLEAN /\ (sec.there /\ sec.mfa) \in BOOLEAN
  OBVIOUS
<1>3. /\ (IF antibot.there THEN antibot.captcha ELSE None) \in CaptchaSigs \cup {None}
      /\ (IF antibot.there THEN antibot.visible ELSE None) \in BOOLEAN \cup {None}
      /\ (IF antibot.there THEN antibot.wafs ELSE {}) \in SUBSET WafSigs
      /\ (IF antibot.there THEN antibot.fingerprinting ELSE {})
           \in SUBSET (FingerprintSigs \cup {Reads})
  <2>1. CASE antibot = NoRow
    BY <2>1 DEF NoRow
  <2>2. CASE antibot # NoRow
    BY <2>2 DEF AntibotRows
  <2> QED
    BY <2>1, <2>2
<1>4. scores.difficulty \in 0 .. 100 \cup {None} /\ scores.risk \in 0 .. 100 \cup {None}
  BY DEF ScorePairs
<1> QED
  BY <1>1, <1>2, <1>3, <1>4 DEF Snapshot, Snapshots

\* The rows of a scan that was written, or not yet.
LEMMA RowsTyped ==
    ASSUME NEW s \in Scans, basis[s] \in Bases \cup {None}
    PROVE  /\ AuthOf(s) \in AuthRows /\ SecurityOf(s) \in SecurityRows
           /\ AntibotOf(s) \in AntibotRows /\ ScoresOf(s) \in ScorePairs
           /\ SnapshotOf(s) \in Snapshots
<1>1. /\ AuthOf(s) \in AuthRows /\ SecurityOf(s) \in SecurityRows
      /\ AntibotOf(s) \in AntibotRows /\ ScoresOf(s) \in ScorePairs
  <2>1. CASE basis[s] = None
    BY <2>1 DEF AuthOf, SecurityOf, AntibotOf, ScoresOf, AuthRows, SecurityRows, AntibotRows,
               ScorePairs, NoScores
  <2>2. CASE basis[s] # None
    <3> DEFINE a == basis[s].page
               f == FindingsOf(s)
    <3>1. a \in Artifacts /\ f \in FindingSets
      BY <2>2, PagesAssumption, FindingsTyped DEF Bases, FindingsOf
    <3>2. /\ AuthOf(s) = AuthRow(f) /\ SecurityOf(s) = SecurityRow(f)
          /\ AntibotOf(s) = AntibotRow(a, f) /\ ScoresOf(s) = Scores(a, f)
      BY <2>2 DEF AuthOf, SecurityOf, AntibotOf, ScoresOf
    <3> HIDE DEF a, f
    <3>3. AuthRow(f) \in AuthRows
      BY <3>1 DEF AuthRow, AuthRows, FindingSets
    <3>4. SecurityRow(f) \in SecurityRows
      BY DEF SecurityRow, SecurityRows
    <3>5. AntibotRow(a, f) \in AntibotRows
      <4> DEFINE top == TopCaptcha(a.widgets, f.captchas)
      <4>1. f.captchas \in SUBSET CaptchaSigs /\ f.wafs \in SUBSET WafSigs
            /\ f.fingerprinting \in SUBSET (FingerprintSigs \cup {Reads})
        BY <3>1 DEF FindingSets
      <4>2. f.captchas = {} => top = None
        BY DEF TopCaptcha
      <4>3. f.captchas # {} => top \in f.captchas
        BY <4>1, TopIsMostConfident
      <4>4. AntibotRow(a, f) =
              [there |-> TRUE, captcha |-> top,
               visible |-> IF top = None THEN None ELSE top \in a.widgets,
               wafs |-> f.wafs, fingerprinting |-> f.fingerprinting]
        BY DEF AntibotRow
      <4> HIDE DEF top
      <4> QED
        BY <4>1, <4>2, <4>3, <4>4 DEF AntibotRows
    <3>6. Scores(a, f) \in ScorePairs
      BY <3>1, ScoresTyped DEF ScorePairs
    <3> QED
      BY <3>2, <3>3, <3>4, <3>5, <3>6
  <2> QED
    BY <2>1, <2>2
<1> QED
  BY <1>1, SnapshotTyped DEF SnapshotOf

\* TypeOK: scores between 0 and 100, rows and snapshots of signatures that there
\* are, whatever the detectors fail at and in whatever order a diff is read.
THEOREM TypesHold == Spec => []TypeOK
<1>1. Init => TypeOK
  BY BoundsAssumption DEF Init, TypeOK, NoScores, NoRow
<1>2. ASSUME TypeOK, IInv, [Next]_vars PROVE TypeOK'
  <2> USE DEF Final, Reported
  <2>1. CASE UNCHANGED vars
    BY <1>2, <2>1 DEF TypeOK, vars, scanVars, readVars
  <2>2. CASE Tick
    BY <1>2, <2>2, BoundsAssumption DEF TypeOK, Tick, scanVars, readVars
  <2>3. ASSUME NEW s \in Scans, Create(s) PROVE TypeOK'
    <3>1. created' \in [Scans -> 0 .. LastMoment] /\ now' \in 1 .. LastMoment
      BY <1>2, <2>3, BoundsAssumption DEF TypeOK, Create
    <3> QED
      BY <1>2, <2>3, <3>1 DEF TypeOK, Create, readVars
  <2>4. ASSUME NEW s \in Scans, Capture(s) PROVE TypeOK'
    <3>1. mishaps' \in 0 .. MaxMishaps
      BY <1>2, <2>4, BoundsAssumption DEF TypeOK, Capture, Mishap
    <3> QED
      BY <1>2, <2>4, <3>1 DEF TypeOK, Capture, readVars
  <2>5. ASSUME NEW s \in Scans, Write(s) \/ MarkFailed(s) PROVE TypeOK'
    <3>1. basis' \in [Scans -> Bases \cup {None}]
      <4>1. IInv'
        BY <1>2, <2>5, WriteStep, OutsideSteps
      <4> QED
        BY <4>1 DEF IInv, Shape
    <3>2. steady' \in [Readers -> BOOLEAN]
      <4>1. CASE steady' = [d \in Readers |-> steady[d] /\ s \notin {subject[d], compared[d]}]
        <5>1. \A d \in Readers : (steady[d] /\ s \notin {subject[d], compared[d]}) \in BOOLEAN
          OBVIOUS
        <5> QED
          BY <4>1, <5>1
      <4>2. CASE steady' = steady
        BY <1>2, <4>2, Zenon DEF TypeOK
      <4> QED
        BY <2>5, <4>1, <4>2 DEF Write, MarkFailed
    <3>3. /\ status' \in [Scans -> {"absent", "queued", "running"} \cup Final]
          /\ page' \in [Scans -> Pages \cup {None}]
      BY <1>2, <2>5 DEF TypeOK, Write, MarkFailed
    <3>4. UNCHANGED <<now, created, rpc, readVars>>
      BY <2>5 DEF Write, MarkFailed
    <3>5. mishaps' \in 0 .. MaxMishaps
      BY <1>2, <2>5, BoundsAssumption DEF TypeOK, Write, MarkFailed, Mishap
    <3> QED
      BY <1>2, <3>1, <3>2, <3>3, <3>4, <3>5, Zenon DEF TypeOK, readVars
  <2>6. ASSUME NEW d \in Readers,
               \/ ReadScan(d) \/ ReadPrevious(d) \/ NoPrevious(d)
               \/ ReadFindings(d) \/ NoAuthRow(d) \/ ReadSecurity(d) \/ ReadAntibot(d)
        PROVE  TypeOK'
    <3> USE DEF ReadStep, scanVars, readVars
    <3>1. /\ now' = now /\ created' = created /\ status' = status /\ page' = page
          /\ mishaps' = mishaps /\ basis' = basis
      BY <2>6 DEF ReadScan, ReadPrevious, NoPrevious, ReadFindings, NoAuthRow, ReadSecurity,
                  ReadAntibot
    <3>2. \A s \in Scans : /\ AuthOf(s) \in AuthRows /\ SecurityOf(s) \in SecurityRows
                           /\ AntibotOf(s) \in AntibotRows /\ ScoresOf(s) \in ScorePairs
                           /\ SnapshotOf(s) \in Snapshots
      BY <1>2, RowsTyped DEF TypeOK
    <3>3. rpc[d] \in Asked => subject[d] \in Scans
      BY <1>2 DEF IInv, ScansKnown
    <3>4. CASE ReadScan(d)
      BY <1>2, <3>1, <3>2, <3>4 DEF TypeOK, ReadScan, ScorePairs
    <3>5. CASE ReadPrevious(d)
      BY <1>2, <3>1, <3>2, <3>5 DEF TypeOK, ReadPrevious, Prior
    <3>6. CASE NoPrevious(d) \/ NoAuthRow(d)
      BY <1>2, <3>1, <3>6 DEF TypeOK, NoPrevious, NoAuthRow
    <3>7. CASE ReadSecurity(d)
      BY <1>2, <3>1, <3>2, <3>3, <3>7 DEF TypeOK, ReadSecurity, Asked, SecurityRows
    <3>8. CASE ReadFindings(d) \/ ReadAntibot(d)
      <4>1. PICK snapshot \in Snapshots : current' = [current EXCEPT ![d] = snapshot]
        <5>1. own[d] \in ScorePairs /\ security[d] \in SecurityRows /\ NoRow \in AuthRows
          BY <1>2 DEF TypeOK, ScorePairs, SecurityRows, AuthRows
        <5>2. subject[d] \in Scans
          BY <3>3, <3>8 DEF ReadFindings, ReadAntibot, Asked
        <5>3. CASE ReadFindings(d)
          BY <3>2, <5>1, <5>2, <5>3, SnapshotTyped DEF ReadFindings, SnapshotRead
        <5>4. CASE ReadAntibot(d)
          BY <3>2, <5>1, <5>2, <5>4, SnapshotTyped DEF ReadAntibot, SnapshotRead
        <5> QED
          BY <3>8, <5>3, <5>4
      <4> QED
        BY <1>2, <3>1, <3>8, <4>1 DEF TypeOK, ReadFindings, ReadAntibot, SnapshotRead
    <3> QED
      BY <2>6, <3>4, <3>5, <3>6, <3>7, <3>8
  <2> QED
    BY <1>2, <2>1, <2>2, <2>3, <2>4, <2>5, <2>6 DEF Next
<1> QED
  BY <1>1, <1>2, RequestsKnow, PTL DEF Spec

\* ScoresAddUp: the difficulty of every stored report is the sum of its findings,
\* each category cut at its cap.
THEOREM PointsAddUp == Spec => []ScoresAddUp
<1>1. IInv => ScoresAddUp
  <2> SUFFICES ASSUME IInv, NEW s \in Scans, basis[s] # None
               PROVE  LET f == FindingsOf(s)
                          a == basis[s].page
                      IN  ScoresOf(s).difficulty = Least(100,
                            Least(40, SumFunction([w \in f.wafs |-> WafPoints(w)]))
                              + Least(25, SumFunction([c \in f.captchas |-> CaptchaPoints(a.widgets, c)]))
                              + Least(20, 7 * Cardinality(f.fingerprinting) - If(Reads \in f.fingerprinting, 2))
                              + If(a.blocked, 10) + If(a.honeypot, 4)
                              + If("security" \notin basis[s].failed /\ a.csrf, 3))
    BY DEF ScoresAddUp
  <2> DEFINE f == FindingsOf(s)
             a == basis[s].page
  <2>1. basis[s] \in Bases
    BY DEF IInv, Shape
  <2>2. f \in FindingSets
    BY <2>1, PagesAssumption, FindingsTyped DEF Bases, FindingsOf
  <2>3. (\E p \in f.security : p.csrf) <=> "security" \notin basis[s].failed /\ a.csrf
    <3>1. f.security = IF "security" \in basis[s].failed THEN {} ELSE {Posture(a)}
      BY DEF FindingsOf, Findings, FoundBy, Detectors
    <3>2. Posture(a).csrf = a.csrf
      BY DEF Posture
    <3> HIDE DEF f, a
    <3> QED
      BY <3>1, <3>2
  <2>4. If(\E p \in f.security : p.csrf, 3) = If("security" \notin basis[s].failed /\ a.csrf, 3)
    BY <2>3 DEF If
  <2>5. ScoresOf(s).difficulty = Least(100, SumOfFactors(a, f))
    BY DEF ScoresOf, Scores, Difficulty
  <2> HIDE DEF f, a
  <2>6. SumOfFactors(a, f) =
            Least(40, SumFunction([w \in f.wafs |-> WafPoints(w)]))
              + Least(25, SumFunction([c \in f.captchas |-> CaptchaPoints(a.widgets, c)]))
              + Least(20, 7 * Cardinality(f.fingerprinting) - If(Reads \in f.fingerprinting, 2))
              + If(a.blocked, 10) + If(a.honeypot, 4)
              + If("security" \notin basis[s].failed /\ a.csrf, 3)
    BY <2>2, <2>4, FactorsAddUp, Zenon DEF SumOfFactors
  <2> QED
    BY <2>5, <2>6 DEF f, a
<1> QED
  BY <1>1, RequestsKnow, PTL
=============================================================================
