----------------------- MODULE WebhookDeliveryProofs -----------------------
(***************************************************************************)
(* What holds of WebhookDelivery for any webhooks, scans, runs, re-drives, *)
(* number of attempts and faults, proved with TLAPS.                       *)
(***************************************************************************)
EXTENDS WebhookDelivery, FiniteSetTheorems, TLAPS

\* What the round of a worker knows: it holds only webhooks of the scan's
\* owner, and the one it posts to is one of them and no longer to do.
RoundKnows ==
    \A r \in Runs :
        /\ pc[r] \in RunStates
        /\ todo[r] \subseteq selected[r]
        /\ \A h \in selected[r] : HookUser[h] = ScanUser[RunScan[r]]
        /\ pc[r] \in {"idle", "running", "commit", "select", "next", "done"} => via[r] = None
        /\ pc[r] \in {"idle", "running", "commit", "select"} => selected[r] = {}
        /\ pc[r] \in {"post", "dead_letter"} => via[r] \in selected[r] \ todo[r]

\* What a re-drive knows: its webhook fits its entry, and once it comes to
\* remove the entry, the report has arrived.
RedriveKnows ==
    \A d \in Redrives :
        /\ pc[d] \in RedriveStates
        /\ pc[d] # "idle" => entry[d] \in Entries
        /\ pc[d] \in {"scan", "post", "remove"} =>
              /\ via[d] \in Hooks
              /\ HookUser[via[d]] = EntryUser(entry[d])
              /\ HookUrl[via[d]] = EntryUrl(entry[d])
        /\ pc[d] = "remove" => <<EntryScan(entry[d]), via[d]>> \in accepted

\* NothingVanishes, whatever a run that holds a webhook is at.
Accounted ==
    \A r \in Runs : \A h \in selected[r] \ todo[r] :
        h = via[r] \/ <<r, h>> \in dlq \/ Arrived(<<r, h>>)

IInv == TypeOK /\ RoundKnows /\ RedriveKnows /\ Accounted /\ OwnersOnly

USE HooksAssumption, AttemptsAssumption
USE DEF loopVars, Senders

-----------------------------------------------------------------------------
\* A scan's run belongs to its owner.
LEMMA EntryTypes ==
    ASSUME NEW e \in Entries
    PROVE  /\ EntryScan(e) \in Scans
           /\ e = <<e[1], e[2]>> /\ e[1] \in Runs /\ e[2] \in Hooks
           /\ EntryUser(e) = ScanUser[EntryScan(e)]
BY DEF Entries, EntryScan, EntryUser

\* Nothing has been sent at the start.
LEMMA InitIInv == Init => IInv
BY DEF Init, IInv, TypeOK, RoundKnows, RedriveKnows, Accounted, OwnersOnly,
   RunStates, RedriveStates

\* What a receiver has taken stays taken: the invariant about what arrived is
\* not disturbed by further reports.
LEMMA ArrivedStays ==
    ASSUME accepted \subseteq accepted', NEW e, Arrived(e)
    PROVE  Arrived(e)'
BY DEF Arrived, EntryScan, EntryUser, EntryUrl

\* Hence a step that keeps the entries and turns a run to no other webhook
\* leaves nothing unaccounted for.
LEMMA AccountedFrame ==
    ASSUME Accounted, dlq \subseteq dlq', accepted \subseteq accepted',
           UNCHANGED loopVars, \A r \in Runs : via'[r] = via[r]
    PROVE  Accounted'
BY ArrivedStays DEF Accounted

-----------------------------------------------------------------------------
\* The steps of deliver.
LEMMA PostIInv ==
    ASSUME IInv, NEW p \in Senders, Post(p)
    PROVE  IInv'
<1> USE DEF IInv
<1>1. ASSUME p \in Runs PROVE IInv'
  <2>1. /\ pc[p] = "post"
        /\ via[p] \in selected[p] \ todo[p]
        /\ via[p] \in Hooks
        /\ HookUser[via[p]] = ScanUser[RunScan[p]]
        /\ RunScan[p] \in Scans
    BY <1>1 DEF Post, PostDelivered, PostFails, Refuse, PostRaises, Goto, RoundKnows, TypeOK
  <2>2. /\ UNCHANGED <<registered, status, dlq, loopVars, entry>>
        /\ accepted' \in {accepted, accepted \cup {<<RunScan[p], via[p]>>}}
        /\ \A q \in Senders : q # p => pc'[q] = pc[q] /\ via'[q] = via[q]
    BY <1>1, <2>1 DEF Post, PostDelivered, PostFails, Refuse, Again, GiveUp, PostRaises, Goto,
       Address, Take, ScanOf, TypeOK
  <2>3. TypeOK'
    <3>1. CASE PostDelivered(p)
        BY <1>1, <2>1, <2>2, <3>1 DEF PostDelivered, Goto, Address, TypeOK, RunStates
    <3>2. CASE PostFails(p)
        BY <1>1, <2>1, <2>2, <3>2 DEF PostFails, Again, GiveUp, Goto, TypeOK, RunStates
    <3>3. CASE PostRaises(p)
        BY <1>1, <2>1, <2>2, <3>3 DEF PostRaises, Goto, TypeOK, RunStates
    <3>4. QED
        BY <3>1, <3>2, <3>3 DEF Post
  <2>4. \/ pc'[p] = "next" /\ via'[p] = None /\ <<RunScan[p], via[p]>> \in accepted'
        \/ pc'[p] \in {"post", "dead_letter", "mark_failed"} /\ via'[p] = via[p]
    BY <1>1, <2>1 DEF Post, PostDelivered, PostFails, Refuse, Again, GiveUp, PostRaises, Goto,
       Address, Take, ScanOf, TypeOK
  <2>5. RoundKnows'
    BY <2>1, <2>2, <2>4 DEF RoundKnows, RunStates
  <2>6. RedriveKnows'
    BY <1>1, <2>2 DEF RedriveKnows
  <2>7. OwnersOnly'
    BY <2>1, <2>2 DEF OwnersOnly
  <2>8. Accounted'
    <3>1. via'[p] = via[p] => Accounted'
        BY <2>2, AccountedFrame
    <3>2. ASSUME <<RunScan[p], via[p]>> \in accepted', NEW h \in Hooks, h = via[p]
          PROVE  Arrived(<<p, h>>)'
        BY <1>1, <2>1, <3>2 DEF Arrived, EntryScan, EntryUser, EntryUrl
    <3>3. ASSUME <<RunScan[p], via[p]>> \in accepted' PROVE Accounted'
      <4> SUFFICES ASSUME NEW r \in Runs, NEW h \in selected[r] \ todo[r], h # via'[r],
                          <<r, h>> \notin dlq
                   PROVE  Arrived(<<r, h>>)'
        BY <2>2 DEF Accounted
      <4>1. CASE r = p /\ h = via[p]
        BY <2>1, <3>2, <3>3, <4>1
      <4>2. CASE ~ (r = p /\ h = via[p])
        BY <2>2, <4>2, ArrivedStays DEF Accounted
      <4>3. QED
        BY <4>1, <4>2
    <3>4. QED
        BY <2>4, <3>1, <3>3
  <2>9. QED
    BY <2>3, <2>5, <2>6, <2>7, <2>8
<1>2. ASSUME p \in Redrives PROVE IInv'
  <2>1. /\ pc[p] = "post"
        /\ entry[p] \in Entries /\ via[p] \in Hooks
        /\ HookUser[via[p]] = EntryUser(entry[p])
    BY <1>2 DEF Post, PostDelivered, PostFails, Refuse, PostRaises, Goto, RedriveKnows
  <2>2. /\ UNCHANGED <<registered, status, dlq, loopVars>>
        /\ accepted' \in {accepted, accepted \cup {<<EntryScan(entry[p]), via[p]>>}}
        /\ \A q \in Senders : q # p => pc'[q] = pc[q] /\ via'[q] = via[q]
        /\ \A d \in Redrives : d # p => entry'[d] = entry[d]
    BY <1>2, <2>1 DEF Post, PostDelivered, PostFails, Refuse, Again, GiveUp, Respond, PostRaises,
       Goto, Address, Take, ScanOf, TypeOK
  <2>3. TypeOK'
    <3>1. accepted' \subseteq Scans \X Hooks
        BY <2>1, <2>2, EntryTypes DEF TypeOK
    <3>2. CASE PostDelivered(p)
        BY <1>2, <2>2, <3>1, <3>2 DEF PostDelivered, Goto, TypeOK, RedriveStates
    <3>3. CASE PostFails(p)
        BY <1>2, <2>2, <3>1, <3>3 DEF PostFails, Again, GiveUp, Respond, Goto, Address, TypeOK,
           RedriveStates
    <3>4. CASE PostRaises(p)
        BY <1>2, <2>2, <3>1, <3>4 DEF PostRaises, Respond, Goto, Address, TypeOK, RedriveStates
    <3>5. QED
        BY <3>2, <3>3, <3>4 DEF Post
  <2>4. RoundKnows'
    BY <1>2, <2>2 DEF RoundKnows
  <2>5. \/ pc'[p] = "remove" /\ <<EntryScan(entry[p]), via[p]>> \in accepted'
           /\ via'[p] = via[p] /\ entry'[p] = entry[p]
        \/ pc'[p] = "post" /\ via'[p] = via[p] /\ entry'[p] = entry[p]
        \/ pc'[p] = "idle"
    BY <1>2, <2>1 DEF Post, PostDelivered, PostFails, Refuse, Again, GiveUp, Respond, PostRaises,
       Goto, Address, Take, ScanOf, TypeOK
  <2>6. RedriveKnows'
    <3> SUFFICES ASSUME NEW d \in Redrives
                 PROVE  /\ pc'[d] \in RedriveStates
                        /\ pc'[d] # "idle" => entry'[d] \in Entries
                        /\ pc'[d] \in {"scan", "post", "remove"} =>
                              /\ via'[d] \in Hooks
                              /\ HookUser[via'[d]] = EntryUser(entry'[d])
                              /\ HookUrl[via'[d]] = EntryUrl(entry'[d])
                        /\ pc'[d] = "remove" => <<EntryScan(entry'[d]), via'[d]>> \in accepted'
        BY DEF RedriveKnows, EntryUser, EntryUrl, EntryScan
    <3>1. CASE d # p
        BY <2>2, <3>1 DEF RedriveKnows
    <3>2. CASE d = p
        BY <2>1, <2>5, <3>2 DEF RedriveKnows, RedriveStates
    <3>3. QED
        BY <3>1, <3>2
  <2>7. OwnersOnly'
    BY <2>1, <2>2, EntryTypes DEF OwnersOnly
  <2>8. Accounted'
    BY <1>2, <2>2, AccountedFrame
  <2>9. QED
    BY <2>3, <2>4, <2>6, <2>7, <2>8
<1>3. QED
    BY <1>1, <1>2

-----------------------------------------------------------------------------
\* The other steps of a round.
LEMMA RunIInv ==
    ASSUME IInv, NEW r \in Runs,
           \/ Begin(r) \/ Scan(r) \/ Commit(r) \/ Select(r) \/ Finish(r) \/ DeadLetter(r) \/ MarkFailed(r)
           \/ DeadLetterFails(r) \/ Crash(r) \/ \E h \in Hooks : NextHook(r, h)
    PROVE  IInv'
<1> USE DEF IInv
<1>1. /\ UNCHANGED <<accepted, registered, entry>>
      /\ \A q \in Senders : q # r => pc'[q] = pc[q] /\ via'[q] = via[q]
      /\ dlq \subseteq dlq'
    BY DEF Begin, Scan, Commit, SetStatus, Select, Finish, DeadLetter, MarkFailed, DeadLetterFails, Crash, NextHook,
       Goto, Address, TypeOK
<1>2. RedriveKnows'
    BY <1>1 DEF RedriveKnows
<1>3. OwnersOnly'
    BY <1>1 DEF OwnersOnly
<1>4. CASE Begin(r) \/ Scan(r) \/ Commit(r) \/ Finish(r) \/ MarkFailed(r) \/ DeadLetterFails(r) \/ Crash(r)
  <2>1. UNCHANGED <<dlq, accepted, via, loopVars>>
    BY <1>4 DEF Begin, Scan, Commit, SetStatus, Finish, MarkFailed, DeadLetterFails, Crash
  <2>2. TypeOK'
    BY <1>4 DEF Begin, Scan, Commit, SetStatus, Finish, MarkFailed, DeadLetterFails, Crash, Goto, TypeOK, RunStates,
       Over
  <2>3. RoundKnows'
    BY <1>1, <1>4, <2>1 DEF Begin, Scan, Commit, SetStatus, Finish, MarkFailed, DeadLetterFails, Crash, Goto, TypeOK,
       RoundKnows, RunStates, Over
  <2>4. QED
    BY <1>2, <1>3, <2>1, <2>2, <2>3, AccountedFrame
<1>5. CASE Select(r)
  <2> DEFINE hooks == {h \in registered : HookUser[h] = ScanUser[RunScan[r]]}
  <2>1. /\ pc[r] = "select" /\ pc' = [pc EXCEPT ![r] = "next"]
        /\ selected' = [selected EXCEPT ![r] = hooks]
        /\ todo' = [todo EXCEPT ![r] = hooks]
        /\ UNCHANGED <<registered, status, dlq, accepted, via, tries, entry>>
    BY <1>5 DEF Select, Goto
  <2>2. TypeOK'
    BY <2>1 DEF TypeOK, RunStates
  <2>3. RoundKnows'
    BY <1>1, <2>1 DEF TypeOK, RoundKnows, RunStates
  <2>4. selected'[r] \ todo'[r] = {} /\ \A q \in Runs \ {r} : selected'[q] = selected[q] /\ todo'[q] = todo[q]
    BY <2>1 DEF TypeOK
  <2>5. Accounted'
    BY <2>1, <2>4, ArrivedStays DEF Accounted
  <2>6. QED
    BY <1>2, <1>3, <2>2, <2>3, <2>5
<1>6. ASSUME NEW h \in Hooks, NextHook(r, h) PROVE IInv'
  <2>1. /\ pc[r] = "next" /\ pc' = [pc EXCEPT ![r] = "post"]
        /\ via[r] = None /\ via' = [via EXCEPT ![r] = h]
        /\ h \in todo[r] /\ todo' = [todo EXCEPT ![r] = @ \ {h}]
        /\ UNCHANGED <<registered, status, dlq, accepted, selected, entry>>
    BY <1>6 DEF NextHook, Goto, Address, RoundKnows
  <2>2. TypeOK'
    BY <1>6, <2>1 DEF NextHook, Address, TypeOK, RunStates
  <2>3. RoundKnows'
    BY <1>1, <2>1 DEF TypeOK, RoundKnows, RunStates
  <2>4. ASSUME NEW q \in Runs, NEW g \in selected'[q] \ todo'[q]
        PROVE  g = via'[q] \/ <<q, g>> \in dlq \/ Arrived(<<q, g>>)
    BY <2>1 DEF TypeOK, Accounted
  <2>5. Accounted'
    BY <2>1, <2>4, ArrivedStays DEF Accounted
  <2>6. QED
    BY <1>2, <1>3, <2>2, <2>3, <2>5
<1>7. CASE DeadLetter(r)
  <2>1. /\ pc[r] = "dead_letter" /\ pc' = [pc EXCEPT ![r] = "next"]
        /\ via' = [via EXCEPT ![r] = None]
        /\ via[r] \in Hooks
        /\ dlq' = dlq \cup {<<r, via[r]>>}
        /\ UNCHANGED <<registered, status, accepted, loopVars, entry>>
    BY <1>7 DEF DeadLetter, Goto, Address, RoundKnows, TypeOK
  <2>2. TypeOK'
    BY <1>7, <2>1 DEF DeadLetter, Address, TypeOK, RunStates, Entries
  <2>3. RoundKnows'
    BY <1>1, <2>1 DEF TypeOK, RoundKnows, RunStates
  <2>4. ASSUME NEW q \in Runs, NEW g \in selected[q] \ todo[q]
        PROVE  g = via'[q] \/ <<q, g>> \in dlq' \/ Arrived(<<q, g>>)
    BY <2>1 DEF TypeOK, Accounted
  <2>5. Accounted'
    BY <2>1, <2>4, ArrivedStays DEF Accounted
  <2>6. QED
    BY <1>2, <1>3, <2>2, <2>3, <2>5
<1>8. QED
    BY <1>4, <1>5, <1>6, <1>7

\* The steps of a re-drive around its call of deliver.
LEMMA RedriveIInv ==
    ASSUME IInv, NEW d \in Redrives,
           \/ FindHook(d) \/ FindScan(d) \/ Remove(d) \/ RemoveFails(d)
           \/ \E e \in Entries : FindEntry(d, e)
    PROVE  IInv'
<1> USE DEF IInv
<1>1. /\ UNCHANGED <<registered, status, accepted, loopVars>>
      /\ \A q \in Senders : q # d => pc'[q] = pc[q] /\ via'[q] = via[q]
      /\ \A c \in Redrives : c # d => entry'[c] = entry[c]
      /\ dlq' \subseteq dlq
    BY DEF FindHook, FindScan, Remove, RemoveFails, FindEntry, Respond, Goto, Address, TypeOK
<1>2. TypeOK'
  <2>1. CASE FindHook(d)
    BY <2>1 DEF FindHook, Matching, Respond, Goto, Address, TypeOK, RedriveStates, RunStates
  <2>2. CASE FindScan(d) \/ Remove(d) \/ RemoveFails(d) \/ \E e \in Entries : FindEntry(d, e)
    BY <2>2 DEF FindScan, Remove, RemoveFails, FindEntry, Respond, Goto, Address, TypeOK,
       RedriveStates, RunStates
  <2>3. QED
    BY <2>1, <2>2
<1>3. RoundKnows'
    BY <1>1 DEF RoundKnows
<1>4. /\ pc'[d] \in RedriveStates
      /\ pc'[d] # "idle" => entry'[d] \in Entries
      /\ pc'[d] # "remove"
      /\ pc'[d] \in {"scan", "post"} =>
            /\ via'[d] \in Hooks
            /\ HookUser[via'[d]] = EntryUser(entry'[d])
            /\ HookUrl[via'[d]] = EntryUrl(entry'[d])
  <2>1. CASE FindHook(d)
    BY <2>1 DEF FindHook, Matching, Respond, Goto, Address, TypeOK, RedriveKnows, RedriveStates
  <2>2. CASE FindScan(d)
    BY <2>2 DEF FindScan, Respond, Goto, Address, TypeOK, RedriveKnows, RedriveStates
  <2>3. CASE Remove(d) \/ RemoveFails(d) \/ \E e \in Entries : FindEntry(d, e)
    BY <2>3 DEF Remove, RemoveFails, FindEntry, Respond, Goto, Address, TypeOK, RedriveStates
  <2>4. QED
    BY <2>1, <2>2, <2>3
<1>5. RedriveKnows'
    BY <1>1, <1>4 DEF RedriveKnows, EntryUser, EntryUrl, EntryScan
<1>6. OwnersOnly'
    BY <1>1 DEF OwnersOnly
<1>7. Accounted'
  <2>1. CASE dlq' = dlq
    BY <1>1, <2>1, AccountedFrame
  <2>2. CASE Remove(d)
    <3>1. dlq' = dlq \ {entry[d]} /\ entry[d] \in Entries /\ Arrived(entry[d])
        BY <2>2 DEF Remove, RedriveKnows, Arrived
    <3>2. QED
        BY <1>1, <3>1, ArrivedStays DEF Accounted
  <2>3. QED
    BY <2>1, <2>2 DEF FindHook, FindScan, RemoveFails, FindEntry
<1>8. QED
    BY <1>2, <1>3, <1>5, <1>6, <1>7

-----------------------------------------------------------------------------
\* Every step preserves the invariant.
LEMMA NextIInv == IInv /\ [Next]_vars => IInv'
<1> SUFFICES ASSUME IInv, [Next]_vars PROVE IInv'
    OBVIOUS
<1>1. ASSUME TypeOK', UNCHANGED <<dlq, accepted, pc, via, loopVars, entry>> PROVE IInv'
  <2>1. RoundKnows' /\ RedriveKnows' /\ OwnersOnly'
    BY <1>1 DEF IInv, RoundKnows, RedriveKnows, OwnersOnly, EntryScan, EntryUser, EntryUrl
  <2>2. QED
    BY <1>1, <2>1, AccountedFrame DEF IInv
<1>2. ASSUME NEW h \in Hooks, Register(h) \/ Delete(h) PROVE IInv'
    BY <1>1, <1>2 DEF Register, Delete, IInv, TypeOK
<1>3. CASE UNCHANGED vars
    BY <1>1, <1>3 DEF vars, IInv, TypeOK
<1>4. QED
    BY <1>2, <1>3, PostIInv, RunIInv, RedriveIInv DEF Next, RunStep, RedriveStep

\* The inductive invariant holds in every reachable state.
THEOREM Invariance == Spec => []IInv
BY InitIInv, NextIInv, PTL DEF Spec

\* Every variable keeps its type: no call of deliver posts more than
\* MAX_ATTEMPTS times.
THEOREM TypeCorrect == Spec => []TypeOK
<1>1. IInv => TypeOK
    BY DEF IInv
<1>2. QED
    BY <1>1, Invariance, PTL

\* No webhook that a round has gone on from is forgotten, whatever fails and
\* however many re-drives of however many users run at the same time; only the one
\* at which a round raised or died may be.
THEOREM NothingIsLost == Spec => []NothingVanishes
<1>1. ASSUME IInv PROVE NothingVanishes
  <2> SUFFICES ASSUME NEW r \in Runs, NEW h \in selected[r] \ todo[r], h = via[r]
               PROVE  InHand(r, h) \/ StoppedAt(r, h)
    BY <1>1 DEF IInv, Accounted, NothingVanishes
  <2>1. via[r] # None
    BY <1>1 DEF IInv, TypeOK
  <2> QED
    BY <1>1, <2>1 DEF IInv, RoundKnows, RunStates, Over, InHand, StoppedAt
<1>2. QED
    BY <1>1, Invariance, PTL

\* No report reaches the webhook of another user.
THEOREM ReportsStayWithOwner == Spec => []OwnersOnly
<1>1. IInv => OwnersOnly
    BY DEF IInv
<1>2. QED
    BY <1>1, Invariance, PTL

-----------------------------------------------------------------------------
(***************************************************************************)
(* What is promised of single steps.                                       *)
(***************************************************************************)
\* An entry leaves the dead-letter list only when the report of its scan has arrived
\* at its URL: no re-drive removes what it, or another, failed to deliver, whichever
\* requests overlap and whatever becomes of the webhooks meanwhile
\* (redrive_dead_letter).
THEOREM EntriesWaitForReports == Spec => [][\A e \in dlq : e \in dlq' \/ Arrived(e)]_vars
<1>1. ASSUME IInv, Next PROVE \A e \in dlq : e \in dlq' \/ Arrived(e)
  <2> SUFFICES ASSUME NEW e \in dlq, e \notin dlq' PROVE Arrived(e)
    OBVIOUS
  <2>1. PICK d \in Redrives : Remove(d)
    <3>1. \A r \in Runs : Begin(r) \/ RunStep(r) \/ DeadLetterFails(r) \/ Crash(r) => dlq \subseteq dlq'
      BY DEF Begin, RunStep, Scan, Commit, Select, Finish, Post, PostDelivered, PostFails, Refuse,
         PostRaises, DeadLetter, MarkFailed, NextHook, DeadLetterFails, Crash
    <3>2. \A d \in Redrives : RedriveStep(d) \/ RemoveFails(d) => dlq' = dlq \/ Remove(d)
      BY DEF RedriveStep, FindHook, FindScan, Post, PostDelivered, PostFails, Refuse, PostRaises,
         RemoveFails
    <3> QED
      BY <1>1, <3>1, <3>2 DEF Next, Register, Delete, FindEntry
  <2>2. e = entry[d] /\ pc[d] = "remove"
    BY <2>1 DEF Remove
  <2> QED
    BY <1>1, <2>1, <2>2 DEF IInv, RedriveKnows, Arrived
<1>2. ASSUME IInv, [Next]_vars PROVE [\A e \in dlq : e \in dlq' \/ Arrived(e)]_vars
    BY <1>1, <1>2
<1>3. QED
    BY <1>2, Invariance, PTL DEF Spec

\* Steps a run still has to take: a round turns to each webhook it selected, posts to
\* it MAX_ATTEMPTS times at most, and writes its entry.
HookWeight == MaxAttempts + 3

RunLeft(r) ==
    CASE pc[r] = "idle" -> Cardinality(Hooks) * HookWeight + 6
      [] pc[r] = "running" -> Cardinality(Hooks) * HookWeight + 5
      [] pc[r] = "commit" -> Cardinality(Hooks) * HookWeight + 4
      [] pc[r] = "select" -> Cardinality(Hooks) * HookWeight + 3
      [] pc[r] = "next" -> Cardinality(todo[r]) * HookWeight + 2
      [] pc[r] = "post" -> Cardinality(todo[r]) * HookWeight + (MaxAttempts - tries[r]) + 3
      [] pc[r] = "dead_letter" -> Cardinality(todo[r]) * HookWeight + 3
      [] pc[r] = "mark_failed" -> 1
      [] OTHER -> 0

\* What the measure of a round looks at.
Place(r) == <<pc[r], tries[r], todo[r]>>

LEMMA HookWeighs ==
    /\ HookWeight \in Nat
    /\ \A k \in Nat : k * HookWeight \in Nat /\ (k + 1) * HookWeight = k * HookWeight + HookWeight
    /\ \A k, n \in Nat : k <= n => k * HookWeight <= n * HookWeight
<1>1. HookWeight \in Nat
    BY DEF HookWeight
<1>2. \A w, k \in Nat : k * w \in Nat /\ (k + 1) * w = k * w + w
    OBVIOUS
<1>3. \A w, k, n \in Nat : k <= n => k * w <= n * w
  <2> SUFFICES ASSUME NEW w \in Nat, NEW k \in Nat, NEW n \in Nat, k <= n PROVE k * w <= n * w
    OBVIOUS
  <2>1. PICK d \in Nat : n = k + d
    <3>1. n - k \in Nat /\ n = k + (n - k)
        OBVIOUS
    <3> QED
        BY <3>1
  <2>2. n * w = k * w + d * w /\ d * w \in Nat /\ k * w \in Nat
    BY <2>1
  <2> QED
    BY <2>2
<1>4. QED
    BY <1>1, <1>2, <1>3, Zenon

\* The steps of a round with k of n webhooks left, after t attempts for the current one.
LEMMA RoundSteps ==
    ASSUME NEW k \in Nat, NEW n \in Nat, k <= n, NEW t \in 0 .. MaxAttempts - 1
    PROVE  /\ k * HookWeight + 2 < n * HookWeight + 3
           /\ k * HookWeight + (MaxAttempts - 0) + 3 < (k + 1) * HookWeight + 2
           /\ k * HookWeight + 3 < k * HookWeight + (MaxAttempts - t) + 3
           /\ k * HookWeight + 2 < k * HookWeight + (MaxAttempts - t) + 3
           /\ 1 < k * HookWeight + (MaxAttempts - t) + 3
           /\ k * HookWeight + (MaxAttempts - (t + 1)) + 3 < k * HookWeight + (MaxAttempts - t) + 3
           /\ k * HookWeight + 2 < k * HookWeight + 3
           /\ 1 < k * HookWeight + 3
           /\ 0 < k * HookWeight + 2
           /\ k * HookWeight + 2 \in 0 .. n * HookWeight + 6
           /\ k + 1 <= n => /\ k * HookWeight + (MaxAttempts - t) + 3 \in 0 .. n * HookWeight + 6
                           /\ k * HookWeight + 3 \in 0 .. n * HookWeight + 6
<1>1. /\ k * HookWeight \in Nat /\ n * HookWeight \in Nat /\ k * HookWeight <= n * HookWeight
      /\ (k + 1) * HookWeight = k * HookWeight + HookWeight
      /\ k + 1 <= n => (k + 1) * HookWeight <= n * HookWeight
    BY HookWeighs
<1> DEFINE x == k * HookWeight
           y == n * HookWeight
<1>2. /\ x \in Nat /\ y \in Nat /\ x <= y /\ (k + 1) * HookWeight = x + MaxAttempts + 3
      /\ k + 1 <= n => x + MaxAttempts + 3 <= y
    BY <1>1, HookWeighs DEF HookWeight
<1> HIDE DEF x, y
<1>3. /\ x + 2 < y + 3
      /\ x + (MaxAttempts - 0) + 3 < (k + 1) * HookWeight + 2
      /\ x + 3 < x + (MaxAttempts - t) + 3
      /\ x + 2 < x + (MaxAttempts - t) + 3
      /\ 1 < x + (MaxAttempts - t) + 3
      /\ x + (MaxAttempts - (t + 1)) + 3 < x + (MaxAttempts - t) + 3
      /\ x + 2 < x + 3
      /\ 1 < x + 3
      /\ 0 < x + 2
      /\ x + 2 \in 0 .. y + 6
      /\ k + 1 <= n => /\ x + (MaxAttempts - t) + 3 \in 0 .. y + 6
                      /\ x + 3 \in 0 .. y + 6
    BY <1>2 DEF HookWeight
<1>4. QED
    BY <1>3, Zenon DEF x, y

\* The webhooks left are finitely many, and one fewer while a run posts.
LEMMA HooksLeft ==
    ASSUME IsFiniteSet(Hooks), IInv, NEW r \in Runs
    PROVE  /\ Cardinality(Hooks) \in Nat
           /\ Cardinality(todo[r]) \in Nat
           /\ Cardinality(todo[r]) <= Cardinality(Hooks)
           /\ pc[r] \in {"post", "dead_letter"} => Cardinality(todo[r]) + 1 <= Cardinality(Hooks)
           /\ \A h \in todo[r] : /\ Cardinality(todo[r] \ {h}) \in Nat
                                 /\ Cardinality(todo[r]) = Cardinality(todo[r] \ {h}) + 1
<1>1. todo[r] \subseteq Hooks
    BY DEF IInv, TypeOK
<1>2. IsFiniteSet(todo[r])
    BY <1>1, FS_Subset
<1>3. /\ Cardinality(Hooks) \in Nat /\ Cardinality(todo[r]) \in Nat
      /\ Cardinality(todo[r]) <= Cardinality(Hooks)
    BY <1>1, <1>2, FS_Subset, FS_CardinalityType
<1>4. ASSUME pc[r] \in {"post", "dead_letter"}
      PROVE  Cardinality(todo[r]) + 1 <= Cardinality(Hooks)
  <2>1. via[r] \in Hooks /\ via[r] \notin todo[r]
    BY <1>4 DEF IInv, RoundKnows, TypeOK
  <2>2. Cardinality(todo[r] \cup {via[r]}) = Cardinality(todo[r]) + 1
    BY <1>2, <2>1, FS_AddElement
  <2>3. Cardinality(todo[r] \cup {via[r]}) <= Cardinality(Hooks)
    BY <1>1, <2>1, FS_Subset
  <2> QED
    BY <2>2, <2>3
<1>5. ASSUME NEW h \in todo[r]
      PROVE  /\ Cardinality(todo[r] \ {h}) \in Nat
             /\ Cardinality(todo[r]) = Cardinality(todo[r] \ {h}) + 1
  <2>1. IsFiniteSet(todo[r] \ {h}) /\ h \notin todo[r] \ {h} /\ (todo[r] \ {h}) \cup {h} = todo[r]
    BY <1>2, FS_Subset
  <2> QED
    BY <2>1, FS_AddElement, FS_CardinalityType
<1>6. QED
    BY <1>3, <1>4, <1>5

\* A step of the run itself brings it nearer its end.
LEMMA RunStepTaken ==
    ASSUME IsFiniteSet(Hooks), IInv, IInv', NEW r \in Runs,
           Begin(r) \/ RunStep(r) \/ DeadLetterFails(r) \/ Crash(r)
    PROVE  RunLeft(r)' < RunLeft(r)
<1> DEFINE n == Cardinality(Hooks)
           k == Cardinality(todo[r])
<1>1. n \in Nat /\ k \in Nat /\ k <= n /\ tries[r] \in 0 .. MaxAttempts - 1
    BY HooksLeft DEF IInv, TypeOK
<1>2. n * HookWeight \in Nat /\ k * HookWeight \in Nat
    BY <1>1, HookWeighs
<1>3. CASE Begin(r) \/ Scan(r) \/ Commit(r)
  <2>1. \/ pc[r] = "idle" /\ pc'[r] = "running"
        \/ pc[r] = "running" /\ pc'[r] = "commit"
        \/ pc[r] = "commit" /\ pc'[r] = "select"
    BY <1>3 DEF Begin, Scan, Commit, Goto, IInv, TypeOK
  <2>2. \A x \in Nat : x + 5 < x + 6 /\ x + 4 < x + 5 /\ x + 3 < x + 4
    OBVIOUS
  <2> QED
    BY <1>2, <2>1, <2>2 DEF RunLeft
<1>4. CASE Select(r)
  <2>1. pc[r] = "select" /\ pc'[r] = "next"
    BY <1>4 DEF Select, Goto, IInv, TypeOK
  <2>2. Cardinality(todo'[r]) \in Nat /\ Cardinality(todo'[r]) <= n
    <3>1. todo'[r] \subseteq Hooks
        BY DEF IInv, TypeOK
    <3> QED
        BY <3>1, FS_Subset, FS_CardinalityType
  <2>3. Cardinality(todo'[r]) * HookWeight + 2 < n * HookWeight + 3
    BY <1>1, <2>2, RoundSteps
  <2> QED
    BY <2>1, <2>3, Zenon DEF RunLeft
<1>5. CASE Finish(r) \/ MarkFailed(r) \/ Crash(r)
  <2>1. RunLeft(r)' = 0
    BY <1>5 DEF Finish, MarkFailed, Crash, Goto, RunLeft, IInv, TypeOK
  <2>2. RunLeft(r) \in Nat /\ RunLeft(r) > 0
    <3>1. pc[r] \in RunStates \ Over
      BY <1>5 DEF Finish, MarkFailed, Crash, Goto, IInv, RoundKnows, RunStates, Over
    <3>2. \A x \in Nat : \A t \in 0 .. MaxAttempts - 1 :
             x + (MaxAttempts - t) + 3 \in Nat /\ x + (MaxAttempts - t) + 3 > 0
      OBVIOUS
    <3> QED
      BY <1>1, <1>2, <3>1, <3>2 DEF RunLeft, RunStates, Over
  <2> QED
    BY <2>1, <2>2
<1>6. CASE Post(r)
  <2>1. pc[r] = "post" /\ todo'[r] = todo[r]
    BY <1>6 DEF Post, PostDelivered, PostFails, Refuse, PostRaises
  <2>2. \/ pc'[r] \in {"next", "dead_letter", "mark_failed"}
        \/ pc'[r] = "post" /\ tries'[r] = tries[r] + 1
    BY <1>6 DEF Post, PostDelivered, PostFails, Again, GiveUp, PostRaises, Goto, Address, IInv, TypeOK
  <2>3. /\ k * HookWeight + 3 < k * HookWeight + (MaxAttempts - tries[r]) + 3
        /\ k * HookWeight + 2 < k * HookWeight + (MaxAttempts - tries[r]) + 3
        /\ 1 < k * HookWeight + (MaxAttempts - tries[r]) + 3
        /\ k * HookWeight + (MaxAttempts - (tries[r] + 1)) + 3
              < k * HookWeight + (MaxAttempts - tries[r]) + 3
    BY <1>1, RoundSteps
  <2> QED
    BY <2>1, <2>2, <2>3, Zenon DEF RunLeft
<1>7. CASE DeadLetter(r) \/ DeadLetterFails(r)
  <2>1. /\ pc[r] = "dead_letter" /\ todo'[r] = todo[r]
        /\ pc'[r] \in {"next", "mark_failed"}
    BY <1>7 DEF DeadLetter, DeadLetterFails, Goto, IInv, TypeOK
  <2>2. k * HookWeight + 2 < k * HookWeight + 3 /\ 1 < k * HookWeight + 3
    BY <1>1, RoundSteps
  <2> QED
    BY <2>1, <2>2, Zenon DEF RunLeft
<1>8. ASSUME NEW h \in Hooks, NextHook(r, h) PROVE RunLeft(r)' < RunLeft(r)
  <2>1. /\ pc[r] = "next" /\ pc'[r] = "post" /\ tries'[r] = 0
        /\ h \in todo[r] /\ todo'[r] = todo[r] \ {h}
    BY <1>8 DEF NextHook, Goto, Address, IInv, TypeOK
  <2> DEFINE l == Cardinality(todo[r] \ {h})
  <2>2. l \in Nat /\ k = l + 1
    BY <2>1, HooksLeft
  <2>3. l * HookWeight + (MaxAttempts - 0) + 3 < (l + 1) * HookWeight + 2
    BY <1>1, <2>2, RoundSteps
  <2> QED
    BY <2>1, <2>2, <2>3, Zenon DEF RunLeft
<1>9. QED
    BY <1>3, <1>4, <1>5, <1>6, <1>7, <1>8 DEF RunStep

\* Nobody else moves it.
LEMMA RunLeftAlone ==
    ASSUME IInv, Next, NEW r \in Runs,
           ~ (Begin(r) \/ RunStep(r) \/ DeadLetterFails(r) \/ Crash(r))
    PROVE  UNCHANGED Place(r)
<1>1. CASE \E h \in Hooks : Register(h) \/ Delete(h)
    BY <1>1 DEF Register, Delete, Place
<1>2. ASSUME NEW q \in Senders, q # r,
             \/ q \in Runs /\ (Begin(q) \/ RunStep(q) \/ DeadLetterFails(q) \/ Crash(q))
             \/ q \in Redrives /\ (RedriveStep(q) \/ RemoveFails(q))
             \/ q \in Redrives /\ \E e \in Entries : FindEntry(q, e)
      PROVE  UNCHANGED Place(r)
  <2>1. pc'[r] = pc[r] /\ tries'[r] = tries[r]
    BY <1>2 DEF Begin, RunStep, Scan, Commit, Select, Finish, DeadLetter, MarkFailed, NextHook,
       DeadLetterFails, Crash, RedriveStep, FindHook, FindScan, Remove, RemoveFails, FindEntry,
       Respond, Post, PostDelivered, PostFails, Refuse, Again, GiveUp, PostRaises, Goto, Address,
       IInv, TypeOK
  <2>2. todo'[r] = todo[r]
    BY <1>2 DEF Begin, RunStep, Scan, Commit, Select, Finish, DeadLetter, MarkFailed, NextHook,
       DeadLetterFails, Crash, RedriveStep, FindHook, FindScan, Remove, RemoveFails, FindEntry,
       Respond, Post, PostDelivered, PostFails, Refuse, Again, GiveUp, PostRaises, IInv, TypeOK
  <2> QED
    BY <2>1, <2>2 DEF Place
<1>3. QED
    BY <1>1, <1>2 DEF Next

\* However receivers answer, and whatever redeliveries, re-drives and customers do
\* meanwhile, a round cannot go on for ever: every step of a run uses up one of
\* |Hooks| * (MAX_ATTEMPTS + 3) + 6 steps, and nobody gives it another (dispatch_report,
\* deliver).  RoundEnds adds that a worker that runs takes its steps, unless an answer
\* it waits for never ends.
THEOREM RoundsAreFinite ==
    ASSUME IsFiniteSet(Hooks)
    PROVE  Spec => /\ [](\A r \in Runs : RunLeft(r) \in 0 .. Cardinality(Hooks) * HookWeight + 6)
                   /\ [][\A r \in Runs : RunLeft(r)' < RunLeft(r) \/ UNCHANGED Place(r)]_vars
<1>1. ASSUME IInv
      PROVE  \A r \in Runs : RunLeft(r) \in 0 .. Cardinality(Hooks) * HookWeight + 6
  <2> SUFFICES ASSUME NEW r \in Runs PROVE RunLeft(r) \in 0 .. Cardinality(Hooks) * HookWeight + 6
    OBVIOUS
  <2> DEFINE n == Cardinality(Hooks)
             k == Cardinality(todo[r])
  <2>1. n \in Nat /\ k \in Nat /\ k <= n /\ tries[r] \in 0 .. MaxAttempts - 1
    BY <1>1, HooksLeft DEF IInv, TypeOK
  <2>2. \A x \in Nat : /\ x + 6 \in 0 .. x + 6 /\ x + 5 \in 0 .. x + 6 /\ x + 4 \in 0 .. x + 6
                       /\ x + 3 \in 0 .. x + 6 /\ 1 \in 0 .. x + 6 /\ 0 \in 0 .. x + 6
    OBVIOUS
  <2>3. n * HookWeight \in Nat
    BY <2>1, HookWeighs
  <2>4. CASE pc[r] \in {"next", "post", "dead_letter"}
    <3>1. k * HookWeight + 2 \in 0 .. n * HookWeight + 6
      BY <2>1, RoundSteps
    <3>2. pc[r] # "next" => /\ k * HookWeight + (MaxAttempts - tries[r]) + 3 \in 0 .. n * HookWeight + 6
                            /\ k * HookWeight + 3 \in 0 .. n * HookWeight + 6
      BY <1>1, <2>1, <2>4, HooksLeft, RoundSteps
    <3> QED
      BY <2>4, <3>1, <3>2, Zenon DEF RunLeft
  <2>5. CASE pc[r] \notin {"next", "post", "dead_letter"}
    BY <2>2, <2>3, <2>5, Zenon DEF RunLeft
  <2> QED
    BY <2>4, <2>5
<1>2. ASSUME IInv, IInv', Next
      PROVE  \A r \in Runs : RunLeft(r)' < RunLeft(r) \/ UNCHANGED Place(r)
    BY <1>2, RunStepTaken, RunLeftAlone
<1>3. QED
    BY <1>1, <1>2, Invariance, PTL DEF Spec

-----------------------------------------------------------------------------
(***************************************************************************)
(* The runs are tasks of ScanLifecycle.                                    *)
(***************************************************************************)
Task == [r \in Runs |-> IF pc[r] = "crashed" THEN None ELSE RunScan[r]]
Step == [r \in Runs |-> TaskStep(r)]
Attempt == [r \in Runs |-> IF Started(r) THEN 1 ELSE 0]
Verdict == [r \in Runs |-> IF Scanned(r) THEN "completed" ELSE "none"]

\* Whatever moves no run leaves the tasks alone.
LEMMA LifecycleFrame ==
    ASSUME status' = status, Step' = Step, Task' = Task, Attempt' = Attempt, Verdict' = Verdict
    PROVE  UNCHANGED Lifecycle!vars
BY DEF Lifecycle!vars, Lifecycle!apiVars, Lifecycle!rowVars, Lifecycle!brokerVars,
   Lifecycle!workVars, Step, Task, Attempt, Verdict

LEMMA NobodyMoves ==
    ASSUME \A q \in Runs : pc'[q] = pc[q]
    PROVE  Step' = Step /\ Task' = Task /\ Attempt' = Attempt /\ Verdict' = Verdict
BY DEF Step, TaskStep, Task, Attempt, Verdict, Started, Scanned

\* A run that moves takes its task along, and no other.
LEMMA RunMoves ==
    ASSUME TypeOK, NEW r \in Runs, NEW to, pc' = [pc EXCEPT ![r] = to]
    PROVE  /\ pc'[r] = to
           /\ Step' = [Step EXCEPT ![r] = TaskStep(r)']
           /\ pc[r] # "crashed" /\ to # "crashed" => Task' = Task
           /\ Started(r) /\ Started(r)' => Attempt' = Attempt
           /\ Scanned(r) /\ Scanned(r)' => Verdict' = Verdict
<1>1. pc'[r] = to /\ \A q \in Runs \ {r} : pc'[q] = pc[q]
    BY DEF TypeOK
<1>2. Step' = [Step EXCEPT ![r] = TaskStep(r)']
    BY <1>1 DEF Step, TaskStep
<1>3. pc[r] # "crashed" /\ to # "crashed" => Task' = Task
    BY <1>1 DEF Task
<1>4. Started(r) /\ Started(r)' => Attempt' = Attempt
    BY <1>1 DEF Attempt, Started
<1>5. Scanned(r) /\ Scanned(r)' => Verdict' = Verdict
    BY <1>1 DEF Verdict, Scanned, Started
<1>6. QED
    BY <1>1, <1>2, <1>3, <1>4, <1>5

\* The steps before the round.
LEMMA RunStarts == ASSUME TypeOK, NEW r \in Runs, Begin(r) PROVE Lifecycle!Start(r)
<1>1. pc[r] = "idle" /\ pc' = [pc EXCEPT ![r] = "running"] /\ pc'[r] = "running"
    BY DEF Begin, Goto, TypeOK
<1>2. TaskStep(r) = "start" /\ TaskStep(r)' = "scan" /\ Task[r] = RunScan[r]
    BY <1>1 DEF TaskStep, Task
<1>3. Step[r] = "start" /\ Step' = [Step EXCEPT ![r] = "scan"] /\ Task' = Task
    BY <1>1, <1>2, RunMoves DEF Step
<1>4. Attempt' = [Attempt EXCEPT ![r] = 1] /\ Verdict' = Verdict
    BY <1>1 DEF Attempt, Verdict, Started, Scanned, TypeOK
<1>5. status' = [status EXCEPT ![Task[r]] = "running"]
    BY <1>2 DEF Begin, SetStatus
<1>6. QED
    BY <1>3, <1>4, <1>5 DEF Lifecycle!Start, Lifecycle!Move, Lifecycle!apiVars,
       Lifecycle!brokerVars, Step, Task, Attempt, Verdict

LEMMA RunScans == ASSUME TypeOK, NEW r \in Runs, Scan(r) PROVE Lifecycle!ScanOnce(r)
<1>1. pc[r] = "running" /\ pc' = [pc EXCEPT ![r] = "commit"] /\ pc'[r] = "commit" /\ status' = status
    BY DEF Scan, Goto, TypeOK
<1>2. TaskStep(r) = "scan" /\ TaskStep(r)' = "persist" /\ Started(r) /\ Started(r)'
    BY <1>1 DEF TaskStep, Started
<1>3. /\ Step[r] = "scan" /\ Step' = [Step EXCEPT ![r] = "persist"]
      /\ Task' = Task /\ Attempt' = Attempt
    BY <1>1, <1>2, RunMoves DEF Step
<1>4. Verdict' = [Verdict EXCEPT ![r] = "completed"]
    BY <1>1 DEF Verdict, Started, Scanned, TypeOK
<1>5. Lifecycle!Move(r, "scan", "persist")
    BY <1>3 DEF Lifecycle!Move, Step
<1>6. QED
    BY <1>1, <1>3, <1>4, <1>5 DEF Lifecycle!ScanOnce, Lifecycle!apiVars, Lifecycle!rowVars,
       Lifecycle!brokerVars, Task, Attempt, Verdict

LEMMA RunCommits == ASSUME TypeOK, NEW r \in Runs, Commit(r) PROVE Lifecycle!Persist(r)
<1>1. pc[r] = "commit" /\ pc' = [pc EXCEPT ![r] = "select"] /\ pc'[r] = "select"
    BY DEF Commit, Goto, TypeOK
<1>2. /\ TaskStep(r) = "persist" /\ TaskStep(r)' = "hooks" /\ Task[r] = RunScan[r]
      /\ Started(r) /\ Started(r)' /\ Scanned(r) /\ Scanned(r)'
    BY <1>1 DEF TaskStep, Task, Started, Scanned
<1>3. /\ Step[r] = "persist" /\ Step' = [Step EXCEPT ![r] = "hooks"]
      /\ Task' = Task /\ Attempt' = Attempt /\ Verdict' = Verdict
    BY <1>1, <1>2, RunMoves DEF Step
<1>4. Attempt[r] = 1 /\ Verdict[r] = "completed"
    BY <1>2 DEF Attempt, Verdict
<1>5. status' = [status EXCEPT ![Task[r]] = Verdict[r]]
    BY <1>2, <1>4 DEF Commit, SetStatus
<1>6. /\ [s \in Scans |-> "completed"] = [[s \in Scans |-> "completed"] EXCEPT ![Task[r]] = Verdict[r]]
      /\ [s \in Scans |-> 1] = [[s \in Scans |-> 1] EXCEPT ![Task[r]] = Attempt[r]]
    BY <1>4
<1>7. QED
    BY <1>3, <1>5, <1>6 DEF Lifecycle!Persist, Lifecycle!Move, Lifecycle!apiVars,
       Lifecycle!brokerVars, Step, Task, Attempt, Verdict

\* The round: its beginning, its end, and everything in between.
LEMMA RunSelects == ASSUME TypeOK, NEW r \in Runs, Select(r) PROVE Lifecycle!SelectHooks(r)
<1>1. pc[r] = "select" /\ pc' = [pc EXCEPT ![r] = "next"] /\ pc'[r] = "next" /\ status' = status
    BY DEF Select, Goto, TypeOK
<1>2. /\ TaskStep(r) = "hooks" /\ TaskStep(r)' = "dispatch"
      /\ Started(r) /\ Started(r)' /\ Scanned(r) /\ Scanned(r)'
    BY <1>1 DEF TaskStep, Started, Scanned
<1>3. /\ Step[r] = "hooks" /\ Step' = [Step EXCEPT ![r] = "dispatch"]
      /\ Task' = Task /\ Attempt' = Attempt /\ Verdict' = Verdict
    BY <1>1, <1>2, RunMoves DEF Step
<1>4. Lifecycle!Move(r, "hooks", "dispatch")
    BY <1>3 DEF Lifecycle!Move, Step
<1>5. QED
    BY <1>1, <1>3, <1>4 DEF Lifecycle!SelectHooks, Lifecycle!apiVars, Lifecycle!rowVars,
       Lifecycle!brokerVars, Task, Attempt, Verdict

LEMMA RunFinishes == ASSUME TypeOK, NEW r \in Runs, Finish(r) PROVE Lifecycle!Dispatch(r)
<1>1. pc[r] = "next" /\ pc' = [pc EXCEPT ![r] = "done"] /\ pc'[r] = "done" /\ status' = status
    BY DEF Finish, Goto, TypeOK
<1>2. /\ TaskStep(r) = "dispatch" /\ TaskStep(r)' = "cache"
      /\ Started(r) /\ Started(r)' /\ Scanned(r) /\ Scanned(r)'
    BY <1>1 DEF TaskStep, Started, Scanned
<1>3. /\ Step[r] = "dispatch" /\ Step' = [Step EXCEPT ![r] = "cache"]
      /\ Task' = Task /\ Attempt' = Attempt /\ Verdict' = Verdict /\ Verdict[r] = "completed"
    BY <1>1, <1>2, RunMoves DEF Step, Verdict
<1>4. Lifecycle!AfterHooks(r) = "cache"
    BY <1>3 DEF Lifecycle!AfterHooks, Verdict
<1>5. Lifecycle!Move(r, "dispatch", Lifecycle!AfterHooks(r))
    BY <1>3, <1>4 DEF Lifecycle!Move, Step
<1>6. QED
    BY <1>1, <1>3, <1>5 DEF Lifecycle!Dispatch, Lifecycle!apiVars, Lifecycle!rowVars,
       Lifecycle!brokerVars, Task, Attempt, Verdict

LEMMA RoundGoesOn ==
    ASSUME TypeOK, NEW r \in Runs, NEW to \in {"next", "post", "dead_letter"},
           pc[r] \in {"next", "post", "dead_letter"}, pc' = [pc EXCEPT ![r] = to],
           status' = status
    PROVE  UNCHANGED Lifecycle!vars
<1>0. pc'[r] = to
    BY RunMoves
<1>1. /\ TaskStep(r) = "dispatch" /\ TaskStep(r)' = "dispatch"
      /\ Started(r) /\ Started(r)' /\ Scanned(r) /\ Scanned(r)'
    BY <1>0 DEF TaskStep, Started, Scanned
<1>2. Step' = Step /\ Task' = Task /\ Attempt' = Attempt /\ Verdict' = Verdict
    BY <1>1, RunMoves DEF Step
<1>3. QED
    BY <1>2, LifecycleFrame

\* Its failures.
LEMMA RoundRaises ==
    ASSUME TypeOK, NEW r \in Runs, pc[r] \in {"post", "dead_letter"},
           pc' = [pc EXCEPT ![r] = "mark_failed"], status' = status
    PROVE  Lifecycle!Raise(r)
<1>0. pc'[r] = "mark_failed"
    BY RunMoves
<1>1. /\ TaskStep(r) = "dispatch" /\ TaskStep(r)' = "mark_failed"
      /\ Started(r) /\ Started(r)' /\ Scanned(r) /\ Scanned(r)'
    BY <1>0 DEF TaskStep, Started, Scanned
<1>2. /\ Step[r] = "dispatch" /\ Step' = [Step EXCEPT ![r] = "mark_failed"]
      /\ Task' = Task /\ Attempt' = Attempt /\ Verdict' = Verdict
    BY <1>1, RunMoves DEF Step
<1>3. QED
    BY <1>2 DEF Lifecycle!Raise, Lifecycle!CanFail, Lifecycle!BeforeCommit,
       Lifecycle!AfterCommit, Lifecycle!apiVars, Lifecycle!rowVars, Lifecycle!brokerVars,
       Step, Task, Attempt, Verdict

LEMMA RunFails == ASSUME TypeOK, NEW r \in Runs, MarkFailed(r) PROVE Lifecycle!MarkFailed(r)
<1>1. pc[r] = "mark_failed" /\ pc' = [pc EXCEPT ![r] = "raised"] /\ pc'[r] = "raised"
    BY DEF MarkFailed, Goto, TypeOK
<1>2. /\ TaskStep(r) = "mark_failed" /\ TaskStep(r)' = "raised" /\ Task[r] = RunScan[r]
      /\ Started(r) /\ Started(r)' /\ Scanned(r) /\ Scanned(r)'
    BY <1>1 DEF TaskStep, Task, Started, Scanned
<1>3. /\ Step[r] = "mark_failed" /\ Step' = [Step EXCEPT ![r] = "raised"]
      /\ Task' = Task /\ Attempt' = Attempt /\ Verdict' = Verdict
    BY <1>1, <1>2, RunMoves DEF Step
<1>4. status' = [status EXCEPT ![Task[r]] = "failed"]
    BY <1>2 DEF MarkFailed, SetStatus
<1>5. QED
    BY <1>3, <1>4 DEF Lifecycle!MarkFailed, Lifecycle!Move, Lifecycle!apiVars,
       Lifecycle!brokerVars, Step, Task, Attempt, Verdict

LEMMA RunCrashes == ASSUME IInv, NEW r \in Runs, Crash(r) PROVE Lifecycle!Crash(r)
<1>0. TypeOK /\ pc[r] \in RunStates
    BY DEF IInv, RoundKnows
<1>1. /\ pc[r] \in RunStates \ (Over \cup {"idle"}) /\ pc' = [pc EXCEPT ![r] = "crashed"]
      /\ status' = status
    BY <1>0 DEF Crash
<1>2. TaskStep(r) # "idle" /\ TaskStep(r)' = "idle" /\ Task[r] = RunScan[r]
    BY <1>0, <1>1, RunMoves DEF TaskStep, Task, RunStates, Over
<1>3. Step[r] # "idle" /\ Step' = [Step EXCEPT ![r] = "idle"]
    BY <1>0, <1>1, <1>2, RunMoves DEF Step
<1>4. pc'[r] = "crashed" /\ \A q \in Runs \ {r} : pc'[q] = pc[q]
    BY <1>0, <1>1 DEF TypeOK
<1>5. Task' = [Task EXCEPT ![r] = None] /\ Attempt' = [Attempt EXCEPT ![r] = 0]
    BY <1>4 DEF Task, Attempt, Started
<1>6. Verdict' = [Verdict EXCEPT ![r] = "none"]
    BY <1>4 DEF Verdict, Scanned, Started
<1>7. [s \in Scans |-> 1][Task[r]] < 2
    BY <1>2
<1>8. Lifecycle!Drop(r)
    BY <1>3, <1>5, <1>6 DEF Lifecycle!Drop, Step, Task, Attempt, Verdict
<1>9. QED
    BY <1>1, <1>3, <1>7, <1>8 DEF Lifecycle!Crash, Lifecycle!CanFail, Lifecycle!apiVars,
       Lifecycle!rowVars, Lifecycle!brokerVars, Step, Task

\* A re-drive moves no run, and leaves every row of scans alone.
LEMMA RedriveStutters ==
    ASSUME TypeOK, NEW d \in Redrives,
           \/ RedriveStep(d) \/ RemoveFails(d)
           \/ \E e \in Entries : FindEntry(d, e)
    PROVE  UNCHANGED Lifecycle!vars
<1>1. status' = status /\ \A q \in Runs : pc'[q] = pc[q]
    BY DEF RedriveStep, FindHook, FindScan, Remove, RemoveFails, FindEntry, Respond, Goto, Post,
       PostDelivered, PostFails, Refuse, Again, GiveUp, PostRaises, TypeOK
<1>2. QED
    BY <1>1, NobodyMoves, LifecycleFrame

\* A POST of a run is within its round, or ends it with an exception.
LEMMA RunPosts ==
    ASSUME TypeOK, NEW r \in Runs, Post(r)
    PROVE  Lifecycle!Raise(r) \/ UNCHANGED Lifecycle!vars
<1>1. /\ pc[r] = "post" /\ status' = status
      /\ \E to \in {"next", "post", "dead_letter", "mark_failed"} : pc' = [pc EXCEPT ![r] = to]
    BY DEF Post, PostDelivered, PostFails, Refuse, Again, GiveUp, PostRaises, Goto
<1>2. CASE pc' = [pc EXCEPT ![r] = "mark_failed"]
    BY <1>1, <1>2, RoundRaises
<1>3. ASSUME NEW to \in {"next", "post", "dead_letter"}, pc' = [pc EXCEPT ![r] = to]
      PROVE  UNCHANGED Lifecycle!vars
    BY <1>1, <1>3, RoundGoesOn
<1>4. QED
    BY <1>1, <1>2, <1>3

\* For any webhooks, receivers, re-drives and runs of any scans: what the delivery
\* does to the scans is what ScanLifecycle lets its tasks do.
THEOREM DeliveryRefinesLifecycle == Spec => RefinesLifecycle
<1>1. ASSUME IInv, [Next]_vars PROVE Lifecycle!Next \/ UNCHANGED Lifecycle!vars
  <2>0. TypeOK
    BY <1>1 DEF IInv
  <2>1. ASSUME UNCHANGED <<pc, status>> PROVE UNCHANGED Lifecycle!vars
    BY <2>1, NobodyMoves, LifecycleFrame
  <2>2. CASE UNCHANGED vars \/ \E h \in Hooks : Register(h) \/ Delete(h)
    BY <2>1, <2>2 DEF vars, Register, Delete
  <2>3. ASSUME NEW r \in Runs, Begin(r) \/ Scan(r) \/ Commit(r) \/ Select(r) \/ Finish(r) \/ MarkFailed(r)
        PROVE  Lifecycle!Next
    BY <2>0, <2>3, RunStarts, RunScans, RunCommits, RunSelects, RunFinishes, RunFails
       DEF Lifecycle!Next, Lifecycle!WorkerStep
  <2>4. ASSUME NEW r \in Runs, Post(r) \/ DeadLetterFails(r) \/ Crash(r)
        PROVE  Lifecycle!Next \/ UNCHANGED Lifecycle!vars
    <3>1. CASE Post(r)
        BY <2>0, <3>1, RunPosts DEF Lifecycle!Next, Lifecycle!WorkerFault
    <3>2. CASE DeadLetterFails(r)
        BY <2>0, <3>2, RoundRaises DEF DeadLetterFails, Goto, Lifecycle!Next, Lifecycle!WorkerFault
    <3>3. CASE Crash(r)
        BY <1>1, <3>3, RunCrashes DEF Lifecycle!Next, Lifecycle!WorkerFault
    <3>4. QED
        BY <2>4, <3>1, <3>2, <3>3
  <2>5. ASSUME NEW r \in Runs, DeadLetter(r) \/ \E h \in Hooks : NextHook(r, h)
        PROVE  UNCHANGED Lifecycle!vars
    BY <2>0, <2>5, RoundGoesOn DEF DeadLetter, NextHook, Goto
  <2>6. QED
    BY <1>1, <2>0, <2>2, <2>3, <2>4, <2>5, RedriveStutters DEF Next, RunStep
<1>2. QED
    BY <1>1, Invariance, PTL DEF Spec, RefinesLifecycle
=============================================================================
