------------------------------- MODULE Report -------------------------------
(***************************************************************************)
(* From what a page shows to what changed on it: the five detectors        *)
(* (engine/detectors), their runner (pipeline/runner.py), the scores       *)
(* (pipeline/scoring.py), the report (pipeline/aggregator.py), the rows it *)
(* is kept in (pipeline/persist.py), and the diff of two reports           *)
(* (pipeline/diff.py).                                                     *)
(*                                                                         *)
(* A page is what its signatures and markers say of it; matching patterns  *)
(* with text is left out.  Confidences are in thousandths.                 *)
(***************************************************************************)
EXTENDS Integers, FiniteSets, Functions

CONSTANTS
    AuthSigs, GenericSigs,           \* login providers; those that name no vendor
    CaptchaSigs, ScoreSigs, V2Sigs,  \* captchas; by score; reCAPTCHA v2
    WafSigs, FingerprintSigs,
    Flows,                           \* login flows
    Tier,                            \* WAF_TIER, 3 for a WAF it does not list
    Base,                            \* confidence of a signature, in percent
    Defined,                         \* kinds of signals a signature defines
    NameRank,                        \* place of its name in the alphabet
    None, Custom,                    \* no provider; the provider "custom"
    Reads                            \* "browser_fingerprint_collection"

Signatures == AuthSigs \cup CaptchaSigs \cup WafSigs \cup FingerprintSigs
Detectors == {"auth", "security", "captcha", "waf", "fingerprinting"}
Headers == {"hsts", "csp", "xfo", "referrer", "permissions"}
CookieIssues == {"secure", "httponly", "samesite"}

ASSUME SignaturesAssumption ==
    /\ GenericSigs \subseteq AuthSigs
    /\ ScoreSigs \subseteq CaptchaSigs /\ V2Sigs \subseteq CaptchaSigs
    /\ None \notin Signatures \cup {Custom} /\ Custom \notin Signatures
    /\ Reads \notin FingerprintSigs
    /\ IsFiniteSet(Signatures)
    /\ \A s, t \in CaptchaSigs : NameRank[s] = NameRank[t] => s = t
ASSUME WeightsAssumption ==
    /\ Tier \in [WafSigs -> 1 .. 3]
    /\ Base \in [Signatures -> 0 .. 100]
    /\ Defined \in [Signatures -> Nat \ {0}]
    /\ NameRank \in [Signatures -> Nat]

\* What the detectors read of a PageArtifact.
Artifacts ==
    [hits : [Signatures -> Nat],     \* kinds of signals that matched
     renders : BOOLEAN,              \* reCAPTCHA with a render= parameter
     widgets : SUBSET CaptchaSigs,   \* captchas with a widget in the page
     reads : BOOLEAN,                \* canvas or WebGL is read back
     headers : SUBSET Headers, cookies : SUBSET CookieIssues,
     csrf : BOOLEAN, mfa : BOOLEAN, honeypot : BOOLEAN,
     passwordField : BOOLEAN, loginField : BOOLEAN,
     flows : SUBSET Flows, blocked : BOOLEAN]

Least(x, y) == IF x <= y THEN x ELSE y
Greatest(x, y) == IF x >= y THEN x ELSE y

-----------------------------------------------------------------------------
(***************************************************************************)
(* The detectors.                                                          *)
(***************************************************************************)
Matched(a, sigs) == {s \in sigs : a.hits[s] > 0}

\* confidence_for_signals: base times a factor in percent, to three digits.
Confidence(s, n) ==
    LET factor == IF n <= 1 THEN 70 ELSE IF n = 2 THEN 85 ELSE 100
        all == IF n >= Defined[s] /\ n > 1 THEN Greatest(factor, 95) ELSE factor
    IN  Least(990, (Base[s] * all + 5) \div 10)

\* Vendors before generic signatures, then more signals, then more confidence.
Prefers(a, s, t) ==
    \/ s \notin GenericSigs /\ t \in GenericSigs
    \/ /\ s \in GenericSigs <=> t \in GenericSigs
       /\ \/ a.hits[s] > a.hits[t]
          \/ /\ a.hits[s] = a.hits[t]
             /\ Confidence(s, a.hits[s]) > Confidence(t, a.hits[t])

\* Among equals the first in the order of the signatures wins, and that is the
\* order in which a SELECT without ORDER BY returned the rows: any.
Winners(a) ==
    LET candidates == Matched(a, AuthSigs)
    IN  {s \in candidates : \A t \in candidates : ~ Prefers(a, t, s)}

Provider(a, winner) ==
    IF winner # None THEN IF winner \in GenericSigs /\ a.loginField THEN Custom ELSE winner
    ELSE IF a.loginField THEN Custom ELSE None

\* The v2 signatures must not fire on a score-based reCAPTCHA.
Captchas(a) == {s \in Matched(a, CaptchaSigs) : ~ (s \in V2Sigs /\ a.renders)}

CaptchaConfidence(widgets, s) ==
    IF s \in widgets THEN Least(990, 10 * Base[s] + 30) ELSE 10 * Base[s]

\* A block without a known vendor is a finding without provider: nobody uses it.
Wafs(a) == Matched(a, WafSigs)

\* Reads of canvas or WebGL are a finding of their own.
Fingerprinting(a) ==
    Matched(a, FingerprintSigs) \cup (IF a.reads THEN {Reads} ELSE {})

Posture(a) ==
    [headers |-> a.headers, cookies |-> a.cookies, csrf |-> a.csrf, mfa |-> a.mfa]

\* What the detectors that work find of a page.
FoundBy(a, working, winner) ==
    [provider |-> IF "auth" \in working THEN Provider(a, winner) ELSE None,
     flows |-> IF "auth" \in working THEN a.flows ELSE {},
     security |-> IF "security" \in working THEN {Posture(a)} ELSE {},
     captchas |-> IF "captcha" \in working THEN Captchas(a) ELSE {},
     wafs |-> IF "waf" \in working THEN Wafs(a) ELSE {},
     fingerprinting |-> IF "fingerprinting" \in working THEN Fingerprinting(a) ELSE {}]

\* Bug: one detector that fails takes all findings along.
FindingsOrNothing(a, failed, winner) ==
    FoundBy(a, IF failed = {} THEN Detectors ELSE {}, winner)

\* run_detectors: the findings of one that raises or runs out of time are missing.
Findings(a, failed, winner) == FoundBy(a, Detectors \ failed, winner)

-----------------------------------------------------------------------------
(***************************************************************************)
(* HeuristicScoring.                                                       *)
(***************************************************************************)
WafCap == 40
CaptchaCap == 25
FingerprintCap == 20

WafPoints(s) == <<22, 16, 10>>[Tier[s]]
CaptchaPoints(widgets, s) ==
    IF s \in ScoreSigs THEN 20 ELSE IF s \in widgets THEN 12 ELSE 16

\* Bug: a finding that does not fit below the cap any more is left out.
SkipAtCap(points, cap) ==
    FoldFunction(LAMBDA p, got : IF got + p <= cap THEN got + p ELSE got, 0, points)

\* One finding after the other adds what is left below the cap.
UpToCap(points, cap) ==
    FoldFunction(LAMBDA p, got : got + Least(p, cap - got), 0, points)

FingerprintPoints(s) == IF s = Reads THEN 5 ELSE 7

If(condition, points) == IF condition THEN points ELSE 0

\* _difficulty_factors; the caps of the categories let 102 through.
SumOfFactors(a, f) ==
    UpToCap([w \in f.wafs |-> WafPoints(w)], WafCap)
      + UpToCap([c \in f.captchas |-> CaptchaPoints(a.widgets, c)], CaptchaCap)
      + UpToCap([p \in f.fingerprinting |-> FingerprintPoints(p)], FingerprintCap)
      + If(a.blocked, 10) + If(a.honeypot, 4) + If(\E p \in f.security : p.csrf, 3)

Difficulty(a, f) == Least(100, SumOfFactors(a, f))

\* Nothing is at risk where the security detector found nothing.
RiskOf(p, passwordField) ==
    If("hsts" \notin p.headers, 20) + If("csp" \notin p.headers, 20)
      + If("xfo" \notin p.headers, 10) + If("referrer" \notin p.headers, 5)
      + If("permissions" \notin p.headers, 5)
      + Least(18, 6 * Cardinality(p.cookies))
      + If(passwordField /\ ~ p.csrf, 10) + If(~ p.mfa, 10)

Risk(a, f) ==
    IF f.security = {} THEN 0
    ELSE Least(100, RiskOf(CHOOSE p \in f.security : TRUE, a.passwordField))

-----------------------------------------------------------------------------
(***************************************************************************)
(* aggregate, persist_report and the Snapshot of the rows.                 *)
(***************************************************************************)
\* The captcha of most confidence, of the last name among equals.
TopCaptcha(widgets, found) ==
    IF found = {} THEN None
    ELSE CHOOSE s \in found : \A t \in found \ {s} :
            \/ CaptchaConfidence(widgets, s) > CaptchaConfidence(widgets, t)
            \/ CaptchaConfidence(widgets, s) = CaptchaConfidence(widgets, t) /\ NameRank[s] > NameRank[t]

\* The three rows a scan's findings are kept in, and the scores in its own row.
NoRow == [there |-> FALSE]

AuthRow(f) ==
    IF f.provider = None THEN NoRow
    ELSE [there |-> TRUE, provider |-> f.provider, flows |-> f.flows]

SecurityRow(f) ==
    [there |-> TRUE,
     hsts |-> \E p \in f.security : "hsts" \in p.headers,
     csp |-> \E p \in f.security : "csp" \in p.headers,
     csrf |-> \E p \in f.security : p.csrf,
     mfa |-> \E p \in f.security : p.mfa]

AntibotRow(a, f) ==
    LET top == TopCaptcha(a.widgets, f.captchas)
    IN  [there |-> TRUE,
         captcha |-> top,
         visible |-> IF top = None THEN None ELSE top \in a.widgets,
         wafs |-> f.wafs,
         fingerprinting |-> f.fingerprinting]

Scores(a, f) == [difficulty |-> Difficulty(a, f), risk |-> Risk(a, f)]
NoScores == [difficulty |-> None, risk |-> None]

\* A missing row stands for its defaults.
Snapshot(auth, security, antibot, scores) ==
    [provider |-> IF auth.there THEN auth.provider ELSE None,
     flows |-> IF auth.there THEN auth.flows ELSE {},
     captcha |-> IF antibot.there THEN antibot.captcha ELSE None,
     visible |-> IF antibot.there THEN antibot.visible ELSE None,
     wafs |-> IF antibot.there THEN antibot.wafs ELSE {},
     fingerprinting |-> IF antibot.there THEN antibot.fingerprinting ELSE {},
     hsts |-> security.there /\ security.hsts, csp |-> security.there /\ security.csp,
     csrf |-> security.there /\ security.csrf, mfa |-> security.there /\ security.mfa,
     difficulty |-> scores.difficulty, risk |-> scores.risk]

-----------------------------------------------------------------------------
(***************************************************************************)
(* compute_diff.                                                           *)
(***************************************************************************)
Values == {"provider", "captcha", "visible", "hsts", "csp", "csrf", "mfa"}
Lists  == {"flows", "wafs", "fingerprinting"}
Points == {"difficulty", "risk"}

\* _list_delta: what came and what went.
ListDelta(before, after) == [added |-> after \ before, removed |-> before \ after]
NoDelta == [added |-> {}, removed |-> {}]

Changed(before, after) == [before |-> before, after |-> after]

\* Bug: a list that only lost members counts as unchanged.
GrownLists(current, previous) == {f \in Lists : ~ current[f] \subseteq previous[f]}

ChangedLists(current, previous) ==
    {f \in Lists : ListDelta(previous[f], current[f]) # NoDelta}

ChangedValues(current, previous) == {f \in Values : current[f] # previous[f]}

\* A score that is not there yet is not compared.
ChangedPoints(current, previous) ==
    {f \in Points : None \notin {current[f], previous[f]} /\ current[f] # previous[f]}

\* The changes, by field.
Diff(current, previous) ==
    LET lists == ChangedLists(current, previous)
        others == ChangedValues(current, previous) \cup ChangedPoints(current, previous)
    IN  [f \in lists \cup others |->
            IF f \in lists THEN ListDelta(previous[f], current[f])
            ELSE Changed(previous[f], current[f])]
=============================================================================
