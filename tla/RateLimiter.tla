---------------------------- MODULE RateLimiter ----------------------------
(***************************************************************************)
(* The fixed-window rate limiter of one API key: check_rate_limit in       *)
(* api/deps.py, called by concurrent requests.  The clock is read, and the *)
(* counter of that window is incremented and, when new, given its time to  *)
(* live, in separate round trips to Redis.                                 *)
(*                                                                         *)
(* Time is a window number and an offset in it.  Nothing bounds the time   *)
(* between two steps of a request.                                         *)
(***************************************************************************)
EXTENDS Naturals, FiniteSets

CONSTANTS
    Requests,      \* requests with the key, each made once
    Limit,         \* rate_limit_per_minute
    Length,        \* seconds in a window, and time to live of a counter: 60
    MaxWindow      \* bound: the last window of the model

ASSUME LimitAssumption == Limit \in Nat
ASSUME LengthAssumption == Length \in Nat \ {0}
ASSUME MaxWindowAssumption == MaxWindow \in Nat

VARIABLES
    window, offset,  \* the time
    count,           \* the counter of each window, 0 while there is no key
    expiry,          \* when its key expires, or Never
    pc,              \* where each request stands
    key,             \* the window it read from the clock
    ticket,          \* what INCR returned to it, 0 before
    late             \* windows of which a counter was incremented after their end

vars == <<window, offset, count, expiry, pc, key, ticket, late>>

Windows == 0 .. MaxWindow
Offsets == 0 .. Length - 1
Moments == [window : 0 .. MaxWindow + 2, offset : Offsets]
At(w, o) == [window |-> w, offset |-> o]
Never == At(MaxWindow + 2, 0)

Init ==
    /\ window = 0 /\ offset \in Offsets
    /\ count = [k \in Windows |-> 0]
    /\ expiry = [k \in Windows |-> Never]
    /\ pc = [r \in Requests |-> "idle"]
    /\ key = [r \in Requests |-> 0]
    /\ ticket = [r \in Requests |-> 0]
    /\ late = {}

-----------------------------------------------------------------------------
Tick ==
    /\ \/ /\ offset + 1 < Length
          /\ offset' = offset + 1
          /\ UNCHANGED window
       \/ /\ offset + 1 = Length
          /\ window < MaxWindow
          /\ window' = window + 1 /\ offset' = 0
    /\ UNCHANGED <<count, expiry, pc, key, ticket, late>>

\* Bug: the window is rounded up.
ReadClockRoundedUp(r) ==
    /\ pc[r] = "idle"
    /\ pc' = [pc EXCEPT ![r] = "incr"]
    /\ key' = [key EXCEPT ![r] = IF offset = 0 THEN window ELSE window + 1]
    /\ UNCHANGED <<window, offset, count, expiry, ticket, late>>

\* The key of the counter names the window.
ReadClock(r) ==
    /\ pc[r] = "idle"
    /\ pc' = [pc EXCEPT ![r] = "incr"]
    /\ key' = [key EXCEPT ![r] = window]
    /\ UNCHANGED <<window, offset, count, expiry, ticket, late>>

\* Redis drops a key whose time has come before it looks at it.
Expired(k) ==
    \/ window > expiry[k].window
    \/ window = expiry[k].window /\ offset >= expiry[k].offset

\* Bug: the client library repeats the command after a timeout.
IncrTwice(r) ==
    LET k == key[r]
        n == IF Expired(k) THEN 2 ELSE count[k] + 2
    IN  /\ pc[r] = "incr"
        /\ count' = [count EXCEPT ![k] = n]
        /\ expiry' = [expiry EXCEPT ![k] = IF Expired(k) THEN Never ELSE @]
        /\ ticket' = [ticket EXCEPT ![r] = n]
        /\ pc' = [pc EXCEPT ![r] = IF n = 1 THEN "expire" ELSE "decide"]
        /\ late' = IF window > k THEN late \cup {k} ELSE late
        /\ UNCHANGED <<window, offset, key>>

\* INCR: the first of a window goes on to set the time to live.
Incr(r) ==
    LET k == key[r]
        n == IF Expired(k) THEN 1 ELSE count[k] + 1
    IN  /\ pc[r] = "incr"
        /\ count' = [count EXCEPT ![k] = n]
        /\ expiry' = [expiry EXCEPT ![k] = IF Expired(k) THEN Never ELSE @]
        /\ ticket' = [ticket EXCEPT ![r] = n]
        /\ pc' = [pc EXCEPT ![r] = IF n = 1 THEN "expire" ELSE "decide"]
        /\ late' = IF window > k THEN late \cup {k} ELSE late
        /\ UNCHANGED <<window, offset, key>>

\* Bug: the counter lives until its window ends at the latest.
ExpireEarly(r) ==
    /\ pc[r] = "expire"
    /\ expiry' = [expiry EXCEPT ![key[r]] = At(window, Length - 1)]
    /\ pc' = [pc EXCEPT ![r] = "decide"]
    /\ UNCHANGED <<window, offset, count, key, ticket, late>>

\* EXPIRE, unless the key is gone by then: the same offset in the next window.
Expire(r) ==
    /\ pc[r] = "expire"
    /\ expiry' = [expiry EXCEPT ![key[r]] = IF Expired(key[r]) THEN @ ELSE At(window + 1, offset)]
    /\ pc' = [pc EXCEPT ![r] = "decide"]
    /\ UNCHANGED <<window, offset, count, key, ticket, late>>

\* Redis fails, or the request is abandoned: the counter is never dropped.
ExpireFails(r) ==
    /\ pc[r] = "expire"
    /\ pc' = [pc EXCEPT ![r] = "error"]
    /\ UNCHANGED <<window, offset, count, expiry, key, ticket, late>>

Decide(r) ==
    /\ pc[r] = "decide"
    /\ pc' = [pc EXCEPT ![r] = IF ticket[r] > Limit THEN "refused" ELSE "admitted"]
    /\ UNCHANGED <<window, offset, count, expiry, key, ticket, late>>

Next ==
    \/ Tick
    \/ \E r \in Requests : ReadClock(r) \/ Incr(r) \/ Expire(r) \/ ExpireFails(r) \/ Decide(r)

Spec == Init /\ [][Next]_vars

-----------------------------------------------------------------------------
TypeOK ==
    /\ window \in Windows
    /\ offset \in Offsets
    /\ count \in [Windows -> Nat]
    /\ expiry \in [Windows -> Moments]
    /\ pc \in [Requests -> {"idle", "incr", "expire", "decide", "admitted", "refused", "error"}]
    /\ key \in [Requests -> Windows]
    /\ ticket \in [Requests -> Nat]
    /\ late \subseteq Windows

Admitted(k) == {r \in Requests : pc[r] = "admitted" /\ key[r] = k}

\* No more than Limit requests of a window are admitted, whatever the
\* interleaving of INCR and EXPIRE and even if EXPIRE is lost; except in a
\* window one of whose requests reached Redis after the window had ended.
WindowLimit == \A k \in Windows \ late : Cardinality(Admitted(k)) <= Limit

\* A request is refused only if all places of its window went to other
\* requests of that window: a counter that was never dropped, or an old one
\* that a slow request revived, costs nobody else a place, if the client of Redis
\* sends each INCR once.
RefusedOnlyWhenFull ==
    \A r \in Requests : pc[r] = "refused" =>
        \A n \in 1 .. Limit : \E q \in Requests \ {r} : key[q] = key[r] /\ ticket[q] = n
=============================================================================
