------------------------- MODULE RateLimiterProofs -------------------------
(***************************************************************************)
(* RateLimiter keeps its limit for any number of requests, any limit and   *)
(* any length of the window, proved with TLAPS.                            *)
(***************************************************************************)
EXTENDS RateLimiter, FiniteSetTheorems, TLAPS

Counted == {"expire", "decide", "admitted", "refused", "error"}

\* What a request knows at each of its steps.
RequestKnows ==
    \A r \in Requests :
        /\ ticket[r] # 0 <=> pc[r] \in Counted
        /\ key[r] <= window
        /\ pc[r] = "admitted" => ticket[r] <= Limit
        /\ pc[r] = "refused" => ticket[r] > Limit

\* The counter of a window outlives it.
CounterOutlivesWindow == \A k \in Windows : expiry[k].window > k

\* A counter's value, and every value below it, was returned to some request.
CounterDense ==
    \A k \in Windows : \A n \in 1 .. count[k] : \E q \in Requests : key[q] = k /\ ticket[q] = n

TicketsDense ==
    \A r \in Requests : \A n \in 1 .. ticket[r] :
        \E q \in Requests : key[q] = key[r] /\ ticket[q] = n

\* In a window that no slow request came back to, every request got a value of
\* its own.
TicketsDistinct ==
    \A k \in Windows \ late :
        /\ \A r \in Requests : key[r] = k => ticket[r] <= count[k]
        /\ \A q, r \in Requests :
              key[q] = k /\ key[r] = k /\ ticket[q] = ticket[r] /\ ticket[r] # 0 => q = r

IInv == /\ TypeOK /\ RequestKnows /\ CounterOutlivesWindow
        /\ CounterDense /\ TicketsDense /\ TicketsDistinct

USE LimitAssumption, LengthAssumption, MaxWindowAssumption
USE DEF Windows, Offsets, Moments, At, Never

-----------------------------------------------------------------------------
\* No request has been counted at the start.
LEMMA InitIInv == Init => IInv
BY DEF Init, IInv, TypeOK, RequestKnows, Counted, CounterOutlivesWindow, CounterDense, TicketsDense,
   TicketsDistinct

\* The values of a request and of a counter, without the rest of TypeOK.
LEMMA TicketsTyped ==
    ASSUME TypeOK
    PROVE  /\ \A r \in Requests : ticket[r] \in Nat /\ key[r] \in Windows
           /\ \A k \in Windows : count[k] \in Nat
BY DEF TypeOK

\* INCR hands out the next value of the counter, or the first of a new one.
LEMMA IncrIInv ==
    ASSUME IInv, NEW r \in Requests, Incr(r)
    PROVE  IInv'
<1> DEFINE k == key[r]
           n == IF Expired(k) THEN 1 ELSE count[k] + 1
<1> USE DEF IInv
<1>1. /\ pc[r] = "incr" /\ ticket[r] = 0 /\ k \in Windows /\ n \in Nat \ {0}
      /\ count' = [count EXCEPT ![k] = n]
      /\ ticket' = [ticket EXCEPT ![r] = n]
      /\ UNCHANGED <<window, offset, key>>
      /\ pc' = [pc EXCEPT ![r] = IF n = 1 THEN "expire" ELSE "decide"]
  <2>1. pc[r] = "incr" /\ k \in Windows
    BY DEF Incr, TypeOK
  <2>2. ticket[r] = 0
    BY <2>1 DEF RequestKnows, Counted
  <2>3. count[k] \in Nat
    BY <2>1 DEF TypeOK
  <2>4. QED
    BY <2>1, <2>2, <2>3 DEF Incr
<1>2. TypeOK'
  <2>1. expiry' \in [Windows -> Moments]
    BY DEF Incr, TypeOK
  <2>2. late' \subseteq Windows
    BY <1>1 DEF Incr, TypeOK
  <2>3. QED
    BY <1>1, <2>1, <2>2 DEF TypeOK
<1>3. RequestKnows'
    BY <1>1 DEF RequestKnows, Counted, TypeOK
<1>4. CounterOutlivesWindow'
    BY <1>1 DEF Incr, CounterOutlivesWindow, TypeOK
<1>5. ASSUME NEW m \in 1 .. n PROVE \E q \in Requests : key[q] = k /\ ticket'[q] = m
  <2>1. CASE m = n
    BY <1>1, <2>1 DEF TypeOK
  <2>2. CASE m # n
    <3>1. m \in 1 .. count[k]
        BY <1>1, <2>2 DEF TypeOK
    <3>2. PICK q \in Requests : key[q] = k /\ ticket[q] = m
        BY <1>1, <3>1 DEF CounterDense
    <3>3. q # r
        BY <1>1, <3>1, <3>2
    <3>4. QED
        BY <1>1, <3>2, <3>3 DEF TypeOK
  <2>3. QED
    BY <2>1, <2>2
<1>6. ASSUME NEW p \in Requests, NEW m \in Nat \ {0}, ticket[p] = m PROVE ticket'[p] = m
    BY <1>1, <1>6 DEF TypeOK
<1>7. CounterDense'
    BY <1>1, <1>5, <1>6 DEF CounterDense, TypeOK
<1>8. TicketsDense'
  <2> SUFFICES ASSUME NEW p \in Requests, NEW m \in 1 .. ticket'[p]
               PROVE  \E q \in Requests : key[q] = key[p] /\ ticket'[q] = m
    BY <1>1 DEF TicketsDense
  <2>1. CASE p = r
    BY <1>1, <1>5, <2>1 DEF TypeOK
  <2>2. CASE p # r
    <3>1. m \in 1 .. ticket[p]
        BY <1>1, <2>2 DEF TypeOK
    <3>2. PICK q \in Requests : key[q] = key[p] /\ ticket[q] = m
        BY <3>1 DEF TicketsDense
    <3>3. QED
        BY <1>6, <3>1, <3>2
  <2>3. QED
    BY <2>1, <2>2
<1>9. TicketsDistinct'
  <2> SUFFICES ASSUME NEW j \in Windows \ late'
               PROVE  /\ \A p \in Requests : key[p] = j => ticket'[p] <= count'[j]
                      /\ \A q, p \in Requests :
                            key[q] = j /\ key[p] = j /\ ticket'[q] = ticket'[p] /\ ticket'[p] # 0
                            => q = p
    BY <1>1 DEF TicketsDistinct
  <2>1. j \in Windows \ late
    BY DEF Incr
  <2>2. CASE j # k
    BY <1>1, <2>1, <2>2 DEF TicketsDistinct, TypeOK
  <2>3. CASE j = k
    <3>1. window = k
        BY <1>1, <2>3 DEF Incr, RequestKnows, TypeOK
    <3>2. ~ Expired(k)
      <4>1. expiry[k].window > k
        BY <1>1 DEF CounterOutlivesWindow
      <4>2. expiry[k].window \in Nat /\ k \in Nat
        BY <1>1 DEF TypeOK
      <4>3. \A a, b \in Nat : a > b => ~ (b > a) /\ b # a
        OBVIOUS
      <4>4. QED
        BY <3>1, <4>1, <4>2, <4>3, Zenon DEF Expired
    <3>3. /\ n = count[k] + 1
          /\ \A p \in Requests : key[p] = k => ticket[p] <= count[k]
        BY <2>1, <2>3, <3>2 DEF TicketsDistinct
    <3>4. \A p \in Requests : ticket'[p] = IF p = r THEN n ELSE ticket[p]
        BY <1>1 DEF TypeOK
    <3>5. \A p \in Requests : ticket[p] \in Nat
        BY DEF TypeOK
    <3>6. count'[k] = n /\ count[k] \in Nat
        BY <1>1 DEF TypeOK
    <3>7. QED
        BY <2>1, <2>3, <3>3, <3>4, <3>5, <3>6 DEF TicketsDistinct
  <2>4. QED
    BY <2>2, <2>3
<1>10. QED
    BY <1>2, <1>3, <1>4, <1>7, <1>8, <1>9

\* Every step preserves the invariant.
LEMMA NextIInv == IInv /\ [Next]_vars => IInv'
<1> SUFFICES ASSUME IInv, [Next]_vars PROVE IInv'
    OBVIOUS
<1> USE DEF IInv
<1>1. CASE Tick
  <2>1. /\ window' \in Windows /\ offset' \in Offsets /\ window' >= window
        /\ UNCHANGED <<count, expiry, pc, key, ticket, late>>
    <3>1. /\ UNCHANGED <<count, expiry, pc, key, ticket, late>>
          /\ \/ window' = window /\ offset' = offset + 1 /\ offset + 1 < Length
             \/ window' = window + 1 /\ offset' = 0 /\ window < MaxWindow
        BY <1>1 DEF Tick
    <3>2. window \in 0 .. MaxWindow /\ offset \in 0 .. Length - 1
        BY DEF TypeOK
    <3>3. window' \in 0 .. MaxWindow /\ offset' \in 0 .. Length - 1 /\ window' >= window
        BY <3>1, <3>2
    <3>4. QED
        BY <3>1, <3>3
  <2>2. TypeOK'
    BY <2>1 DEF TypeOK
  <2>3. RequestKnows'
    BY <2>1 DEF TypeOK, RequestKnows
  <2>4. QED
    BY <2>1, <2>2, <2>3 DEF CounterOutlivesWindow, CounterDense, TicketsDense, TicketsDistinct
<1>2. ASSUME NEW r \in Requests, ReadClock(r) PROVE IInv'
  <2>1. ticket[r] = 0 /\ key' = [key EXCEPT ![r] = window] /\ pc' = [pc EXCEPT ![r] = "incr"]
    BY <1>2 DEF ReadClock, RequestKnows, Counted
  <2>2. TypeOK' /\ RequestKnows' /\ CounterOutlivesWindow'
    <3>1. TypeOK'
        BY <1>2, <2>1 DEF ReadClock, TypeOK
    <3>2. RequestKnows'
        BY <1>2, <2>1 DEF ReadClock, TypeOK, RequestKnows, Counted
    <3>3. QED
        BY <1>2, <3>1, <3>2 DEF ReadClock, CounterOutlivesWindow
  <2>3. \A q \in Requests : ticket[q] # 0 => key'[q] = key[q]
    BY <2>1 DEF TypeOK
  <2>4. CounterDense'
    BY <1>2, <2>3 DEF ReadClock, CounterDense, TypeOK
  <2>5. TicketsDense'
    <3> SUFFICES ASSUME NEW p \in Requests, NEW m \in 1 .. ticket[p]
                 PROVE  \E q \in Requests : key'[q] = key'[p] /\ ticket[q] = m
        BY <1>2 DEF ReadClock, TicketsDense
    <3>1. PICK q \in Requests : key[q] = key[p] /\ ticket[q] = m
        BY DEF TicketsDense
    <3>2. ticket[p] # 0 /\ ticket[q] # 0
      <4>1. \A t \in Nat : m \in 1 .. t => t # 0 /\ m # 0
        OBVIOUS
      <4>2. ticket[p] \in Nat
        BY TicketsTyped, Zenon
      <4>3. QED
        BY <3>1, <4>1, <4>2, Zenon
    <3>3. QED
        BY <2>3, <3>1, <3>2
  <2>6. TicketsDistinct'
    <3>1. UNCHANGED <<count, ticket, late>> /\ \A q \in Requests : ticket[q] \in Nat
        BY <1>2 DEF ReadClock, TypeOK
    <3>2. \A j \in Windows : count[j] \in Nat
        BY DEF TypeOK
    <3>3. QED
        BY <2>3, <3>1, <3>2 DEF TicketsDistinct
  <2>7. QED
    BY <2>2, <2>4, <2>5, <2>6
<1>3. ASSUME NEW r \in Requests, Expire(r) \/ ExpireFails(r) \/ Decide(r) PROVE IInv'
  <2>1. /\ UNCHANGED <<window, offset, count, key, ticket, late>>
        /\ pc[r] \in {"expire", "decide"}
        /\ pc' = [pc EXCEPT ![r] = pc'[r]]
        /\ pc'[r] \in {"decide", "error"}
           \/ pc'[r] = IF ticket[r] > Limit THEN "refused" ELSE "admitted"
    BY <1>3 DEF Expire, ExpireFails, Decide, TypeOK
  <2>2. expiry' \in [Windows -> Moments] /\ CounterOutlivesWindow'
    <3>1. CASE Expire(r)
      <4>1. /\ key[r] \in Windows /\ key[r] <= window /\ window + 1 \in 0 .. MaxWindow + 2
            /\ At(window + 1, offset) \in Moments
        BY DEF TypeOK, RequestKnows
      <4>2. QED
        BY <3>1, <4>1 DEF Expire, TypeOK, CounterOutlivesWindow
    <3>2. CASE UNCHANGED expiry
        BY <3>2 DEF TypeOK, CounterOutlivesWindow
    <3>3. QED
        BY <1>3, <3>1, <3>2 DEF ExpireFails, Decide
  <2>3. TypeOK'
    BY <2>1, <2>2 DEF TypeOK
  <2>4. RequestKnows'
    <3> SUFFICES ASSUME NEW p \in Requests
                 PROVE  /\ ticket[p] # 0 <=> pc'[p] \in Counted
                        /\ key[p] <= window
                        /\ pc'[p] = "admitted" => ticket[p] <= Limit
                        /\ pc'[p] = "refused" => ticket[p] > Limit
        BY <2>1 DEF RequestKnows
    <3>1. CASE p # r
        BY <2>1, <3>1 DEF RequestKnows, TypeOK
    <3>2. CASE p = r
      <4>1. ticket[r] # 0 /\ key[r] <= window
        BY <2>1, Zenon DEF RequestKnows, Counted
      <4>2. ticket[r] \in Nat
        BY TicketsTyped, Zenon
      <4>3. \A t \in Nat : t <= Limit \/ t > Limit
        OBVIOUS
      <4>4. QED
        BY <2>1, <3>2, <4>1, <4>2, <4>3 DEF Counted
    <3>3. QED
        BY <3>1, <3>2
  <2>5. QED
    BY <2>1, <2>2, <2>3, <2>4 DEF CounterDense, TicketsDense, TicketsDistinct
<1>4. CASE UNCHANGED vars
    BY <1>4 DEF vars, TypeOK, RequestKnows, CounterOutlivesWindow, CounterDense, TicketsDense,
       TicketsDistinct
<1>5. QED
    BY <1>1, <1>2, <1>3, <1>4, IncrIInv DEF Next

\* The inductive invariant holds in every reachable state.
THEOREM Invariance == Spec => []IInv
BY InitIInv, NextIInv, PTL DEF Spec

-----------------------------------------------------------------------------
\* Every variable keeps its type.
THEOREM TypeCorrect == Spec => []TypeOK
<1>1. IInv => TypeOK
    BY DEF IInv
<1>2. QED
    BY <1>1, Invariance, PTL

\* The limit of a window is kept, because INCR never hands out a value twice
\* while the window lasts.
THEOREM LimitKept == Spec => []WindowLimit
<1>1. IInv => WindowLimit
  <2> SUFFICES ASSUME IInv, NEW k \in Windows \ late PROVE Cardinality(Admitted(k)) <= Limit
    BY DEF WindowLimit
  <2> DEFINE f == [r \in Admitted(k) |-> ticket[r]]
  <2>1. f \in Injection(Admitted(k), 1 .. Limit)
    <3>1. ASSUME NEW r \in Admitted(k)
          PROVE  r \in Requests /\ key[r] = k /\ ticket[r] \in 1 .. Limit /\ ticket[r] # 0
      <4>1. r \in Requests /\ key[r] = k /\ pc[r] = "admitted"
        BY DEF Admitted
      <4>2. ticket[r] \in Nat
        BY <4>1, TicketsTyped, Zenon DEF IInv
      <4>3. ticket[r] # 0 /\ ticket[r] <= Limit
        BY <4>1, Zenon DEF IInv, RequestKnows, Counted
      <4>4. QED
        BY <4>1, <4>2, <4>3
    <3>2. f \in [Admitted(k) -> 1 .. Limit]
        BY <3>1
    <3>3. ASSUME NEW q \in Admitted(k), NEW r \in Admitted(k), f[q] = f[r] PROVE q = r
        BY <3>1, <3>3 DEF IInv, TicketsDistinct
    <3>4. QED
        BY <3>2, <3>3 DEF Injection, IsInjective
  <2>2. IsFiniteSet(1 .. Limit) /\ Cardinality(1 .. Limit) = Limit
    BY FS_Interval
  <2>3. Cardinality(Admitted(k)) <= Cardinality(1 .. Limit)
    BY <2>1, <2>2, FS_Injection
  <2>4. QED
    BY <2>2, <2>3
<1>2. QED
    BY <1>1, Invariance, PTL

\* Nobody is refused while the window has a place left.
THEOREM RefusalsJustified == Spec => []RefusedOnlyWhenFull
<1>1. IInv => RefusedOnlyWhenFull
  <2> SUFFICES ASSUME IInv, NEW r \in Requests, pc[r] = "refused", NEW n \in 1 .. Limit
               PROVE  \E q \in Requests \ {r} : key[q] = key[r] /\ ticket[q] = n
    BY DEF RefusedOnlyWhenFull
  <2>1. ticket[r] \in Nat /\ ticket[r] > Limit
    BY DEF IInv, TypeOK, RequestKnows
  <2>2. PICK q \in Requests : key[q] = key[r] /\ ticket[q] = n
    BY <2>1 DEF IInv, TicketsDense
  <2>3. QED
    BY <2>1, <2>2
<1>2. QED
    BY <1>1, Invariance, PTL
=============================================================================
