------------------------ MODULE CircuitBreakerProofs -----------------------
(***************************************************************************)
(* What CircuitBreaker promises for any number of goroutines, any limit on *)
(* the probes and any threshold.                                           *)
(***************************************************************************)
EXTENDS CircuitBreaker, FiniteSetTheorems, TLAPS

\* A half-open breaker has no expiry and has counted its unfinished calls; a call
\* that is fresh was admitted in the state the breaker still has.
ProbeInv ==
  /\ cb.state = "half_open" => ~cb.expired /\ Cardinality(fresh) <= cb.requests
  /\ \A g \in fresh : admitted[g] = cb.state

IInv == TypeOK /\ ProbeInv

\* A look at the breaker gives a breaker, which is the same one unless its expiry
\* has passed; then it starts a generation with no call and without an expiry.
LEMMA LookedFacts ==
  ASSUME cb \in Breakers
  PROVE  /\ Looked(cb) \in Breakers
         /\ ~cb.expired => Looked(cb) = cb
         /\ cb.state = "half_open" => Looked(cb) = cb
<1>1. ASSUME NEW s \in States PROVE NewGeneration(s) \in Breakers
  BY MaxRequestsAssumption, TripAfterAssumption DEF NewGeneration, Breakers
<1>2. NewGeneration("closed") \in Breakers /\ NewGeneration("half_open") \in Breakers
  BY <1>1 DEF States
<1>3. cb.state \in States /\ cb.expired \in BOOLEAN
  BY DEF Breakers
<1>4. CASE cb.state = "closed" /\ cb.expired
  BY <1>2, <1>4 DEF Looked
<1>5. CASE cb.state = "open" /\ cb.expired
  BY <1>2, <1>5 DEF Looked
<1>6. CASE ~(cb.state = "closed" /\ cb.expired) /\ ~(cb.state = "open" /\ cb.expired)
  <2>1. Looked(cb) = cb
    BY <1>6 DEF Looked
  <2> QED BY <2>1
<1> QED BY <1>3, <1>4, <1>5, <1>6

\* A verdict gives a breaker; while it stays half-open its requests and the
\* absence of an expiry stay.
LEMMA JudgedFacts ==
  ASSUME NEW b \in Breakers, NEW j, j = Succeeded(b) \/ j = Failed(b)
  PROVE  /\ j \in Breakers
         /\ j.state = "half_open" => /\ b.state = "half_open"
                                     /\ j.requests = b.requests /\ j.expired = b.expired
<1>1. ASSUME NEW s \in States
      PROVE  NewGeneration(s) \in Breakers /\ NewGeneration(s).state = s
  BY MaxRequestsAssumption, TripAfterAssumption DEF NewGeneration, Breakers
<1>2. /\ b = [state |-> b.state, expired |-> b.expired, requests |-> b.requests,
              failures |-> b.failures, wins |-> b.wins]
      /\ b.state \in States /\ b.expired \in BOOLEAN /\ b.requests \in 0..MaxRequests
      /\ b.failures \in 0..TripAfter /\ b.wins \in 0..MaxRequests
  BY DEF Breakers
<1>3. CASE j = Succeeded(b)
  <2>1. CASE b.state = "closed"
    <3>1. j = [b EXCEPT !.failures = 0]
      BY <1>3, <2>1 DEF Succeeded
    <3> QED BY <2>1, <3>1, TripAfterAssumption DEF Breakers
  <2>2. CASE b.state = "half_open" /\ b.wins + 1 >= MaxRequests
    <3>1. j = NewGeneration("closed")
      BY <1>2, <1>3, <2>2, MaxRequestsAssumption DEF Succeeded
    <3> QED BY <1>1, <3>1 DEF States
  <2>3. CASE b.state = "half_open" /\ ~(b.wins + 1 >= MaxRequests)
    <3>1. j = [b EXCEPT !.wins = @ + 1]
      BY <1>2, <1>3, <2>3, MaxRequestsAssumption DEF Succeeded
    <3> QED BY <1>2, <2>3, <3>1, MaxRequestsAssumption DEF Breakers
  <2>4. CASE b.state = "open"
    BY <1>3, <2>4 DEF Succeeded
  <2> QED BY <1>2, <2>1, <2>2, <2>3, <2>4 DEF States
<1>4. CASE j = Failed(b)
  <2>1. CASE b.state = "half_open" \/ (b.state = "closed" /\ b.failures + 1 >= TripAfter)
    <3>1. j = NewGeneration("open")
      BY <1>2, <1>4, <2>1, TripAfterAssumption DEF Failed
    <3> QED BY <1>1, <3>1 DEF States
  <2>2. CASE b.state = "closed" /\ ~(b.failures + 1 >= TripAfter)
    <3>1. j = [b EXCEPT !.failures = @ + 1]
      BY <1>2, <1>4, <2>2, TripAfterAssumption DEF Failed
    <3> QED BY <1>2, <2>2, <3>1, TripAfterAssumption DEF Breakers
  <2>3. CASE b.state = "open"
    BY <1>4, <2>3 DEF Failed
  <2> QED BY <1>2, <2>1, <2>2, <2>3 DEF States
<1> QED BY <1>3, <1>4

\* The unfinished calls are finitely many, and no fewer after one more begins.
LEMMA FreshFinite ==
  ASSUME TypeOK
  PROVE  /\ IsFiniteSet(fresh) /\ Cardinality(fresh) \in Nat
         /\ \A g : /\ Cardinality(fresh \cup {g}) \in Nat
                   /\ Cardinality(fresh \cup {g}) <= Cardinality(fresh) + 1
                   /\ Cardinality(fresh \ {g}) \in Nat
                   /\ Cardinality(fresh \ {g}) <= Cardinality(fresh)
<1>1. fresh \subseteq Goroutines
  BY DEF TypeOK
<1>2. IsFiniteSet(fresh)
  BY <1>1, GoroutinesAssumption, FS_Subset
<1>3. Cardinality(fresh) \in Nat
  BY <1>2, FS_CardinalityType
<1>4. ASSUME NEW g
      PROVE  /\ Cardinality(fresh \cup {g}) \in Nat
             /\ Cardinality(fresh \cup {g}) <= Cardinality(fresh) + 1
             /\ Cardinality(fresh \ {g}) \in Nat
             /\ Cardinality(fresh \ {g}) <= Cardinality(fresh)
  <2>1. /\ IsFiniteSet(fresh \cup {g})
        /\ Cardinality(fresh \cup {g}) = IF g \in fresh THEN Cardinality(fresh)
                                         ELSE Cardinality(fresh) + 1
    BY <1>2, FS_AddElement
  <2>2. /\ IsFiniteSet(fresh \ {g})
        /\ Cardinality(fresh \ {g}) = IF g \in fresh THEN Cardinality(fresh) - 1
                                      ELSE Cardinality(fresh)
    BY <1>2, FS_RemoveElement
  <2>3. Cardinality(fresh \ {g}) \in Nat
    BY <2>2, FS_CardinalityType
  <2> QED BY <1>3, <2>1, <2>2, <2>3
<1> QED BY <1>2, <1>3, <1>4

\* What a look leaves of the generation: fewer calls, all admitted in its state.
LEMMA StillFreshFacts ==
  ASSUME IInv
  PROVE  /\ StillFresh \subseteq fresh
         /\ \A g \in StillFresh : admitted[g] = Looked(cb).state
         /\ Looked(cb).state = "half_open" => ~Looked(cb).expired
         /\ Looked(cb).state = "half_open" => Cardinality(StillFresh) <= Looked(cb).requests
         /\ Looked(cb).state = "half_open" =>
              \/ StillFresh = fresh /\ Looked(cb) = cb
              \/ StillFresh = {} /\ Looked(cb).requests = 0
<1>1. CASE cb.expired
  <2>1. StillFresh = {} /\ Cardinality(StillFresh) = 0
    BY <1>1, FS_EmptySet DEF StillFresh
  <2>2. Looked(cb).state = "half_open" => Looked(cb) = NewGeneration("half_open")
    BY <1>1 DEF Looked, IInv, ProbeInv, NewGeneration
  <2> QED BY <2>1, <2>2 DEF NewGeneration
<1>2. CASE ~cb.expired
  <2>1. StillFresh = fresh /\ Looked(cb) = cb
    BY <1>2, LookedFacts DEF StillFresh, IInv, TypeOK
  <2> QED BY <2>1 DEF IInv, ProbeInv
<1>3. cb.expired \in BOOLEAN
  BY DEF IInv, TypeOK, Breakers
<1> QED BY <1>1, <1>2, <1>3

\* Every step keeps the invariant.
LEMMA Inductive == IInv /\ [Next]_vars => IInv'
<1> SUFFICES ASSUME IInv, [Next]_vars PROVE IInv'
  OBVIOUS
<1> DEFINE b == Looked(cb)
<1>1. /\ b \in Breakers
      /\ StillFresh \subseteq fresh
      /\ \A g \in StillFresh : admitted[g] = b.state
      /\ b.state = "half_open" => ~b.expired /\ Cardinality(StillFresh) <= b.requests
  BY LookedFacts, StillFreshFacts DEF IInv, TypeOK
<1>2. CASE Look \/ \E g \in Goroutines : Refuse(g)
  BY <1>1, <1>2 DEF Look, Refuse, IInv, TypeOK, ProbeInv
<1>3. ASSUME NEW g \in Goroutines, Admit(g) PROVE IInv'
  <2>1. /\ b.state # "open" /\ (b.state = "half_open" => b.requests < MaxRequests)
        /\ cb' = [b EXCEPT !.requests = IF @ < MaxRequests THEN @ + 1 ELSE @]
        /\ call' = [call EXCEPT ![g] = "admitted"]
        /\ fresh' = StillFresh \cup {g}
        /\ admitted' = [admitted EXCEPT ![g] = b.state]
    BY <1>3 DEF Admit, Admits
  <2>2. TypeOK'
    <3>1. cb' \in Breakers /\ cb'.state = b.state /\ b.state \in States
      BY <1>1, <2>1, MaxRequestsAssumption DEF Breakers
    <3> QED BY <1>1, <2>1, <3>1 DEF IInv, TypeOK
  <2>3. \A h \in fresh' : admitted'[h] = cb'.state
    BY <1>1, <2>1 DEF IInv, TypeOK, Breakers
  <2>4. ASSUME cb'.state = "half_open"
        PROVE  ~cb'.expired /\ Cardinality(fresh') <= cb'.requests
    <3>1. b.state = "half_open" /\ ~b.expired /\ ~cb'.expired /\ cb'.requests = b.requests + 1
      BY <1>1, <2>1, <2>4, MaxRequestsAssumption DEF Breakers
    <3>2. CASE StillFresh = fresh /\ b = cb
      <4>1. fresh' = fresh \cup {g} /\ Cardinality(fresh) <= b.requests
        BY <1>1, <2>1, <3>1, <3>2
      <4>2. /\ Cardinality(fresh \cup {g}) \in Nat /\ Cardinality(fresh) \in Nat
            /\ Cardinality(fresh \cup {g}) <= Cardinality(fresh) + 1
        BY FreshFinite DEF IInv
      <4>3. b.requests \in Nat
        BY <1>1, MaxRequestsAssumption DEF Breakers
      <4> QED BY <3>1, <4>1, <4>2, <4>3
    <3>3. CASE StillFresh = {} /\ b.requests = 0
      <4>1. Cardinality({g}) = 1 /\ fresh' = {g}
        BY <2>1, <3>3, FS_Singleton
      <4> QED BY <3>1, <3>3, <4>1
    <3> QED BY <3>1, <3>2, <3>3, StillFreshFacts
  <2> QED BY <2>2, <2>3, <2>4 DEF IInv, ProbeInv
<1>4. ASSUME NEW g \in Goroutines, Cancelled(g) \/ Run(g) \/ Panic(g) PROVE IInv'
  <2>1. /\ UNCHANGED <<cb, admitted>>
        /\ fresh' = fresh \/ fresh' = fresh \ {g}
    BY <1>4 DEF Cancelled, Run, Panic
  <2>2. TypeOK'
    BY <1>4 DEF Cancelled, Run, Panic, IInv, TypeOK
  <2>3. Cardinality(fresh') <= Cardinality(fresh) /\ Cardinality(fresh') \in Nat
    <3>1. /\ Cardinality(fresh) \in Nat
          /\ Cardinality(fresh \ {g}) \in Nat /\ Cardinality(fresh \ {g}) <= Cardinality(fresh)
      BY FreshFinite DEF IInv
    <3> QED BY <2>1, <3>1
  <2>4. cb.requests \in Nat
    BY MaxRequestsAssumption DEF IInv, TypeOK, Breakers
  <2>5. cb'.state = "half_open" => ~cb'.expired /\ Cardinality(fresh') <= cb'.requests
    BY <2>1, <2>3, <2>4, FreshFinite DEF IInv, ProbeInv
  <2> QED BY <2>1, <2>2, <2>5 DEF IInv, ProbeInv
<1>5. ASSUME NEW g \in Goroutines, Success(g) \/ Failure(g) PROVE IInv'
  <2>1. PICK j : /\ j = Succeeded(b) \/ j = Failed(b)
                 /\ call[g] = "running"
                 /\ cb' = IF g \in StillFresh THEN j ELSE b
                 /\ call' = [call EXCEPT ![g] = "none"]
                 /\ fresh' = IF cb'.state = b.state THEN StillFresh \ {g} ELSE {}
                 /\ admitted' = admitted
    BY <1>5 DEF Success, Failure, AfterRequest
  <2>2. /\ j \in Breakers /\ cb' \in Breakers
        /\ cb'.state = "half_open" => /\ b.state = "half_open"
                                      /\ cb'.requests = b.requests /\ cb'.expired = b.expired
    BY <1>1, <2>1, JudgedFacts
  <2>3. TypeOK'
    BY <1>1, <2>1, <2>2 DEF IInv, TypeOK
  <2>4. \A h \in fresh' : admitted'[h] = cb'.state
    BY <1>1, <2>1
  <2>5. ASSUME cb'.state = "half_open"
        PROVE  ~cb'.expired /\ Cardinality(fresh') <= cb'.requests
    <3>1. b.state = "half_open" /\ fresh' = StillFresh \ {g}
      BY <2>1, <2>2, <2>5
    <3>2. CASE StillFresh = fresh
      <4>1. Cardinality(fresh') \in Nat /\ Cardinality(fresh') <= Cardinality(fresh)
        BY <3>1, <3>2, FreshFinite DEF IInv
      <4>2. Cardinality(fresh) \in Nat /\ b.requests \in Nat
        BY <1>1, FreshFinite, MaxRequestsAssumption DEF IInv, Breakers
      <4> QED BY <1>1, <2>2, <2>5, <3>1, <3>2, <4>1, <4>2
    <3>3. CASE StillFresh = {}
      <4>1. fresh' = StillFresh
        BY <3>1, <3>3
      <4> QED BY <1>1, <2>2, <2>5, <3>1, <4>1
    <3> QED BY <3>1, <3>2, <3>3, StillFreshFacts
  <2> QED BY <2>3, <2>4, <2>5 DEF IInv, ProbeInv
<1>6. CASE Expire
  BY <1>6 DEF Expire, IInv, TypeOK, ProbeInv, Breakers
<1>7. CASE UNCHANGED vars
  BY <1>7 DEF vars, IInv, TypeOK, ProbeInv
<1> QED BY <1>2, <1>3, <1>4, <1>5, <1>6, <1>7 DEF Next, Attempt, Progress

\* The invariant holds when the breaker is made.
LEMMA Initial == Init => IInv
<1> SUFFICES ASSUME Init PROVE IInv
  OBVIOUS
<1>1. TypeOK
  BY MaxRequestsAssumption, TripAfterAssumption DEF Init, TypeOK, NewGeneration, Breakers, States
<1> QED BY <1>1 DEF Init, IInv, ProbeInv, NewGeneration

\* The breaker's counts stay within their limits and only calls that are under
\* way are compared with its generation (circuitbreaker.go:160-290).
THEOREM TypeCorrect == Spec => []TypeOK
<1>1. IInv => TypeOK
  BY DEF IInv
<1> QED BY <1>1, Initial, Inductive, PTL DEF Spec

\* Admission and report are two critical sections, and still no more than
\* MaxRequests calls of a half-open generation are ever under way
\* (circuitbreaker.go:160-205).
THEOREM ProbesTheorem == Spec => []ProbesBounded
<1>1. IInv => ProbesBounded
  <2> SUFFICES ASSUME IInv, cb.state = "half_open" PROVE Cardinality(fresh) <= MaxRequests
    BY DEF ProbesBounded
  <2>1. cb.requests \in 0..MaxRequests /\ Cardinality(fresh) <= cb.requests /\ Cardinality(fresh) \in Nat
    BY FreshFinite DEF IInv, TypeOK, ProbeInv, Breakers
  <2> QED BY <2>1, MaxRequestsAssumption
<1> QED BY <1>1, Initial, Inductive, PTL DEF Spec

\* A half-open breaker closes or opens only on the result of a call it admitted
\* itself: no late result of an earlier generation and no look at the clock
\* decides it (circuitbreaker.go:189-205).
THEOREM DecidedTheorem == Spec => DecidedByProbes
<1>1. IInv /\ [Next]_vars =>
        [cb.state = "half_open" /\ cb'.state # "half_open" =>
           \E g \in Goroutines : /\ call[g] = "running" /\ call'[g] = "none"
                                 /\ g \in fresh
                                 /\ admitted[g] = "half_open"]_vars
  <2> SUFFICES ASSUME IInv, Next, cb.state = "half_open", cb'.state # "half_open"
               PROVE  \E g \in Goroutines : /\ call[g] = "running" /\ call'[g] = "none"
                                            /\ g \in fresh /\ admitted[g] = "half_open"
    OBVIOUS
  <2>1. Looked(cb) = cb /\ StillFresh = fresh
    BY LookedFacts DEF IInv, TypeOK, ProbeInv, StillFresh
  <2>2. PICK g \in Goroutines : Success(g) \/ Failure(g)
    BY <2>1 DEF Next, Attempt, Progress, Admit, Refuse, Cancelled, Run, Panic, Look, Expire,
                      IInv, TypeOK, Breakers
  <2>3. call[g] = "running" /\ call'[g] = "none" /\ g \in StillFresh
    BY <2>1, <2>2 DEF Success, Failure, AfterRequest, IInv, TypeOK
  <2> QED BY <2>1, <2>3 DEF IInv, ProbeInv
<1> QED BY <1>1, Initial, Inductive, PTL DEF Spec, DecidedByProbes
=============================================================================
