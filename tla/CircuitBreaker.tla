--------------------------- MODULE CircuitBreaker --------------------------
(***************************************************************************)
(* internal/circuitbreaker: the breaker that stands between goroutines and *)
(* a dependency (the NTP check of the engine).                             *)
(*                                                                         *)
(* The clock is abstracted to whether the current expiry has passed. The   *)
(* generation number is only ever compared with the one a call was         *)
(* admitted in, so "fresh" holds the unfinished calls for which the two    *)
(* are equal. Requests counts up to MaxRequests, the only value it is      *)
(* compared with.                                                          *)
(*                                                                         *)
(* A definition marked "Slip" is not part of the specification: it is a    *)
(* mistake the definition after it could hold, and PROJECT.json names the  *)
(* property that catches it.                                               *)
(***************************************************************************)
EXTENDS Integers, FiniteSets

CONSTANTS
  Goroutines,   \* the goroutines that call Execute
  MaxRequests,  \* Config.MaxRequests after New, which replaces 0 by 1
  TripAfter     \* Config.ReadyToTrip: this many consecutive failures

ASSUME MaxRequestsAssumption == MaxRequests \in Nat \ {0}
ASSUME TripAfterAssumption == TripAfter \in Nat \ {0}
ASSUME GoroutinesAssumption == IsFiniteSet(Goroutines)

VARIABLES
  cb,        \* the breaker: state, counts and whether its expiry has passed
  call,      \* the call each goroutine is in
  fresh,     \* goroutines whose call was admitted in the current generation
  admitted   \* history: the state that admitted the last call of a goroutine

vars == <<cb, call, fresh, admitted>>

States == {"closed", "open", "half_open"}

Breakers == [state: States, expired: BOOLEAN, requests: 0..MaxRequests,
             failures: 0..TripAfter, wins: 0..MaxRequests]

\* toNewGeneration, in state s.
NewGeneration(s) ==
  [state |-> s, expired |-> FALSE, requests |-> 0, failures |-> 0, wins |-> 0]

\* currentState: an expiry takes effect at the next look at the breaker.
Looked(b) ==
  CASE b.state = "closed" /\ b.expired -> NewGeneration("closed")
    [] b.state = "open" /\ b.expired   -> NewGeneration("half_open")
    [] OTHER -> b

\* The calls still fresh once the breaker was looked at.
StillFresh == IF cb.expired THEN {} ELSE fresh

\* Slip: one probe too many.
AdmitsOneMore(b) == b.state # "open" /\ (b.state = "half_open" => b.requests <= MaxRequests)

\* The checks of beforeRequest.
Admits(b) ==
  /\ b.state # "open"
  /\ b.state = "half_open" => b.requests < MaxRequests

\* Slip: one success more than half-open ever admits.
SucceededOneMore(b) ==
  CASE b.state = "closed" -> [b EXCEPT !.failures = 0]
    [] b.state = "half_open" /\ b.wins + 1 > MaxRequests -> NewGeneration("closed")
    [] b.state = "half_open" /\ b.wins + 1 <= MaxRequests -> [b EXCEPT !.wins = @ + 1]
    [] OTHER -> b

\* onSuccess; in half-open enough of them close the breaker.
Succeeded(b) ==
  CASE b.state = "closed" -> [b EXCEPT !.failures = 0]
    [] b.state = "half_open" /\ b.wins + 1 >= MaxRequests -> NewGeneration("closed")
    [] b.state = "half_open" /\ b.wins + 1 < MaxRequests -> [b EXCEPT !.wins = @ + 1]
    [] OTHER -> b

\* onFailure; in half-open one is enough to open the breaker again.
Failed(b) ==
  CASE b.state = "closed" /\ b.failures + 1 >= TripAfter -> NewGeneration("open")
    [] b.state = "closed" /\ b.failures + 1 < TripAfter -> [b EXCEPT !.failures = @ + 1]
    [] b.state = "half_open" -> NewGeneration("open")
    [] OTHER -> b

Init ==
  /\ cb = NewGeneration("closed")
  /\ call = [g \in Goroutines |-> "none"]
  /\ fresh = {}
  /\ admitted = [g \in Goroutines |-> "closed"]

\* beforeRequest lets the call through and counts it.
Admit(g) ==
  LET b == Looked(cb) IN
  /\ call[g] = "none"
  /\ Admits(b)
  /\ cb' = [b EXCEPT !.requests = IF @ < MaxRequests THEN @ + 1 ELSE @]
  /\ call' = [call EXCEPT ![g] = "admitted"]
  /\ fresh' = StillFresh \cup {g}
  /\ admitted' = [admitted EXCEPT ![g] = b.state]

\* beforeRequest refuses: ErrCircuitOpen or ErrTooManyRequests.
Refuse(g) ==
  /\ call[g] = "none"
  /\ ~Admits(Looked(cb))
  /\ cb' = Looked(cb)
  /\ fresh' = StillFresh
  /\ UNCHANGED <<call, admitted>>

\* Execute returns ctx.Err() instead of running an admitted call.
Cancelled(g) ==
  /\ call[g] = "admitted"
  /\ call' = [call EXCEPT ![g] = "none"]
  /\ fresh' = fresh \ {g}
  /\ UNCHANGED <<cb, admitted>>

Run(g) ==
  /\ call[g] = "admitted"
  /\ call' = [call EXCEPT ![g] = "running"]
  /\ UNCHANGED <<cb, fresh, admitted>>

\* The function panics: Execute has no deferred afterRequest.
Panic(g) ==
  /\ call[g] = "running"
  /\ call' = [call EXCEPT ![g] = "none"]
  /\ fresh' = fresh \ {g}
  /\ UNCHANGED <<cb, admitted>>

\* Slip: afterRequest does not compare generations.
AfterRequestAnyGeneration(g, judged) ==
  /\ call[g] = "running"
  /\ cb' = judged
  /\ call' = [call EXCEPT ![g] = "none"]
  /\ fresh' = IF judged.state = Looked(cb).state THEN StillFresh \ {g} ELSE {}
  /\ UNCHANGED admitted

\* afterRequest; "judged" is the breaker after the verdict, and a call of an
\* earlier generation leaves no trace.
AfterRequest(g, judged) ==
  LET b == IF g \in StillFresh THEN judged ELSE Looked(cb) IN
  /\ call[g] = "running"
  /\ cb' = b
  /\ call' = [call EXCEPT ![g] = "none"]
  /\ fresh' = IF b.state = Looked(cb).state THEN StillFresh \ {g} ELSE {}
  /\ UNCHANGED admitted

Success(g) == AfterRequest(g, Succeeded(Looked(cb)))

Failure(g) == AfterRequest(g, Failed(Looked(cb)))

\* State() also looks at the breaker.
Look ==
  /\ cb' = Looked(cb)
  /\ fresh' = StillFresh
  /\ UNCHANGED <<call, admitted>>

\* The expiry passes; toNewGeneration gives half-open none.
Expire ==
  /\ cb.state # "half_open"
  /\ ~cb.expired
  /\ cb' = [cb EXCEPT !.expired = TRUE]
  /\ UNCHANGED <<call, fresh, admitted>>

Attempt(g) == Admit(g) \/ Refuse(g)

Progress(g) == Cancelled(g) \/ Run(g) \/ Panic(g) \/ Success(g) \/ Failure(g)

Next ==
  \/ \E g \in Goroutines : Attempt(g) \/ Progress(g)
  \/ Look
  \/ Expire

Spec == Init /\ [][Next]_vars

\* The clock runs, every goroutine keeps calling and no call hangs.
Fairness ==
  /\ WF_vars(Expire)
  /\ \A g \in Goroutines : WF_vars(Attempt(g)) /\ WF_vars(Progress(g))

FairSpec == Spec /\ Fairness

-----------------------------------------------------------------------------
(* Properties. *)

\* The values of every variable; only unfinished calls are fresh.
TypeOK ==
  /\ cb \in Breakers
  /\ call \in [Goroutines -> {"none", "admitted", "running"}]
  /\ fresh \subseteq {g \in Goroutines : call[g] # "none"}
  /\ admitted \in [Goroutines -> States]

\* A half-open breaker never has more than MaxRequests of its own calls under
\* way, whatever calls of earlier generations finish meanwhile
\* (circuitbreaker.go:45 "the maximum number of requests allowed in half-open
\* state").
ProbesBounded == cb.state = "half_open" => Cardinality(fresh) <= MaxRequests

\* What decides a half-open breaker, to close or to open, is the result of a call
\* that this half-open generation admitted: neither the clock nor a call left
\* over from the closed generation before (afterRequest compares generations).
DecidedByProbes ==
  [][cb.state = "half_open" /\ cb'.state # "half_open" =>
       \E g \in Goroutines : /\ call[g] = "running" /\ call'[g] = "none"
                             /\ g \in fresh
                             /\ admitted[g] = "half_open"]_vars

\* A call this half-open generation admitted is gone without a verdict.
ProbeLeaked == cb.requests > cb.wins + Cardinality(fresh)

\* A half-open breaker decides, or it has lost a probe: only a call that returns
\* without afterRequest can keep it half-open (the zero expiry of half-open
\* leaves no other way out).
HalfOpenDecidesOrLeaks ==
  cb.state = "half_open" ~> (cb.state # "half_open" \/ ProbeLeaked)

\* A half-open breaker decides: it lets requests through to test if the service
\* recovered (circuitbreaker.go:25), so it closes or opens again.
HalfOpenDecides == cb.state = "half_open" ~> cb.state # "half_open"
=============================================================================
