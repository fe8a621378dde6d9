----------------------------- MODULE MCEventBus ----------------------------
(***************************************************************************)
(* Instances of EventBus: publishers that contend for a channel, and one   *)
(* publisher with two subscriptions of which either may be closed.         *)
(***************************************************************************)
EXTENDS EventBus, TLC

CONSTANTS p1, p2, s1, s2

ThreeAndOne == p1 :> 3 @@ p2 :> 1

\* Bounds on what one behaviour combines: once there is a second subscription one
\* publisher is left, and nothing but Unsubscribe, from outside OnEvent, closes a
\* channel. No step under Fairness is kept from happening by them.
OneTrouble ==
  \/ sub'[s2] = NoSubscription
  \/ /\ pub'[p2].n = 0
     /\ ~closed' /\ ~ctxDone' /\ \A s \in Subs : ~sub'[s].leaving

BusSpec == Init /\ [][Next /\ OneTrouble]_vars /\ Fairness
=============================================================================
