------------------------------ MODULE WorkQueue ------------------------------
(***************************************************************************)
(* What the background services of the agent promise about work that is    *)
(* handed to them: the job manager, the analytics writers, the domain      *)
(* event bus and the adapter's subscriptions are shown to implement it.    *)
(*                                                                         *)
(* An item that was accepted is handled once, and it is never forgotten    *)
(* while the service runs. When the service is being closed, what is left  *)
(* may be handled or discarded. Items may be accepted even then: a caller  *)
(* is not told.                                                            *)
(***************************************************************************)
CONSTANT Items

VARIABLES
  item,   \* Items -> "new", "accepted", "handled" or "discarded"
  open    \* nobody has begun to close the service

vars == <<item, open>>

Init == item = [x \in Items |-> "new"] /\ open = TRUE

Accept(x) ==
  /\ item[x] = "new"
  /\ item' = [item EXCEPT ![x] = "accepted"]
  /\ UNCHANGED open

Handle(x) ==
  /\ item[x] = "accepted"
  /\ item' = [item EXCEPT ![x] = "handled"]
  /\ UNCHANGED open

Close == open /\ open' = FALSE /\ UNCHANGED item

\* The service ends with items in its hands.
Discard(S) ==
  /\ ~open
  /\ \A x \in S : item[x] = "accepted"
  /\ item' = [x \in Items |-> IF x \in S THEN "discarded" ELSE item[x]]
  /\ UNCHANGED open

Next ==
  \/ \E x \in Items : Accept(x) \/ Handle(x)
  \/ Close
  \/ \E S \in SUBSET Items : Discard(S)

Spec == Init /\ [][Next]_vars
=============================================================================
