-------------------------- MODULE MCRuntimeSafety --------------------------
(***************************************************************************)
(* Instances of RuntimeSafety: one caller in one process, two callers in   *)
(* one process or one beside a command, two processes with a caller each.  *)
(***************************************************************************)
EXTENDS RuntimeSafety, TLC

CONSTANTS agent, other, c1, c2, c3

SerialOwner == c1 :> agent
SharedOwner == c1 :> agent @@ c2 :> agent @@ c3 :> other
CallerSymmetry == Permutations({c1, c2})
TwoProcsOwner == c1 :> agent @@ c3 :> other

\* Bounds on what one behaviour combines: a command runs only while one of the two
\* callers in the other process has not called yet, and goes live or stops.
OneTrouble ==
  /\ proc'[other] = "down" \/ \E c \in {c1, c2} : caller'[c] = NewCaller
  /\ caller'[c3] # NewCaller => caller'[c3].op \in {"StartLive", "StopAll"}

SharedSpec == Init /\ [][Next /\ OneTrouble]_vars
=============================================================================
