---------------------------- MODULE AgentControl ----------------------------
(***************************************************************************)
(* What the operator of one agent is promised about its run mode, whatever *)
(* fails and crashes: it changes only as the call under way asks, a call   *)
(* is confirmed by the very write that keeps its effect, and a restart     *)
(* never resumes a session.  RuntimeSafety is shown to implement it when   *)
(* one process with one caller uses a state directory.                     *)
(***************************************************************************)
CONSTANT Modes

VARIABLES
  shown,   \* the mode and the connectivity the agent runs with, or Off
  kept,    \* those in its state file
  asked    \* the mode the call under way asks for, or "none"

vars == <<shown, kept, asked>>

Off == [mode |-> "off", net |-> "none"]

Init ==
  /\ shown = Off
  /\ kept = [mode |-> "none", net |-> "connected"]
  /\ asked = "none"

\* A session is not resumed, and neither is a connection that was cut.
AfterRestart(k) ==
  [mode |-> IF k.mode \in {"none", "idle"} THEN "idle" ELSE "halted", net |-> k.net]

\* A file that cannot be read is taken for an emergency stop.
Unreadable == [mode |-> "halted", net |-> "network_waiting"]

Start ==
  /\ shown = Off
  /\ \/ shown' = AfterRestart(kept)
     \/ kept.mode # "none" /\ shown' = Unreadable
  /\ UNCHANGED <<kept, asked>>

Die == shown # Off /\ shown' = Off /\ asked' = "none" /\ UNCHANGED kept

Ask(m) == shown # Off /\ asked = "none" /\ asked' = m /\ UNCHANGED <<shown, kept>>

\* A halt is left for idle only.
Obey ==
  /\ asked # "none"
  /\ shown.mode = "halted" => asked \in {"idle", "halted"}
  /\ shown' = [shown EXCEPT !.mode = asked]
  /\ UNCHANGED <<kept, asked>>

CutOff ==
  /\ asked = "halted" /\ shown.mode = "halted"
  /\ shown' = [shown EXCEPT !.net = "network_waiting"]
  /\ UNCHANGED <<kept, asked>>

Keep == shown # Off /\ kept' = shown /\ UNCHANGED <<shown, asked>>

\* The call returns nil.
Confirm ==
  /\ asked # "none" /\ shown.mode = asked
  /\ asked = "halted" => shown.net = "network_waiting"
  /\ kept' = shown /\ asked' = "none"
  /\ UNCHANGED shown

\* The call returns an error, and leaves what it has done so far.
Fail == asked # "none" /\ asked' = "none" /\ UNCHANGED <<shown, kept>>

Next ==
  \/ Start \/ Die \/ Obey \/ CutOff \/ Keep \/ Confirm \/ Fail
  \/ \E m \in Modes : Ask(m)

Spec == Init /\ [][Next]_vars
=============================================================================
