------------------------- MODULE MCEngineLifecycle -------------------------
(***************************************************************************)
(* Instances of EngineLifecycle: workers beside a user and a goroutine     *)
(* that calls Stop, or workers beside two goroutines that call Stop and    *)
(* Shutdown, again and again.                                              *)
(***************************************************************************)
EXTENDS EngineLifecycle

CONSTANTS u1, c1, c2, o1

VARIABLE part   \* "user" or "calls"

\* A behaviour combines Shutdown with the second caller (without the ntp worker and the
\* user), or the user with a caller that stops.
EngineInit ==
  /\ Init
  /\ part \in {"user", "calls"}
  /\ part = "calls" => phase["ntp"] = "exited"

PartNext ==
  /\ UNCHANGED part
  /\ part = "user" => agenda'[c2] = <<>> /\ ~ \E c \in Callers : At(c, "lock")'
  /\ part = "calls" => mode' \in {mode, "halted"}

EngineSpec == EngineInit /\ [][Next /\ PartNext]_<<vars, part>> /\ Fairness
=============================================================================
