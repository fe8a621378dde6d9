-------------------------- MODULE OperatorSettings --------------------------
(***************************************************************************)
(* What the operator settles with the agent: its configuration with the    *)
(* licence in it, and the acceptance of the risk disclaimer in the audit   *)
(* log.  The two files do not interact.                                    *)
(***************************************************************************)
EXTENDS ConfigManager, AuditLog

SettingsSpec == ConfigSpec /\ AuditSpec

\* What the operator has settled holds: the configuration the agent runs with is
\* the one its callers were told of, the rights it evaluates from it only fade with
\* time, and an accepted disclaimer is found again (config/config.go,
\* license/license.go, entitlement/evaluator.go, audit/logger.go).
SettingsHold ==
    /\ liveConfig # Down => ConfigSettles /\ RightsOnlyFade(liveConfig.licence)
    /\ AcceptanceIsFound
=============================================================================
