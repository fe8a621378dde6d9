---------------------------- MODULE Entitlement ----------------------------
(***************************************************************************)
(* What a licence allows at a given time (license.EvaluateState and        *)
(* entitlement.Evaluator). The agent evaluates the licence fields of its   *)
(* configuration on every request and keeps no state of its own.           *)
(***************************************************************************)
EXTENDS Integers

CONSTANTS LicenceTimes,  \* points in time; 0 is the absent expiry
          GracePeriod    \* 48 hours

ASSUME LicenceAssumption == LicenceTimes \subseteq Nat /\ 0 \in LicenceTimes /\ GracePeriod \in Nat

Editions == {"community", "pro", "team", "enterprise"}
NoGrace == -1

Licences == [edition: Editions, expiry: LicenceTimes, grace: LicenceTimes \union {NoGrace}]
Community == [edition |-> "community", expiry |-> 0, grace |-> NoGrace]

\* The features of an edition.
AllowedFeatures(edition) ==
    LET pro == {"webhook_alerts", "cloud_sync"}
        team == pro \union {"strategy_share", "priority_support", "audit_log"}
    IN CASE edition = "pro" -> pro
         [] edition = "team" -> team
         [] edition = "enterprise" -> team \union {"sso", "custom_plugins"}
         [] OTHER -> {}

\* The exchanges, strategies and connectors an edition may use; -1 is any number.
Limits(edition) ==
    LET three(e, s, c) == [exchanges |-> e, strategies |-> s, connectors |-> c] IN
    CASE edition = "pro" -> three(3, 50, 10)
      [] edition = "team" -> three(10, 500, 50)
      [] edition = "enterprise" -> three(-1, -1, -1)
      [] OTHER -> three(1, 5, 2)

\* EvaluateState: licensed until it expires, then in grace for a time.
EvaluateState(now, licence) ==
    IF licence.expiry # 0 /\ now < licence.expiry THEN "licensed"
    ELSE IF licence.grace # NoGrace /\ now - licence.grace >= GracePeriod THEN "risk_only"
    ELSE "grace"

CanUseFeature(now, licence, feature) ==
    EvaluateState(now, licence) # "risk_only" /\ feature \in AllowedFeatures(licence.edition)

\* Limits do not depend on the time.
WithinLimits(licence, kind, current) ==
    Limits(licence.edition)[kind] = -1 \/ current < Limits(licence.edition)[kind]

-----------------------------------------------------------------------------
Rank(state) == CASE state = "licensed" -> 2 [] state = "grace" -> 1 [] state = "risk_only" -> 0

\* Time alone never gives back what a licence has lost, however its expiry and the
\* beginning of its grace lie to each other; and the best edition allows no less
\* than its own, although no limit is written as the smallest number
\* (license.go:67-88, entitlement/models.go:37-66).
RightsOnlyFade(licence) ==
    /\ \A before \in LicenceTimes, now \in LicenceTimes :
          before <= now =>
            /\ Rank(EvaluateState(now, licence)) <= Rank(EvaluateState(before, licence))
            /\ \A f \in AllowedFeatures(licence.edition) :
                  CanUseFeature(now, licence, f) => CanUseFeature(before, licence, f)
    /\ \A kind \in {"exchanges", "strategies", "connectors"}, n \in {0, 1, 2, 9, 49, 499, 500} :
          WithinLimits(licence, kind, n) =>
              WithinLimits([licence EXCEPT !.edition = "enterprise"], kind, n)
=============================================================================
