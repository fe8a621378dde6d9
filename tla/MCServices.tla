----------------------------- MODULE MCServices -----------------------------
(***************************************************************************)
(* The services that run beside the trading core, which do not interact:   *)
(* a behaviour picks one of them and runs it; the others stay as they are. *)
(***************************************************************************)
EXTENDS TLC, Vault, VaultStore, TradingTables, StrategyHost,
        RiskLimits, Backtest, StrategyBuilder, Journal, StateBackup, OperatorSettings

CONSTANTS o1, o2, p1, p2

VARIABLE part   \* the service that runs

\* Two orders have one client id, two positions one pair of strategy and symbol.
MCClient == (o1 :> 1) @@ (o2 :> 1)
MCPair == (p1 :> 1) @@ (p2 :> 1)
MCLicences == {Community, [edition |-> "pro", expiry |-> 2, grace |-> 2]}
MCPassword(p) == IF p = p1 THEN "p" ELSE "q"

Parts == {"vault", "store", "tables", "host", "risk",
          "backtest", "builder", "journal", "backup", "config", "audit"}

servicesVars == <<part, vaultVars, storeVars, tablesVars,
                  hostVars, riskVars, backtestVars, builderVars, journalVars, backupVars,
                  configVars, auditVars>>

ServicesInit ==
    /\ part \in Parts
    /\ VaultInit /\ StoreInit /\ TablesInit /\ HostInit
    /\ RiskInit /\ BacktestInit /\ BuilderInit /\ JournalInit /\ BackupInit
    /\ ConfigInit /\ AuditInit
    \* Only the part that runs may start in another than its first initial state.
    /\ part # "store" => wasOld
    /\ part # "risk" => row = NoPosition
    /\ part # "backup" => live["vault.db"] = NoFile
    \* The two backup passwords are alike.
    /\ live["vault.db"].pw # "q"

\* Whatever belongs to a part moves when the part runs.
ServicesNext ==
    /\ UNCHANGED part
    /\ IF part = "vault" THEN VaultNext ELSE UNCHANGED vaultVars
    /\ IF part = "store" THEN StoreNext ELSE UNCHANGED storeVars
    /\ IF part = "tables" THEN TablesNext ELSE UNCHANGED tablesVars
    /\ IF part = "host" THEN HostNext ELSE UNCHANGED hostVars
    /\ IF part = "risk" THEN RiskNext ELSE UNCHANGED riskVars
    /\ IF part = "backtest" THEN BacktestNext ELSE UNCHANGED backtestVars
    /\ IF part = "builder" THEN BuilderNext ELSE UNCHANGED builderVars
    /\ IF part = "journal" THEN JournalNext ELSE UNCHANGED journalVars
    /\ IF part = "backup" THEN BackupNext ELSE UNCHANGED backupVars
    /\ IF part = "config" THEN ConfigNext ELSE UNCHANGED configVars
    /\ IF part = "audit" THEN AuditNext ELSE UNCHANGED auditVars

ServicesSpec == ServicesInit /\ [][ServicesNext]_servicesVars

=============================================================================
