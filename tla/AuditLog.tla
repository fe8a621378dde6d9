------------------------------ MODULE AuditLog -----------------------------
(***************************************************************************)
(* The append-only audit log (audit/logger.go, providers/audit), which     *)
(* holds the operator's acceptance of the financial risk disclaimer: live  *)
(* trading looks for it there each time.                                   *)
(*                                                                         *)
(* A record is one write to the end of the file, which several processes   *)
(* may have open. A write that a full disk or a crash cuts short leaves a  *)
(* line without its end, which the next record continues. What has been    *)
(* written stays: the machine itself does not lose power.                  *)
(***************************************************************************)
EXTENDS Integers, Sequences

CONSTANT MaxRecords   \* bound: records written

VARIABLES
    auditLines,   \* the lines of the file: a record's action or "garbled"
    unended,      \* the last line has no end
    auditRecords, \* writes so far
    acknowledged, \* history: an acceptance with a line of its own was acknowledged
    begun         \* history: an acceptance was requested

auditVars == <<auditLines, unended, auditRecords, acknowledged, begun>>

Acceptance == "accepted_financial_risk_disclaimer"
Actions == {Acceptance, "other"}

AuditInit ==
    /\ auditLines = <<>> /\ unended = FALSE /\ auditRecords = 0
    /\ acknowledged = FALSE /\ begun = FALSE

\* The file after a text has been appended to it.
Appended(text) ==
    IF unended THEN [auditLines EXCEPT ![Len(auditLines)] = "garbled"]
    ELSE Append(auditLines, text)

\* The record is written; Sync may still fail, and then the caller is told so.
WriteRecord(action) ==
    /\ auditRecords < MaxRecords /\ auditRecords' = auditRecords + 1
    /\ auditLines' = Appended(action) /\ unended' = FALSE
    /\ begun' = (begun \/ action = Acceptance)
    /\ \E synced \in BOOLEAN :
          acknowledged' = (acknowledged \/ (synced /\ ~unended /\ action = Acceptance))

\* The write is cut short by an error or the end of the process: nothing of the
\* record is in the file, or its beginning, or all of it but the end of the line.
ShortWrite(action) ==
    /\ auditRecords < MaxRecords /\ auditRecords' = auditRecords + 1
    /\ \/ UNCHANGED <<auditLines, unended>>
       \/ \E text \in {"garbled", action} : auditLines' = Appended(text) /\ unended' = TRUE
    /\ begun' = (begun \/ action = Acceptance)
    /\ UNCHANGED acknowledged

AuditNext == \E action \in Actions : WriteRecord(action) \/ ShortWrite(action)

AuditSpec == AuditInit /\ [][AuditNext]_auditVars

\* HasAction skips the lines that do not decode.
HasAction(action) == \E i \in DOMAIN auditLines : auditLines[i] = action

-----------------------------------------------------------------------------
\* The values of every variable.
AuditTypeOK ==
    /\ auditLines \in Seq(Actions \union {"garbled"}) /\ unended \in BOOLEAN
    /\ unended => auditLines # <<>>

\* An acceptance that was acknowledged is found, whatever writes failed before and
\* after it, unless its record continued a line that had been cut short: that one
\* is lost although its caller was told it was written. And none is found that
\* nobody asked for (audit/logger.go:45-84).
AcceptanceIsFound ==
    /\ acknowledged => HasAction(Acceptance)
    /\ HasAction(Acceptance) => begun
=============================================================================
