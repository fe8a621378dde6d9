---------------------------- MODULE StateBackup ----------------------------
(***************************************************************************)
(* Encrypted backups of the state directory (internal/backup): Create,     *)
(* which reads the files one after the other and writes an archive and     *)
(* its checksum, and Restore, which verifies an archive in a temporary     *)
(* directory and then copies its files over the live ones; os.WriteFile    *)
(* truncates each before it fills it.                                      *)
(*                                                                         *)
(* The agent may write while a backup is made; it is not running during a  *)
(* restore.  One password opens the archive and, in Restore, its vault.    *)
(***************************************************************************)
EXTENDS Integers, Sequences, FiniteSets

CONSTANTS
    BackupPasswords,
    MaxWritesB, MaxArchives, MaxRestores   \* bounds: writes, seconds of archive names, restores

VARIABLES
    live,       \* file -> its content in the state directory
    archives,   \* second -> the archive of that name
    making,     \* the running Create
    restoring,  \* the running Restore
    outcome,    \* how the last Restore ended: "none", "ok", "refused" or "cut"
    former,     \* ghost: the directory when it began
    source,     \* ghost: the files it restored
    liveWrites, restores

backupVars == <<live, archives, making, restoring, outcome, former, source, liveWrites, restores>>

\* In the order of their names; a migration of the staged vault puts "backups" there.
StateFiles == <<"audit.log", "config.yaml", "journal.log", "trades.sqlite", "vault.db">>
StagedNames == <<"audit.log", "backups", "config.yaml", "journal.log", "trades.sqlite", "vault.db">>
FileSet == {StateFiles[k] : k \in DOMAIN StateFiles}

\* A content: its version, the password of a vault, and whether that vault still needs
\* a migration.
Content(n, pw, old) == [n |-> n, pw |-> pw, old |-> old]
NoFile == Content(0, "", FALSE)
\* What a write that was cut short leaves: anything from nothing to nearly all of it.
Torn == Content(-1, "", FALSE)
FreshVault(pw) == Content(1, pw, FALSE)

NotMaking == [at |-> "idle"]
NotRestoring == [at |-> "idle"]

BackupInit ==
    /\ \E pw \in BackupPasswords, old \in BOOLEAN, hasVault \in BOOLEAN :
          live = [f \in FileSet |->
                    CASE f = "vault.db" -> IF hasVault THEN Content(2, pw, old) ELSE NoFile
                      [] f \in {"config.yaml", "trades.sqlite"} -> Content(1, "", FALSE)
                      [] OTHER -> NoFile]
    /\ archives = <<>> /\ making = NotMaking /\ restoring = NotRestoring
    /\ outcome = "none" /\ former = live /\ source = live
    /\ liveWrites = 0 /\ restores = 0

\* The agent writes a file, and makes one that is missing; a torn one it writes anew,
\* or adds to it.
AgentWrites(f) ==
    /\ restoring.at = "idle" /\ liveWrites < MaxWritesB
    /\ liveWrites' = liveWrites + 1
    /\ \E pw \in IF f = "vault.db" THEN BackupPasswords ELSE {""} :
          \/ live[f] \in {NoFile, Torn} /\ live' = [live EXCEPT ![f] = Content(3, pw, FALSE)]
          \/ live[f] = Torn /\ UNCHANGED live
          \/ live[f] \notin {NoFile, Torn} /\ live' = [live EXCEPT ![f] = Content(@.n + 2, @.pw, FALSE)]
    /\ outcome' = "none" /\ former' = live' /\ source' = live'
    /\ UNCHANGED <<archives, making, restoring, restores>>

-----------------------------------------------------------------------------
kept == <<live, restoring, outcome, former, source, liveWrites, restores>>

CreateStarts(pw) ==
    /\ making.at = "idle" /\ live["config.yaml"] # NoFile
    /\ making' = [at |-> "reading", pw |-> pw, next |-> 1, files |-> [f \in FileSet |-> NoFile]]
    /\ UNCHANGED <<archives, kept>>

\* A file that does not exist is skipped.
CreateReads ==
    /\ making.at = "reading" /\ making.next =< Len(StateFiles)
    /\ LET f == StateFiles[making.next] IN
          making' = [making EXCEPT !.next = @ + 1, !.files[f] = live[f]]
    /\ UNCHANGED <<archives, kept>>

\* os.Create truncates an archive of the same second and leaves its checksum file.
CreateOpens(second) ==
    /\ making.at = "reading" /\ making.next > Len(StateFiles)
    /\ making' = [at |-> "writing", second |-> second, pw |-> making.pw, files |-> making.files]
    /\ archives' = [s \in DOMAIN archives \union {second} |->
          IF s # second THEN archives[s]
          ELSE [whole |-> FALSE, pw |-> making.pw, files |-> making.files,
                sum |-> IF s \in DOMAIN archives /\ archives[s].sum # "none" THEN "stale" ELSE "none"]]
    /\ UNCHANGED kept

CreateEncrypts ==
    /\ making.at = "writing"
    /\ making' = [at |-> "summing", second |-> making.second]
    /\ archives' = [archives EXCEPT ![making.second].whole = TRUE]
    /\ UNCHANGED kept

CreateSums ==
    /\ making.at = "summing"
    /\ making' = NotMaking
    /\ archives' = [archives EXCEPT ![making.second].sum = "ok"]
    /\ UNCHANGED kept

\* An error or the end of the process.
CreateStops ==
    /\ making.at # "idle"
    /\ making' = NotMaking
    /\ UNCHANGED <<archives, kept>>

-----------------------------------------------------------------------------
\* What the temporary directory holds once the vault was opened in it: the opening
\* migrates an old vault, and makes one where the archive has none.
Staged(a) ==
    [f \in FileSet |-> IF f # "vault.db" THEN a.files[f]
                       ELSE IF a.files[f] = NoFile THEN FreshVault(a.pw)
                       ELSE [a.files[f] EXCEPT !.old = FALSE]]
HasBackupsDir(a) == a.files["vault.db"].old

\* Checksum, decryption, configuration and vault. A torn file may still decode.
Verifies(a, pw, decodes) ==
    /\ a.sum = "ok" /\ a.whole /\ a.pw = pw
    /\ a.files["config.yaml"] # NoFile
    /\ a.files["vault.db"] \in {NoFile, Torn} \/ a.files["vault.db"].pw = pw
    /\ Torn \in {a.files["config.yaml"], a.files["vault.db"]} => decodes

\* Slip: the archive is extracted over the live files and verified there.
ExtractsInPlace(a) ==
    IF a.sum = "ok" /\ a.whole
    THEN [f \in FileSet |-> IF a.files[f] # NoFile THEN a.files[f] ELSE live[f]] ELSE live
Extracts(a) == live

RestoreVerifies(second, pw) ==
    /\ restoring.at = "idle" /\ making.at = "idle" /\ restores < MaxRestores
    /\ second \in DOMAIN archives
    /\ LET a == archives[second] IN
          /\ former' = live /\ source' = a.files
          /\ live' = Extracts(a)
          /\ \/ /\ \E decodes \in BOOLEAN : Verifies(a, pw, decodes)
                /\ restoring' = [at |-> "copying", next |-> 1, staged |-> Staged(a),
                                 backups |-> HasBackupsDir(a)]
                /\ outcome' = "none"
             \/ /\ \E decodes \in BOOLEAN : ~Verifies(a, pw, decodes)
                /\ outcome' = "refused" /\ UNCHANGED restoring
    /\ restores' = restores + 1
    /\ UNCHANGED <<archives, making, liveWrites>>

\* The next entry: a file that was not archived is not there, and a directory cannot
\* be read.
RestoreCopies ==
    /\ restoring.at = "copying" /\ restoring.next =< Len(StagedNames)
    /\ LET f == StagedNames[restoring.next]
           present == IF f = "backups" THEN restoring.backups ELSE restoring.staged[f] # NoFile
       IN
          \/ /\ f = "backups" /\ present
             /\ restoring' = NotRestoring /\ outcome' = "cut" /\ UNCHANGED live
          \/ /\ ~present
             /\ restoring' = [restoring EXCEPT !.next = @ + 1] /\ UNCHANGED <<live, outcome>>
          \/ /\ f # "backups" /\ present
             /\ live' = [live EXCEPT ![f] = Torn]
             /\ restoring' = [restoring EXCEPT !.at = "filling"] /\ UNCHANGED outcome
    /\ UNCHANGED <<archives, making, former, source, liveWrites, restores>>

RestoreFills ==
    /\ restoring.at = "filling"
    /\ LET f == StagedNames[restoring.next] IN live' = [live EXCEPT ![f] = restoring.staged[f]]
    /\ restoring' = [restoring EXCEPT !.at = "copying", !.next = @ + 1]
    /\ UNCHANGED <<archives, making, outcome, former, source, liveWrites, restores>>

RestoreReturns ==
    /\ restoring.at = "copying" /\ restoring.next > Len(StagedNames)
    /\ restoring' = NotRestoring /\ outcome' = "ok"
    /\ UNCHANGED <<live, archives, making, former, source, liveWrites, restores>>

\* An error or the end of the process, also in the middle of a file.
RestoreStops ==
    /\ restoring.at \in {"copying", "filling"}
    /\ restoring' = NotRestoring /\ outcome' = "cut"
    /\ UNCHANGED <<live, archives, making, former, source, liveWrites, restores>>

BackupNext ==
    \/ \E f \in FileSet : AgentWrites(f)
    \/ \E pw \in BackupPasswords : CreateStarts(pw)
    \/ CreateReads
    \/ \E s \in 1..MaxArchives : CreateOpens(s)
    \/ CreateEncrypts \/ CreateSums \/ CreateStops
    \/ \E s \in 1..MaxArchives, pw \in BackupPasswords : RestoreVerifies(s, pw)
    \/ RestoreCopies \/ RestoreFills \/ RestoreReturns \/ RestoreStops

BackupSpec == BackupInit /\ [][BackupNext]_backupVars

-----------------------------------------------------------------------------
BackupTypeOK ==
    /\ DOMAIN live = FileSet /\ DOMAIN archives \subseteq 1..MaxArchives
    /\ \A s \in DOMAIN archives : archives[s].sum \in {"none", "ok", "stale"}
    /\ making.at \in {"idle", "reading", "writing", "summing"}
    /\ restoring.at \in {"idle", "copying", "filling"}
    /\ outcome \in {"none", "ok", "refused", "cut"}

\* What a finished restore leaves of a file: the archive's, which keeps the files it
\* does not have; the vault is replaced, by a new one if the archive has none.
Archived(f) ==
    IF source[f] # NoFile THEN {[source[f] EXCEPT !.old = FALSE]}
    ELSE IF f = "vault.db" THEN {FreshVault(pw) : pw \in BackupPasswords}
    ELSE {former[f]}

\* A restore that is refused has changed nothing, whatever was wrong with the archive;
\* one that returns nil has put every file of a whole archive in place; one that
\* stopped on its way has replaced the files up to some name, may have torn the one
\* it was at, which is then neither the former nor the archived one, and has not
\* touched those after it (backup/backup.go:117-195).
RestoreIsWhole ==
    /\ outcome = "refused" => live = former
    /\ outcome = "ok" => \A f \in FileSet : live[f] \in Archived(f)
    /\ outcome = "cut" =>
          \E at \in 1..Len(StagedNames) + 1 : \A k \in DOMAIN StagedNames :
              LET f == StagedNames[k] IN
              f \in FileSet =>
                  live[f] \in IF k < at THEN Archived(f)
                              ELSE IF k = at THEN {former[f], Torn} ELSE {former[f]}
=============================================================================
