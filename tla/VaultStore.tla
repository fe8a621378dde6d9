---------------------------- MODULE VaultStore ----------------------------
(***************************************************************************)
(* Opening the agent's vault file: internal/vault/store.go, called by the  *)
(* application and by the verification of a restored backup.  Openers are  *)
(* processes; each opens the file with its own password.  The file may be  *)
(* absent, or left behind by a version that never migrated it.             *)
(*                                                                         *)
(* One step is one access to the file system or one statement or           *)
(* transaction of the database.  A step of the database may fail instead.  *)
(***************************************************************************)
EXTENDS Naturals, FiniteSets

CONSTANTS Openers, VaultPassword(_), Fingerprints, PublicKeys,
          CopySeconds,      \* the seconds of the clock that name a copy
          Nothing,          \* no value: no row, no key
          LatestVersion     \* the last of vaultMigrations

ASSUME StoreAssumption ==
    /\ LatestVersion \in Nat \ {0}
    /\ \A p, q \in Openers : <<VaultPassword(p), q>> # Nothing

VARIABLES
    file,       \* exists, schema version, verifier row, trusted keys
    copies,     \* second -> the schema versions its copy has pieces of, {} when
                \* there is none or it is not all there
    taken,      \* the seconds that have a copy
    shared,     \* those of them whose copy was truncated to be taken again
    store,      \* opener -> where OpenOrCreate stands and the Store's key
    wasOld      \* the file was there, unmigrated, before any opener

backups == <<copies, taken, shared>>
storeVars == <<file, backups, store, wasOld>>

Versions == 0..LatestVersion
deriveKey(pwd, salt) == <<pwd, salt>>
\* A salt is drawn by the opener that inserts it.
StoreKeys == {deriveKey(VaultPassword(p), q) : p, q \in Openers}

StoreInit ==
    /\ wasOld \in BOOLEAN
    /\ file = [exists |-> wasOld, version |-> 0, salt |-> Nothing, verifier |-> Nothing,
               trusted |-> [f \in Fingerprints |-> Nothing]]
    /\ copies = [s \in CopySeconds |-> {}] /\ taken = {} /\ shared = {}
    /\ store = [p \in Openers |-> [at |-> "idle", key |-> Nothing]]

Stands(p, where) == store[p].at = where
Go(p, where) == store' = [store EXCEPT ![p].at = where]
GoWith(p, key) == store' = [store EXCEPT ![p] = [at |-> "open", key |-> key]]

FileExists(p) ==
    /\ Stands(p, "idle")
    /\ Go(p, IF file.exists THEN "pending" ELSE "migrate")
    /\ UNCHANGED <<file, backups, wasOld>>

\* hasPendingMigrations reads the version the tables record.
HasPendingMigrations(p) ==
    /\ Stands(p, "pending")
    /\ Go(p, IF file.version < LatestVersion THEN "backup" ELSE "migrate")
    /\ UNCHANGED <<file, backups, wasOld>>

\* The copy is named by the second: os.Create empties one that is there.
CreateVaultBackup(p, s) ==
    /\ Stands(p, "backup")
    /\ copies' = [copies EXCEPT ![s] = {}]
    /\ taken' = taken \union {s}
    /\ shared' = shared \union (taken \intersect {s})
    /\ store' = [store EXCEPT ![p] = [at |-> "copying", key |-> Nothing,
                                     second |-> s, from |-> file.version]]
    /\ UNCHANGED <<file, wasOld>>

\* io.Copy reads the live file piece by piece.  The copy is what the file was
\* unless somebody migrates it, or writes the same copy, meanwhile.
CopyVault(p) ==
    /\ Stands(p, "copying")
    /\ LET s == store[p].second  before == store[p].from IN
       \E pieces \in SUBSET (before..file.version) :
          /\ s \notin shared /\ file.version = before => pieces = {before}
          /\ copies' = [copies EXCEPT ![s] = pieces]
    /\ store' = [store EXCEPT ![p] = [at |-> "migrate", key |-> Nothing]]
    /\ UNCHANGED <<file, taken, shared, wasOld>>

\* applyMigrations reads the version once, then runs every later migration
\* in a transaction that also inserts its version: a version that is there
\* already is a duplicate key.
MigrateReads(p) ==
    /\ Stands(p, "migrate")
    /\ file' = [file EXCEPT !.exists = TRUE]
    /\ store' = [store EXCEPT ![p] =
           [at |-> IF file.version < LatestVersion THEN "apply" ELSE "count",
            key |-> Nothing, next |-> file.version + 1]]
    /\ UNCHANGED <<backups, wasOld>>

MigrateApplies(p) ==
    /\ Stands(p, "apply")
    /\ IF file.version >= store[p].next
       THEN Go(p, "failed") /\ UNCHANGED file
       ELSE /\ file' = [file EXCEPT !.version = store[p].next]
            /\ IF store[p].next = LatestVersion
               THEN Go(p, "count")
               ELSE store' = [store EXCEPT ![p].next = @ + 1]
    /\ UNCHANGED <<backups, wasOld>>

\* bootstrapOrUnlock: no row yet, make the verifier; else open it.
CountsVerifiers(p) ==
    /\ Stands(p, "count")
    /\ Go(p, IF file.verifier = Nothing THEN "insert" ELSE "verify")
    /\ UNCHANGED <<file, backups, wasOld>>

\* Slip: the verifier is upserted, so a second first opener takes the file.
UpsertsVerifier(p) ==
    /\ Stands(p, "insert")
    /\ file' = [file EXCEPT !.salt = p, !.verifier = deriveKey(VaultPassword(p), p)]
    /\ GoWith(p, deriveKey(VaultPassword(p), p))
    /\ UNCHANGED <<backups, wasOld>>

InsertsVerifier(p) ==
    /\ Stands(p, "insert")
    /\ IF file.verifier # Nothing
       THEN Go(p, "failed") /\ UNCHANGED file
       ELSE /\ file' = [file EXCEPT !.salt = p,
                                    !.verifier = deriveKey(VaultPassword(p), p)]
            /\ GoWith(p, deriveKey(VaultPassword(p), p))
    /\ UNCHANGED <<backups, wasOld>>

\* openSealed of the verifier, also what ValidatePassword does.
ValidPassword(pwd) == deriveKey(pwd, file.salt) = file.verifier

OpensVerifier(p) ==
    /\ Stands(p, "verify")
    /\ IF ValidPassword(VaultPassword(p))
       THEN GoWith(p, deriveKey(VaultPassword(p), file.salt))
       ELSE Go(p, "failed")
    /\ UNCHANGED <<file, backups, wasOld>>

\* A trusted key is upserted by its fingerprint; TrustedPluginKey reads it.
StoreTrustedPluginKey(p, f, k) ==
    /\ Stands(p, "open")
    /\ file' = [file EXCEPT !.trusted[f] = k]
    /\ UNCHANGED <<backups, store, wasOld>>

TrustedPluginKey(f) == file.trusted[f]

\* A file operation or a statement fails: OpenOrCreate returns the error.
OpenFails(p) ==
    /\ ~Stands(p, "idle") /\ ~Stands(p, "open") /\ ~Stands(p, "failed")
    /\ Go(p, "failed")
    /\ UNCHANGED <<file, backups, wasOld>>

\* Close, or the end of the process, and another OpenOrCreate.
StoreCloses(p) ==
    /\ Stands(p, "open") \/ Stands(p, "failed")
    /\ store' = [store EXCEPT ![p] = [at |-> "idle", key |-> Nothing]]
    /\ UNCHANGED <<file, backups, wasOld>>

StoreNext == \E p \in Openers :
    \/ FileExists(p)
    \/ HasPendingMigrations(p)
    \/ \E s \in CopySeconds : CreateVaultBackup(p, s)
    \/ CopyVault(p)
    \/ MigrateReads(p)
    \/ MigrateApplies(p)
    \/ CountsVerifiers(p)
    \/ InsertsVerifier(p)
    \/ OpensVerifier(p)
    \/ \E f \in Fingerprints, k \in PublicKeys : StoreTrustedPluginKey(p, f, k)
    \/ OpenFails(p)
    \/ StoreCloses(p)

StoreSpec == StoreInit /\ [][StoreNext]_storeVars

-----------------------------------------------------------------------------
\* The state has the type the code gives it.
StoreTypeOK ==
    /\ file.exists \in BOOLEAN /\ file.version \in Versions
    /\ file.verifier \in StoreKeys \union {Nothing}
    /\ file.trusted \in [Fingerprints -> PublicKeys \union {Nothing}]
    /\ copies \in [CopySeconds -> SUBSET Versions] /\ shared \subseteq taken
    /\ \A p \in Openers : store[p].key \in StoreKeys \union {Nothing}

\* Opening one vault from several processes at once, each of which saw it in
\* an earlier state, never leaves two of them with different keys: a store
\* that is open has the key of the verifier in the file, on the latest schema;
\* and a file that was there before is migrated only once a whole copy of its
\* unmigrated state exists, which stays, unless two openers take their copies
\* in the same second (store.go:59-131, 213-286).
OpenStoresFitTheFile ==
    /\ \A p \in Openers : Stands(p, "open") =>
          store[p].key = file.verifier /\ file.version = LatestVersion
    /\ wasOld /\ file.version > 0 /\ shared = {} =>
          \E s \in CopySeconds : copies[s] = {0}
=============================================================================
