--------------------------- MODULE ServicesProofs ---------------------------
(***************************************************************************)
(* The services that run beside the trading core keep what the operator    *)
(* entrusts to them: the vault file, its secrets, the tables, the          *)
(* configuration and the others, for any number of processes, handles,     *)
(* sessions and calls.                                                     *)
(***************************************************************************)
EXTENDS Vault, VaultStore, TradingTables, StrategyHost, RiskLimits, Backtest, StrategyBuilder,
        Journal, StateBackup, OperatorSettings, FiniteSetTheorems, SequenceTheorems, WellFoundedInduction, TLAPS

-----------------------------------------------------------------------------
(* Opening the vault file *)

OpenerPlaces == {"idle", "pending", "backup", "copying", "migrate", "apply", "count", "insert",
                 "verify", "open", "failed"}
OpenedBy == [at : OpenerPlaces, key : StoreKeys \union {Nothing}]
Copying == [at : OpenerPlaces, key : StoreKeys \union {Nothing}, second : CopySeconds,
            from : Versions]
Migrating == [at : OpenerPlaces, key : StoreKeys \union {Nothing}, next : Nat]
Opening == OpenedBy \union Copying \union Migrating
VaultFiles == [exists : BOOLEAN, version : Versions, salt : Openers \union {Nothing},
               verifier : StoreKeys \union {Nothing},
               trusted : [Fingerprints -> PublicKeys \union {Nothing}]]

\* The file's unmigrated state is there in a whole copy, or two openers shared a second.
BackedUp == shared = {} => \E s \in CopySeconds : copies[s] = {0}

\* What opener p has reached: beyond the migrations the schema is the latest, which
\* no other opener takes back; the verifier it is to open, or has opened, is there and
\* stays; and whoever may migrate a file left behind finds a copy of it.
OpenerSound(p) ==
    /\ Stands(p, "apply") => store[p].next \in 1..LatestVersion
    /\ store[p].at \in {"count", "insert", "verify", "open"} => file.version = LatestVersion
    /\ store[p].at \in {"verify", "open"} => file.verifier # Nothing
    /\ Stands(p, "open") => store[p].key = file.verifier
    /\ wasOld /\ store[p].at \in {"migrate", "apply", "count", "insert", "verify", "open"} =>
          BackedUp

\* A copy in the making is its opener's own, unless two openers shared a second.
OpenerCopySound(p) ==
    Stands(p, "copying") =>
       /\ store[p] \in Copying /\ store[p].from <= file.version
       /\ store[p].second \in taken
       /\ shared = {} => copies[store[p].second] = {}

CopiesSound ==
    /\ copies \in [CopySeconds -> SUBSET Versions]
    /\ taken \subseteq CopySeconds /\ shared \subseteq taken
    /\ \A s \in CopySeconds \ taken : copies[s] = {}
    /\ \A p \in Openers : OpenerCopySound(p)
    /\ shared = {} => \A p, q \in Openers :
          Stands(p, "copying") /\ Stands(q, "copying") /\ p # q =>
             store[p].second # store[q].second

StoreInv ==
    /\ file \in VaultFiles
    /\ store \in [Openers -> Opening]
    /\ \A p \in Openers : Stands(p, "apply") => store[p] \in Migrating
    /\ wasOld => file.exists
    /\ wasOld /\ file.version > 0 => BackedUp
    /\ \A p \in Openers : OpenerSound(p)
    /\ CopiesSound

LEMMA StoreStarts == StoreInit => StoreInv
<1> SUFFICES ASSUME StoreInit PROVE StoreInv
  OBVIOUS
<1>1. file \in VaultFiles
  BY StoreAssumption DEF StoreInit, VaultFiles, Versions
<1>2. store \in [Openers -> Opening]
  BY DEF StoreInit, Opening, OpenedBy, OpenerPlaces
<1>3. \A p \in Openers : store[p].at = "idle"
  BY DEF StoreInit
<1>4. CopiesSound
  BY <1>3 DEF StoreInit, CopiesSound, OpenerCopySound, Stands
<1> QED BY <1>1, <1>2, <1>3, <1>4 DEF StoreInit, StoreInv, OpenerSound, Stands

\* A copy is only disturbed by whoever takes it: the version only rises.
LEMMA CopiesStay ==
  ASSUME StoreInv, UNCHANGED backups, file.version <= file'.version, file'.version \in Nat,
         NEW p \in Openers, store'[p].at # "copying",
         \A q \in Openers \ {p} : store'[q] = store[q]
  PROVE  CopiesSound' /\ BackedUp' = BackedUp
<1>1. /\ copies' = copies /\ taken' = taken /\ shared' = shared
      /\ file.version \in Nat
  BY DEF backups, StoreInv, VaultFiles, Versions
<1>2. BackedUp' = BackedUp
  BY <1>1 DEF BackedUp
<1>3. ASSUME NEW q \in Openers, Stands(q, "copying")'
      PROVE  q # p /\ store'[q] = store[q] /\ Stands(q, "copying") /\ OpenerCopySound(q)'
  <2>1. q # p /\ store'[q] = store[q] /\ Stands(q, "copying")
    BY <1>3 DEF Stands
  <2>2. OpenerCopySound(q) /\ store[q] \in Copying /\ store[q].from \in Nat
    BY <2>1, StoreAssumption DEF StoreInv, CopiesSound, OpenerCopySound, Copying, Versions
  <2> QED BY <1>1, <2>1, <2>2 DEF OpenerCopySound
<1> QED BY <1>1, <1>2, <1>3 DEF StoreInv, CopiesSound, OpenerCopySound

\* An opener that goes to another place takes its key along; the others stay.
LEMMA OpenerGoes ==
  ASSUME StoreInv, NEW p \in Openers, NEW where \in OpenerPlaces, Go(p, where), where \notin {"apply", "copying"}
  PROVE  /\ store' \in [Openers -> Opening]
         /\ store'[p].at = where /\ store'[p].key = store[p].key
         /\ \A q \in Openers \ {p} : store'[q] = store[q]
         /\ \A q \in Openers : Stands(q, "apply")' => store'[q] \in Migrating
<1> DEFINE r == [store[p] EXCEPT !.at = where]
<1>1. store' = [store EXCEPT ![p] = r]
  BY DEF Go
<1>2. store[p] \in Opening
  BY DEF StoreInv
<1>3. r \in Opening /\ r.at = where /\ r.key = store[p].key
  BY <1>2 DEF Opening, OpenedBy, Copying, Migrating
<1> HIDE DEF r
<1>4. /\ store' \in [Openers -> Opening] /\ store'[p] = r
      /\ \A q \in Openers \ {p} : store'[q] = store[q]
  BY <1>1, <1>3 DEF StoreInv
<1> QED BY <1>3, <1>4 DEF StoreInv, Stands

\* Nor does it matter for the others where an opener goes, while the file stays.
LEMMA OpenerMoves ==
  ASSUME StoreInv, UNCHANGED <<file, wasOld, backups>>,
         NEW p \in Openers, OpenerSound(p)', store'[p].at # "copying",
         store' \in [Openers -> Opening],
         Stands(p, "apply")' => store'[p] \in Migrating,
         \A q \in Openers \ {p} : store'[q] = store[q]
  PROVE  StoreInv'
<1>0. CopiesSound' /\ BackedUp' = BackedUp
  <2>1. file.version \in Nat
    BY DEF StoreInv, VaultFiles, Versions
  <2> QED BY <2>1, CopiesStay
<1>1. \A q \in Openers : OpenerSound(q)'
  BY <1>0 DEF StoreInv, OpenerSound, Stands
<1>2. \A q \in Openers : Stands(q, "apply")' => store'[q] \in Migrating
  BY DEF StoreInv, Stands
<1> QED BY <1>0, <1>1, <1>2 DEF StoreInv

LEMMA StoreInductive == StoreInv /\ [StoreNext]_storeVars => StoreInv'
<1> SUFFICES ASSUME StoreInv, [StoreNext]_storeVars PROVE StoreInv'
  OBVIOUS
<1>t. /\ file \in VaultFiles /\ file.version \in Nat /\ LatestVersion \in Nat /\ LatestVersion > 0
      /\ file.version <= LatestVersion
  BY StoreAssumption DEF StoreInv, VaultFiles, Versions
<1>c. UNCHANGED backups => BackedUp' = BackedUp
  BY DEF backups, BackedUp
<1>1. CASE UNCHANGED storeVars
  BY <1>1 DEF storeVars, backups, StoreInv, OpenerSound, CopiesSound, OpenerCopySound, BackedUp, Stands
<1>2. ASSUME NEW p \in Openers, FileExists(p) PROVE StoreInv'
  <2>1. PICK where \in {"pending", "migrate"} :
          Go(p, where) /\ (where = "migrate" => ~file.exists)
    BY <1>2 DEF FileExists
  <2>2. where \in OpenerPlaces
    BY DEF OpenerPlaces
  <2>3. OpenerSound(p)'
    BY <1>2, <2>1, <2>2, OpenerGoes DEF FileExists, StoreInv, OpenerSound, Stands
  <2> QED BY <1>2, <2>1, <2>2, <2>3, OpenerGoes, OpenerMoves DEF FileExists
<1>3. ASSUME NEW p \in Openers, HasPendingMigrations(p) PROVE StoreInv'
  <2>1. PICK where \in {"backup", "migrate"} :
          Go(p, where) /\ (where = "migrate" => ~(file.version < LatestVersion))
    BY <1>3 DEF HasPendingMigrations
  <2>2. where \in OpenerPlaces
    BY DEF OpenerPlaces
  <2>3. OpenerSound(p)'
    BY <1>3, <1>c, <1>t, <2>1, <2>2, OpenerGoes DEF HasPendingMigrations, StoreInv, OpenerSound, Stands
  <2> QED BY <1>3, <2>1, <2>2, <2>3, OpenerGoes, OpenerMoves DEF HasPendingMigrations
<1>4. ASSUME NEW p \in Openers, NEW s \in CopySeconds, CreateVaultBackup(p, s) PROVE StoreInv'
  <2> DEFINE r == [at |-> "copying", key |-> Nothing, second |-> s, from |-> file.version]
  <2>1. /\ copies' = [copies EXCEPT ![s] = {}] /\ taken' = taken \union {s}
        /\ shared' = shared \union (taken \intersect {s})
        /\ store' = [store EXCEPT ![p] = r] /\ UNCHANGED <<file, wasOld>>
    BY <1>4 DEF CreateVaultBackup
  <2>2. r \in Copying /\ r.second = s /\ r.from = file.version /\ r.at = "copying"
    BY <1>t DEF Copying, OpenerPlaces, Versions
  <2> HIDE DEF r
  <2>3. /\ store' \in [Openers -> Opening] /\ store'[p] = r
        /\ \A q \in Openers \ {p} : store'[q] = store[q]
    BY <2>1, <2>2 DEF StoreInv, Opening
  <2>4. /\ copies' \in [CopySeconds -> SUBSET Versions] /\ copies'[s] = {}
        /\ \A x \in CopySeconds \ {s} : copies'[x] = copies[x]
    BY <2>1 DEF StoreInv, CopiesSound
  <2>5. shared' = {} => shared = {} /\ s \notin taken /\ copies' = copies
    BY <2>1, <2>4 DEF StoreInv, CopiesSound
  <2>6. BackedUp => BackedUp'
    BY <2>5 DEF BackedUp
  <2>7. \A q \in Openers : OpenerSound(q)'
    BY <2>1, <2>2, <2>3, <2>6 DEF StoreInv, OpenerSound, Stands
  <2>8. CopiesSound'
    <3>1. \A q \in Openers : OpenerCopySound(q)'
      <4>1. OpenerCopySound(p)'
        BY <1>t, <2>1, <2>2, <2>3, <2>4 DEF OpenerCopySound
      <4>2. ASSUME NEW q \in Openers \ {p} PROVE OpenerCopySound(q)'
        BY <2>1, <2>3, <2>5 DEF StoreInv, CopiesSound, OpenerCopySound, Stands
      <4> QED BY <4>1, <4>2
    <3>2. shared' = {} => \A q \in Openers \ {p} : Stands(q, "copying") => store[q].second # s
      BY <2>5 DEF StoreInv, CopiesSound, OpenerCopySound
    <3>3. taken' \subseteq CopySeconds /\ shared' \subseteq taken'
          /\ \A x \in CopySeconds \ taken' : copies'[x] = {}
      BY <2>1, <2>4 DEF StoreInv, CopiesSound
    <3>4. shared' = {} => \A q, x \in Openers :
            Stands(q, "copying")' /\ Stands(x, "copying")' /\ q # x =>
               store'[q].second # store'[x].second
      BY <2>2, <2>3, <2>5, <3>2 DEF StoreInv, CopiesSound, Stands
    <3> QED BY <2>4, <3>1, <3>3, <3>4 DEF CopiesSound
  <2> QED BY <2>1, <2>2, <2>3, <2>6, <2>7, <2>8 DEF StoreInv, Stands
<1>4a. ASSUME NEW p \in Openers, CopyVault(p) PROVE StoreInv'
  <2> DEFINE s == store[p].second
             r == [at |-> "migrate", key |-> Nothing]
  <2>1. PICK pieces \in SUBSET (store[p].from..file.version) :
          /\ s \notin shared /\ file.version = store[p].from => pieces = {store[p].from}
          /\ copies' = [copies EXCEPT ![s] = pieces]
    BY <1>4a DEF CopyVault
  <2>2. /\ Stands(p, "copying") /\ store' = [store EXCEPT ![p] = r]
        /\ UNCHANGED <<file, taken, shared, wasOld>>
    BY <1>4a DEF CopyVault
  <2>3. /\ store[p] \in Copying /\ store[p].from \in Nat /\ store[p].from <= file.version
        /\ s \in taken /\ s \in CopySeconds
        /\ shared = {} => copies[s] = {}
    BY <2>2 DEF StoreInv, CopiesSound, OpenerCopySound, Copying, Versions
  <2>4. r \in OpenedBy /\ r.at = "migrate"
    BY DEF OpenedBy, OpenerPlaces
  <2>5. pieces \in SUBSET Versions
    BY <1>t, <2>1, <2>3 DEF Versions
  <2> HIDE DEF r, s
  <2>6. /\ store' \in [Openers -> Opening] /\ store'[p] = r
        /\ \A q \in Openers \ {p} : store'[q] = store[q]
    BY <2>2, <2>4 DEF StoreInv, Opening
  <2>7. /\ copies' \in [CopySeconds -> SUBSET Versions] /\ copies'[s] = pieces
        /\ \A x \in CopySeconds \ {s} : copies'[x] = copies[x]
    BY <2>1, <2>3, <2>5 DEF StoreInv, CopiesSound
  <2>8. BackedUp => BackedUp'
    <3>1. ASSUME NEW x \in CopySeconds, shared = {}, copies[x] = {0} PROVE copies'[x] = {0}
      BY <2>3, <2>7, <3>1
    <3> QED BY <2>2, <3>1 DEF BackedUp
  <2>9. wasOld => BackedUp'
    <3>1. CASE file.version > 0
      BY <2>8, <3>1 DEF StoreInv
    <3>2. CASE file.version = 0
      BY <2>1, <2>2, <2>3, <2>7, <3>2 DEF BackedUp
    <3> QED BY <1>t, <3>1, <3>2
  <2>10. \A q \in Openers : OpenerSound(q)'
    BY <2>2, <2>4, <2>6, <2>8, <2>9 DEF StoreInv, OpenerSound, Stands
  <2>11. CopiesSound'
    <3>1. \A q \in Openers : OpenerCopySound(q)'
      <4>1. OpenerCopySound(p)'
        BY <2>4, <2>6 DEF OpenerCopySound, Stands
      <4>2. ASSUME NEW q \in Openers \ {p}, Stands(q, "copying")' PROVE OpenerCopySound(q)'
        <5>1. Stands(q, "copying") /\ store'[q] = store[q] /\ store[q].second \in CopySeconds
          BY <2>6, <4>2 DEF Stands, StoreInv, CopiesSound, OpenerCopySound
        <5>2. shared = {} => store[q].second # s
          BY <2>2, <5>1 DEF StoreInv, CopiesSound, s
        <5> QED BY <2>2, <2>7, <5>1, <5>2 DEF StoreInv, CopiesSound, OpenerCopySound
      <4> QED BY <4>1, <4>2 DEF OpenerCopySound
    <3>2. \A x \in CopySeconds \ taken' : copies'[x] = {}
      <4>1. ASSUME NEW x \in CopySeconds, x \notin taken' PROVE copies'[x] = {}
        <5>1. x \notin taken /\ x # s
          BY <2>2, <2>3, <4>1
        <5> QED BY <2>7, <5>1 DEF StoreInv, CopiesSound
      <4> QED BY <4>1
    <3>3. shared' = {} => \A q, x \in Openers :
            Stands(q, "copying")' /\ Stands(x, "copying")' /\ q # x =>
               store'[q].second # store'[x].second
      BY <2>2, <2>4, <2>6 DEF StoreInv, CopiesSound, Stands
    <3> QED BY <2>2, <2>7, <3>1, <3>2, <3>3 DEF StoreInv, CopiesSound
  <2> QED BY <2>2, <2>4, <2>6, <2>8, <2>10, <2>11 DEF StoreInv, Stands
<1>5. ASSUME NEW p \in Openers, MigrateReads(p) PROVE StoreInv'
  <2> DEFINE r == [at |-> IF file.version < LatestVersion THEN "apply" ELSE "count",
                   key |-> Nothing, next |-> file.version + 1]
  <2>1. /\ store[p].at = "migrate" /\ file' = [file EXCEPT !.exists = TRUE]
        /\ store' = [store EXCEPT ![p] = r] /\ UNCHANGED <<backups, wasOld>>
    BY <1>5 DEF MigrateReads, Stands
  <2>2. r \in Migrating
    BY <1>t DEF Migrating, OpenerPlaces
  <2>3. r.next = file.version + 1 /\ r.at = IF file.version < LatestVersion THEN "apply" ELSE "count"
    OBVIOUS
  <2> HIDE DEF r
  <2>4. /\ file' \in VaultFiles /\ file'.exists /\ file'.version = file.version
        /\ file'.verifier = file.verifier
    BY <1>t, <2>1 DEF VaultFiles
  <2>5. /\ store' \in [Openers -> Opening] /\ store'[p] = r
        /\ \A q \in Openers \ {p} : store'[q] = store[q]
    BY <2>1, <2>2 DEF StoreInv, Opening
  <2>6. \A q \in Openers \ {p} : OpenerSound(q)'
    BY <1>c, <2>1, <2>4, <2>5 DEF StoreInv, OpenerSound, Stands
  <2>7. OpenerSound(p)'
    BY <1>c, <1>t, <2>1, <2>3, <2>4, <2>5 DEF StoreInv, OpenerSound, Stands
  <2>8. CopiesSound'
    BY <1>t, <2>1, <2>3, <2>4, <2>5, CopiesStay
  <2> QED BY <1>c, <2>1, <2>2, <2>4, <2>5, <2>6, <2>7, <2>8 DEF StoreInv, Stands
<1>6. ASSUME NEW p \in Openers, MigrateApplies(p) PROVE StoreInv'
  <2>1. /\ store[p].at = "apply" /\ UNCHANGED <<backups, wasOld>> /\ store[p] \in Migrating
        /\ store[p].next \in 1..LatestVersion
    BY <1>6 DEF MigrateApplies, Stands, StoreInv, OpenerSound
  <2>2. CASE file.version >= store[p].next
    <3>1. Go(p, "failed") /\ UNCHANGED file /\ "failed" \in OpenerPlaces
      BY <1>6, <2>2 DEF MigrateApplies, OpenerPlaces
    <3>2. OpenerSound(p)'
      BY <3>1, OpenerGoes DEF OpenerSound, Stands
    <3> QED BY <2>1, <3>1, <3>2, OpenerGoes, OpenerMoves
  <2>3. CASE ~(file.version >= store[p].next)
    <3>1. file' = [file EXCEPT !.version = store[p].next]
      BY <1>6, <2>3 DEF MigrateApplies
    <3>2. /\ file' \in VaultFiles /\ file'.version = store[p].next
          /\ file'.exists = file.exists /\ file'.verifier = file.verifier
          /\ file.version < file'.version
      BY <1>t, <2>1, <2>3, <3>1 DEF VaultFiles, Versions
    <3>3. \A q \in Openers \ {p} : store[q].at \notin {"count", "insert", "verify", "open"}
      BY <1>t, <2>1, <2>3 DEF StoreInv, OpenerSound
    <3>4. wasOld => BackedUp
      BY <2>1 DEF StoreInv, OpenerSound
    <3>5. /\ store' \in [Openers -> Opening]
          /\ \A q \in Openers \ {p} : store'[q] = store[q]
          /\ \A q \in Openers : Stands(q, "apply")' => store'[q] \in Migrating
          /\ OpenerSound(p)' /\ store'[p].at # "copying"
      <4>1. CASE store[p].next = LatestVersion
        <5>1. Go(p, "count") /\ "count" \in OpenerPlaces
          BY <1>6, <2>3, <4>1 DEF MigrateApplies, OpenerPlaces
        <5>2. OpenerSound(p)'
          BY <1>c, <2>1, <3>2, <3>4, <4>1, <5>1, OpenerGoes DEF OpenerSound, Stands
        <5> QED BY <5>1, <5>2, OpenerGoes
      <4>2. CASE store[p].next # LatestVersion
        <5> DEFINE r == [store[p] EXCEPT !.next = @ + 1]
        <5>1. store' = [store EXCEPT ![p] = r]
          BY <1>6, <2>3, <4>2 DEF MigrateApplies
        <5>2. r \in Migrating /\ r.at = "apply" /\ r.next = store[p].next + 1
          BY <2>1 DEF Migrating
        <5> HIDE DEF r
        <5>3. /\ store' \in [Openers -> Opening] /\ store'[p] = r
              /\ \A q \in Openers \ {p} : store'[q] = store[q]
          BY <5>1, <5>2 DEF StoreInv, Opening
        <5>4. OpenerSound(p)'
          BY <1>c, <1>t, <2>1, <3>4, <4>2, <5>2, <5>3 DEF OpenerSound, Stands
        <5> QED BY <5>2, <5>3, <5>4 DEF StoreInv, Stands
      <4> QED BY <4>1, <4>2
    <3>6. \A q \in Openers \ {p} : OpenerSound(q)'
      BY <1>c, <2>1, <3>2, <3>3, <3>5 DEF StoreInv, OpenerSound, Stands
    <3>7. CopiesSound'
      BY <1>t, <2>1, <3>2, <3>5, CopiesStay DEF VaultFiles, Versions
    <3> QED BY <1>c, <2>1, <3>2, <3>4, <3>5, <3>6, <3>7 DEF StoreInv
  <2> QED BY <2>2, <2>3
<1>7. ASSUME NEW p \in Openers, CountsVerifiers(p) PROVE StoreInv'
  <2>1. PICK where \in {"insert", "verify"} :
          Go(p, where) /\ (where = "verify" => file.verifier # Nothing)
    BY <1>7 DEF CountsVerifiers
  <2>2. where \in OpenerPlaces
    BY DEF OpenerPlaces
  <2>3. OpenerSound(p)'
    BY <1>7, <1>c, <2>1, <2>2, OpenerGoes DEF CountsVerifiers, StoreInv, OpenerSound, Stands
  <2> QED BY <1>7, <2>1, <2>2, <2>3, OpenerGoes, OpenerMoves DEF CountsVerifiers
<1>8. ASSUME NEW p \in Openers, InsertsVerifier(p) PROVE StoreInv'
  <2>1. store[p].at = "insert" /\ UNCHANGED <<backups, wasOld>>
    BY <1>8 DEF InsertsVerifier, Stands
  <2>2. CASE file.verifier # Nothing
    <3>1. Go(p, "failed") /\ UNCHANGED file /\ "failed" \in OpenerPlaces
      BY <1>8, <2>2 DEF InsertsVerifier, OpenerPlaces
    <3>2. OpenerSound(p)'
      BY <3>1, OpenerGoes DEF OpenerSound, Stands
    <3> QED BY <2>1, <3>1, <3>2, OpenerGoes, OpenerMoves
  <2>3. CASE file.verifier = Nothing
    <3> DEFINE key == deriveKey(VaultPassword(p), p)
    <3>1. key \in StoreKeys /\ key # Nothing
      BY StoreAssumption DEF StoreKeys, deriveKey
    <3>2. /\ file' = [file EXCEPT !.salt = p, !.verifier = key]
          /\ store' = [store EXCEPT ![p] = [at |-> "open", key |-> key]]
      BY <1>8, <2>3 DEF InsertsVerifier, GoWith
    <3> HIDE DEF key
    <3>3. /\ file' \in VaultFiles /\ file'.version = file.version
          /\ file'.exists = file.exists /\ file'.verifier = key
      BY <1>t, <3>1, <3>2 DEF VaultFiles
    <3>4. [at |-> "open", key |-> key] \in OpenedBy
      BY <3>1 DEF OpenedBy, OpenerPlaces
    <3>5. /\ store' \in [Openers -> Opening]
          /\ store'[p].at = "open" /\ store'[p].key = key
          /\ \A q \in Openers \ {p} : store'[q] = store[q]
      BY <3>2, <3>4 DEF StoreInv, Opening
    <3>6. \A q \in Openers : OpenerSound(q)'
      BY <1>c, <2>1, <2>3, <3>1, <3>3, <3>5 DEF StoreInv, OpenerSound, Stands
    <3>7. CopiesSound'
      BY <1>t, <2>1, <3>3, <3>5, CopiesStay
    <3> QED BY <1>c, <2>1, <3>3, <3>5, <3>6, <3>7 DEF StoreInv, Stands
  <2> QED BY <2>2, <2>3
<1>9. ASSUME NEW p \in Openers, OpensVerifier(p) PROVE StoreInv'
  <2>1. store[p].at = "verify" /\ UNCHANGED <<file, backups, wasOld>>
    BY <1>9 DEF OpensVerifier, Stands
  <2>2. CASE ~ValidPassword(VaultPassword(p))
    <3>1. Go(p, "failed") /\ "failed" \in OpenerPlaces
      BY <1>9, <2>2 DEF OpensVerifier, OpenerPlaces
    <3>2. OpenerSound(p)'
      BY <3>1, OpenerGoes DEF OpenerSound, Stands
    <3> QED BY <2>1, <3>1, <3>2, OpenerGoes, OpenerMoves
  <2>3. CASE ValidPassword(VaultPassword(p))
    <3>1. store' = [store EXCEPT ![p] = [at |-> "open", key |-> file.verifier]]
      BY <1>9, <2>3 DEF OpensVerifier, GoWith, ValidPassword
    <3>2. [at |-> "open", key |-> file.verifier] \in OpenedBy
      BY <1>t DEF OpenedBy, OpenerPlaces, VaultFiles
    <3>3. /\ store' \in [Openers -> Opening]
          /\ store'[p].at = "open" /\ store'[p].key = file.verifier
          /\ \A q \in Openers \ {p} : store'[q] = store[q]
      BY <3>1, <3>2 DEF StoreInv, Opening
    <3>4. OpenerSound(p)'
      BY <1>c, <2>1, <3>3 DEF StoreInv, OpenerSound, Stands
    <3> QED BY <2>1, <3>3, <3>4, OpenerMoves DEF Stands
  <2> QED BY <2>2, <2>3
<1>10. ASSUME NEW p \in Openers, NEW f \in Fingerprints, NEW k \in PublicKeys,
              StoreTrustedPluginKey(p, f, k)
       PROVE  StoreInv'
  <2>1. file' = [file EXCEPT !.trusted[f] = k] /\ UNCHANGED <<backups, store, wasOld>>
    BY <1>10 DEF StoreTrustedPluginKey
  <2>2. /\ file' \in VaultFiles /\ file'.version = file.version
        /\ file'.exists = file.exists /\ file'.verifier = file.verifier
    BY <1>t, <2>1 DEF VaultFiles
  <2>3. CopiesSound'
    BY <2>1, <2>2 DEF backups, StoreInv, CopiesSound, OpenerCopySound, Stands
  <2> QED BY <1>c, <2>1, <2>2, <2>3 DEF StoreInv, OpenerSound, Stands
<1>11. ASSUME NEW p \in Openers, OpenFails(p) PROVE StoreInv'
  <2>1. Go(p, "failed") /\ "failed" \in OpenerPlaces /\ UNCHANGED <<file, backups, wasOld>>
    BY <1>11 DEF OpenFails, OpenerPlaces
  <2>2. OpenerSound(p)'
    BY <2>1, OpenerGoes DEF OpenerSound, Stands
  <2> QED BY <2>1, <2>2, OpenerGoes, OpenerMoves
<1>12. ASSUME NEW p \in Openers, StoreCloses(p) PROVE StoreInv'
  <2>1. /\ store' = [store EXCEPT ![p] = [at |-> "idle", key |-> Nothing]]
        /\ UNCHANGED <<file, backups, wasOld>>
    BY <1>12 DEF StoreCloses
  <2>2. [at |-> "idle", key |-> Nothing] \in OpenedBy
    BY DEF OpenedBy, OpenerPlaces
  <2>3. /\ store' \in [Openers -> Opening] /\ store'[p].at = "idle"
        /\ \A q \in Openers \ {p} : store'[q] = store[q]
    BY <2>1, <2>2 DEF StoreInv, Opening
  <2>4. OpenerSound(p)'
    BY <2>3 DEF OpenerSound, Stands
  <2> QED BY <2>1, <2>3, <2>4, OpenerMoves DEF Stands
<1> QED BY <1>1, <1>2, <1>3, <1>4, <1>4a, <1>5, <1>6, <1>7, <1>8, <1>9, <1>10, <1>11, <1>12
        DEF StoreNext

\* However many processes open one vault file at once, whatever each saw of it before
\* and wherever each fails, the open ones have the key of its verifier and the latest
\* schema, and of an old file that is migrated there is a whole copy, unless two openers
\* took theirs in one second (vault/store.go:59-131, 213-286).
THEOREM StoreTheorem == StoreSpec => []OpenStoresFitTheFile
<1>1. StoreInit => StoreInv
  BY StoreStarts
<1>2. StoreInv /\ [StoreNext]_storeVars => StoreInv'
  BY StoreInductive
<1>3. StoreInv => OpenStoresFitTheFile
  BY DEF StoreInv, OpenerSound, BackedUp, OpenStoresFitTheFile, Stands
<1> QED BY <1>1, <1>2, <1>3, PTL DEF StoreSpec

-----------------------------------------------------------------------------
(* The password vault *)

VaultPlains == UNION {[S -> Values \union {NoRow}] : S \in SUBSET Keys}

\* What a call keeps between two of its statements.
Initializing == [op : {"initialize"}, pwd : Passwords]
Unlocking == [op : {"unlock"}, pwd : Passwords, salt : Salts]
Setting == [op : {"set"}, key : Keys, text : SealedTexts]
ChangeStarting == [op : {"change"}, at : {"verify"}, old : Passwords, new : Passwords,
                   salt : Salts \union {NoRow}]
ChangeListing == [op : {"change"}, at : {"list"}, crypto : CryptoKeys]
ChangeReading == [op : {"change"}, at : {"read"}, crypto : CryptoKeys,
                  left : SUBSET Keys, plain : VaultPlains]
VaultCalls == {Idle} \union Initializing \union Unlocking \union Setting
                     \union ChangeStarting \union ChangeListing \union ChangeReading

VaultTypes ==
    /\ meta \in [salt : Salts \union {NoRow}, hash : CryptoKeys \union {NoRow}]
    /\ secrets \in [Keys -> SealedTexts \union {NoRow}]
    /\ handle \in [Handles -> [crypto : CryptoKeys \union {NoRow}, call : VaultCalls]]
    /\ drawn \in 0..MaxSalts
    /\ cut \in BOOLEAN
    /\ written \in [Keys -> Values \union {NoRow}]
    /\ excused \in SUBSET Keys

\* The hash is that of the password under the salt; before it is there, nobody has a
\* key and nothing is stored; and a salt without a hash is an Initialize under way.
FileSound ==
    /\ meta.hash # NoRow => meta.salt # NoRow /\ meta.hash = HashPassword(password, meta.salt)
    /\ meta.hash = NoRow =>
          /\ password = NoRow
          /\ \A k \in Keys : written[k] = NoRow
          /\ \A h \in Handles : handle[h].crypto = NoRow
    /\ meta.salt # NoRow /\ meta.hash = NoRow =>
          cut \/ \E h \in Handles : handle[h].call.op = "initialize"

Does(h, op) == handle[h].call.op = op

\* One Initialize runs at a time, before there is a hash.
InitializeSound(h) ==
    Does(h, "initialize") =>
        /\ meta.salt # NoRow /\ meta.hash = NoRow
        /\ \A g \in Handles : Does(g, "initialize") => g = h

\* A Set that no change of password ran beside has sealed with the key of the file.
SetSound(h) ==
    Does(h, "set") =>
        /\ handle[h].crypto # NoRow
        /\ handle[h].call.key \notin excused =>
              /\ \A g \in Handles : ~Does(g, "change")
              /\ handle[h].call.text.under = NewCrypto(password, meta.salt)

\* A change of password has read, of every row that is still there, what was written.
ChangeSound(h) ==
    Does(h, "change") =>
        /\ handle[h].crypto # NoRow
        /\ handle[h].call.at = "read" =>
              LET c == handle[h].call IN
              /\ \A k \in DOMAIN c.plain : k \notin c.left => c.plain[k] \in Values
              /\ \A k \in Keys \ excused : secrets[k] # NoRow =>
                    /\ k \in DOMAIN c.plain
                    /\ k \notin c.left => c.plain[k] = written[k]

SecretSound(k) ==
    IF written[k] = NoRow THEN secrets[k] = NoRow
    ELSE secrets[k] = Encrypt(NewCrypto(password, meta.salt), written[k])

VaultInv ==
    /\ VaultTypes
    /\ FileSound
    /\ \A h \in Handles : InitializeSound(h) /\ SetSound(h) /\ ChangeSound(h)
    /\ \A k \in Keys \ excused : SecretSound(k)

LEMMA CallKinds ==
  ASSUME NEW c \in VaultCalls
  PROVE  /\ c.op = "initialize" => c \in Initializing
         /\ c.op = "unlock" => c \in Unlocking
         /\ c.op = "set" => c \in Setting
         /\ c.op = "change" /\ c.at = "verify" => c \in ChangeStarting
         /\ c.op = "change" /\ c.at = "list" => c \in ChangeListing
         /\ c.op = "change" /\ c.at = "read" => c \in ChangeReading
BY DEF VaultCalls, Idle, Initializing, Unlocking, Setting, ChangeStarting, ChangeListing,
       ChangeReading

\* What a row holds, as its parts.
LEMMA SealedParts ==
  /\ \A t \in SealedTexts : t.under \in CryptoKeys /\ t.holds \in Values /\ t # NoRow
  /\ \A c \in CryptoKeys, v \in Values : Encrypt(c, v) \in SealedTexts
  /\ \A c \in CryptoKeys : c[1] \in Passwords /\ c[2] \in Salts /\ c = <<c[1], c[2]>> /\ c # NoRow
  /\ \A p \in Passwords, s \in Salts : <<p, s>> \in CryptoKeys
  /\ \A v \in Values : v # NoRow
  /\ \A s \in Salts : s # NoRow
BY NoRowAssumption DEF SealedTexts, Encrypt, CryptoKeys

\* A call that goes on is its handle's, and the key stays.
LEMMA VaultCalling ==
  ASSUME VaultTypes, NEW h \in Handles, NEW c \in VaultCalls, Call(h, c)
  PROVE  /\ handle' \in [Handles -> [crypto : CryptoKeys \union {NoRow}, call : VaultCalls]]
         /\ handle'[h].call = c /\ handle'[h].crypto = handle[h].crypto
         /\ \A g \in Handles \ {h} : handle'[g] = handle[g]
<1> DEFINE r == [handle[h] EXCEPT !.call = c]
<1>1. handle' = [handle EXCEPT ![h] = r]
  BY DEF Call
<1>2. handle[h] \in [crypto : CryptoKeys \union {NoRow}, call : VaultCalls]
  BY DEF VaultTypes
<1>3. /\ r \in [crypto : CryptoKeys \union {NoRow}, call : VaultCalls]
      /\ r.call = c /\ r.crypto = handle[h].crypto
  BY <1>2
<1> HIDE DEF r
<1> QED BY <1>1, <1>3 DEF VaultTypes

\* A handle that takes key c and ends its call.
LEMMA VaultTaking ==
  ASSUME VaultTypes, NEW h \in Handles, NEW c \in CryptoKeys \union {NoRow},
         handle' = [handle EXCEPT ![h] = [crypto |-> c, call |-> Idle]]
  PROVE  /\ handle' \in [Handles -> [crypto : CryptoKeys \union {NoRow}, call : VaultCalls]]
         /\ handle'[h].call = Idle /\ handle'[h].crypto = c
         /\ \A g \in Handles \ {h} : handle'[g] = handle[g]
<1> DEFINE r == [crypto |-> c, call |-> Idle]
<1>1. /\ r \in [crypto : CryptoKeys \union {NoRow}, call : VaultCalls]
      /\ r.call = Idle /\ r.crypto = c
  BY DEF VaultCalls
<1> HIDE DEF r
<1> QED BY <1>1 DEF VaultTypes

\* A handle whose call ends, or has no more to keep than a reading of the file, leaves
\* the others as they are.
LEMMA CallEnds ==
  ASSUME VaultInv, NEW h \in Handles,
         handle' \in [Handles -> [crypto : CryptoKeys \union {NoRow}, call : VaultCalls]],
         \A g \in Handles \ {h} : handle'[g] = handle[g],
         handle'[h].call.op \in {"none", "unlock"},
         handle'[h].crypto # NoRow => meta.hash # NoRow,
         UNCHANGED <<meta, secrets, written, password, excused>>, drawn' \in 0..MaxSalts,
         cut' = (cut \/ Does(h, "initialize"))
  PROVE  VaultInv'
<1>1. VaultTypes'
  BY DEF VaultInv, VaultTypes
<1>2. FileSound'
  BY DEF VaultInv, FileSound, Does
<1>3. \A g \in Handles : InitializeSound(g)' /\ SetSound(g)'
  BY DEF VaultInv, InitializeSound, SetSound, Does
<1>4. \A g \in Handles : ChangeSound(g)'
  BY DEF VaultInv, ChangeSound, Does
<1> QED BY <1>1, <1>2, <1>3, <1>4 DEF VaultInv, SecretSound

LEMMA IdleIsNone == Idle.op = "none" /\ Idle \in VaultCalls
BY DEF Idle, VaultCalls

LEMMA VaultInitializes ==
  ASSUME VaultInv, NEW h \in Handles
  PROVE  /\ \A p \in Passwords : InitializeSalt(h, p) => VaultInv'
         /\ InitializeHash(h) => VaultInv'
<1> USE SealedParts, IdleIsNone
<1>1. ASSUME NEW p \in Passwords, InitializeSalt(h, p) PROVE VaultInv'
  <2> DEFINE c == [op |-> "initialize", pwd |-> p]
  <2>1. c \in VaultCalls /\ c.op = "initialize"
    BY DEF VaultCalls, Initializing
  <2> HIDE DEF c
  <2>2. /\ meta.salt = NoRow /\ meta' = [meta EXCEPT !.salt = drawn + 1]
        /\ drawn < MaxSalts /\ drawn' = drawn + 1 /\ Call(h, c)
        /\ UNCHANGED <<secrets, written, password, excused, cut>>
    BY <1>1 DEF InitializeSalt, DrawSalt, c, ghosts
  <2>3. /\ handle' \in [Handles -> [crypto : CryptoKeys \union {NoRow}, call : VaultCalls]]
        /\ handle'[h].call = c /\ handle'[h].crypto = handle[h].crypto
        /\ \A g \in Handles \ {h} : handle'[g] = handle[g]
    BY <2>1, <2>2, VaultCalling DEF VaultInv
  <2>4. drawn + 1 \in Salts /\ drawn' \in 0..MaxSalts
    BY <2>2, VaultAssumption DEF VaultInv, VaultTypes, Salts
  <2>5. /\ meta' \in [salt : Salts \union {NoRow}, hash : CryptoKeys \union {NoRow}]
        /\ meta'.salt # NoRow /\ meta'.hash = meta.hash
    BY <2>2, <2>4 DEF VaultInv, VaultTypes
  <2>6. /\ meta.hash = NoRow /\ password = NoRow /\ \A k \in Keys : written[k] = NoRow
        /\ \A g \in Handles : handle[g].crypto = NoRow /\ ~Does(g, "initialize")
    BY <2>2 DEF VaultInv, FileSound, InitializeSound
  <2>7. VaultTypes'
    BY <2>2, <2>3, <2>4, <2>5 DEF VaultInv, VaultTypes
  <2>8. FileSound'
    BY <2>1, <2>2, <2>3, <2>5, <2>6 DEF FileSound
  <2>9. \A g \in Handles : ~Does(g, "set") /\ ~Does(g, "change")
    BY <2>6 DEF VaultInv, SetSound, ChangeSound
  <2>10. \A g \in Handles : InitializeSound(g)' /\ SetSound(g)' /\ ChangeSound(g)'
    BY <2>1, <2>3, <2>5, <2>6, <2>9 DEF InitializeSound, SetSound, ChangeSound, Does
  <2>11. \A k \in Keys \ excused : secrets[k] = NoRow
    BY <2>6 DEF VaultInv, SecretSound
  <2> QED BY <2>2, <2>6, <2>7, <2>8, <2>10, <2>11 DEF VaultInv, SecretSound
<1>2. ASSUME InitializeHash(h) PROVE VaultInv'
  <2> DEFINE p == handle[h].call.pwd
  <2>1. handle[h].call \in Initializing
    BY <1>2, CallKinds DEF InitializeHash, VaultInv, VaultTypes
  <2>2. /\ meta' = [meta EXCEPT !.hash = <<p, meta.salt>>] /\ password' = p /\ Call(h, Idle)
        /\ UNCHANGED <<secrets, drawn, written, excused, cut>> /\ Does(h, "initialize")
    BY <1>2 DEF InitializeHash, HashPassword, Return, Does
  <2>3. p \in Passwords
    BY <2>1 DEF Initializing
  <2> HIDE DEF p
  <2>4. meta.salt # NoRow /\ meta.hash = NoRow /\ \A g \in Handles : Does(g, "initialize") => g = h
    BY <2>2 DEF VaultInv, InitializeSound
  <2>5. meta.salt \in Salts /\ <<p, meta.salt>> \in CryptoKeys
    BY <2>3, <2>4 DEF VaultInv, VaultTypes
  <2>6. /\ meta' \in [salt : Salts \union {NoRow}, hash : CryptoKeys \union {NoRow}]
        /\ meta'.salt = meta.salt /\ meta'.hash = <<p, meta.salt>> /\ meta'.hash # NoRow
    BY <2>2, <2>5 DEF VaultInv, VaultTypes
  <2>7. /\ handle' \in [Handles -> [crypto : CryptoKeys \union {NoRow}, call : VaultCalls]]
        /\ handle'[h].call = Idle
        /\ \A g \in Handles \ {h} : handle'[g] = handle[g]
    BY <2>2, VaultCalling DEF VaultInv
  <2>8. VaultTypes'
    BY <2>2, <2>6, <2>7 DEF VaultInv, VaultTypes
  <2>9. FileSound'
    BY <2>2, <2>4, <2>6 DEF FileSound, HashPassword
  <2>10. /\ \A g \in Handles : handle[g].crypto = NoRow
         /\ \A k \in Keys : written[k] = NoRow
    BY <2>4 DEF VaultInv, FileSound
  <2>11. \A g \in Handles : ~Does(g, "set") /\ ~Does(g, "change")
    BY <2>10 DEF VaultInv, SetSound, ChangeSound
  <2>12. \A g \in Handles : InitializeSound(g)' /\ SetSound(g)' /\ ChangeSound(g)'
    BY <2>4, <2>7, <2>11 DEF InitializeSound, SetSound, ChangeSound, Does
  <2>13. \A k \in Keys \ excused : secrets[k] = NoRow
    BY <2>10 DEF VaultInv, SecretSound
  <2> QED BY <2>2, <2>8, <2>10, <2>12, <2>13, <2>9 DEF VaultInv, SecretSound
<1> QED BY <1>1, <1>2

LEMMA VaultUnlocks ==
  ASSUME VaultInv, NEW h \in Handles
  PROVE  /\ \A p \in Passwords : UnlockReads(h, p) => VaultInv'
         /\ UnlockVerifies(h) => VaultInv'
         /\ Lock(h) => VaultInv'
         /\ CallFails(h) => VaultInv'
         /\ VaultCrash(h) => VaultInv'
<1> USE SealedParts, IdleIsNone
<1>t. /\ drawn \in 0..MaxSalts /\ VaultTypes
      /\ handle[h] \in [crypto : CryptoKeys \union {NoRow}, call : VaultCalls]
      /\ handle[h].crypto # NoRow => meta.hash # NoRow
      /\ cut \in BOOLEAN
  BY DEF VaultInv, VaultTypes, FileSound
<1>1. ASSUME NEW p \in Passwords, UnlockReads(h, p) PROVE VaultInv'
  <2> DEFINE c == [op |-> "unlock", pwd |-> p, salt |-> meta.salt]
  <2>1. c \in VaultCalls /\ c.op = "unlock"
    <3>1. meta.salt \in Salts
      BY <1>1 DEF UnlockReads, VaultInv, VaultTypes
    <3> QED BY <3>1 DEF VaultCalls, Unlocking
  <2> HIDE DEF c
  <2>2. /\ Call(h, c) /\ UNCHANGED <<meta, secrets, written, password, excused, drawn, cut>>
        /\ ~Does(h, "initialize")
    BY <1>1 DEF UnlockReads, c, vaultRows, ghosts, IdleHandles, Does
  <2>3. /\ handle' \in [Handles -> [crypto : CryptoKeys \union {NoRow}, call : VaultCalls]]
        /\ handle'[h].call = c /\ handle'[h].crypto = handle[h].crypto
        /\ \A g \in Handles \ {h} : handle'[g] = handle[g]
    BY <1>t, <2>1, <2>2, VaultCalling
  <2> QED BY <1>t, <2>1, <2>2, <2>3, CallEnds
<1>2. ASSUME UnlockVerifies(h) PROVE VaultInv'
  <2> DEFINE c == handle[h].call
             crypto == IF VerifyPassword(c.pwd, c.salt, meta.hash)
                       THEN NewCrypto(c.pwd, c.salt) ELSE NoRow
  <2>1. c \in Unlocking
    BY <1>2, <1>t, CallKinds DEF UnlockVerifies
  <2>2. <<c.pwd, c.salt>> \in CryptoKeys
    BY <2>1 DEF Unlocking
  <2>3. crypto \in CryptoKeys \union {NoRow} /\ (crypto # NoRow => meta.hash # NoRow)
    BY <2>2 DEF VerifyPassword, NewCrypto, HashPassword
  <2>4. /\ handle' = [handle EXCEPT ![h] = [crypto |-> crypto, call |-> Idle]]
        /\ UNCHANGED <<meta, secrets, written, password, excused, drawn, cut>>
        /\ ~Does(h, "initialize")
    BY <1>2 DEF UnlockVerifies, vaultRows, ghosts, Does
  <2> HIDE DEF crypto
  <2>5. /\ handle' \in [Handles -> [crypto : CryptoKeys \union {NoRow}, call : VaultCalls]]
        /\ handle'[h].call = Idle /\ handle'[h].crypto = crypto
        /\ \A g \in Handles \ {h} : handle'[g] = handle[g]
    BY <1>t, <2>3, <2>4, VaultTaking
  <2> QED BY <1>t, <2>3, <2>4, <2>5, CallEnds
<1>3. ASSUME Lock(h) PROVE VaultInv'
  <2> DEFINE r == [handle[h] EXCEPT !.crypto = NoRow]
  <2>1. /\ handle[h].call = Idle /\ handle' = [handle EXCEPT ![h] = r]
        /\ UNCHANGED <<meta, secrets, written, password, excused, drawn, cut>>
        /\ ~Does(h, "initialize")
    BY <1>3 DEF Lock, IdleHandles, vaultRows, ghosts, Does
  <2>2. /\ r \in [crypto : CryptoKeys \union {NoRow}, call : VaultCalls]
        /\ r.crypto = NoRow /\ r.call = Idle
    BY <1>t, <2>1
  <2> HIDE DEF r
  <2>3. /\ handle' \in [Handles -> [crypto : CryptoKeys \union {NoRow}, call : VaultCalls]]
        /\ handle'[h] = r /\ \A g \in Handles \ {h} : handle'[g] = handle[g]
    BY <1>t, <2>1, <2>2 DEF VaultTypes
  <2> QED BY <1>t, <2>1, <2>2, <2>3, CallEnds
<1>4. ASSUME CallFails(h) PROVE VaultInv'
  <2>1. /\ Call(h, Idle) /\ cut' = (cut \/ Does(h, "initialize"))
        /\ UNCHANGED <<meta, secrets, written, password, excused, drawn>>
    BY <1>4 DEF CallFails, Return, vaultRows, Does
  <2>2. /\ handle' \in [Handles -> [crypto : CryptoKeys \union {NoRow}, call : VaultCalls]]
        /\ handle'[h].call = Idle /\ handle'[h].crypto = handle[h].crypto
        /\ \A g \in Handles \ {h} : handle'[g] = handle[g]
    BY <1>t, <2>1, VaultCalling
  <2> QED BY <1>t, <2>1, <2>2, CallEnds
<1>5. ASSUME VaultCrash(h) PROVE VaultInv'
  <2>1. /\ handle' = [handle EXCEPT ![h] = [crypto |-> NoRow, call |-> Idle]]
        /\ cut' = (cut \/ Does(h, "initialize"))
        /\ UNCHANGED <<meta, secrets, written, password, excused, drawn>>
    BY <1>5 DEF VaultCrash, vaultRows, Does
  <2>2. /\ handle' \in [Handles -> [crypto : CryptoKeys \union {NoRow}, call : VaultCalls]]
        /\ handle'[h].call = Idle /\ handle'[h].crypto = NoRow
        /\ \A g \in Handles \ {h} : handle'[g] = handle[g]
    BY <1>t, <2>1, VaultTaking
  <2> QED BY <1>t, <2>1, <2>2, CallEnds
<1> QED BY <1>1, <1>2, <1>3, <1>4, <1>5

LEMMA VaultSets ==
  ASSUME VaultInv, NEW h \in Handles
  PROVE  /\ \A k \in Keys, v \in Values : SetEncrypts(h, k, v) => VaultInv'
         /\ SetStores(h) => VaultInv'
         /\ \A k \in Keys : Delete(h, k) => VaultInv'
<1> USE SealedParts, IdleIsNone
<1>t. VaultTypes
  BY DEF VaultInv
<1>1. ASSUME NEW k \in Keys, NEW v \in Values, SetEncrypts(h, k, v) PROVE VaultInv'
  <2> DEFINE crypto == handle[h].crypto
             c == [op |-> "set", key |-> k, text |-> Encrypt(crypto, v)]
  <2>1. /\ crypto # NoRow /\ handle[h].call = Idle /\ Call(h, c)
        /\ UNCHANGED <<meta, secrets, drawn, written, password, cut>>
        /\ excused' = IF Changing # {} \/ Stale(h) THEN excused \union {k} ELSE excused
    BY <1>1 DEF SetEncrypts, IdleHandles, vaultRows
  <2>2. crypto \in CryptoKeys
    BY <1>t, <2>1 DEF VaultTypes
  <2>3. /\ c \in VaultCalls /\ c.op = "set" /\ c.key = k /\ c.text.under = crypto
    BY <2>2 DEF VaultCalls, Setting, Encrypt
  <2> HIDE DEF c
  <2>4. /\ handle' \in [Handles -> [crypto : CryptoKeys \union {NoRow}, call : VaultCalls]]
        /\ handle'[h].call = c /\ handle'[h].crypto = handle[h].crypto
        /\ \A g \in Handles \ {h} : handle'[g] = handle[g]
    BY <1>t, <2>1, <2>3, VaultCalling
  <2> HIDE DEF crypto
  <2>5. excused' \in SUBSET Keys /\ excused \subseteq excused'
    BY <1>t, <2>1 DEF VaultTypes
  <2>6. k \notin excused' => /\ \A g \in Handles : ~Does(g, "change")
                             /\ crypto = NewCrypto(password, meta.salt)
    BY <2>1 DEF Changing, Stale, NewCrypto, Does, crypto
  <2>7. VaultTypes'
    BY <1>t, <2>1, <2>4, <2>5 DEF VaultTypes
  <2>8. FileSound'
    BY <2>1, <2>3, <2>4 DEF VaultInv, FileSound
  <2>9. \A g \in Handles : InitializeSound(g)'
    BY <2>1, <2>3, <2>4 DEF VaultInv, InitializeSound, Does
  <2>10. ASSUME NEW g \in Handles PROVE SetSound(g)'
    <3>1. CASE g = h
      BY <2>1, <2>3, <2>4, <2>6, <3>1 DEF SetSound, Does, crypto
    <3>2. CASE g # h
      BY <2>1, <2>3, <2>4, <2>5, <3>2 DEF VaultInv, SetSound, Does
    <3> QED BY <3>1, <3>2
  <2>11. \A g \in Handles : ChangeSound(g)'
    BY <2>1, <2>3, <2>4, <2>5 DEF VaultInv, ChangeSound, Does
  <2> QED BY <2>1, <2>5, <2>7, <2>8, <2>9, <2>10, <2>11 DEF VaultInv, SecretSound
<1>2. ASSUME SetStores(h) PROVE VaultInv'
  <2> DEFINE c == handle[h].call
  <2>1. c \in Setting
    BY <1>2, <1>t, CallKinds DEF SetStores, VaultTypes
  <2>2. /\ c.key \in Keys /\ c.text \in SealedTexts /\ c.text.under \in CryptoKeys
        /\ c.text.holds \in Values /\ c.text = Encrypt(c.text.under, c.text.holds)
    BY <2>1 DEF Setting, SealedTexts, Encrypt
  <2>3. /\ secrets' = [secrets EXCEPT ![c.key] = c.text]
        /\ written' = [written EXCEPT ![c.key] = c.text.holds]
        /\ Call(h, Idle) /\ UNCHANGED <<meta, drawn, password, excused, cut>>
        /\ Does(h, "set") /\ handle[h].crypto # NoRow
    BY <1>2 DEF SetStores, Return, Does, VaultInv, SetSound
  <2>4. /\ handle' \in [Handles -> [crypto : CryptoKeys \union {NoRow}, call : VaultCalls]]
        /\ handle'[h].call = Idle /\ handle'[h].crypto = handle[h].crypto
        /\ \A g \in Handles \ {h} : handle'[g] = handle[g]
    BY <1>t, <2>3, VaultCalling
  <2>5. c.key \notin excused => /\ \A g \in Handles : ~Does(g, "change")
                                /\ c.text.under = NewCrypto(password, meta.salt)
    BY <2>3 DEF VaultInv, SetSound
  <2> DEFINE key == c.key
             text == c.text
  <2> HIDE DEF c
  <2>6. VaultTypes'
    BY <1>t, <2>2, <2>3, <2>4 DEF VaultTypes
  <2>7. meta.hash # NoRow
    BY <2>3 DEF VaultInv, FileSound
  <2>8. FileSound'
    BY <2>3, <2>4, <2>7 DEF VaultInv, FileSound
  <2>9. \A g \in Handles : InitializeSound(g)' /\ SetSound(g)'
    <3>1. \A g \in Handles : InitializeSound(g)'
      BY <2>3, <2>4 DEF VaultInv, InitializeSound, Does
    <3>2. \A g \in Handles : SetSound(g)'
      BY <2>3, <2>4 DEF VaultInv, SetSound, Does
    <3> QED BY <3>1, <3>2
  <2>10. \A k \in Keys : k # c.key => secrets'[k] = secrets[k] /\ written'[k] = written[k]
    BY <1>t, <2>2, <2>3 DEF VaultTypes
  <2>11. ASSUME NEW g \in Handles PROVE ChangeSound(g)'
    <3> SUFFICES ASSUME Does(g, "change")' PROVE ChangeSound(g)'
      BY DEF ChangeSound
    <3>1. g # h /\ handle'[g] = handle[g] /\ Does(g, "change")
      BY <2>4 DEF Does
    <3>2. \A k \in Keys \ excused : secrets'[k] = secrets[k] /\ written'[k] = written[k]
      BY <2>5, <2>10, <3>1
    <3> QED BY <2>3, <3>1, <3>2 DEF VaultInv, ChangeSound
  <2>12. \A k \in Keys \ excused : SecretSound(k)'
    <3> SUFFICES ASSUME NEW k \in Keys \ excused PROVE SecretSound(k)'
      OBVIOUS
    <3>1. CASE k # c.key
      BY <2>3, <2>10, <3>1 DEF VaultInv, SecretSound
    <3>2. CASE k = c.key
      <4>1. secrets'[k] = c.text /\ written'[k] = c.text.holds
        BY <1>t, <2>2, <2>3, <3>2 DEF VaultTypes
      <4> QED BY <2>2, <2>3, <2>5, <3>2, <4>1 DEF SecretSound
    <3> QED BY <3>1, <3>2
  <2> QED BY <2>3, <2>6, <2>8, <2>9, <2>11, <2>12 DEF VaultInv
<1>3. ASSUME NEW k \in Keys, Delete(h, k) PROVE VaultInv'
  <2>1. /\ secrets' = [secrets EXCEPT ![k] = NoRow] /\ written' = [written EXCEPT ![k] = NoRow]
        /\ UNCHANGED <<meta, handle, drawn, password, excused, cut>>
    BY <1>3 DEF Delete
  <2>2. /\ secrets' \in [Keys -> SealedTexts \union {NoRow}]
        /\ written' \in [Keys -> Values \union {NoRow}]
        /\ secrets'[k] = NoRow /\ written'[k] = NoRow
        /\ \A j \in Keys : j # k => secrets'[j] = secrets[j] /\ written'[j] = written[j]
    BY <1>t, <2>1 DEF VaultTypes
  <2>3. VaultTypes'
    BY <1>t, <2>1, <2>2 DEF VaultTypes
  <2>4. FileSound'
    BY <2>1, <2>2 DEF VaultInv, FileSound
  <2>5. \A g \in Handles : InitializeSound(g)' /\ SetSound(g)' /\ ChangeSound(g)'
    BY <2>1, <2>2 DEF VaultInv, InitializeSound, SetSound, ChangeSound, Does
  <2> QED BY <2>1, <2>2, <2>3, <2>4, <2>5 DEF VaultInv, SecretSound
<1> QED BY <1>1, <1>2, <1>3

\* A step of a change of password that only reads.
LEMMA ChangeGoesOn ==
  ASSUME VaultInv, NEW h \in Handles, NEW c \in VaultCalls,
         c.op = "change", handle[h].crypto # NoRow, Does(h, "change"), Call(h, c),
         UNCHANGED <<meta, secrets, written, password, excused, cut>>, drawn' \in 0..MaxSalts,
         ChangeSound(h)'
  PROVE  VaultInv'
<1>1. /\ handle' \in [Handles -> [crypto : CryptoKeys \union {NoRow}, call : VaultCalls]]
      /\ handle'[h].call = c /\ handle'[h].crypto = handle[h].crypto
      /\ \A g \in Handles \ {h} : handle'[g] = handle[g]
  BY VaultCalling DEF VaultInv
<1>2. VaultTypes'
  BY <1>1 DEF VaultInv, VaultTypes
<1>3. FileSound'
  BY <1>1 DEF VaultInv, FileSound, Does
<1>4. \A g \in Handles : InitializeSound(g)' /\ SetSound(g)'
  BY <1>1 DEF VaultInv, InitializeSound, SetSound, Does
<1>5. \A g \in Handles : ChangeSound(g)'
  BY <1>1 DEF VaultInv, ChangeSound, Does
<1> QED BY <1>2, <1>3, <1>4, <1>5 DEF VaultInv, SecretSound

\* Or that ends it.
LEMMA ChangeGivesUp ==
  ASSUME VaultInv, NEW h \in Handles, Does(h, "change"), Return(h),
         UNCHANGED <<meta, secrets, written, password, excused, cut, drawn>>
  PROVE  VaultInv'
<1>1. Call(h, Idle) /\ Idle \in VaultCalls /\ Idle.op = "none"
  BY IdleIsNone DEF Return
<1>2. /\ handle' \in [Handles -> [crypto : CryptoKeys \union {NoRow}, call : VaultCalls]]
      /\ handle'[h].call = Idle /\ handle'[h].crypto = handle[h].crypto
      /\ \A g \in Handles \ {h} : handle'[g] = handle[g]
  BY <1>1, VaultCalling DEF VaultInv
<1>3. /\ drawn' \in 0..MaxSalts /\ cut' = (cut \/ Does(h, "initialize"))
      /\ handle'[h].crypto # NoRow => meta.hash # NoRow
  BY <1>2 DEF VaultInv, VaultTypes, FileSound, Does
<1> QED BY <1>1, <1>2, <1>3, CallEnds

LEMMA VaultChangeReads ==
  ASSUME VaultInv, NEW h \in Handles
  PROVE  /\ \A old, new \in Passwords : ChangeReadsSalt(h, old, new) => VaultInv'
         /\ ChangeVerifies(h) => VaultInv'
         /\ ChangeLists(h) => VaultInv'
         /\ ChangeReads(h) => VaultInv'
<1> USE SealedParts, IdleIsNone
<1>t. /\ VaultTypes /\ drawn \in 0..MaxSalts /\ handle[h].call \in VaultCalls
      /\ Does(h, "change") => handle[h].crypto # NoRow
  BY DEF VaultInv, VaultTypes, ChangeSound
<1>1. ASSUME NEW old \in Passwords, NEW new \in Passwords, ChangeReadsSalt(h, old, new)
      PROVE  VaultInv'
  <2> DEFINE c == [op |-> "change", at |-> "verify", old |-> old, new |-> new, salt |-> meta.salt]
  <2>1. c \in VaultCalls /\ c.op = "change" /\ c.at = "verify"
    BY <1>t DEF VaultCalls, ChangeStarting, VaultTypes
  <2>2. /\ Call(h, c) /\ handle[h].call = Idle /\ handle[h].crypto # NoRow
        /\ excused' = excused \union SettingKeys
        /\ UNCHANGED <<meta, secrets, drawn, written, password, cut>>
    BY <1>1 DEF ChangeReadsSalt, IdleHandles, vaultRows
  <2> HIDE DEF c
  <2>3. /\ handle' \in [Handles -> [crypto : CryptoKeys \union {NoRow}, call : VaultCalls]]
        /\ handle'[h].call = c /\ handle'[h].crypto = handle[h].crypto
        /\ \A g \in Handles \ {h} : handle'[g] = handle[g]
    BY <1>t, <2>1, <2>2, VaultCalling
  <2>4. \A g \in Handles : Does(g, "set") => handle[g].call.key \in Keys /\ handle[g].call.key \in excused'
    BY <1>t, <2>2, CallKinds DEF VaultTypes, SettingKeys, Setting, Does
  <2>5. excused' \in SUBSET Keys /\ excused \subseteq excused'
    <3>1. SettingKeys \subseteq Keys
      BY <2>4 DEF SettingKeys, Does
    <3> QED BY <1>t, <2>2, <3>1 DEF VaultTypes
  <2>6. VaultTypes'
    BY <1>t, <2>2, <2>3, <2>5 DEF VaultTypes
  <2>7. FileSound'
    BY <2>1, <2>2, <2>3 DEF VaultInv, FileSound
  <2>8. \A g \in Handles : InitializeSound(g)'
    BY <2>1, <2>2, <2>3 DEF VaultInv, InitializeSound, Does
  <2>9. \A g \in Handles : SetSound(g)'
    BY <2>1, <2>2, <2>3, <2>4 DEF VaultInv, SetSound, Does
  <2>10. \A g \in Handles : ChangeSound(g)'
    BY <2>1, <2>2, <2>3, <2>5 DEF VaultInv, ChangeSound, Does
  <2> QED BY <2>2, <2>5, <2>6, <2>7, <2>8, <2>9, <2>10 DEF VaultInv, SecretSound
<1>2. ASSUME ChangeVerifies(h) PROVE VaultInv'
  <2>1. /\ Does(h, "change") /\ handle[h].call \in ChangeStarting
        /\ UNCHANGED <<meta, secrets, written, password, excused, cut>>
    BY <1>2, <1>t, CallKinds DEF ChangeVerifies, Does, vaultRows, ghosts
  <2>2. CASE VerifyPassword(handle[h].call.old, handle[h].call.salt, meta.hash)
    <3> DEFINE c == [op |-> "change", at |-> "list",
                     crypto |-> NewCrypto(handle[h].call.new, drawn + 1)]
    <3>1. Call(h, c) /\ drawn < MaxSalts /\ drawn' = drawn + 1
      BY <1>2, <2>2 DEF ChangeVerifies, DrawSalt
    <3>2. drawn' \in 0..MaxSalts /\ drawn + 1 \in Salts /\ handle[h].call.new \in Passwords
      BY <1>t, <2>1, <3>1, VaultAssumption DEF Salts, ChangeStarting
    <3>3. <<handle[h].call.new, drawn + 1>> \in CryptoKeys
      BY <3>2
    <3>4. c \in VaultCalls /\ c.op = "change" /\ c.at = "list"
      BY <3>3 DEF VaultCalls, ChangeListing, NewCrypto
    <3> HIDE DEF c
    <3>5. ChangeSound(h)'
      BY <1>t, <2>1, <3>1, <3>4, VaultCalling DEF ChangeSound
    <3> QED BY <1>t, <2>1, <3>1, <3>2, <3>4, <3>5, ChangeGoesOn
  <2>3. CASE ~VerifyPassword(handle[h].call.old, handle[h].call.salt, meta.hash)
    <3>1. Return(h) /\ UNCHANGED drawn
      BY <1>2, <2>3 DEF ChangeVerifies
    <3> QED BY <2>1, <3>1, ChangeGivesUp
  <2> QED BY <2>2, <2>3
<1>3. ASSUME ChangeLists(h) PROVE VaultInv'
  <2> DEFINE none == [k \in List |-> NoRow]
             c == [op |-> "change", at |-> "read", crypto |-> handle[h].call.crypto,
                   left |-> List, plain |-> none]
  <2>1. /\ Does(h, "change") /\ handle[h].call \in ChangeListing
        /\ UNCHANGED <<meta, secrets, drawn, written, password, excused, cut>>
    BY <1>3, <1>t, CallKinds DEF ChangeLists, Does, vaultRows, ghosts
  <2>2. List \in SUBSET Keys
    BY DEF List
  <2>3. none \in VaultPlains /\ DOMAIN none = List
    BY <2>2 DEF VaultPlains
  <2>4. Call(h, c)
    BY <1>3 DEF ChangeLists
  <2> HIDE DEF none
  <2>5. /\ c \in VaultCalls /\ c.op = "change" /\ c.at = "read" /\ c.left = List /\ c.plain = none
    BY <2>1, <2>2, <2>3 DEF VaultCalls, ChangeReading, ChangeListing
  <2> HIDE DEF c
  <2>6. /\ \A k \in DOMAIN c.plain : k \in c.left
        /\ \A k \in Keys : secrets[k] # NoRow => k \in DOMAIN c.plain
    BY <2>3, <2>5 DEF List
  <2>7. handle'[h].call = c /\ handle'[h].crypto = handle[h].crypto
    BY <1>t, <2>4, <2>5, VaultCalling
  <2>8. ChangeSound(h)'
    BY <1>t, <2>1, <2>6, <2>7 DEF ChangeSound
  <2> QED BY <1>t, <2>1, <2>4, <2>5, <2>8, ChangeGoesOn
<1>4. ASSUME ChangeReads(h) PROVE VaultInv'
  <2> DEFINE d == handle[h].call
  <2>1. /\ Does(h, "change") /\ d \in ChangeReading /\ d.at = "read"
        /\ UNCHANGED <<meta, secrets, drawn, written, password, excused, cut>>
    BY <1>4, <1>t, CallKinds DEF ChangeReads, Does, vaultRows, ghosts
  <2>2. PICK k \in d.left :
          IF Get(h, k) = NoRow THEN Return(h)
          ELSE Call(h, [d EXCEPT !.left = @ \ {k}, !.plain[k] = Get(h, k)])
    BY <1>4 DEF ChangeReads
  <2>3. CASE Get(h, k) = NoRow
    BY <2>1, <2>2, <2>3, ChangeGivesUp
  <2>4. CASE Get(h, k) # NoRow
    <3>1. /\ d.left \in SUBSET Keys /\ d.plain \in VaultPlains /\ d.crypto \in CryptoKeys
          /\ k \in Keys /\ d.op = "change"
      BY <2>1 DEF ChangeReading
    <3>2. /\ secrets[k] # NoRow /\ secrets[k].under = handle[h].crypto
          /\ Get(h, k) = secrets[k].holds
      BY <2>4 DEF Get, Decrypt
    <3>3. Get(h, k) \in Values
      BY <1>t, <3>1, <3>2 DEF VaultTypes
    <3> DEFINE v == Get(h, k)
               left == d.left \ {k}
               plain == [d.plain EXCEPT ![k] = v]
               c == [d EXCEPT !.left = left, !.plain = plain]
    <3>4. Call(h, c)
      BY <2>2, <2>4
    <3>5. k \notin excused => v = written[k]
      <4>1. k \notin excused => secrets[k] = Encrypt(NewCrypto(password, meta.salt), written[k])
        BY <3>1, <3>2 DEF VaultInv, SecretSound
      <4>2. \A crypto, w : Encrypt(crypto, w).holds = w
        BY DEF Encrypt
      <4> QED BY <3>2, <4>1, <4>2
    <3> HIDE DEF v
    <3>6. /\ plain \in VaultPlains /\ DOMAIN plain = DOMAIN d.plain
          /\ \A j \in DOMAIN d.plain : plain[j] = IF j = k THEN v ELSE d.plain[j]
      <4>1. PICK S \in SUBSET Keys : d.plain \in [S -> Values \union {NoRow}]
        BY <3>1 DEF VaultPlains
      <4>2. plain \in [S -> Values \union {NoRow}]
        BY <3>3, <4>1 DEF v
      <4> QED BY <4>1, <4>2 DEF VaultPlains
    <3>7. left \in SUBSET Keys
      BY <3>1
    <3> HIDE DEF plain, left
    <3>8. c \in ChangeReading /\ c.op = "change" /\ c.at = "read" /\ c.left = left /\ c.plain = plain
      BY <2>1, <3>6, <3>7 DEF ChangeReading
    <3> HIDE DEF c
    <3>9. c \in VaultCalls
      BY <3>8 DEF VaultCalls
    <3>10. /\ \A j \in DOMAIN d.plain : j \notin d.left => d.plain[j] \in Values
           /\ \A j \in Keys \ excused : secrets[j] # NoRow =>
                 /\ j \in DOMAIN d.plain
                 /\ j \notin d.left => d.plain[j] = written[j]
      BY <2>1 DEF VaultInv, ChangeSound
    <3>11. handle'[h].call = c /\ handle'[h].crypto = handle[h].crypto
      BY <1>t, <3>4, <3>9, VaultCalling
    <3>12. \A j \in DOMAIN c.plain : j \notin c.left => c.plain[j] \in Values
      BY <3>3, <3>6, <3>8, <3>10 DEF left, v
    <3>13. \A j \in Keys \ excused : secrets[j] # NoRow =>
              /\ j \in DOMAIN c.plain
              /\ j \notin c.left => c.plain[j] = written[j]
      BY <3>5, <3>6, <3>8, <3>10 DEF left
    <3>14. ChangeSound(h)'
      BY <1>t, <2>1, <3>11, <3>12, <3>13 DEF ChangeSound
    <3> QED BY <1>t, <2>1, <3>4, <3>8, <3>9, <3>14, ChangeGoesOn
  <2> QED BY <2>3, <2>4
<1> QED BY <1>1, <1>2, <1>3, <1>4

LEMMA VaultChangeCommits ==
  ASSUME VaultInv, NEW h \in Handles, ChangeCommits(h)
  PROVE  VaultInv'
<1> USE SealedParts, IdleIsNone
<1>t. /\ VaultTypes /\ handle[h].call \in VaultCalls
  BY DEF VaultInv, VaultTypes
<1> DEFINE c == handle[h].call
<1>1. /\ Does(h, "change") /\ c \in ChangeReading /\ c.at = "read" /\ c.left = {}
      /\ UNCHANGED <<drawn, written, excused, cut>>
  BY <1>t, CallKinds DEF ChangeCommits, Does
<1>2. /\ secrets' = [k \in Keys |-> IF k \in DOMAIN c.plain /\ secrets[k] # NoRow
                                    THEN Encrypt(c.crypto, c.plain[k]) ELSE secrets[k]]
      /\ meta' = [salt |-> c.crypto[2], hash |-> HashPassword(c.crypto[1], c.crypto[2])]
      /\ password' = c.crypto[1]
      /\ handle' = [handle EXCEPT ![h] = [crypto |-> c.crypto, call |-> Idle]]
  BY DEF ChangeCommits
<1>3. c.crypto \in CryptoKeys
  BY <1>1 DEF ChangeReading
<1>4. /\ \A k \in DOMAIN c.plain : c.plain[k] \in Values
      /\ \A k \in Keys \ excused : secrets[k] # NoRow =>
            k \in DOMAIN c.plain /\ c.plain[k] = written[k]
  BY <1>1 DEF VaultInv, ChangeSound
<1>5. /\ handle' \in [Handles -> [crypto : CryptoKeys \union {NoRow}, call : VaultCalls]]
      /\ handle'[h].call = Idle
      /\ \A g \in Handles \ {h} : handle'[g] = handle[g]
  BY <1>t, <1>2, <1>3, VaultTaking
<1>6. /\ meta' \in [salt : Salts \union {NoRow}, hash : CryptoKeys \union {NoRow}]
      /\ meta'.salt # NoRow /\ meta'.hash = c.crypto /\ meta'.hash # NoRow
      /\ HashPassword(password', meta'.salt) = c.crypto
      /\ NewCrypto(password', meta'.salt) = c.crypto
  BY <1>2, <1>3 DEF HashPassword, NewCrypto
<1>7. secrets' \in [Keys -> SealedTexts \union {NoRow}]
  BY <1>t, <1>2, <1>3, <1>4 DEF VaultTypes
<1>8. \A k \in Keys : secrets'[k] # NoRow => secrets[k] # NoRow
  BY <1>2
<1>9. VaultTypes'
  BY <1>t, <1>1, <1>5, <1>6, <1>7 DEF VaultTypes
<1>10. FileSound'
  BY <1>6 DEF FileSound
<1>11. \A g \in Handles : ~Does(g, "initialize") /\ (Does(g, "set") => handle[g].call.key \in excused)
  BY <1>1, <1>t DEF VaultInv, InitializeSound, SetSound, ChangeSound, FileSound
<1>12. \A g \in Handles : InitializeSound(g)' /\ SetSound(g)'
  BY <1>1, <1>5, <1>11 DEF VaultInv, InitializeSound, SetSound, Does
<1>13. ASSUME NEW g \in Handles PROVE ChangeSound(g)'
  <2> SUFFICES ASSUME Does(g, "change")' PROVE ChangeSound(g)'
    BY DEF ChangeSound
  <2>1. handle'[g] = handle[g] /\ Does(g, "change")
    BY <1>5 DEF Does
  <2> QED BY <1>1, <1>8, <2>1 DEF VaultInv, ChangeSound
<1>14. ASSUME NEW k \in Keys \ excused PROVE SecretSound(k)'
  <2>1. CASE written[k] = NoRow
    BY <1>1, <1>8, <2>1 DEF VaultInv, SecretSound
  <2>2. CASE written[k] # NoRow
    <3>1. secrets[k] # NoRow
      <4>1. /\ meta.hash # NoRow /\ meta.hash = <<password, meta.salt>>
        BY <1>t, <2>2 DEF VaultInv, FileSound, HashPassword
      <4>2. meta.hash \in CryptoKeys /\ written[k] \in Values
        BY <1>t, <2>2, <4>1 DEF VaultTypes
      <4> QED BY <2>2, <4>1, <4>2 DEF VaultInv, SecretSound, NewCrypto
    <3>2. secrets'[k] = Encrypt(c.crypto, written[k])
      BY <1>2, <1>4, <3>1
    <3> QED BY <1>1, <1>6, <2>2, <3>2 DEF SecretSound
  <2> QED BY <2>1, <2>2
<1> QED BY <1>1, <1>9, <1>10, <1>12, <1>13, <1>14 DEF VaultInv

LEMMA VaultInductive == VaultSpec => []VaultInv
<1>1. VaultInit => VaultInv
  <2> SUFFICES ASSUME VaultInit PROVE VaultInv
    OBVIOUS
  <2>1. VaultTypes
    <3>1. [crypto |-> NoRow, call |-> Idle] \in [crypto : CryptoKeys \union {NoRow}, call : VaultCalls]
      BY IdleIsNone
    <3>2. handle \in [Handles -> [crypto : CryptoKeys \union {NoRow}, call : VaultCalls]]
      BY <3>1 DEF VaultInit
    <3>3. drawn \in 0..MaxSalts
      BY VaultAssumption DEF VaultInit
    <3> QED BY <3>2, <3>3 DEF VaultInit, VaultTypes
  <2> QED BY <2>1, IdleIsNone
          DEF VaultInit, VaultInv, FileSound, InitializeSound, SetSound, ChangeSound, SecretSound,
              Does
<1>2. VaultInv /\ [VaultNext]_vaultVars => VaultInv'
  <2> SUFFICES ASSUME VaultInv, [VaultNext]_vaultVars PROVE VaultInv'
    OBVIOUS
  <2>1. CASE UNCHANGED vaultVars
    BY <2>1 DEF vaultVars, VaultInv, VaultTypes, FileSound, InitializeSound, SetSound,
                ChangeSound, SecretSound, Does
  <2>2. CASE VaultNext
    BY <2>2, VaultInitializes, VaultUnlocks, VaultSets, VaultChangeReads, VaultChangeCommits
       DEF VaultNext
  <2> QED BY <2>1, <2>2
<1> QED BY <1>1, <1>2, PTL DEF VaultSpec

\* Changes of the password by any number of handles, with writes, deletions, failures
\* and deaths between any two of their statements, lose no secret that was not written
\* beside one (vault/vault.go:85-158, 207-267, 316-395).
THEOREM VaultTheorem == VaultSpec => []ChangeLosesNoSecret
<1>1. VaultInv => ChangeLosesNoSecret
  BY DEF VaultInv, FileSound, SecretSound, ChangeLosesNoSecret, Does
<1> QED BY <1>1, VaultInductive, PTL

-----------------------------------------------------------------------------
(* The SQLite repositories *)

TableSets ==
    [orders : [OrderIds -> OrderRows \union {NoOne}], fills : [OrderIds -> Nat],
     positions : [PositionIds -> [closed : BOOLEAN] \union {NoOne}],
     strategies : [StrategyIds -> [status : {"idle", "active", "stopped"}] \union {NoOne}],
     symbols : [SymbolNames -> [status : {"trading", "suspended"}] \union {NoOne}],
     balances : SUBSET [asset : Assets, at : 0..MaxTimes, even : BOOLEAN]]

\* An even balance is stored with the balances of the other assets.
WholeSnapshots(rows) ==
    \A r \in rows : r.even =>
        \A a \in Assets : [asset |-> a, at |-> r.at, even |-> TRUE] \in rows
\* The updates of an order are counted from its insertion.
Counted(t, excepted) ==
    \A o \in OrderIds \ excepted :
        t.fills[o] = IF t.orders[o] = NoOne THEN 0 ELSE t.orders[o].filled
TableSound(t, excepted) == t \in TableSets /\ WholeSnapshots(t.balances) /\ Counted(t, excepted)

OrderReads == [id : OrderIds, row : OrderRows]

\* What the transaction on the connection would fall back to is as sound as what it has
\* written, and the order its session has read is the one in the table.
TablesInv ==
    /\ TableSound(tables, loose) /\ TableSound(before, loose)
    /\ conn \in Sessions \union {NoOne}
    /\ session \in [Sessions -> [at : {"idle", "tx", "waits", "gone"},
                                 read : OrderReads \union {NoOne}]]
    /\ loose \in SUBSET OrderIds
    /\ clock \in 0..MaxTimes
    /\ schema \in [tables : BOOLEAN, version : {0, 1}]
    /\ schema.version = 1 \/ boot \in {"record", "ready"} => schema.tables
    /\ \A s \in Sessions : conn = s /\ session[s].read # NoOne =>
          tables.orders[session[s].read.id] = session[s].read.row

LEMMA NoRowsSound == \A l : TableSound(NoRows, l)
<1>1. NoRows \in TableSets
  BY DEF NoRows, Rows, TableSets
<1>2. /\ NoRows.balances = {}
      /\ \A o \in OrderIds : NoRows.orders[o] = NoOne /\ NoRows.fills[o] = 0
  BY DEF NoRows, Rows
<1> QED BY <1>1, <1>2 DEF TableSound, WholeSnapshots, Counted

\* A table that other rows are written to.
LEMMA OtherRows ==
  ASSUME NEW t \in TableSets
  PROVE  /\ \A p \in PositionIds, line \in [closed : BOOLEAN] \union {NoOne} :
               LET u == [t EXCEPT !.positions[p] = line] IN
               u \in TableSets /\ u.orders = t.orders /\ u.fills = t.fills /\ u.balances = t.balances
         /\ \A i \in StrategyIds, line \in [status : {"idle", "active", "stopped"}] \union {NoOne} :
               LET u == [t EXCEPT !.strategies[i] = line] IN
               u \in TableSets /\ u.orders = t.orders /\ u.fills = t.fills /\ u.balances = t.balances
         /\ \A n \in SymbolNames, line \in [status : {"trading", "suspended"}] :
               LET u == [t EXCEPT !.symbols[n] = line] IN
               u \in TableSets /\ u.orders = t.orders /\ u.fills = t.fills /\ u.balances = t.balances
<1>1. ASSUME NEW p \in PositionIds, NEW line \in [closed : BOOLEAN] \union {NoOne}
      PROVE  LET u == [t EXCEPT !.positions[p] = line] IN
             u \in TableSets /\ u.orders = t.orders /\ u.fills = t.fills /\ u.balances = t.balances
  <2> DEFINE v == [t.positions EXCEPT ![p] = line]
  <2>1. v \in [PositionIds -> [closed : BOOLEAN] \union {NoOne}]
    BY DEF TableSets
  <2> HIDE DEF v
  <2>2. LET u == [t EXCEPT !.positions = v] IN
        u \in TableSets /\ u.orders = t.orders /\ u.fills = t.fills /\ u.balances = t.balances
    BY <2>1 DEF TableSets
  <2> QED BY <2>2 DEF v
<1>2. ASSUME NEW i \in StrategyIds,
             NEW line \in [status : {"idle", "active", "stopped"}] \union {NoOne}
      PROVE  LET u == [t EXCEPT !.strategies[i] = line] IN
             u \in TableSets /\ u.orders = t.orders /\ u.fills = t.fills /\ u.balances = t.balances
  <2> DEFINE v == [t.strategies EXCEPT ![i] = line]
  <2>1. v \in [StrategyIds -> [status : {"idle", "active", "stopped"}] \union {NoOne}]
    BY DEF TableSets
  <2> HIDE DEF v
  <2>2. LET u == [t EXCEPT !.strategies = v] IN
        u \in TableSets /\ u.orders = t.orders /\ u.fills = t.fills /\ u.balances = t.balances
    BY <2>1 DEF TableSets
  <2> QED BY <2>2 DEF v
<1>3. ASSUME NEW n \in SymbolNames, NEW line \in [status : {"trading", "suspended"}]
      PROVE  LET u == [t EXCEPT !.symbols[n] = line] IN
             u \in TableSets /\ u.orders = t.orders /\ u.fills = t.fills /\ u.balances = t.balances
  <2> DEFINE v == [t.symbols EXCEPT ![n] = line]
  <2>1. v \in [SymbolNames -> [status : {"trading", "suspended"}] \union {NoOne}]
    BY DEF TableSets
  <2> HIDE DEF v
  <2>2. LET u == [t EXCEPT !.symbols = v] IN
        u \in TableSets /\ u.orders = t.orders /\ u.fills = t.fills /\ u.balances = t.balances
    BY <2>1 DEF TableSets
  <2> QED BY <2>2 DEF v
<1> QED BY <1>1, <1>2, <1>3

\* A statement that keeps the rows of the orders there are.
LEMMA StatementKeeps ==
  ASSUME TablesInv, NEW s \in Sessions, UNCHANGED Same, tables' \in TableSets,
         WholeSnapshots(tables'.balances), Counted(tables', loose),
         \A o \in OrderIds : tables.orders[o] # NoOne => tables'.orders[o] = tables.orders[o]
  PROVE  TablesInv'
<1>1. UNCHANGED <<conn, before, session, schema, boot, loose, clock>>
  BY DEF Same
<1>2. TableSound(tables, loose)' /\ TableSound(before, loose)'
  BY <1>1 DEF TablesInv, TableSound
<1>3. \A r \in Sessions : conn' = r /\ session'[r].read # NoOne =>
         tables'.orders[session'[r].read.id] = session'[r].read.row
  BY <1>1, NoOneAssumption DEF TablesInv, OrderReads
<1> QED BY <1>1, <1>2, <1>3 DEF TablesInv

LEMMA OtherStatements ==
  ASSUME TablesInv, NEW s \in Sessions
  PROVE  /\ \A p \in PositionIds : PositionCreate(s, p) \/ PositionUpdate(s, p) => TablesInv'
         /\ \A i \in StrategyIds :
               StrategyCreate(s, i) \/ StrategyUpdate(s, i) \/ StrategyDelete(s, i) => TablesInv'
         /\ \A n \in SymbolNames : SymbolUpsert(s, n) => TablesInv'
<1>1. tables \in TableSets /\ WholeSnapshots(tables.balances) /\ Counted(tables, loose)
  BY DEF TablesInv, TableSound
<1>2. ASSUME UNCHANGED Same, tables' \in TableSets, tables'.orders = tables.orders,
             tables'.fills = tables.fills, tables'.balances = tables.balances
      PROVE  TablesInv'
  BY <1>1, <1>2, StatementKeeps DEF Counted
<1>3. ASSUME NEW p \in PositionIds, PositionCreate(s, p) \/ PositionUpdate(s, p) PROVE TablesInv'
  <2>1. PICK line \in [closed : BOOLEAN] :
          tables' \in {tables, [tables EXCEPT !.positions[p] = line]}
    <3>1. CASE PositionCreate(s, p)
      <4>1. [closed |-> FALSE] \in [closed : BOOLEAN]
        OBVIOUS
      <4>2. tables' \in {tables, [tables EXCEPT !.positions[p] = [closed |-> FALSE]]}
        BY <3>1 DEF PositionCreate, Put, Insert
      <4> QED BY <4>1, <4>2
    <3>2. CASE PositionUpdate(s, p)
      <4>1. PICK c \in BOOLEAN : tables' = Update("positions", p, [closed |-> c])
        BY <3>2 DEF PositionUpdate, Put
      <4>2. [closed |-> c] \in [closed : BOOLEAN]
        OBVIOUS
      <4> QED BY <4>1, <4>2 DEF Update
    <3> QED BY <1>3, <3>1, <3>2
  <2>2. UNCHANGED Same
    BY <1>3 DEF PositionCreate, PositionUpdate
  <2>3. LET u == [tables EXCEPT !.positions[p] = line] IN
        /\ u \in TableSets /\ u.orders = tables.orders /\ u.fills = tables.fills
        /\ u.balances = tables.balances
    BY <1>1, OtherRows
  <2> QED BY <1>1, <1>2, <2>1, <2>2, <2>3
<1>4. ASSUME NEW i \in StrategyIds,
             StrategyCreate(s, i) \/ StrategyUpdate(s, i) \/ StrategyDelete(s, i)
      PROVE  TablesInv'
  <2>1. PICK line \in [status : {"idle", "active", "stopped"}] \union {NoOne} :
          tables' \in {tables, [tables EXCEPT !.strategies[i] = line]}
    <3>1. CASE StrategyCreate(s, i)
      BY <3>1 DEF StrategyCreate, Put, Insert
    <3>2. CASE StrategyUpdate(s, i)
      BY <3>2 DEF StrategyUpdate, Put, Update
    <3>3. CASE StrategyDelete(s, i)
      BY <3>3 DEF StrategyDelete, Put
    <3> QED BY <1>4, <3>1, <3>2, <3>3
  <2>2. UNCHANGED Same
    BY <1>4 DEF StrategyCreate, StrategyUpdate, StrategyDelete
  <2>3. LET u == [tables EXCEPT !.strategies[i] = line] IN
        /\ u \in TableSets /\ u.orders = tables.orders /\ u.fills = tables.fills
        /\ u.balances = tables.balances
    BY <1>1, OtherRows
  <2> QED BY <1>1, <1>2, <2>1, <2>2, <2>3
<1>5. ASSUME NEW n \in SymbolNames, SymbolUpsert(s, n) PROVE TablesInv'
  <2>1. PICK line \in [status : {"trading", "suspended"}] :
          tables' = [tables EXCEPT !.symbols[n] = line]
    BY <1>5 DEF SymbolUpsert, Put
  <2>2. UNCHANGED Same
    BY <1>5 DEF SymbolUpsert
  <2>3. LET u == [tables EXCEPT !.symbols[n] = line] IN
        /\ u \in TableSets /\ u.orders = tables.orders /\ u.fills = tables.fills
        /\ u.balances = tables.balances
    BY <1>1, OtherRows
  <2> QED BY <1>1, <1>2, <2>1, <2>2, <2>3
<1> QED BY <1>3, <1>4, <1>5

LEMMA BalanceStatements ==
  ASSUME TablesInv, NEW s \in Sessions
  PROVE  /\ BalanceSave(s) => TablesInv'
         /\ BalanceSaveWaits(s) => TablesInv'
<1>1. tables \in TableSets /\ WholeSnapshots(tables.balances) /\ Counted(tables, loose)
  BY DEF TablesInv, TableSound
<1>2. ASSUME BalanceSave(s) PROVE TablesInv'
  <2>0. PICK times \in [Assets -> 0..clock] :
          LET even == \A a, b \in Assets : times[a] = times[b] IN
          Put([tables EXCEPT !.balances = @ \union
                  {[asset |-> a, at |-> times[a], even |-> even] : a \in Assets}])
    BY <1>2 DEF BalanceSave
  <2> DEFINE even == \A a, b \in Assets : times[a] = times[b]
             new == {[asset |-> a, at |-> times[a], even |-> even] : a \in Assets}
             rows == tables.balances \union new
  <2>1. tables' = [tables EXCEPT !.balances = rows] /\ UNCHANGED Same
    BY <1>2, <2>0 DEF BalanceSave, Put
  <2>a. even \in BOOLEAN /\ (even => \A a, b \in Assets : times[a] = times[b])
    OBVIOUS
  <2>b. \A a \in Assets : times[a] \in 0..MaxTimes
    BY TablesAssumption DEF TablesInv
  <2> HIDE DEF even
  <2>c. new \subseteq [asset : Assets, at : 0..MaxTimes, even : BOOLEAN]
    BY <2>a, <2>b
  <2>2. rows \in SUBSET [asset : Assets, at : 0..MaxTimes, even : BOOLEAN]
    BY <1>1, <2>c DEF TablesInv, TableSets
  <2>3. WholeSnapshots(rows)
    <3>1. ASSUME NEW q \in new, q.even, NEW a \in Assets
          PROVE  [asset |-> a, at |-> q.at, even |-> TRUE] \in new
      <4>1. PICK b \in Assets : q = [asset |-> b, at |-> times[b], even |-> even]
        OBVIOUS
      <4>2. even = TRUE /\ times[a] = times[b] /\ q.at = times[b]
        BY <2>a, <3>1, <4>1
      <4>3. [asset |-> a, at |-> times[a], even |-> even] \in new
        OBVIOUS
      <4> QED BY <4>2, <4>3
    <3> HIDE DEF new
    <3> QED BY <1>1, <3>1 DEF WholeSnapshots
  <2> HIDE DEF rows
  <2>4. /\ tables' \in TableSets /\ tables'.balances = rows /\ tables'.orders = tables.orders
        /\ tables'.fills = tables.fills
    BY <1>1, <2>1, <2>2 DEF TableSets
  <2> QED BY <1>1, <2>1, <2>3, <2>4, StatementKeeps DEF Counted
<1>3. ASSUME BalanceSaveWaits(s) PROVE TablesInv'
  <2>1. /\ session' = [session EXCEPT ![s].at = "waits"]
        /\ UNCHANGED <<tables, conn, before, schema, boot, loose, clock>>
    BY <1>3 DEF BalanceSaveWaits
  <2>2. /\ session' \in [Sessions -> [at : {"idle", "tx", "waits", "gone"},
                                      read : OrderReads \union {NoOne}]]
        /\ \A r \in Sessions : session'[r].read = session[r].read
    BY <2>1 DEF TablesInv
  <2> QED BY <2>1, <2>2 DEF TablesInv, TableSound
<1> QED BY <1>2, <1>3

LEMMA OrderStatements ==
  ASSUME TablesInv, NEW s \in Sessions
  PROVE  /\ \A o \in OrderIds : OrderCreate(s, o) => TablesInv'
         /\ OrderRead(s) => TablesInv'
         /\ OrderUpdate(s) => TablesInv'
<1>1. /\ tables \in TableSets /\ WholeSnapshots(tables.balances) /\ Counted(tables, loose)
      /\ tables.orders \in [OrderIds -> OrderRows \union {NoOne}]
      /\ tables.fills \in [OrderIds -> Nat]
  BY DEF TablesInv, TableSound, TableSets
<1>2. ASSUME NEW o \in OrderIds, OrderCreate(s, o) PROVE TablesInv'
  <2> DEFINE line == [status |-> "submitted", filled |-> 0]
             rows == [tables.orders EXCEPT ![o] = line]
  <2>1. /\ UNCHANGED Same
        /\ \/ tables' = tables
           \/ tables.orders[o] = NoOne /\ tables' = [tables EXCEPT !.orders = rows]
    BY <1>2 DEF OrderCreate, Put, Insert
  <2>2. line \in OrderRows /\ line # NoOne /\ line.filled = 0
    BY NoOneAssumption DEF OrderRows
  <2> HIDE DEF line
  <2>3. CASE tables' = tables
    BY <1>1, <2>1, <2>3, StatementKeeps
  <2>4. CASE tables.orders[o] = NoOne /\ tables' = [tables EXCEPT !.orders = rows]
    <3>1. /\ rows \in [OrderIds -> OrderRows \union {NoOne}] /\ rows[o] = line
          /\ \A p \in OrderIds : p # o => rows[p] = tables.orders[p]
      BY <1>1, <2>2
    <3> HIDE DEF rows
    <3>2. /\ tables' \in TableSets /\ tables'.orders = rows /\ tables'.fills = tables.fills
          /\ tables'.balances = tables.balances
      BY <1>1, <2>4, <3>1 DEF TableSets
    <3>3. Counted(tables', loose)
      BY <1>1, <2>2, <2>4, <3>1, <3>2 DEF Counted
    <3> QED BY <1>1, <2>1, <2>4, <3>1, <3>2, <3>3, StatementKeeps
  <2> QED BY <2>1, <2>3, <2>4
<1>3. ASSUME OrderRead(s) PROVE TablesInv'
  <2>1. PICK o \in OrderIds :
          /\ tables.orders[o] # NoOne
          /\ session' = [session EXCEPT ![s].read = [id |-> o, row |-> tables.orders[o]]]
    BY <1>1, <1>3 DEF OrderRead, OrderListActive, Exists, OrderGetByID
  <2>2. UNCHANGED <<tables, conn, before, schema, boot, loose, clock>>
    BY <1>3 DEF OrderRead
  <2> DEFINE read == [id |-> o, row |-> tables.orders[o]]
             r == [session[s] EXCEPT !.read = read]
  <2>3. read \in OrderReads /\ read.id = o /\ read.row = tables.orders[o]
    BY <1>1, <2>1 DEF OrderReads
  <2> HIDE DEF read
  <2>4. /\ r \in [at : {"idle", "tx", "waits", "gone"}, read : OrderReads \union {NoOne}]
        /\ r.read = read
    BY <2>3 DEF TablesInv
  <2>5. session' = [session EXCEPT ![s] = r]
    BY <2>1 DEF read
  <2> HIDE DEF r
  <2>6. /\ session' \in [Sessions -> [at : {"idle", "tx", "waits", "gone"},
                                      read : OrderReads \union {NoOne}]]
        /\ session'[s] = r /\ \A q \in Sessions : q # s => session'[q] = session[q]
    BY <2>4, <2>5 DEF TablesInv
  <2>7. \A q \in Sessions : conn' = q /\ session'[q].read # NoOne =>
           tables'.orders[session'[q].read.id] = session'[q].read.row
    BY <2>2, <2>3, <2>4, <2>6 DEF TablesInv
  <2> QED BY <2>2, <2>6, <2>7 DEF TablesInv, TableSound
<1>4. ASSUME OrderUpdate(s) PROVE TablesInv'
  <2> DEFINE read == session[s].read
             o == read.id
             sum == read.row.filled + 1
             line == [status |-> IF sum = 2 THEN "filled" ELSE "partial", filled |-> sum]
             rows == [tables.orders EXCEPT ![o] = line]
             fills == [tables.fills EXCEPT ![o] = @ + 1]
  <2>1. /\ read # NoOne /\ Executes(s)
        /\ tables' = [Update("orders", o, line) EXCEPT !.fills[o] = @ + 1]
        /\ loose' = IF conn = s THEN loose ELSE loose \union {o}
        /\ session' = [session EXCEPT ![s].read = NoOne]
        /\ UNCHANGED <<conn, before, schema, boot, clock>>
    BY <1>4 DEF OrderUpdate, Writes, Put
  <2>2. read \in OrderReads /\ o \in OrderIds /\ read.row \in OrderRows
    BY <2>1 DEF TablesInv, OrderReads
  <2>3. line \in OrderRows /\ line.filled = read.row.filled + 1 /\ line # NoOne
    BY <2>2, NoOneAssumption DEF OrderRows
  <2>4. conn = s => tables.orders[o] = read.row /\ tables.orders[o] # NoOne
    BY <2>1, <2>2, NoOneAssumption DEF TablesInv
  <2>5. /\ fills \in [OrderIds -> Nat] /\ fills[o] = tables.fills[o] + 1
        /\ \A p \in OrderIds : p # o => fills[p] = tables.fills[p]
    BY <1>1, <2>2
  <2> HIDE DEF line
  <2>6. /\ rows \in [OrderIds -> OrderRows \union {NoOne}] /\ rows[o] = line
        /\ \A p \in OrderIds : p # o => rows[p] = tables.orders[p]
    BY <1>1, <2>2, <2>3
  <2>7. Update("orders", o, line) = IF tables.orders[o] # NoOne THEN [tables EXCEPT !.orders = rows]
                                   ELSE tables
    BY DEF Update
  <2> HIDE DEF rows
  <2>8. LET u == Update("orders", o, line) IN
        /\ u \in TableSets /\ u.fills = tables.fills /\ u.balances = tables.balances
        /\ u.orders = IF tables.orders[o] # NoOne THEN rows ELSE tables.orders
    BY <1>1, <2>6, <2>7 DEF TableSets
  <2> DEFINE u == Update("orders", o, line)
  <2>9. tables' = [u EXCEPT !.fills = fills]
    BY <2>1, <2>8
  <2> HIDE DEF u, fills
  <2>10. /\ tables' \in TableSets /\ tables'.fills = fills /\ tables'.balances = tables.balances
         /\ tables'.orders = IF tables.orders[o] # NoOne THEN rows ELSE tables.orders
    BY <2>5, <2>8, <2>9 DEF TableSets, u
  <2>11. Counted(tables', loose') /\ Counted(before, loose')
    <3>1. CASE conn = s
      <4>1. ASSUME NEW p \in OrderIds \ loose
            PROVE  tables'.fills[p] = IF tables'.orders[p] = NoOne THEN 0 ELSE tables'.orders[p].filled
        <5>1. CASE p = o
          BY <1>1, <2>2, <2>3, <2>4, <2>5, <2>6, <2>10, <3>1, <5>1, NoOneAssumption DEF Counted, OrderRows
        <5>2. CASE p # o
          BY <1>1, <2>5, <2>6, <2>10, <5>2 DEF Counted
        <5> QED BY <5>1, <5>2
      <4> QED BY <2>1, <3>1, <4>1 DEF Counted, TablesInv, TableSound
    <3>2. CASE conn # s
      <4>1. loose' = loose \union {o} /\ UNCHANGED before
        BY <2>1, <3>2
      <4>2. ASSUME NEW p \in OrderIds \ loose'
            PROVE  /\ p \in OrderIds \ loose
                   /\ tables'.fills[p] = tables.fills[p] /\ tables'.orders[p] = tables.orders[p]
        <5>1. p \in OrderIds \ loose /\ p # o
          BY <4>1
        <5> QED BY <2>5, <2>6, <2>10, <5>1
      <4>3. Counted(tables, loose) /\ Counted(before, loose)
        BY DEF TablesInv, TableSound
      <4>4. Counted(tables', loose')
        BY <4>2, <4>3 DEF Counted
      <4>5. Counted(before, loose')
        BY <4>1, <4>3 DEF Counted
      <4> QED BY <4>4, <4>5
    <3> QED BY <3>1, <3>2
  <2>12. loose' \in SUBSET OrderIds
    BY <2>1, <2>2 DEF TablesInv
  <2>13. /\ session' \in [Sessions -> [at : {"idle", "tx", "waits", "gone"},
                                       read : OrderReads \union {NoOne}]]
         /\ session'[s].read = NoOne /\ \A q \in Sessions : q # s => session'[q] = session[q]
    BY <2>1 DEF TablesInv
  <2>14. \A q \in Sessions : q # s => conn # q
    BY <2>1, NoOneAssumption DEF Executes
  <2>15. TableSound(tables, loose)' /\ TableSound(before, loose)'
    BY <1>1, <2>1, <2>10, <2>11 DEF TablesInv, TableSound
  <2> QED BY <2>1, <2>12, <2>13, <2>14, <2>15 DEF TablesInv
<1> QED BY <1>2, <1>3, <1>4

\* A transaction's end, and a session that leaves it open.
LEMMA TransactionStatements ==
  ASSUME TablesInv, NEW s \in Sessions
  PROVE  /\ BeginTx(s) => TablesInv'
         /\ Commit(s) \/ Rollback(s) \/ ContextEnds(s) => TablesInv'
         /\ Panics(s) => TablesInv'
<1>1. ASSUME BeginTx(s) PROVE TablesInv'
  <2>1. /\ conn' = s /\ before' = tables
        /\ session' = [session EXCEPT ![s] = [at |-> "tx", read |-> NoOne]]
        /\ UNCHANGED <<tables, schema, boot, loose, clock>>
    BY <1>1 DEF BeginTx
  <2>2. /\ session' \in [Sessions -> [at : {"idle", "tx", "waits", "gone"},
                                      read : OrderReads \union {NoOne}]]
        /\ session'[s].read = NoOne
    BY <2>1 DEF TablesInv
  <2> QED BY <2>1, <2>2 DEF TablesInv, TableSound
<1>2. ASSUME Commit(s) \/ Rollback(s) \/ ContextEnds(s) PROVE TablesInv'
  <2>1. tables' \in {tables, before} /\ Ends(s)
    BY <1>2 DEF Commit, Rollback, ContextEnds
  <2>2. /\ conn' = NoOne /\ before' = NoRows
        /\ session' = [session EXCEPT ![s] = IdleSession]
        /\ UNCHANGED <<schema, boot, loose, clock>>
    BY <2>1 DEF Ends
  <2>3. session' \in [Sessions -> [at : {"idle", "tx", "waits", "gone"},
                                   read : OrderReads \union {NoOne}]]
    BY <2>2 DEF TablesInv, IdleSession
  <2>4. TableSound(tables, loose)' /\ TableSound(before, loose)'
    BY <2>1, <2>2, NoRowsSound DEF TablesInv
  <2> QED BY <2>2, <2>3, <2>4, NoOneAssumption DEF TablesInv
<1>3. ASSUME Panics(s) PROVE TablesInv'
  <2>1. /\ session' = [session EXCEPT ![s].at = "gone"]
        /\ UNCHANGED <<tables, conn, before, schema, boot, loose, clock>>
    BY <1>3 DEF Panics
  <2>2. /\ session' \in [Sessions -> [at : {"idle", "tx", "waits", "gone"},
                                      read : OrderReads \union {NoOne}]]
        /\ \A r \in Sessions : session'[r].read = session[r].read
    BY <2>1 DEF TablesInv
  <2> QED BY <2>1, <2>2 DEF TablesInv, TableSound
<1> QED BY <1>1, <1>2, <1>3

\* The migrations, a restart anywhere, and the clock.
LEMMA ProcessSteps ==
  ASSUME TablesInv, GetVersion \/ ApplyMigration \/ RecordMigration \/ Restart \/ TimePasses
  PROVE  TablesInv'
<1>t. schema \in [tables : BOOLEAN, version : {0, 1}]
  BY DEF TablesInv
<1>1. CASE GetVersion \/ ApplyMigration \/ RecordMigration
  <2>1. UNCHANGED <<tables, conn, before, session, loose, clock>>
    BY <1>1 DEF GetVersion, ApplyMigration, RecordMigration, others
  <2>2. CASE GetVersion
    BY <1>t, <2>1, <2>2 DEF GetVersion, TablesInv, TableSound
  <2>3. CASE ApplyMigration
    <3>1. schema' \in [tables : BOOLEAN, version : {0, 1}] /\ schema'.tables
      BY <1>t, <2>3 DEF ApplyMigration
    <3> QED BY <2>1, <3>1 DEF TablesInv, TableSound
  <2>4. CASE RecordMigration
    <3>1. schema' \in [tables : BOOLEAN, version : {0, 1}] /\ schema'.tables
      BY <1>t, <2>4 DEF RecordMigration, TablesInv
    <3> QED BY <2>1, <3>1 DEF TablesInv, TableSound
  <2> QED BY <1>1, <2>2, <2>3, <2>4
<1>2. CASE Restart
  <2>1. /\ tables' \in {tables, before} /\ conn' = NoOne /\ before' = NoRows
        /\ session' = [s \in Sessions |-> IdleSession] /\ boot' = "new"
        /\ UNCHANGED <<schema, loose, clock>>
    BY <1>2 DEF Restart
  <2>2. session' \in [Sessions -> [at : {"idle", "tx", "waits", "gone"},
                                   read : OrderReads \union {NoOne}]]
    BY <2>1 DEF IdleSession
  <2>3. TableSound(tables, loose)' /\ TableSound(before, loose)'
    BY <2>1, NoRowsSound DEF TablesInv
  <2> QED BY <2>1, <2>2, <2>3, NoOneAssumption DEF TablesInv
<1>3. CASE TimePasses
  <2>1. clock' \in 0..MaxTimes
    BY <1>3, TablesAssumption DEF TimePasses, TablesInv
  <2> QED BY <1>3, <2>1 DEF TimePasses, TablesInv, TableSound
<1> QED BY <1>1, <1>2, <1>3

LEMMA Least ==
  ASSUME NEW T, T \subseteq Nat, T # {}
  PROVE  \E x \in T : \A y \in T : ~(y < x)
<1>1. IsWellFoundedOn(OpToRel(<, Nat), Nat)
  BY NatLessThanWellFounded
<1>2. \A a, b \in Nat : a < b => <<a, b>> \in OpToRel(<, Nat)
  BY DEF OpToRel
<1>3. PICK u \in T : \A v \in T : ~(<<v, u>> \in OpToRel(<, Nat))
  BY <1>1, WFMin
<1> QED BY <1>2, <1>3

\* A set of numbers with a bound has a greatest one.
LEMMA Greatest ==
  ASSUME NEW n \in Nat, NEW T, T \subseteq 0..n, T # {}
  PROVE  \E x \in T : \A y \in T : y <= x
<1> DEFINE U == {n - x : x \in T}
<1>1. U \subseteq Nat /\ U # {}
  <2>1. \A x \in T : n - x \in Nat
    OBVIOUS
  <2>2. PICK x : x \in T
    OBVIOUS
  <2> QED BY <2>1, <2>2
<1>2. PICK u \in U : \A v \in U : ~(v < u)
  <2> HIDE DEF U
  <2> QED BY <1>1, Least
<1>3. PICK x \in T : u = n - x
  OBVIOUS
<1>4. ASSUME NEW y \in T PROVE y <= x
  <2>1. ~(n - y < n - x) /\ x \in 0..n /\ y \in 0..n
    BY <1>2, <1>3
  <2> QED BY <2>1
<1> QED BY <1>4

\* The place of a time's text among the texts.
TextKey(t) == IF t % 2 = 1 THEN t - 1 ELSE t + 1

LEMMA TextOrder ==
  /\ \A t \in Nat : TextKey(t) \in Nat /\ TextKey(t) <= t + 1
  /\ \A a, b \in Nat : TextLess(a, b) <=> TextKey(a) < TextKey(b)
  /\ \A a, b \in Nat : TextKey(a) = TextKey(b) => a = b
  /\ \A a, b \in Nat : TextKey(a) <= TextKey(b) => a \div 2 <= b \div 2
  /\ \A a, b \in Nat : a <= b => a \div 2 <= b \div 2
BY DEF TextKey, TextLess

\* The greatest text is that of a time in the last second.
LEMMA GreatestText ==
  ASSUME NEW T, T \subseteq 0..MaxTimes, T # {}
  PROVE  /\ MaxText(T) \in T
         /\ LET last == CHOOSE t \in T : \A u \in T : u =< t
            IN  MaxText(T) \div 2 = last \div 2
<1> DEFINE K == {TextKey(t) : t \in T}
           last == CHOOSE t \in T : \A u \in T : u =< t
<1>1. MaxTimes \in Nat /\ T \subseteq Nat
  BY TablesAssumption
<1>2. K \subseteq 0..(MaxTimes + 1) /\ K # {}
  <2>1. \A t \in T : TextKey(t) \in 0..(MaxTimes + 1)
    BY <1>1, TextOrder
  <2>2. PICK t : t \in T
    OBVIOUS
  <2> QED BY <2>1, <2>2
<1>3. PICK k \in K : \A j \in K : j <= k
  <2>1. MaxTimes + 1 \in Nat
    BY <1>1
  <2> HIDE DEF K
  <2> QED BY <1>2, <2>1, Greatest
<1>4. PICK top \in T : k = TextKey(top)
  OBVIOUS
<1>5. ASSUME NEW b \in T \ {top} PROVE TextLess(b, top)
  <2>1. TextKey(b) <= TextKey(top) /\ TextKey(b) # TextKey(top)
    BY <1>1, <1>3, <1>4, TextOrder
  <2> QED BY <1>1, <2>1, TextOrder
<1>6. MaxText(T) \in T /\ \A b \in T \ {MaxText(T)} : TextLess(b, MaxText(T))
  BY <1>5 DEF MaxText
<1>7. last \in T /\ \A u \in T : u <= last
  <2>1. \E t \in T : \A u \in T : u =< t
    BY <1>1, Greatest
  <2> QED BY <2>1
<1>8. MaxText(T) \div 2 = last \div 2
  <2> DEFINE m == MaxText(T)
  <2>1. m \in Nat /\ last \in Nat /\ m <= last
    BY <1>1, <1>6, <1>7
  <2>2. last # m => TextLess(last, m)
    BY <1>6, <1>7
  <2> HIDE DEF m, last
  <2>3. m \div 2 \in Int /\ last \div 2 \in Int /\ m \div 2 <= last \div 2 /\ last \div 2 <= m \div 2
    <3>1. last # m => last \div 2 <= m \div 2
      BY <2>1, <2>2 DEF TextLess
    <3>2. m \div 2 <= last \div 2
      BY <2>1, TextOrder
    <3>3. m \div 2 \in Int /\ last \div 2 \in Int
      BY <2>1
    <3>4. CASE last = m
      BY <3>3, <3>4
    <3>5. CASE last # m
      BY <3>1, <3>2, <3>3, <3>5
    <3> QED BY <3>4, <3>5
  <2> QED BY <2>3 DEF m
<1> QED BY <1>6, <1>8

\* Whole snapshots in the table make whole snapshots in what is read.
LEMMA WholeReads ==
  ASSUME TableSound(tables, loose), boot = "ready" => schema.tables
  PROVE  ReadsAreWhole
<1> DEFINE B == tables.balances
           T == TimesOf(B)
           last == CHOOSE t \in T : \A u \in T : u =< t
           Seconds(f, t) == {u \in T : f \div 2 < u \div 2 /\ u \div 2 < t \div 2}
<1>1. B \subseteq [asset : Assets, at : 0..MaxTimes, even : BOOLEAN] /\ WholeSnapshots(B)
  BY DEF TableSound, TableSets
<1>2. T \subseteq 0..MaxTimes /\ MaxTimes \in Nat
  BY <1>1, TablesAssumption DEF TimesOf
<1>3. ASSUME NEW t \in T, \E r \in SnapshotAt(t) : r.even
      PROVE  {r.asset : r \in SnapshotAt(t)} = Assets
  <2>1. PICK r \in B : r.at = t /\ r.even
    BY <1>3 DEF SnapshotAt
  <2>2. \A a \in Assets : [asset |-> a, at |-> t, even |-> TRUE] \in SnapshotAt(t)
    BY <1>1, <2>1 DEF WholeSnapshots, SnapshotAt
  <2>3. \A q \in SnapshotAt(t) : q.asset \in Assets
    BY <1>1 DEF SnapshotAt
  <2>4. ASSUME NEW a \in Assets PROVE a \in {q.asset : q \in SnapshotAt(t)}
    <3>1. /\ [asset |-> a, at |-> t, even |-> TRUE] \in SnapshotAt(t)
          /\ [asset |-> a, at |-> t, even |-> TRUE].asset = a
      BY <2>2
    <3> QED BY <3>1
  <2> QED BY <2>3, <2>4
<1> SUFFICES ASSUME B # {}
             PROVE  /\ (\E r \in GetLatest : r.even) => {r.asset : r \in GetLatest} = Assets
                    /\ \A r \in GetLatest : r.at \div 2 = last \div 2
                    /\ \A f, t \in -1..MaxTimes + 2 :
                          Seconds(f, t) \subseteq TimesOf(UNION GetHistory(f, t))
  BY DEF ReadsAreWhole
<1>4. T # {}
  BY DEF TimesOf
<1>5. MaxText(T) \in T /\ MaxText(T) \div 2 = last \div 2
  BY <1>2, <1>4, GreatestText
<1>6. GetLatest = SnapshotAt(MaxText(T))
  BY DEF GetLatest
<1>7. \A r \in GetLatest : r.at = MaxText(T)
  BY <1>6 DEF SnapshotAt
<1>8. ASSUME NEW f \in -1..MaxTimes + 2, NEW t \in -1..MaxTimes + 2, NEW u \in Seconds(f, t)
      PROVE  u \in TimesOf(UNION GetHistory(f, t))
  <2>1. u \in T /\ f \div 2 < u \div 2 /\ u \div 2 < t \div 2 /\ u \in 0..MaxTimes
    BY <1>2
  <2>2. ~TextLess(u, f) /\ ~TextLess(t, u)
    <3>1. u \div 2 \in Int /\ f \div 2 \in Int /\ t \div 2 \in Int
      BY <1>2, <2>1
    <3> QED BY <2>1, <3>1 DEF TextLess
  <2>3. SnapshotAt(u) \in GetHistory(f, t)
    BY <2>1, <2>2 DEF GetHistory
  <2>4. PICK r \in B : r.at = u
    BY <2>1 DEF TimesOf
  <2>5. r \in SnapshotAt(u)
    BY <2>4 DEF SnapshotAt
  <2>6. r \in UNION GetHistory(f, t)
    BY <2>3, <2>5
  <2> QED BY <2>4, <2>6 DEF TimesOf
<1>9. \A f, t \in -1..MaxTimes + 2 : Seconds(f, t) \subseteq TimesOf(UNION GetHistory(f, t))
  BY <1>8
<1> QED BY <1>3, <1>5, <1>6, <1>7, <1>9

LEMMA TablesInductive == TablesSpec => []TablesInv
<1>1. TablesInit => TablesInv
  <2> SUFFICES ASSUME TablesInit PROVE TablesInv
    OBVIOUS
  <2>1. /\ tables = NoRows /\ before = NoRows /\ conn = NoOne /\ loose = {}
        /\ schema = [tables |-> FALSE, version |-> 0] /\ boot = "new" /\ clock = 0
        /\ session = [s \in Sessions |-> IdleSession]
    BY DEF TablesInit
  <2>2. session \in [Sessions -> [at : {"idle", "tx", "waits", "gone"},
                                  read : OrderReads \union {NoOne}]]
    BY <2>1 DEF IdleSession
  <2>3. clock \in 0..MaxTimes /\ schema \in [tables : BOOLEAN, version : {0, 1}]
    BY <2>1, TablesAssumption
  <2> QED BY <2>1, <2>2, <2>3, NoRowsSound, NoOneAssumption DEF TablesInv
<1>2. TablesInv /\ [TablesNext]_tablesVars => TablesInv'
  <2> SUFFICES ASSUME TablesInv, [TablesNext]_tablesVars PROVE TablesInv'
    OBVIOUS
  <2>1. CASE UNCHANGED tablesVars
    BY <2>1 DEF tablesVars, TablesInv, TableSound
  <2>2. ASSUME NEW s \in Sessions, TablesStep(s) PROVE TablesInv'
    BY <2>2, OrderStatements, OtherStatements, BalanceStatements, TransactionStatements
       DEF TablesStep
  <2> QED BY <2>1, <2>2, ProcessSteps DEF TablesNext
<1> QED BY <1>1, <1>2, PTL DEF TablesSpec

\* Of the rows of t no two agree in what is unique.
Unique(t) ==
    /\ \A o, p \in OrderIds :
          t.orders[o] # NoOne /\ t.orders[p] # NoOne /\ ClientOf[o] = ClientOf[p] => o = p
    /\ \A p, q \in PositionIds :
          t.positions[p] # NoOne /\ t.positions[q] # NoOne /\ PairOf[p] = PairOf[q] => p = q

LEMMA NoRowsUnique == Unique(NoRows)
BY DEF Unique, NoRows, Rows

\* Where no row is new, none agrees with another.
LEMMA NoNewRows ==
  ASSUME NEW t, NEW u, Unique(t),
         \A o \in OrderIds : u.orders[o] # NoOne => t.orders[o] # NoOne,
         \A p \in PositionIds : u.positions[p] # NoOne => t.positions[p] # NoOne
  PROVE  Unique(u)
BY DEF Unique

\* What a write to one of the tables leaves of the others.
LEMMA OneTable ==
  ASSUME NEW t \in TableSets, NEW rows
  PROVE  /\ [t EXCEPT !.orders = rows].orders = rows
         /\ [t EXCEPT !.orders = rows].positions = t.positions
         /\ [t EXCEPT !.positions = rows].positions = rows
         /\ [t EXCEPT !.positions = rows].orders = t.orders
         /\ [t EXCEPT !.fills = rows].orders = t.orders
         /\ [t EXCEPT !.fills = rows].positions = t.positions
         /\ [t EXCEPT !.strategies = rows].orders = t.orders
         /\ [t EXCEPT !.strategies = rows].positions = t.positions
         /\ [t EXCEPT !.symbols = rows].orders = t.orders
         /\ [t EXCEPT !.symbols = rows].positions = t.positions
         /\ [t EXCEPT !.balances = rows].orders = t.orders
         /\ [t EXCEPT !.balances = rows].positions = t.positions
BY DEF TableSets

\* The only statements that add a row to orders or positions look for one that agrees
\* with it.
LEMMA StatementsStayUnique ==
  ASSUME TablesInv, Unique(tables), NEW s \in Sessions, TablesStep(s),
         ~(Commit(s) \/ Rollback(s) \/ ContextEnds(s))
  PROVE  Unique(tables')
<1>1. /\ tables \in TableSets
      /\ tables.orders \in [OrderIds -> OrderRows \union {NoOne}]
      /\ tables.positions \in [PositionIds -> [closed : BOOLEAN] \union {NoOne}]
  BY DEF TablesInv, TableSound, TableSets
<1>2. ASSUME tables'.orders = tables.orders, tables'.positions = tables.positions
      PROVE  Unique(tables')
  BY <1>2 DEF Unique
<1>3. ASSUME NEW o \in OrderIds, OrderCreate(s, o) PROVE Unique(tables')
  <2> DEFINE line == [status |-> "submitted", filled |-> 0]
             rows == [tables.orders EXCEPT ![o] = line]
  <2>1. \/ tables' = tables
        \/ /\ tables' = [tables EXCEPT !.orders = rows]
           /\ \A p \in Exists("orders") : ClientOf[p] # ClientOf[o]
    BY <1>3 DEF OrderCreate, Put, Insert
  <2>2. CASE tables' = tables
    BY <2>2
  <2>3. CASE /\ tables' = [tables EXCEPT !.orders = rows]
             /\ \A p \in Exists("orders") : ClientOf[p] # ClientOf[o]
    <3>1. \A p \in OrderIds : p # o => rows[p] = tables.orders[p]
      BY <1>1
    <3>2. \A p \in OrderIds : tables.orders[p] # NoOne => ClientOf[p] # ClientOf[o]
      BY <1>1, <2>3 DEF Exists
    <3> HIDE DEF rows
    <3>3. tables'.orders = rows /\ tables'.positions = tables.positions
      BY <1>1, <2>3, OneTable
    <3> QED BY <3>1, <3>2, <3>3 DEF Unique
  <2> QED BY <2>1, <2>2, <2>3
<1>4. ASSUME NEW p \in PositionIds, PositionCreate(s, p) PROVE Unique(tables')
  <2> DEFINE rows == [tables.positions EXCEPT ![p] = [closed |-> FALSE]]
  <2>1. \/ tables' = tables
        \/ /\ tables' = [tables EXCEPT !.positions = rows]
           /\ \A q \in Exists("positions") : PairOf[q] # PairOf[p]
    BY <1>4 DEF PositionCreate, Put, Insert
  <2>2. CASE tables' = tables
    BY <2>2
  <2>3. CASE /\ tables' = [tables EXCEPT !.positions = rows]
             /\ \A q \in Exists("positions") : PairOf[q] # PairOf[p]
    <3>1. \A q \in PositionIds : q # p => rows[q] = tables.positions[q]
      BY <1>1
    <3>2. \A q \in PositionIds : tables.positions[q] # NoOne => PairOf[q] # PairOf[p]
      BY <1>1, <2>3 DEF Exists
    <3> HIDE DEF rows
    <3>3. tables'.positions = rows /\ tables'.orders = tables.orders
      BY <1>1, <2>3, OneTable
    <3> QED BY <3>1, <3>2, <3>3 DEF Unique
  <2> QED BY <2>1, <2>2, <2>3
<1>5. ASSUME OrderUpdate(s) PROVE Unique(tables')
  <2> DEFINE o == session[s].read.id
             sum == session[s].read.row.filled + 1
             line == [status |-> IF sum = 2 THEN "filled" ELSE "partial", filled |-> sum]
             u == Update("orders", o, line)
             rows == [tables.orders EXCEPT ![o] = line]
             fills == [u.fills EXCEPT ![o] = @ + 1]
  <2>1. tables' = [u EXCEPT !.fills = fills]
    BY <1>5 DEF OrderUpdate, Writes, Put
  <2>2. o \in OrderIds /\ session[s].read.row \in OrderRows
    BY <1>5 DEF OrderUpdate, TablesInv, OrderReads
  <2>3. line \in OrderRows
    BY <2>2 DEF OrderRows
  <2> HIDE DEF line
  <2>4. u = tables \/ (tables.orders[o] # NoOne /\ u = [tables EXCEPT !.orders = rows])
    BY DEF Update
  <2>5. rows \in [OrderIds -> OrderRows \union {NoOne}]
        /\ \A q \in OrderIds : q # o => rows[q] = tables.orders[q]
    BY <1>1, <2>2, <2>3
  <2> HIDE DEF rows, u
  <2>6. u \in TableSets /\ u.positions = tables.positions /\ u.orders \in {tables.orders, rows}
    BY <1>1, <2>4, <2>5, OneTable DEF TableSets
  <2>7. \A q \in OrderIds : u.orders[q] # NoOne => tables.orders[q] # NoOne
    <3>1. [tables EXCEPT !.orders = rows].orders = rows
      BY <1>1, OneTable
    <3> QED BY <2>4, <2>5, <3>1
  <2> HIDE DEF fills
  <2>8. tables'.orders = u.orders /\ tables'.positions = u.positions
    BY <2>1, <2>6, OneTable
  <2> QED BY <2>6, <2>7, <2>8, NoNewRows
<1>6. ASSUME NEW p \in PositionIds, PositionUpdate(s, p) PROVE Unique(tables')
  <2>1. PICK c \in BOOLEAN : tables' = Update("positions", p, [closed |-> c])
    BY <1>6 DEF PositionUpdate, Put
  <2> DEFINE rows == [tables.positions EXCEPT ![p] = [closed |-> c]]
  <2>2. tables' = tables \/ (tables.positions[p] # NoOne /\ tables' = [tables EXCEPT !.positions = rows])
    BY <2>1 DEF Update
  <2>3. \A q \in PositionIds : q # p => rows[q] = tables.positions[q]
    BY <1>1
  <2> HIDE DEF rows
  <2> DEFINE u == [tables EXCEPT !.positions = rows]
  <2>t. u.orders = tables.orders /\ u.positions = rows
    BY <1>1, OneTable
  <2> HIDE DEF u
  <2>4. tables'.orders = tables.orders
    BY <2>2, <2>t DEF u
  <2>5. \A q \in PositionIds : tables'.positions[q] # NoOne => tables.positions[q] # NoOne
    BY <2>2, <2>3, <2>t DEF u
  <2> QED BY <2>4, <2>5, NoNewRows
<1>7. ASSUME NEW i \in StrategyIds,
             StrategyCreate(s, i) \/ StrategyUpdate(s, i) \/ StrategyDelete(s, i)
      PROVE  Unique(tables')
  <2>1. PICK line : tables' \in {tables, [tables EXCEPT !.strategies[i] = line]}
    <3>1. CASE StrategyCreate(s, i)
      BY <3>1 DEF StrategyCreate, Put, Insert
    <3>2. CASE StrategyUpdate(s, i)
      BY <3>2 DEF StrategyUpdate, Put, Update
    <3>3. CASE StrategyDelete(s, i)
      BY <3>3 DEF StrategyDelete, Put
    <3> QED BY <1>7, <3>1, <3>2, <3>3
  <2> DEFINE rows == [tables.strategies EXCEPT ![i] = line]
  <2>2. tables' \in {tables, [tables EXCEPT !.strategies = rows]}
    BY <2>1
  <2> HIDE DEF rows
  <2>3. /\ [tables EXCEPT !.strategies = rows].orders = tables.orders
        /\ [tables EXCEPT !.strategies = rows].positions = tables.positions
    BY <1>1, OneTable
  <2> QED BY <1>2, <2>2, <2>3
<1>8. ASSUME NEW n \in SymbolNames, SymbolUpsert(s, n) PROVE Unique(tables')
  <2>1. PICK rows : tables' = [tables EXCEPT !.symbols = rows]
    BY <1>8 DEF SymbolUpsert, Put
  <2> QED BY <1>1, <1>2, <2>1, OneTable
<1>9. ASSUME BalanceSave(s) PROVE Unique(tables')
  <2>1. PICK rows : tables' = [tables EXCEPT !.balances = rows]
    BY <1>9 DEF BalanceSave, Put
  <2> QED BY <1>1, <1>2, <2>1, OneTable
<1>10. ASSUME OrderRead(s) \/ BalanceSaveWaits(s) \/ BeginTx(s) \/ Panics(s) PROVE Unique(tables')
  BY <1>2, <1>10 DEF OrderRead, BalanceSaveWaits, BeginTx, Panics
<1> QED BY <1>3, <1>4, <1>5, <1>6, <1>7, <1>8, <1>9, <1>10 DEF TablesStep

\* What a transaction falls back to is as free of repetitions as what it has written.
LEMMA UniqueInvariant == TablesSpec => [](Unique(tables) /\ Unique(before))
<1>1. TablesInit => Unique(tables) /\ Unique(before)
  BY NoRowsUnique DEF TablesInit
<1>2. TablesInv /\ Unique(tables) /\ Unique(before) /\ [TablesNext]_tablesVars
        => Unique(tables)' /\ Unique(before)'
  <2> SUFFICES ASSUME TablesInv, Unique(tables), Unique(before), [TablesNext]_tablesVars
               PROVE  Unique(tables') /\ Unique(before')
    BY DEF Unique
  <2>1. CASE UNCHANGED tablesVars
    BY <2>1 DEF tablesVars
  <2>2. CASE GetVersion \/ ApplyMigration \/ RecordMigration \/ TimePasses
    BY <2>2 DEF GetVersion, ApplyMigration, RecordMigration, TimePasses, others
  <2>3. CASE Restart
    BY <2>3, NoRowsUnique DEF Restart
  <2>4. ASSUME NEW s \in Sessions, TablesStep(s) PROVE Unique(tables') /\ Unique(before')
    <3>1. CASE Commit(s) \/ Rollback(s) \/ ContextEnds(s)
      <4>1. tables' \in {tables, before} /\ before' = NoRows
        BY <3>1 DEF Commit, Rollback, ContextEnds, Ends
      <4> QED BY <4>1, NoRowsUnique
    <3>2. CASE ~(Commit(s) \/ Rollback(s) \/ ContextEnds(s))
      <4>1. before' \in {before, tables}
        BY <2>4, <3>2 DEF TablesStep, OrderCreate, OrderUpdate, OrderRead, PositionCreate,
           PositionUpdate, StrategyCreate, StrategyUpdate, StrategyDelete, SymbolUpsert,
           BalanceSave, BalanceSaveWaits, BeginTx, Panics, Same
      <4> QED BY <2>4, <3>2, <4>1, StatementsStayUnique
    <3> QED BY <3>1, <3>2
  <2> QED BY <2>1, <2>2, <2>3, <2>4 DEF TablesNext
<1> QED BY <1>1, <1>2, TablesInductive, PTL DEF TablesSpec

\* Whatever sessions write, read and roll back on the one connection, with panics,
\* ended contexts and restarts between any two statements, the quantities filled in
\* transactions add up, the balances are read back whole, and no two rows agree in what
\* is unique (sqlite/order_repository.go:66-107, balance_repository.go:22-163,
\* db.go:95-116, migrations.go:18 and 58).
THEOREM TablesTheorem == TablesSpec => []TablesKeepWhatTheyTook
<1>1. TablesInv /\ Unique(tables) => TablesKeepWhatTheyTook
  <2> SUFFICES ASSUME TablesInv, Unique(tables) PROVE TablesKeepWhatTheyTook
    OBVIOUS
  <2>1. FillsAddUp
    <3> SUFFICES ASSUME NEW o \in Exists("orders") \ loose
                 PROVE  tables.orders[o].filled = tables.fills[o]
      BY DEF FillsAddUp
    <3>1. o \in OrderIds \ loose /\ tables.orders[o] # NoOne
      BY DEF Exists, TablesInv, TableSound, TableSets
    <3> QED BY <3>1 DEF TablesInv, TableSound, Counted
  <2>2. ReadsAreWhole
    BY WholeReads DEF TablesInv
  <2>3. OneRowEach
    <3>1. /\ Exists("orders") = {o \in OrderIds : tables.orders[o] # NoOne}
          /\ Exists("positions") = {p \in PositionIds : tables.positions[p] # NoOne}
      BY DEF Exists, TablesInv, TableSound, TableSets
    <3>2. \A o, p \in Exists("orders") : ClientOf[o] = ClientOf[p] => o = p
      BY <3>1 DEF Unique
    <3>3. \A p, q \in Exists("positions") : PairOf[p] = PairOf[q] => p = q
      BY <3>1 DEF Unique
    <3>4. \A o \in Exists("orders") : OrderGetByClientOrderID(ClientOf[o]) = {o}
      BY <3>2 DEF OrderGetByClientOrderID
    <3>5. \A p \in PositionListOpen : PositionGetByStrategyAndSymbol(PairOf[p]) = {p}
      BY <3>3 DEF PositionGetByStrategyAndSymbol, PositionListOpen
    <3> QED BY <3>2, <3>3, <3>4, <3>5 DEF OneRowEach
  <2> QED BY <2>1, <2>2, <2>3 DEF TablesKeepWhatTheyTook
<1> QED BY <1>1, TablesInductive, UniqueInvariant, PTL

-----------------------------------------------------------------------------
(* Position limits and the position row *)

OpenRows == [side : {"long", "short"}, qty : Nat, price : Nat, open : {TRUE}]
ClosedRows == [side : {"flat"}, qty : {0}, price : Nat, open : {FALSE}]
OpenRow == IF row # NoPosition /\ row.open THEN row ELSE NoPosition

\* Orders checked against all there is rest one at a time, within the limit.
ExposureSound ==
    MaxPositionSize # 0 /\ ~blind =>
        /\ -MaxPositionSize <= held /\ held <= MaxPositionSize
        /\ \A e \in Entries : /\ -MaxPositionSize <= held + resting[e]
                              /\ held + resting[e] <= MaxPositionSize
        /\ \A e, f \in Entries : e = f \/ resting[e] = 0 \/ resting[f] = 0

\* A reconciliation has the row as it is and, unless something was traded since, the
\* quantity that is held.
PassSound ==
    /\ pass.at \in {"listed", "fetched"} => pass.local = OpenRow
    /\ pass.at = "fetched" => /\ pass.qty \in Nat /\ pass.price \in Nat
                              /\ fresh => pass.qty = Size(held)

RowSound ==
    row # NoPosition /\ row.open =>
        /\ fresh /\ pass.at = "idle" => row.qty = Size(held)
        /\ held # 0 /\ ~flipped => row.side = SideOf(held)

RiskInv ==
    /\ held \in Int
    /\ resting \in [Entries -> Int]
    /\ row \in OpenRows \union ClosedRows \union {NoPosition}
    /\ DOMAIN entry = Entries
    /\ \A e \in Entries : entry[e].at = "position" =>
          entry[e].position \in OpenRows \union {NoPosition}
    /\ {blind, fresh, flipped} \subseteq BOOLEAN
    /\ ExposureSound
    /\ PassSound
    /\ RowSound

RiskRows == OpenRows \union ClosedRows \union {NoPosition}

\* The steps that move neither the position nor the row, nor what rests.
LEMMA RiskReads ==
  ASSUME RiskInv,
         (\E e \in Entries : ReadsStrategy(e) \/ ReadsSymbol(e) \/ ReadsPosition(e)
                               \/ EntryFails(e))
           \/ AccountMoves
  PROVE  RiskInv'
<1>1. ASSUME NEW e \in Entries,
             ReadsStrategy(e) \/ ReadsSymbol(e) \/ ReadsPosition(e) \/ EntryFails(e)
      PROVE  RiskInv'
  <2>1. UNCHANGED <<held, row, resting, pass, blind, fresh, flipped>>
    BY <1>1 DEF ReadsStrategy, ReadsSymbol, ReadsPosition, EntryFails, unread
  <2>2. PICK c : /\ entry' = [entry EXCEPT ![e] = c]
                 /\ c.at = "position" => c.position \in OpenRows \union {NoPosition}
    <3>1. ASSUME NEW c, entry' = [entry EXCEPT ![e] = c], c.at # "position"
          PROVE  \E d : /\ entry' = [entry EXCEPT ![e] = d]
                        /\ d.at = "position" => d.position \in OpenRows \union {NoPosition}
      BY <3>1
    <3>2. CASE ReadsStrategy(e)
      <4> DEFINE c == IF CanTrade(daily) THEN [at |-> "strategy", strategy |-> daily]
                                         ELSE [at |-> "refused"]
      <4>1. entry' = [entry EXCEPT ![e] = c] /\ c.at # "position"
        BY <3>2 DEF ReadsStrategy
      <4> HIDE DEF c
      <4> QED BY <3>1, <4>1
    <3>3. CASE ReadsPosition(e)
      <4>1. OpenRow \in OpenRows \union {NoPosition}
        BY DEF RiskInv, OpenRow, ClosedRows
      <4> DEFINE c == [at |-> "position", strategy |-> entry[e].strategy,
                       symbol |-> entry[e].symbol, position |-> OpenRow]
      <4>2. entry' = [entry EXCEPT ![e] = c]
        BY <3>3 DEF ReadsPosition, OpenRow
      <4>3. c.position = OpenRow
        OBVIOUS
      <4> HIDE DEF c
      <4> QED BY <4>1, <4>2, <4>3
    <3>4. CASE ReadsSymbol(e)
      <4> DEFINE c == [at |-> "symbol", strategy |-> entry[e].strategy, symbol |-> status]
      <4>1. entry' = [entry EXCEPT ![e] = c] /\ c.at # "position"
        BY <3>4 DEF ReadsSymbol
      <4> HIDE DEF c
      <4> QED BY <3>1, <4>1
    <3>5. CASE EntryFails(e)
      <4> DEFINE c == [at |-> "refused"]
      <4>1. entry' = [entry EXCEPT ![e] = c] /\ c.at # "position"
        BY <3>5 DEF EntryFails
      <4> HIDE DEF c
      <4> QED BY <3>1, <4>1
    <3> QED BY <1>1, <3>2, <3>3, <3>4, <3>5
  <2>3. /\ DOMAIN entry' = Entries
        /\ \A f \in Entries : entry'[f].at = "position" =>
              entry'[f].position \in OpenRows \union {NoPosition}
    BY <2>2 DEF RiskInv
  <2> QED BY <2>1, <2>3 DEF RiskInv, ExposureSound, PassSound, RowSound, OpenRow
<1>2. CASE AccountMoves
  BY <1>2 DEF AccountMoves, RiskInv, ExposureSound, PassSound, RowSound, OpenRow
<1> QED BY <1>1, <1>2

\* An order that passes is within the limit, whatever the position it is added to.
LEMMA AcceptedFits ==
  ASSUME NEW order \in Orders, NEW position \in OpenRows \union {NoPosition}, NEW h \in Int,
         NEW strategy, NEW sym, NEW funds,
         MaxPositionSize # 0, ValidateOrder(order, strategy, sym, funds, position),
         -MaxPositionSize <= h, h <= MaxPositionSize,
         h = IF position = NoPosition THEN 0 ELSE Signed(position.side, position.qty)
  PROVE  /\ Signed(order.side, order.qty) \in Int
         /\ -MaxPositionSize <= h + Signed(order.side, order.qty)
         /\ h + Signed(order.side, order.qty) <= MaxPositionSize
<1>1. /\ order.side \in {"buy", "sell"} /\ order.qty \in Nat /\ MaxPositionSize \in Nat
      /\ NewPositionSize(order, position) <= MaxPositionSize
  BY RiskAssumption DEF Orders, Sides, ValidateOrder
<1>2. Signed(order.side, order.qty) = IF order.side = "buy" THEN order.qty ELSE -order.qty
  BY <1>1 DEF Signed
<1>3. CASE position = NoPosition
  BY <1>1, <1>2, <1>3 DEF NewPositionSize
<1>4. CASE position # NoPosition
  <2>1. position.side \in {"long", "short"} /\ position.qty \in Nat
    BY <1>4 DEF OpenRows
  <2>2. h = IF position.side = "long" THEN position.qty ELSE -position.qty
    BY <1>4, <2>1 DEF Signed
  <2>3. NewPositionSize(order, position) =
          IF position.qty # 0 /\ (order.side = "buy" <=> position.side = "long")
          THEN position.qty + order.qty ELSE order.qty
    BY <1>4, <2>1 DEF NewPositionSize, IsFlat
  <2> QED BY <1>1, <1>2, <2>1, <2>2, <2>3
<1> QED BY <1>3, <1>4

LEMMA RiskDecides ==
  ASSUME RiskInv, NEW e \in Entries, NEW order \in Orders, NEW funds \in Funds \union {NoBalance},
         Decides(e, order, funds)
  PROVE  RiskInv'
<1> DEFINE c == entry[e]
           ok == ValidateOrder(order, c.strategy, c.symbol, funds, c.position)
           n == IF ok THEN Signed(order.side, order.qty) ELSE resting[e]
           seen == IF c.position = NoPosition THEN 0 ELSE Signed(c.position.side, c.position.qty)
<1>1. /\ c.at = "position"
      /\ entry' = [entry EXCEPT ![e] = [at |-> IF ok THEN "accepted" ELSE "refused"]]
      /\ resting' = [resting EXCEPT ![e] = n]
      /\ blind' = (blind \/ (ok /\ Unseen(e)))
      /\ UNCHANGED <<held, row, daily, status, pass, fresh, flipped, passes, outside>>
  BY DEF Decides
<1>2. Unseen(e) <=> ((\E f \in Entries \ {e} : resting[f] # 0) \/ held # seen)
  BY DEF Unseen
<1>3. order.side \in {"buy", "sell"} /\ order.qty \in Nat
  BY RiskAssumption DEF Orders, Sides
<1>4. n \in Int
  BY <1>3 DEF RiskInv, Signed
<1>5. c.position \in OpenRows \union {NoPosition} /\ MaxPositionSize \in Nat
  BY <1>1, RiskAssumption DEF RiskInv
<1> HIDE DEF ok, seen
<1>6. /\ DOMAIN entry' = Entries
      /\ \A f \in Entries : entry'[f].at = "position" =>
            entry'[f].position \in OpenRows \union {NoPosition}
  BY <1>1 DEF RiskInv
<1>7. /\ resting' \in [Entries -> Int] /\ resting'[e] = n
      /\ \A f \in Entries : f # e => resting'[f] = resting[f]
  BY <1>1, <1>4 DEF RiskInv
<1>8. ASSUME MaxPositionSize # 0, ~blind' PROVE ExposureSound'
  <2>1. ~blind /\ held \in Int
    BY <1>1, <1>8 DEF RiskInv
  <2>2. ~ok \/ ((\A f \in Entries \ {e} : resting[f] = 0) /\ held = seen)
    BY <1>1, <1>2, <1>8
  <2>3. CASE ~ok
    BY <1>1, <1>7, <1>8, <2>1, <2>3 DEF RiskInv, ExposureSound
  <2>4. CASE ok
    <3>1. -MaxPositionSize <= held /\ held <= MaxPositionSize
      BY <1>8, <2>1 DEF RiskInv, ExposureSound
    <3>2. -MaxPositionSize <= held + n /\ held + n <= MaxPositionSize
      BY <1>5, <1>8, <2>1, <2>2, <2>4, <3>1, AcceptedFits DEF ok, seen
    <3>3. \A f \in Entries : f # e => resting'[f] = 0
      BY <1>7, <2>2, <2>4
    <3> QED BY <1>1, <1>4, <1>7, <2>1, <3>1, <3>2, <3>3 DEF ExposureSound
  <2> QED BY <2>3, <2>4
<1>9. ExposureSound'
  BY <1>8 DEF ExposureSound
<1>10. {blind, fresh, flipped}' \subseteq BOOLEAN
  BY <1>1 DEF RiskInv
<1> QED BY <1>1, <1>6, <1>7, <1>9, <1>10 DEF RiskInv, PassSound, RowSound, OpenRow

\* A trade moves the position by one, and through zero only where a row notices.
LEMMA TradeKeepsRow ==
  ASSUME RiskInv, NEW n \in {-1, 1}, Trades(n), UNCHANGED <<row, pass>>
  PROVE  held' \in Int /\ {fresh', flipped'} \subseteq BOOLEAN /\ PassSound' /\ RowSound'
<1>1. /\ held' = held + n /\ fresh' = FALSE /\ flipped' \in BOOLEAN
      /\ ~flipped' => ~flipped /\ ~(held = 0 /\ row # NoPosition)
  BY DEF Trades
<1>2. held \in Int /\ held' \in Int
  BY <1>1 DEF RiskInv
<1>3. PassSound'
  BY <1>1 DEF RiskInv, PassSound, OpenRow
<1>4. held # 0 /\ held' # 0 => SideOf(held') = SideOf(held)
  BY <1>1, <1>2 DEF SideOf
<1>5. RowSound'
  BY <1>1, <1>4 DEF RiskInv, RowSound
<1> QED BY <1>1, <1>2, <1>3, <1>5

LEMMA RiskTrades ==
  ASSUME RiskInv, (\E e \in Entries : Fill(e)) \/ TradeByHand
  PROVE  RiskInv'
<1>1. ASSUME NEW e \in Entries, Fill(e) PROVE RiskInv'
  <2> DEFINE n == IF resting[e] > 0 THEN 1 ELSE -1
  <2>1. /\ resting[e] # 0 /\ Trades(n) /\ resting' = [resting EXCEPT ![e] = @ - n]
        /\ UNCHANGED <<row, entry, pass, blind>>
    BY <1>1 DEF Fill
  <2>2. /\ resting[e] \in Int /\ held \in Int /\ n \in {-1, 1}
        /\ held' = held + n
    BY <2>1 DEF RiskInv, Trades
  <2>3. /\ resting' \in [Entries -> Int] /\ resting'[e] = resting[e] - n
        /\ \A f \in Entries : f # e => resting'[f] = resting[f]
    BY <2>1, <2>2 DEF RiskInv
  <2>4. held' \in Int /\ {fresh', flipped'} \subseteq BOOLEAN /\ PassSound' /\ RowSound'
    BY <2>1, <2>2, TradeKeepsRow
  <2>5. ASSUME MaxPositionSize # 0, ~blind PROVE ExposureSound'
    <3>1. /\ -MaxPositionSize <= held /\ held <= MaxPositionSize
          /\ -MaxPositionSize <= held + resting[e] /\ held + resting[e] <= MaxPositionSize
          /\ \A f \in Entries : f # e => resting[f] = 0
          /\ MaxPositionSize \in Nat
      BY <2>1, <2>5, RiskAssumption DEF RiskInv, ExposureSound
    <3>2. -MaxPositionSize <= held + n /\ held + n <= MaxPositionSize
      BY <2>1, <2>2, <3>1
    <3>3. held' + resting'[e] = held + resting[e]
      BY <2>2, <2>3
    <3>4. \A f \in Entries : f # e => resting'[f] = 0
      BY <2>3, <3>1
    <3>5. \A f \in Entries : /\ -MaxPositionSize <= held' + resting'[f]
                             /\ held' + resting'[f] <= MaxPositionSize
      <4> SUFFICES ASSUME NEW f \in Entries
                   PROVE  /\ -MaxPositionSize <= held' + resting'[f]
                          /\ held' + resting'[f] <= MaxPositionSize
        OBVIOUS
      <4>1. CASE f = e
        BY <3>1, <3>3, <4>1
      <4>2. CASE f # e
        BY <2>2, <3>2, <3>4, <4>2
      <4> QED BY <4>1, <4>2
    <3> QED BY <2>2, <3>2, <3>4, <3>5 DEF ExposureSound
  <2>6. ExposureSound'
    BY <2>1, <2>5 DEF ExposureSound
  <2> QED BY <2>1, <2>3, <2>4, <2>6 DEF RiskInv
<1>2. CASE TradeByHand
  <2>1. PICK n \in {-1, 1} : Trades(n)
    BY <1>2 DEF TradeByHand
  <2>2. blind' = TRUE /\ UNCHANGED <<row, entry, resting, pass>>
    BY <1>2 DEF TradeByHand
  <2>3. held' \in Int /\ {fresh', flipped'} \subseteq BOOLEAN /\ PassSound' /\ RowSound'
    BY <2>1, <2>2, TradeKeepsRow
  <2> QED BY <2>2, <2>3 DEF RiskInv, ExposureSound
<1> QED BY <1>1, <1>2

\* A reconciliation from its listing to its update.
LEMMA RiskReconciles ==
  ASSUME RiskInv, PassBegins \/ PassFetches \/ PassUpdates \/ PassFails
  PROVE  RiskInv'
<1>0. /\ held \in Int /\ Size(held) \in Nat
      /\ row \in OpenRows \union ClosedRows \union {NoPosition}
  BY DEF RiskInv, Size
<1>1. CASE PassBegins
  <2>1. /\ pass' = [at |-> "listed", local |-> OpenRow] /\ UNCHANGED <<held, row, entry, resting, blind, fresh, flipped>>
    BY <1>1 DEF PassBegins, OpenRow
  <2> QED BY <2>1 DEF RiskInv, ExposureSound, PassSound, RowSound, OpenRow
<1>2. CASE PassFetches
  <2>1. PICK p \in Prices :
          pass' = [at |-> "fetched", local |-> pass.local, qty |-> Size(held), price |-> p]
    BY <1>2 DEF PassFetches
  <2>2. /\ pass.at = "listed" /\ fresh' = TRUE
        /\ UNCHANGED <<held, row, entry, resting, blind, flipped>>
    BY <1>2 DEF PassFetches
  <2>3. p \in Nat
    BY RiskAssumption
  <2>4. PassSound'
    BY <1>0, <2>1, <2>2, <2>3 DEF RiskInv, PassSound, OpenRow
  <2>5. RowSound'
    BY <2>1, <2>2 DEF RiskInv, RowSound
  <2> QED BY <2>2, <2>4, <2>5 DEF RiskInv, ExposureSound
<1>3. CASE PassFails
  BY <1>3 DEF PassFails, NoPass, RiskInv, ExposureSound, PassSound, RowSound
<1>4. CASE PassUpdates
  <2>1. /\ pass.at = "fetched" /\ pass' = NoPass
        /\ UNCHANGED <<held, entry, resting, blind, fresh, flipped>>
    BY <1>4 DEF PassUpdates
  <2>2. /\ pass.local = OpenRow /\ pass.qty \in Nat /\ pass.price \in Nat
        /\ fresh => pass.qty = Size(held)
    BY <2>1 DEF RiskInv, PassSound
  <2> DEFINE closed == [row EXCEPT !.qty = 0, !.side = "flat", !.open = FALSE]
             moved == [row EXCEPT !.qty = pass.qty, !.price = pass.price]
  <2>3. CASE OpenRow = NoPosition
    <3>1. row' = row
      BY <1>4, <2>2, <2>3 DEF PassUpdates
    <3>2. ~(row # NoPosition /\ row.open)
      BY <2>3 DEF OpenRow
    <3> QED BY <2>1, <3>1, <3>2 DEF RiskInv, ExposureSound, PassSound, RowSound, NoPass
  <2>4. CASE OpenRow # NoPosition
    <3>1. OpenRow = row /\ row \in OpenRows /\ row # NoPosition
      BY <1>0, <2>4 DEF OpenRow, ClosedRows
    <3>2. row' = IF pass.qty = 0 /\ ~IsFlat(row) THEN closed
                 ELSE IF pass.qty # 0 /\ positionStatesDiffer(row, pass) THEN moved ELSE row
      BY <1>4, <2>2, <3>1 DEF PassUpdates
    <3>3. closed \in ClosedRows /\ ~closed.open
      BY <3>1 DEF OpenRows, ClosedRows
    <3>4. moved \in OpenRows /\ moved.qty = pass.qty /\ moved.side = row.side
      BY <2>2, <3>1 DEF OpenRows
    <3>5. row.qty \in Nat /\ row.side # "flat"
      BY <3>1 DEF OpenRows
    <3>6. row' \in OpenRows \union ClosedRows
      BY <3>1, <3>2, <3>3, <3>4
    <3>7. RowSound'
      <4>1. row'.open => row'.qty = pass.qty /\ row'.side = row.side
        BY <2>2, <3>2, <3>3, <3>4, <3>5 DEF IsFlat, positionStatesDiffer
      <4>2. row.open
        BY <3>1 DEF OpenRows
      <4> QED BY <2>1, <2>2, <3>1, <4>1, <4>2 DEF RiskInv, RowSound
    <3> QED BY <2>1, <3>6, <3>7 DEF RiskInv, ExposureSound, PassSound, NoPass
  <2> QED BY <2>3, <2>4
<1> QED BY <1>1, <1>2, <1>3, <1>4

LEMMA RiskInductive ==
  /\ RiskInit => RiskInv
  /\ RiskInv /\ [RiskNext]_riskVars => RiskInv'
<1>1. ASSUME RiskInit PROVE RiskInv
  <2>1. /\ held \in -1..1 /\ resting = [e \in Entries |-> 0]
        /\ row \in [side : {SideOf(held)}, qty : {Size(held)}, price : Prices, open : {TRUE}]
                     \union {NoPosition}
        /\ entry = [e \in Entries |-> NewEntry] /\ pass = NoPass
        /\ blind = FALSE /\ fresh = TRUE /\ flipped = FALSE
    BY <1>1 DEF RiskInit
  <2>2. Prices \subseteq Nat /\ MaxPositionSize \in Nat
    BY RiskAssumption
  <2>3. SideOf(held) \in {"long", "short"} /\ Size(held) \in Nat
    BY <2>1 DEF SideOf, Size
  <2>4. row \in OpenRows \union {NoPosition}
    BY <2>1, <2>2, <2>3 DEF OpenRows
  <2>5. row # NoPosition => row.qty = Size(held) /\ row.side = SideOf(held)
    BY <2>1
  <2>6. ExposureSound
    BY <2>1, <2>2 DEF ExposureSound
  <2>7. \A e \in Entries : entry[e].at = "new"
    BY <2>1 DEF NewEntry
  <2>8. PassSound /\ RowSound
    BY <2>1, <2>5 DEF PassSound, RowSound, NoPass
  <2>9. held \in Int /\ resting \in [Entries -> Int] /\ DOMAIN entry = Entries
    BY <2>1
  <2>10. blind \in BOOLEAN /\ fresh \in BOOLEAN /\ flipped \in BOOLEAN
    BY <2>1
  <2> QED BY <2>4, <2>6, <2>7, <2>8, <2>9, <2>10 DEF RiskInv
<1>2. ASSUME RiskInv, [RiskNext]_riskVars PROVE RiskInv'
  <2>1. CASE UNCHANGED riskVars
    BY <1>2, <2>1 DEF riskVars, RiskInv, ExposureSound, PassSound, RowSound, OpenRow
  <2>2. CASE RiskNext
    BY <1>2, <2>2, RiskReads, RiskDecides, RiskTrades, RiskReconciles DEF RiskNext
  <2> QED BY <1>2, <2>1, <2>2
<1> QED BY <1>1, <1>2

\* However fills, losses and reconciliations fall between the reads of CreateOrder, the
\* position with what rests on it stays within MaxPositionSize while every accepted order
\* was checked against all the exposure there was (domain/risk/engine.go:94-107).
THEOREM ExposureTheorem == RiskSpec => []ExposureBounded
<1>1. RiskInv => ExposureBounded
  <2> SUFFICES ASSUME RiskInv, MaxPositionSize # 0, ~blind,
                      NEW some \in SUBSET {e \in Entries : resting[e] # 0}
               PROVE  LET Sum[S \in SUBSET some] ==
                            IF S = {} THEN 0
                            ELSE LET e == CHOOSE e \in S : TRUE IN resting[e] + Sum[S \ {e}]
                      IN  Size(held + Sum[some]) =< MaxPositionSize
    BY DEF ExposureBounded
  <2> DEFINE Sum[S \in SUBSET some] ==
               IF S = {} THEN 0
               ELSE LET e == CHOOSE e \in S : TRUE IN resting[e] + Sum[S \ {e}]
             total == [S \in SUBSET some |-> IF S = {} THEN 0 ELSE resting[CHOOSE e \in S : TRUE]]
  <2>1. /\ held \in Int /\ MaxPositionSize \in Nat /\ resting \in [Entries -> Int]
        /\ -MaxPositionSize <= held /\ held <= MaxPositionSize
        /\ \A e \in Entries : /\ -MaxPositionSize <= held + resting[e]
                              /\ held + resting[e] <= MaxPositionSize
        /\ \A e, f \in Entries : e = f \/ resting[e] = 0 \/ resting[f] = 0
    BY RiskAssumption DEF RiskInv, ExposureSound
  <2>2. \A e, f \in some : e = f
    BY <2>1
  <2>3. total = [S \in SUBSET some |->
                   IF S = {} THEN 0
                   ELSE LET e == CHOOSE e \in S : TRUE IN resting[e] + total[S \ {e}]]
    <3>1. ASSUME NEW S \in SUBSET some, S # {}
          PROVE  LET e == CHOOSE e \in S : TRUE
                 IN  resting[e] + total[S \ {e}] = resting[e]
      <4> DEFINE e == CHOOSE e \in S : TRUE
      <4>1. e \in S
        BY <3>1
      <4>2. S \ {e} = {}
        BY <2>2, <4>1
      <4>3. resting[e] \in Int
        BY <2>1, <4>1
      <4>4. total[S \ {e}] = 0
        BY <4>2
      <4> HIDE DEF total
      <4>5. resting[e] + total[S \ {e}] = resting[e]
        BY <4>3, <4>4
      <4> QED BY <4>5
    <3>2. \A S \in SUBSET some :
             total[S] = IF S = {} THEN 0
                        ELSE LET e == CHOOSE e \in S : TRUE IN resting[e] + total[S \ {e}]
      BY <3>1
    <3>3. total = [S \in SUBSET some |-> total[S]]
      OBVIOUS
    <3> HIDE DEF total
    <3> QED BY <3>2, <3>3
  <2>4. Sum = [S \in SUBSET some |->
                 IF S = {} THEN 0
                 ELSE LET e == CHOOSE e \in S : TRUE IN resting[e] + Sum[S \ {e}]]
    <3> HIDE DEF total
    <3> QED BY <2>3, ZenonT(60)
  <2> HIDE DEF Sum
  <2>5. CASE some = {}
    <3>1. Sum[some] = 0
      BY <2>4, <2>5
    <3> QED BY <2>1, <3>1 DEF Size, Sum
  <2>6. CASE some # {}
    <3> DEFINE e == CHOOSE e \in some : TRUE
    <3>1. e \in some
      BY <2>6
    <3>2. some \ {e} = {}
      BY <2>2, <3>1
    <3>3. Sum[some] = resting[e] + Sum[some \ {e}] /\ Sum[{}] = 0
      BY <2>4, <2>6
    <3> HIDE DEF e
    <3>4. e \in Entries /\ resting[e] \in Int
      BY <2>1, <3>1
    <3>5. Sum[some] = resting[e]
      <4>1. Sum[some \ {e}] = 0
        BY <3>2, <3>3
      <4> QED BY <3>3, <3>4, <4>1
    <3>6. Size(held + resting[e]) <= MaxPositionSize
      BY <2>1, <3>4 DEF Size
    <3> QED BY <3>5, <3>6 DEF Sum
  <2> QED BY <2>5, <2>6
<1> QED BY <1>1, RiskInductive, PTL DEF RiskSpec

\* After a reconciliation with no trade since it asked the exchange, an open row has the
\* quantity that is held and, unless the position went through zero, its side
\* (service/reconciliation/reconciliation.go:196-262).
THEOREM RowTheorem == RiskSpec => []RowFollowsExchange
<1>1. RiskInv => RowFollowsExchange
  BY DEF RiskInv, RowSound, RowFollowsExchange
<1> QED BY <1>1, RiskInductive, PTL DEF RiskSpec

-----------------------------------------------------------------------------
(* The strategy host *)

CallPlaces == {"allocate", "write", "call", "return", "apply"}
HostCalls == [op : {"tick", "fill", "cancel"}, inst : Instances, ctx : Nat, gen : Nat, fill : Nat,
              alloc : Nat, size : Sizes, at : CallPlaces, ptr : Nat, disturbed : BOOLEAN,
              heard : BOOLEAN]
HostCells == {NoCall} \union [by : HostCallers]
WasmStates == [gen : Nat, open : BOOLEAN, next : Seq(Nat), strayed : SUBSET Nat,
               memory : [0..MemoryCells - 1 -> HostCells]]

HostTypes ==
    /\ context \in [Instances -> [gen : Nat, position : Nat]]
    /\ wasm \in WasmStates
    /\ caller \in [HostCallers -> HostCalls \union {NoCall}]
    /\ filled \in [Instances -> Nat]
    /\ generation \in Nat

\* A call of the loaded strategy that has been given a buffer, and one whose buffer is
\* its own.
Holding(c) == c \in InCall /\ Alive(c) /\ caller[c].at \in {"write", "call", "return"}
Owning(c) == Holding(c) /\ ~caller[c].disturbed

BufferEnd(c) == caller[c].ptr + caller[c].size
Apart(c, d) == BufferEnd(c) <= caller[d].ptr \/ BufferEnd(d) <= caller[c].ptr

\* A buffer that is its call's own lies below the next one to be given out, apart from
\* the others; no call beside it is disturbed; and once written it stays.
OwnerSound(c) ==
    Owning(c) =>
        /\ BufferEnd(c) <= wasm.next[Len(wasm.next)]
        /\ \A d \in InCall : Alive(d) => ~caller[d].disturbed
        /\ \A d \in HostCallers \ {c} : Owning(d) => Apart(c, d)
        /\ caller[c].at = "call" =>
              /\ BufferEnd(c) <= MemoryCells
              /\ \A x \in Buffer(c) : wasm.memory[x] = [by |-> c]

HeardSound(c) ==
    c \in InCall =>
        /\ caller[c].gen <= wasm.gen
        /\ caller[c].heard \/ caller[c].disturbed
        /\ caller[c].at \in {"allocate", "write", "call"} => caller[c].heard

\* A call that Reset did not overtake began with the current allocator.
BoundSound(c) ==
    c \in InCall /\ Alive(c) =>
        /\ caller[c].alloc \in 1..Len(wasm.next)
        /\ ~caller[c].disturbed => caller[c].alloc = Len(wasm.next)

\* An allocator that is not at its start will be put back, or strayed.
AllocatorsSound ==
    /\ Len(wasm.next) > 0
    /\ \A c \in HostCallers : BoundSound(c)
    /\ \A a \in 1..Len(wasm.next) :
          \/ wasm.next[a] = 0 \/ a \in wasm.strayed
          \/ \E c \in HostCallers : Holding(c) /\ caller[c].alloc = a

HostInv ==
    /\ HostTypes
    /\ \A c \in HostCallers : HeardSound(c) /\ OwnerSound(c)
    /\ AllocatorsSound

LEMMA NoCallIsNone == NoCall \notin HostCalls /\ NoCall.op = "none"
BY DEF NoCall, HostCalls

\* What a call in the host is made of.
LEMMA HostCallParts ==
  ASSUME HostTypes, NEW c \in InCall
  PROVE  /\ c \in HostCallers /\ caller[c] \in HostCalls
         /\ caller[c].gen \in Nat /\ caller[c].ptr \in Nat /\ caller[c].alloc \in Nat
         /\ caller[c].size \in Nat /\ caller[c].size > 0 /\ caller[c].at \in CallPlaces
         /\ caller[c].disturbed \in BOOLEAN /\ caller[c].heard \in BOOLEAN
<1>1. c \in HostCallers /\ caller[c] # NoCall
  BY DEF InCall
<1>2. caller[c] \in HostCalls
  BY <1>1 DEF HostTypes
<1>3. /\ caller[c].gen \in Nat /\ caller[c].ptr \in Nat /\ caller[c].alloc \in Nat
      /\ caller[c].size \in Sizes
      /\ caller[c].at \in CallPlaces
      /\ caller[c].disturbed \in BOOLEAN /\ caller[c].heard \in BOOLEAN
  BY <1>2 DEF HostCalls
<1>4. caller[c].size \in Nat /\ caller[c].size > 0
  <2>1. \A n \in Sizes : n \in Nat /\ n > 0
    BY HostAssumption
  <2> QED BY <1>3, <2>1
<1> QED BY <1>1, <1>2, <1>3, <1>4

LEMMA HostCallersIn ==
  ASSUME HostTypes
  PROVE  \A c \in HostCallers : c \in InCall <=> caller[c] \in HostCalls
BY NoCallIsNone DEF HostTypes, InCall

\* A caller with no buffer in the loaded strategy enters it, and waits to allocate, or
\* is done with its call: the others keep what they have.
LEMMA HostEntersOrEnds ==
  ASSUME HostInv, HostTypes', UNCHANGED wasm,
         NEW c \in HostCallers, ~Holding(c), NEW k \in HostCalls \union {NoCall},
         caller' = [caller EXCEPT ![c] = k],
         k # NoCall => /\ k.at = "allocate" /\ k.gen = wasm.gen /\ ~k.disturbed /\ k.heard
                       /\ k.alloc = Len(wasm.next)
  PROVE  HostInv'
<1>1. caller'[c] = k /\ \A d \in HostCallers : d # c => caller'[d] = caller[d]
  BY DEF HostInv, HostTypes
<1>2. /\ \A d \in HostCallers : d # c => (d \in InCall' <=> d \in InCall)
      /\ c \in InCall' <=> k # NoCall
  BY <1>1 DEF InCall
<1>3. \A d \in HostCallers : Holding(d)' <=> Holding(d)
  BY <1>1, <1>2 DEF Holding, Alive
<1>4. \A d \in HostCallers : Holding(d) => d # c
  OBVIOUS
<1>5. \A d \in HostCallers : HeardSound(d)'
  <2>1. wasm.gen \in Nat
    BY DEF HostInv, HostTypes, WasmStates
  <2> QED BY <1>1, <1>2, <2>1 DEF HostInv, HeardSound
<1>6. ASSUME NEW d \in HostCallers PROVE OwnerSound(d)'
  <2> SUFFICES ASSUME Owning(d)' PROVE OwnerSound(d)'
    BY DEF OwnerSound
  <2>1. Owning(d) /\ d # c /\ caller'[d] = caller[d]
    BY <1>1, <1>3, <1>4 DEF Owning
  <2>2. \A e \in HostCallers \ {d} : Owning(e)' => Owning(e) /\ e # c /\ caller'[e] = caller[e]
    BY <1>1, <1>3, <1>4 DEF Owning
  <2>3. \A e \in InCall' : Alive(e)' => ~caller'[e].disturbed
    <3> SUFFICES ASSUME NEW e \in HostCallers, e \in InCall', Alive(e)'
                 PROVE  ~caller'[e].disturbed
      BY DEF InCall
    <3>1. CASE e = c
      BY <1>1, <1>2, <3>1
    <3>2. CASE e # c
      <4>1. e \in InCall /\ Alive(e) /\ caller'[e] = caller[e]
        BY <1>1, <1>2, <3>2 DEF Alive
      <4> QED BY <2>1, <4>1 DEF HostInv, OwnerSound
    <3> QED BY <3>1, <3>2
  <2>4. \A e \in HostCallers \ {d} : Owning(e)' => Apart(d, e)'
    BY <2>1, <2>2 DEF HostInv, OwnerSound, Apart, BufferEnd
  <2>5. Buffer(d)' = Buffer(d) /\ BufferEnd(d)' = BufferEnd(d)
    BY <2>1 DEF Buffer, BufferEnd
  <2> QED BY <2>1, <2>3, <2>4, <2>5 DEF HostInv, OwnerSound
<1>7. AllocatorsSound'
  <2>1. \A d \in HostCallers : BoundSound(d)'
    <3> SUFFICES ASSUME NEW d \in HostCallers, d \in InCall', Alive(d)' PROVE BoundSound(d)'
      BY DEF BoundSound
    <3>1. CASE d = c
      <4>1. Len(wasm.next) \in Nat /\ Len(wasm.next) > 0
        BY DEF HostInv, AllocatorsSound, HostTypes, WasmStates
      <4> QED BY <1>1, <1>2, <3>1, <4>1 DEF BoundSound
    <3>2. CASE d # c
      BY <1>1, <1>2, <3>2 DEF HostInv, AllocatorsSound, BoundSound, Alive
    <3> QED BY <3>1, <3>2
  <2>2. \A d \in HostCallers : Holding(d) => Holding(d)' /\ caller'[d].alloc = caller[d].alloc
    BY <1>1, <1>3, <1>4
  <2> QED BY <2>1, <2>2 DEF HostInv, AllocatorsSound
<1> QED BY <1>5, <1>6, <1>7 DEF HostInv

\* A call that leaves the strategy disturbs the others in it, takes back every buffer,
\* and touches nothing of another generation; its caller may have more to do.
LEMMA HostLeaves ==
  ASSUME HostInv, NEW c \in InCall, NEW k \in HostCalls \union {NoCall},
         UNCHANGED <<context, filled, generation>>,
         wasm' = ResetAllocator(c),
         caller' = [Disturb(c) EXCEPT ![c] = k],
         k # NoCall => /\ k.at = "apply" /\ k.gen = caller[c].gen /\ k.alloc = caller[c].alloc
                       /\ k.disturbed = caller[c].disturbed /\ (k.heard \/ k.disturbed)
  PROVE  HostInv'
<1>t. /\ HostTypes /\ c \in HostCallers /\ caller[c] \in HostCalls /\ caller[c].gen \in Nat
      /\ wasm \in WasmStates /\ wasm.gen \in Nat
  BY HostCallParts DEF HostInv, HostTypes, WasmStates, InCall
<1>1. /\ caller'[c] = k
      /\ \A d \in HostCallers : d # c =>
            caller'[d] = IF /\ d \in InCall /\ caller[d].gen = caller[c].gen
                            /\ caller[d].alloc = caller[c].alloc
                         THEN [caller[d] EXCEPT !.disturbed = TRUE] ELSE caller[d]
      /\ DOMAIN caller' = HostCallers
  BY <1>t DEF Disturb
<1>2. \A d \in InCall :
        LET r == [caller[d] EXCEPT !.disturbed = TRUE] IN
        /\ r \in HostCalls /\ r.disturbed /\ r.at = caller[d].at /\ r.gen = caller[d].gen
        /\ r.heard = caller[d].heard /\ r.alloc = caller[d].alloc
  <2> SUFFICES ASSUME NEW d \in InCall
               PROVE  LET r == [caller[d] EXCEPT !.disturbed = TRUE] IN
                      /\ r \in HostCalls /\ r.disturbed /\ r.at = caller[d].at
                      /\ r.gen = caller[d].gen /\ r.heard = caller[d].heard
                      /\ r.alloc = caller[d].alloc
    OBVIOUS
  <2>1. caller[d] \in HostCalls
    BY <1>t, HostCallParts
  <2> QED BY <2>1 DEF HostCalls
<1>3. caller' \in [HostCallers -> HostCalls \union {NoCall}]
  <2>1. caller' = [Disturb(c) EXCEPT ![c] = k]
    OBVIOUS
  <2>2. \A d \in HostCallers : caller'[d] \in HostCalls \union {NoCall}
    BY <1>1, <1>2, <1>t DEF HostTypes
  <2>3. caller' = [d \in HostCallers |-> caller'[d]]
    BY <2>1 DEF Disturb
  <2> QED BY <2>2, <2>3
<1>a. Alive(c) => /\ caller[c].alloc \in 1..Len(wasm.next)
                  /\ ~caller[c].disturbed => caller[c].alloc = Len(wasm.next)
  BY <1>t DEF HostInv, AllocatorsSound, BoundSound
<1>4. /\ wasm' \in WasmStates /\ wasm'.gen = wasm.gen /\ wasm'.memory = wasm.memory
      /\ Alive(c) => /\ Len(wasm'.next) = Len(wasm.next)
                     /\ \A a \in 1..Len(wasm.next) :
                           wasm'.next[a] = IF a = caller[c].alloc THEN 0 ELSE wasm.next[a]
                     /\ wasm'.strayed = wasm.strayed \ {caller[c].alloc}
  <2> DEFINE a == caller[c].alloc
             n == [wasm.next EXCEPT ![a] = 0]
  <2>1. CASE Alive(c)
    <3>1. wasm' = [wasm EXCEPT !.next = n, !.strayed = @ \ {a}]
      BY <2>1 DEF ResetAllocator
    <3>2. wasm.next \in Seq(Nat)
      BY <1>t DEF WasmStates
    <3>3. /\ n \in Seq(Nat) /\ Len(n) = Len(wasm.next)
          /\ \A x \in 1..Len(wasm.next) : n[x] = IF x = a THEN 0 ELSE wasm.next[x]
      BY <1>a, <2>1, <3>2
    <3> HIDE DEF n, a
    <3> QED BY <1>t, <3>1, <3>3 DEF WasmStates, a
  <2>2. CASE ~Alive(c)
    BY <1>t, <2>2 DEF ResetAllocator
  <2> QED BY <2>1, <2>2
<1>5. HostTypes'
  BY <1>t, <1>3, <1>4 DEF HostTypes
<1>6. \A d \in HostCallers : d # c /\ d \in InCall' => d \in InCall
  BY <1>1 DEF InCall
<1>7. ASSUME NEW d \in HostCallers PROVE HeardSound(d)'
  <2> SUFFICES ASSUME d \in InCall' PROVE HeardSound(d)'
    BY DEF HeardSound
  <2>1. CASE d = c
    <3>1. k # NoCall /\ caller'[d] = k
      BY <1>1, <2>1 DEF InCall
    <3>2. caller[c].gen <= wasm.gen
      BY <1>t DEF HostInv, HeardSound
    <3> QED BY <1>4, <3>1, <3>2 DEF HeardSound
  <2>2. CASE d # c
    <3>1. d \in InCall /\ HeardSound(d)
      BY <1>6, <2>2 DEF HostInv
    <3>2. /\ caller'[d].gen = caller[d].gen /\ caller'[d].at = caller[d].at
          /\ caller'[d].heard = caller[d].heard /\ (caller[d].disturbed => caller'[d].disturbed)
      BY <1>1, <1>2, <2>2, <3>1
    <3> QED BY <1>4, <3>1, <3>2 DEF HeardSound
  <2> QED BY <2>1, <2>2
<1>8. CASE Alive(c)
  <2>1. ASSUME NEW d \in HostCallers, Owning(d)' PROVE FALSE
    <3>1. d # c
      BY <1>1, <2>1 DEF Owning, Holding, InCall
    <3>2. d \in InCall
      BY <1>6, <2>1, <3>1 DEF Owning, Holding
    <3>3. caller'[d].gen = wasm.gen
      BY <1>4, <2>1 DEF Owning, Holding, Alive
    <3>4. caller[d].gen = caller[c].gen
      BY <1>1, <1>2, <1>8, <3>1, <3>2, <3>3 DEF Alive
    <3>5. caller[d].alloc # caller[c].alloc /\ caller'[d] = caller[d]
      BY <1>1, <1>2, <2>1, <3>1, <3>2, <3>4 DEF Owning
    <3>6. Owning(d) /\ Alive(d)
      BY <1>8, <2>1, <3>2, <3>4, <3>5 DEF Owning, Holding, Alive
    <3>7. ~caller[c].disturbed /\ ~caller[d].disturbed
      BY <1>8, <3>6 DEF HostInv, OwnerSound, Owning
    <3> QED BY <1>a, <1>8, <3>2, <3>5, <3>6, <3>7 DEF HostInv, AllocatorsSound, BoundSound
  <2>2. ASSUME NEW d \in HostCallers, d \in InCall', Alive(d)'
        PROVE  /\ d \in InCall /\ Alive(d) /\ caller'[d].alloc = caller[d].alloc
               /\ caller[d].disturbed => caller'[d].disturbed
    <3>1. CASE d = c
      BY <1>1, <1>8, <2>2, <3>1 DEF InCall
    <3>2. CASE d # c
      <4>1. d \in InCall
        BY <1>6, <2>2, <3>2
      <4>2. /\ caller'[d].gen = caller[d].gen /\ caller'[d].alloc = caller[d].alloc
            /\ caller[d].disturbed => caller'[d].disturbed
        BY <1>1, <1>2, <3>2, <4>1
      <4> QED BY <1>4, <2>2, <4>1, <4>2 DEF Alive
    <3> QED BY <3>1, <3>2
  <2>3. ASSUME NEW d \in HostCallers, Holding(d), d # c
        PROVE  Holding(d)' /\ caller'[d].alloc = caller[d].alloc
    <3>1. /\ caller'[d].gen = caller[d].gen /\ caller'[d].at = caller[d].at
          /\ caller'[d].alloc = caller[d].alloc
      BY <1>1, <1>2, <2>3 DEF Holding
    <3>2. d \in InCall'
      BY <1>1, <1>2, <2>3, NoCallIsNone DEF Holding, InCall
    <3> QED BY <1>4, <2>3, <3>1, <3>2 DEF Holding, Alive
  <2>4. AllocatorsSound'
    <3>1. \A d \in HostCallers : BoundSound(d)'
      BY <1>4, <1>8, <2>2 DEF HostInv, AllocatorsSound, BoundSound
    <3>2. ASSUME NEW a \in 1..Len(wasm'.next)
          PROVE  \/ wasm'.next[a] = 0 \/ a \in wasm'.strayed
                 \/ \E d \in HostCallers : Holding(d)' /\ caller'[d].alloc = a
      <4>1. CASE a = caller[c].alloc
        BY <1>4, <1>8, <4>1
      <4>2. CASE a # caller[c].alloc
        <5>1. a \in 1..Len(wasm.next) /\ wasm'.next[a] = wasm.next[a]
          BY <1>4, <1>8, <4>2
        <5>2. CASE wasm.next[a] = 0 \/ a \in wasm.strayed
          BY <1>4, <1>8, <4>2, <5>1, <5>2
        <5>3. CASE \E d \in HostCallers : Holding(d) /\ caller[d].alloc = a
          BY <2>3, <4>2, <5>3
        <5> QED BY <5>1, <5>2, <5>3 DEF HostInv, AllocatorsSound
      <4> QED BY <4>1, <4>2
    <3> QED BY <1>4, <1>8, <3>1, <3>2 DEF HostInv, AllocatorsSound
  <2> QED BY <1>5, <1>7, <2>1, <2>4 DEF HostInv, OwnerSound
<1>9. CASE ~Alive(c)
  <2>1. wasm' = wasm
    BY <1>9 DEF ResetAllocator
  <2>2. \A d \in HostCallers : d \in InCall /\ Alive(d) => d # c /\ caller'[d] = caller[d] /\ d \in InCall'
    BY <1>1, <1>9 DEF Alive, InCall
  <2>3. \A d \in HostCallers : d \in InCall' /\ Alive(d)' => d # c /\ d \in InCall /\ Alive(d)
    <3> SUFFICES ASSUME NEW d \in HostCallers, d \in InCall', Alive(d)'
                 PROVE  d # c /\ d \in InCall /\ Alive(d)
      OBVIOUS
    <3>1. d # c
      BY <1>1, <1>9, <2>1 DEF Alive, InCall
    <3>2. d \in InCall
      BY <1>6, <3>1
    <3>3. caller'[d].gen = caller[d].gen
      BY <1>1, <1>2, <3>1, <3>2
    <3> QED BY <2>1, <3>1, <3>2, <3>3 DEF Alive
  <2>4. \A d \in HostCallers : Holding(d)' <=> Holding(d)
    BY <2>1, <2>2, <2>3 DEF Holding, Alive
  <2>5. \A d \in HostCallers : Owning(d)' => Owning(d) /\ caller'[d] = caller[d]
    BY <2>2, <2>4 DEF Owning, Holding
  <2>6. ASSUME NEW d \in HostCallers PROVE OwnerSound(d)'
    <3> SUFFICES ASSUME Owning(d)' PROVE OwnerSound(d)'
      BY DEF OwnerSound
    <3>1. Owning(d) /\ caller'[d] = caller[d] /\ OwnerSound(d)
      BY <2>5 DEF HostInv
    <3>2. \A e \in InCall' : Alive(e)' => ~caller'[e].disturbed
      BY <1>5, <2>2, <2>3, <3>1, HostCallParts DEF OwnerSound, InCall
    <3>3. \A e \in HostCallers \ {d} : Owning(e)' => Apart(d, e)'
      BY <2>5, <3>1 DEF OwnerSound, Apart, BufferEnd
    <3>4. Buffer(d)' = Buffer(d) /\ BufferEnd(d)' = BufferEnd(d)
      BY <3>1 DEF Buffer, BufferEnd
    <3> QED BY <2>1, <3>1, <3>2, <3>3, <3>4 DEF OwnerSound
  <2>7. AllocatorsSound'
    <3>1. \A d \in HostCallers : BoundSound(d)'
      BY <2>1, <2>2, <2>3 DEF HostInv, AllocatorsSound, BoundSound
    <3>2. \A d \in HostCallers : Holding(d) => Holding(d)' /\ caller'[d] = caller[d]
      BY <2>2, <2>4 DEF Holding
    <3> QED BY <2>1, <3>1, <3>2 DEF HostInv, AllocatorsSound
  <2> QED BY <1>5, <1>7, <2>6, <2>7 DEF HostInv
<1> QED BY <1>8, <1>9

\* A call that begins comes to no harm to the calls in the strategy.
LEMMA HostBegins ==
  ASSUME HostInv, NEW c \in HostCallers, NEW i \in Instances, NEW size \in Sizes,
         NEW op \in {"tick", "fill", "cancel"}, NEW n \in Nat,
         Begin(c, CallOf(op, i, size, n)), UNCHANGED wasm,
         context' \in [Instances -> [gen : Nat, position : Nat]],
         filled' \in [Instances -> Nat], generation' \in Nat
  PROVE  HostInv'
<1> DEFINE k == CallOf(op, i, size, n)
<1>1. /\ k \in HostCalls /\ k.at = "allocate" /\ k.gen = wasm.gen
      /\ k.disturbed = FALSE /\ k.heard = TRUE /\ k.alloc = Len(wasm.next)
  <2>1. context'[i].gen \in Nat /\ wasm.gen \in Nat /\ Len(wasm.next) \in Nat
    BY DEF HostInv, HostTypes, WasmStates
  <2> QED BY <2>1 DEF CallOf, HostCalls, CallPlaces
<1>2. caller' = [caller EXCEPT ![c] = k] /\ c \notin InCall
  BY DEF Begin
<1>3. HostTypes'
  <2> HIDE DEF k
  <2> QED BY <1>1, <1>2 DEF HostInv, HostTypes
<1> HIDE DEF k
<1> QED BY <1>1, <1>2, <1>3, HostEntersOrEnds DEF Holding

LEMMA HostTicks ==
  ASSUME HostInv, NEW c \in HostCallers, NEW i \in Instances, NEW size \in Sizes,
         OnTick(c, i, size)
  PROVE  HostInv'
<1>1. context' \in [Instances -> [gen : Nat, position : Nat]] /\ generation' \in Nat
  <2>1. CASE context[i] = NoContext
    <3> DEFINE made == [gen |-> generation + 1, position |-> 0]
    <3>1. made \in [gen : Nat, position : Nat]
      BY DEF HostInv, HostTypes
    <3> HIDE DEF made
    <3> QED BY <2>1, <3>1 DEF HostInv, HostTypes, OnTick, made
  <2>2. CASE context[i] # NoContext
    BY <2>2 DEF HostInv, HostTypes, OnTick
  <2> QED BY <2>1, <2>2
<1> QED BY <1>1, HostBegins DEF OnTick, HostInv, HostTypes

LEMMA HostFills ==
  ASSUME HostInv, NEW c \in HostCallers, NEW i \in Instances, NEW size \in Sizes,
         OnOrderFilled(c, i, size)
  PROVE  HostInv'
<1>1. /\ filled' \in [Instances -> Nat] /\ filled[i] + 1 \in Nat
      /\ context' \in [Instances -> [gen : Nat, position : Nat]] /\ generation' \in Nat
      /\ UNCHANGED wasm
  BY DEF HostInv, HostTypes, OnOrderFilled
<1>2. CASE context[i] = NoContext
  <2>1. UNCHANGED <<wasm, caller>> /\ HostTypes'
    BY <1>1, <1>2 DEF HostInv, HostTypes, OnOrderFilled
  <2> QED BY <2>1 DEF HostInv, HeardSound, OwnerSound, Owning, Holding, InCall, Alive, Apart,
                      BufferEnd, Buffer, AllocatorsSound, BoundSound
<1>3. CASE context[i] # NoContext
  <2>1. Begin(c, CallOf("fill", i, size, filled[i] + 1))
    BY <1>3 DEF OnOrderFilled
  <2> QED BY <1>1, <2>1, HostBegins
<1> QED BY <1>2, <1>3

LEMMA HostCancels ==
  ASSUME HostInv, NEW c \in HostCallers, NEW i \in Instances, NEW size \in Sizes,
         OnOrderCanceled(c, i, size)
  PROVE  HostInv'
<1>1. /\ Begin(c, CallOf("cancel", i, size, 0))
      /\ context' \in [Instances -> [gen : Nat, position : Nat]]
      /\ UNCHANGED wasm /\ filled' \in [Instances -> Nat] /\ generation' \in Nat
  BY DEF HostInv, HostTypes, OnOrderCanceled
<1> QED BY <1>1, HostBegins

\* A call that fails leaves, with nothing more to do.
LEMMA HostFails ==
  ASSUME HostInv, NEW c \in InCall, Fails(c)
  PROVE  HostInv'
<1>1. Disturb(c) = [Disturb(c) EXCEPT ![c] = NoCall]
  BY DEF Disturb, InCall
<1> QED BY <1>1, HostLeaves DEF Fails

\* A fill goes on to the position when its call returns.
LEMMA HostReturns ==
  ASSUME HostInv, NEW c \in HostCallers, Returns(c)
  PROVE  HostInv'
<1>1. c \in InCall /\ HostTypes
  BY DEF Returns, HostInv
<1>2. CASE caller[c].op = "fill"
  <2> DEFINE k == [caller[c] EXCEPT !.at = "apply"]
  <2>1. caller[c] \in HostCalls
    BY <1>1, HostCallParts
  <2>2. /\ k \in HostCalls /\ k.at = "apply" /\ k.gen = caller[c].gen
        /\ k.heard = caller[c].heard /\ k.disturbed = caller[c].disturbed
        /\ k.alloc = caller[c].alloc
    BY <2>1 DEF HostCalls, CallPlaces
  <2>3. k.heard \/ k.disturbed
    BY <1>1, <2>2 DEF HostInv, HeardSound, InCall
  <2>4. caller' = [Disturb(c) EXCEPT ![c] = k]
    BY <1>2 DEF Returns
  <2> HIDE DEF k
  <2> QED BY <1>1, <2>2, <2>3, <2>4, HostLeaves DEF Returns
<1>3. CASE caller[c].op # "fill"
  BY <1>1, <1>3, HostFails DEF Returns, Fails
<1> QED BY <1>2, <1>3

\* The last part of a fill, and UpdatePosition, touch the contexts alone.
LEMMA HostApplies ==
  ASSUME HostInv, NEW c \in HostCallers, AppliesFill(c)
  PROVE  HostInv'
<1> DEFINE i == caller[c].inst
<1>1. c \in InCall /\ HostTypes /\ caller[c] \in HostCalls
  BY HostCallParts DEF AppliesFill, HostInv
<1>2. i \in Instances /\ caller[c].fill \in Nat
  BY <1>1 DEF HostCalls
<1>3. context' \in [Instances -> [gen : Nat, position : Nat]]
  <2>1. CASE context[i].gen = caller[c].ctx
    <3> DEFINE moved == [context[i] EXCEPT !.position = caller[c].fill]
    <3>1. moved \in [gen : Nat, position : Nat]
      BY <1>1, <1>2 DEF HostTypes
    <3>2. context' = [context EXCEPT ![i] = moved]
      BY <2>1 DEF AppliesFill
    <3> HIDE DEF moved
    <3> QED BY <1>1, <1>2, <3>1, <3>2 DEF HostTypes
  <2>2. CASE context[i].gen # caller[c].ctx
    BY <1>1, <2>2 DEF HostTypes, AppliesFill
  <2> QED BY <2>1, <2>2
<1>4. caller' = [caller EXCEPT ![c] = NoCall] /\ UNCHANGED <<wasm, filled, generation>>
  BY DEF AppliesFill
<1>5. HostTypes'
  BY <1>1, <1>3, <1>4 DEF HostTypes
<1>6. ~Holding(c)
  BY DEF AppliesFill, Holding
<1> QED BY <1>4, <1>5, <1>6, HostEntersOrEnds

LEMMA HostUpdates ==
  ASSUME HostInv, NEW i \in Instances, UpdatePosition(i)
  PROVE  HostInv'
<1>1. context' \in [Instances -> [gen : Nat, position : Nat]]
  <2> DEFINE moved == [context[i] EXCEPT !.position = filled[i]]
  <2>1. moved \in [gen : Nat, position : Nat]
    BY DEF HostInv, HostTypes
  <2>2. context' = [context EXCEPT ![i] = moved]
    BY DEF UpdatePosition
  <2> HIDE DEF moved
  <2> QED BY <2>1, <2>2 DEF HostInv, HostTypes
<1>2. HostTypes' /\ UNCHANGED <<wasm, caller>>
  BY <1>1 DEF HostInv, HostTypes, UpdatePosition
<1> QED BY <1>2 DEF HostInv, HeardSound, OwnerSound, Owning, Holding, InCall, Alive, Apart,
                    BufferEnd, Buffer, AllocatorsSound, BoundSound

\* A buffer is given out: above every buffer that is its call's own, unless a call beside
\* it is disturbed; and then nobody's is.
LEMMA HostAllocates ==
  ASSUME HostInv, NEW c \in HostCallers, Allocate(c)
  PROVE  HostInv'
<1>1. CASE ~Alive(c) \/ caller[c].size > MaxSize
  BY <1>1, HostFails DEF Allocate
<1>2. CASE Alive(c) /\ ~(caller[c].size > MaxSize)
  <2> DEFINE beside == \E d \in InCall : caller[d].disturbed /\ Alive(d)
  <2>0. PICK a \in caller[c].alloc..Len(wasm.next) :
          /\ caller' = [caller EXCEPT ![c].at = "write", ![c].ptr = wasm.next[a],
                           ![c].disturbed = \E d \in InCall : caller[d].disturbed /\ Alive(d)]
          /\ wasm' = [wasm EXCEPT !.next[a] = @ + caller[c].size,
                         !.strayed = IF a = caller[c].alloc THEN @ ELSE @ \union {a}]
    BY <1>2 DEF Allocate
  <2> DEFINE k == [caller[c] EXCEPT !.at = "write", !.ptr = wasm.next[a], !.disturbed = beside]
             last == Len(wasm.next)
             n == [wasm.next EXCEPT ![a] = @ + caller[c].size]
  <2>t. /\ HostTypes /\ c \in InCall /\ caller[c] \in HostCalls /\ caller[c].at = "allocate"
        /\ caller[c].gen \in Nat /\ caller[c].size \in Nat /\ caller[c].size > 0
        /\ wasm \in WasmStates /\ wasm.gen \in Nat /\ wasm.next \in Seq(Nat) /\ last \in Nat
    <3>1. HostTypes /\ c \in InCall /\ caller[c].at = "allocate" /\ wasm \in WasmStates
      BY DEF Allocate, HostInv, HostTypes
    <3>2. /\ caller[c] \in HostCalls /\ caller[c].gen \in Nat
          /\ caller[c].size \in Nat /\ caller[c].size > 0
      BY <3>1, HostCallParts
    <3>3. wasm.gen \in Nat /\ wasm.next \in Seq(Nat)
      BY <3>1 DEF WasmStates
    <3> QED BY <3>1, <3>2, <3>3
  <2>a. /\ caller[c].alloc \in 1..last /\ a \in 1..last /\ last > 0
        /\ ~beside => a = last /\ caller[c].alloc = last
    <3>1. /\ caller[c].alloc \in 1..last
          /\ ~caller[c].disturbed => caller[c].alloc = last
      BY <1>2, <2>t DEF HostInv, AllocatorsSound, BoundSound
    <3>2. ~beside => ~caller[c].disturbed
      BY <1>2, <2>t
    <3> HIDE DEF beside
    <3> QED BY <2>0, <2>t, <3>1, <3>2
  <2>b. wasm.next[a] \in Nat /\ \A x \in 1..last : wasm.next[x] \in Nat
    BY <2>t, <2>a
  <2>1. /\ k \in HostCalls /\ k.at = "write" /\ k.ptr = wasm.next[a] /\ k.disturbed = beside
        /\ k.gen = caller[c].gen /\ k.size = caller[c].size /\ k.heard = caller[c].heard
        /\ k.alloc = caller[c].alloc
    <3>1. beside \in BOOLEAN
      OBVIOUS
    <3> HIDE DEF beside
    <3> QED BY <2>t, <2>b, <3>1 DEF HostCalls, CallPlaces
  <2>2. caller' = [caller EXCEPT ![c] = k]
    BY <2>0, <2>t DEF HostTypes
  <2>3. /\ wasm' = [wasm EXCEPT !.next = n,
                       !.strayed = IF a = caller[c].alloc THEN @ ELSE @ \union {a}]
        /\ UNCHANGED <<context, filled, generation>>
    BY <1>2, <2>0 DEF Allocate
  <2>c. /\ n \in Seq(Nat) /\ Len(n) = last /\ n[a] = wasm.next[a] + caller[c].size
        /\ \A x \in 1..last : x # a => n[x] = wasm.next[x]
    BY <2>t, <2>a, <2>b
  <2> HIDE DEF n
  <2>4. /\ wasm' \in WasmStates /\ wasm'.gen = wasm.gen /\ wasm'.memory = wasm.memory
        /\ Len(wasm'.next) = last /\ wasm'.next[a] = wasm.next[a] + caller[c].size
        /\ \A x \in 1..last : x # a => wasm'.next[x] = wasm.next[x]
        /\ wasm'.strayed = IF a = caller[c].alloc THEN wasm.strayed ELSE wasm.strayed \union {a}
    <3>1. a \in Nat
      BY <2>a, <2>t
    <3> QED BY <2>t, <2>3, <2>c, <3>1 DEF WasmStates
  <2> HIDE DEF k
  <2>5. HostTypes'
    BY <2>t, <2>1, <2>2, <2>3, <2>4 DEF HostTypes
  <2>6. caller'[c] = k /\ \A d \in HostCallers : d # c => caller'[d] = caller[d]
    BY <2>t, <2>2 DEF HostTypes
  <2>7. \A d \in HostCallers : /\ d \in InCall' <=> d \in InCall
                               /\ Alive(d)' <=> Alive(d)
    BY <2>t, <2>1, <2>4, <2>6, NoCallIsNone DEF InCall, Alive
  <2>8. \A d \in HostCallers : d # c => (Holding(d)' <=> Holding(d)) /\ (Owning(d)' <=> Owning(d))
    BY <2>6, <2>7 DEF Holding, Owning
  <2>9. \A d \in HostCallers : HeardSound(d)'
    <3> SUFFICES ASSUME NEW d \in HostCallers, d \in InCall' PROVE HeardSound(d)'
      BY DEF HeardSound
    <3>1. d \in InCall /\ HeardSound(d)
      BY <2>7 DEF HostInv
    <3>2. CASE d = c
      BY <2>1, <2>t, <2>4, <2>6, <3>1, <3>2 DEF HeardSound
    <3>3. CASE d # c
      BY <2>4, <2>6, <3>1, <3>3 DEF HeardSound
    <3> QED BY <3>2, <3>3
  <2>10. ASSUME NEW d \in HostCallers, d # c, Owning(d)
         PROVE  /\ ~beside /\ OwnerSound(d)
                /\ Apart(c, d)' /\ Apart(d, c)' /\ BufferEnd(d)' <= wasm'.next[last]
    <3>1. d \in InCall /\ Alive(d) /\ OwnerSound(d) /\ BufferEnd(d) <= wasm.next[last]
      BY <2>10 DEF Owning, Holding, HostInv, OwnerSound
    <3>2. ~beside
      BY <2>10, <3>1 DEF OwnerSound
    <3>3. caller[d].ptr \in Nat /\ caller[d].size \in Nat
      BY <2>t, <3>1, HostCallParts
    <3>4. BufferEnd(d)' = BufferEnd(d) /\ caller'[d].ptr = caller[d].ptr /\ BufferEnd(d) \in Nat
      BY <2>6, <2>10, <3>3 DEF BufferEnd
    <3>5. caller'[c].ptr = wasm.next[last] /\ a = last
      BY <2>1, <2>6, <2>a, <3>2
    <3>6. Apart(c, d)' /\ Apart(d, c)'
      BY <3>1, <3>4, <3>5 DEF Apart
    <3>7. BufferEnd(d)' <= wasm'.next[last]
      BY <2>4, <2>b, <2>t, <3>1, <3>4, <3>5
    <3> HIDE DEF beside
    <3> QED BY <3>1, <3>2, <3>6, <3>7
  <2>11. ~beside => \A d \in InCall' : Alive(d)' => ~caller'[d].disturbed
    <3> SUFFICES ASSUME ~beside, NEW d \in HostCallers, d \in InCall', Alive(d)'
                 PROVE  ~caller'[d].disturbed
      BY DEF InCall
    <3>1. d \in InCall /\ Alive(d)
      BY <2>7
    <3>2. ~caller[d].disturbed
      BY <3>1
    <3> QED BY <2>1, <2>6, <3>2
  <2>12. ASSUME NEW d \in HostCallers, Owning(d)' PROVE OwnerSound(d)'
    <3>1. CASE d = c
      <4>1. ~beside /\ Alive(c)
        BY <2>1, <2>6, <2>7, <2>12, <3>1 DEF Owning, Holding
      <4>2. BufferEnd(c)' <= wasm'.next[last]
        <5>1. a = last
          BY <2>a, <4>1
        <5> HIDE DEF beside
        <5> QED BY <2>1, <2>t, <2>b, <2>4, <2>6, <5>1 DEF BufferEnd
      <4>3. \A e \in HostCallers \ {c} : Owning(e)' => Apart(c, e)'
        BY <2>8, <2>10
      <4>4. caller'[c].at # "call"
        BY <2>1, <2>6
      <4>5. \A e \in InCall' : Alive(e)' => ~caller'[e].disturbed
        BY <2>11, <4>1
      <4> QED BY <2>4, <3>1, <4>2, <4>3, <4>4, <4>5 DEF OwnerSound
    <3>2. CASE d # c
      <4>1. Owning(d) /\ OwnerSound(d) /\ ~beside
        BY <2>8, <2>10, <2>12, <3>2
      <4>2. BufferEnd(d)' <= wasm'.next[last]
        BY <2>10, <3>2, <4>1
      <4>3. \A e \in HostCallers \ {d} : Owning(e)' => Apart(d, e)'
        <5> SUFFICES ASSUME NEW e \in HostCallers \ {d}, Owning(e)' PROVE Apart(d, e)'
          OBVIOUS
        <5>1. CASE e = c
          BY <2>10, <3>2, <4>1, <5>1
        <5>2. CASE e # c
          <6>1. Apart(d, e)
            BY <2>8, <4>1, <5>2 DEF OwnerSound
          <6> QED BY <2>6, <3>2, <5>2, <6>1 DEF Apart, BufferEnd
        <5> QED BY <5>1, <5>2
      <4>4. Buffer(d)' = Buffer(d) /\ BufferEnd(d)' = BufferEnd(d) /\ caller'[d] = caller[d]
        BY <2>6, <3>2 DEF Buffer, BufferEnd
      <4>5. \A e \in InCall' : Alive(e)' => ~caller'[e].disturbed
        BY <2>11, <4>1
      <4> QED BY <2>4, <4>1, <4>2, <4>3, <4>4, <4>5 DEF OwnerSound
    <3> QED BY <3>1, <3>2
  <2>13. AllocatorsSound'
    <3>1. ASSUME NEW d \in HostCallers PROVE BoundSound(d)'
      <4>1. CASE d = c
        BY <2>1, <2>4, <2>6, <2>a, <4>1 DEF BoundSound
      <4>2. CASE d # c
        BY <2>4, <2>6, <2>7, <4>2 DEF HostInv, AllocatorsSound, BoundSound
      <4> QED BY <4>1, <4>2
    <3>2. Holding(c)' /\ caller'[c].alloc = caller[c].alloc
      BY <1>2, <2>1, <2>t, <2>6, <2>7 DEF Holding
    <3>3. ASSUME NEW x \in 1..last
          PROVE  \/ wasm'.next[x] = 0 \/ x \in wasm'.strayed
                 \/ \E d \in HostCallers : Holding(d)' /\ caller'[d].alloc = x
      <4>1. CASE x = a
        BY <2>4, <3>2, <4>1
      <4>2. CASE x # a
        <5>1. ASSUME NEW d \in HostCallers, Holding(d), caller[d].alloc = x
              PROVE  Holding(d)' /\ caller'[d].alloc = x
          BY <2>t, <2>6, <2>8, <5>1 DEF Holding
        <5> QED BY <2>4, <4>2, <5>1 DEF HostInv, AllocatorsSound
      <4> QED BY <4>1, <4>2
    <3> QED BY <2>4, <2>a, <3>1, <3>3 DEF AllocatorsSound
  <2>14. \A d \in HostCallers : OwnerSound(d)'
    BY <2>12 DEF OwnerSound
  <2> QED BY <2>5, <2>9, <2>13, <2>14 DEF HostInv
<1> QED BY <1>1, <1>2

\* The input is written where no call has a buffer of its own but the writer.
LEMMA HostWrites ==
  ASSUME HostInv, NEW c \in HostCallers, WriteToMemory(c)
  PROVE  HostInv'
<1>1. CASE ~Alive(c) \/ caller[c].ptr + caller[c].size > MemoryCells
  BY <1>1, HostFails DEF WriteToMemory
<1>2. CASE Alive(c) /\ ~(caller[c].ptr + caller[c].size > MemoryCells)
  <2> DEFINE k == [caller[c] EXCEPT !.at = "call"]
             cells == [x \in DOMAIN wasm.memory |->
                         IF x \in Buffer(c) THEN [by |-> c] ELSE wasm.memory[x]]
  <2>t. /\ HostTypes /\ c \in InCall /\ caller[c] \in HostCalls /\ caller[c].at = "write"
        /\ caller[c].ptr \in Nat /\ caller[c].size \in Nat
        /\ wasm \in WasmStates /\ wasm.gen \in Nat
        /\ wasm.memory \in [0..MemoryCells - 1 -> HostCells] /\ MemoryCells \in Nat
    BY HostCallParts, HostAssumption DEF WriteToMemory, HostInv, HostTypes, WasmStates
  <2>1. /\ k \in HostCalls /\ k.at = "call" /\ k.ptr = caller[c].ptr /\ k.size = caller[c].size
        /\ k.gen = caller[c].gen /\ k.heard = caller[c].heard /\ k.disturbed = caller[c].disturbed
        /\ k.alloc = caller[c].alloc
    BY <2>t DEF HostCalls, CallPlaces
  <2>2. caller' = [caller EXCEPT ![c] = k] /\ UNCHANGED <<context, filled, generation>>
    BY <1>2, <2>t DEF WriteToMemory, Goes
  <2>3. wasm' = [wasm EXCEPT !.memory = cells]
    BY <1>2 DEF WriteToMemory
  <2>4. /\ cells \in [0..MemoryCells - 1 -> HostCells]
        /\ \A x \in 0..MemoryCells - 1 :
              cells[x] = IF x \in Buffer(c) THEN [by |-> c] ELSE wasm.memory[x]
    BY <2>t DEF HostCells
  <2> HIDE DEF k, cells
  <2>5. /\ wasm' \in WasmStates /\ wasm'.gen = wasm.gen /\ wasm'.next = wasm.next
        /\ wasm'.memory = cells /\ wasm'.strayed = wasm.strayed
    BY <2>t, <2>3, <2>4 DEF WasmStates
  <2>6. HostTypes'
    BY <2>t, <2>1, <2>2, <2>5 DEF HostTypes
  <2>7. caller'[c] = k /\ \A d \in HostCallers : d # c => caller'[d] = caller[d]
    BY <2>t, <2>2 DEF HostTypes
  <2>8. \A d \in HostCallers :
          /\ d \in InCall' <=> d \in InCall
          /\ Alive(d)' <=> Alive(d)
          /\ caller'[d].disturbed = caller[d].disturbed /\ caller'[d].heard = caller[d].heard
          /\ caller'[d].ptr = caller[d].ptr /\ caller'[d].size = caller[d].size
          /\ caller'[d].gen = caller[d].gen /\ caller'[d].alloc = caller[d].alloc
    BY <2>t, <2>1, <2>5, <2>7, NoCallIsNone DEF InCall, Alive
  <2>9. \A d \in HostCallers : (Holding(d)' <=> Holding(d)) /\ (Owning(d)' <=> Owning(d))
    BY <2>t, <2>1, <2>7, <2>8 DEF Holding, Owning
  <2>10. \A d \in HostCallers : HeardSound(d)'
    <3> SUFFICES ASSUME NEW d \in HostCallers, d \in InCall' PROVE HeardSound(d)'
      BY DEF HeardSound
    <3>1. d \in InCall /\ HeardSound(d)
      BY <2>8 DEF HostInv
    <3>2. caller[d].at \in {"allocate", "write", "call"} \/ caller'[d].at = caller[d].at
      BY <2>t, <2>7
    <3> QED BY <2>5, <2>8, <3>1, <3>2 DEF HeardSound
  <2>11. \A d, e \in HostCallers : Apart(d, e)' <=> Apart(d, e)
    BY <2>8 DEF Apart, BufferEnd
  <2>12. ASSUME NEW d \in HostCallers, Owning(d)' PROVE OwnerSound(d)'
    <3>1. Owning(d) /\ OwnerSound(d) /\ d \in InCall
      BY <2>9, <2>12 DEF HostInv, Owning, Holding
    <3>2. /\ BufferEnd(d)' <= wasm'.next[Len(wasm'.next)]
          /\ \A e \in HostCallers \ {d} : Owning(e)' => Apart(d, e)'
      BY <2>5, <2>8, <2>9, <2>11, <3>1 DEF OwnerSound, BufferEnd
    <3>3. \A e \in InCall' : Alive(e)' => ~caller'[e].disturbed
      BY <2>8, <3>1 DEF OwnerSound, InCall
    <3>4. Buffer(d)' = Buffer(d) /\ BufferEnd(d)' = BufferEnd(d)
      BY <2>8 DEF Buffer, BufferEnd
    <3>5. caller'[d].at = "call" =>
             /\ BufferEnd(d) <= MemoryCells
             /\ \A x \in Buffer(d) : wasm'.memory[x] = [by |-> d]
      <4>1. CASE d = c
        <5>1. caller[c].ptr + caller[c].size <= MemoryCells
          BY <1>2, <2>t
        <5>2. Buffer(c) \subseteq 0..MemoryCells - 1
          BY <2>t, <5>1 DEF Buffer
        <5> QED BY <2>4, <2>5, <4>1, <5>1, <5>2 DEF BufferEnd
      <4>2. CASE d # c
        <5> SUFFICES ASSUME caller[d].at = "call"
                     PROVE  /\ BufferEnd(d) <= MemoryCells
                            /\ \A x \in Buffer(d) : wasm'.memory[x] = [by |-> d]
          BY <2>7, <4>2
        <5>1. /\ BufferEnd(d) <= MemoryCells
              /\ \A x \in Buffer(d) : wasm.memory[x] = [by |-> d]
          BY <3>1 DEF OwnerSound
        <5>2. Owning(c)
          BY <1>2, <2>t, <3>1 DEF OwnerSound, Owning, Holding
        <5>3. Apart(d, c)
          BY <3>1, <4>2, <5>2 DEF OwnerSound
        <5>4. caller[d].ptr \in Nat /\ caller[d].size \in Nat
          BY <2>t, <3>1, HostCallParts
        <5>5. \A x \in Buffer(d) : x \in 0..MemoryCells - 1 /\ x \notin Buffer(c)
          <6>1. \A p, n, q, m, x, M \in Nat :
                  /\ p + n <= M /\ (p + n <= q \/ q + m <= p)
                  /\ x >= p /\ x <= p + n - 1
                  => x <= M - 1 /\ ~(x >= q /\ x <= q + m - 1)
            OBVIOUS
          <6> DEFINE p == caller[d].ptr
                     n == caller[d].size
                     q == caller[c].ptr
                     m == caller[c].size
          <6>2. /\ p \in Nat /\ n \in Nat /\ q \in Nat /\ m \in Nat
                /\ p + n <= MemoryCells /\ (p + n <= q \/ q + m <= p)
            BY <2>t, <5>1, <5>3, <5>4 DEF BufferEnd, Apart
          <6>3. Buffer(d) = p .. p + n - 1 /\ Buffer(c) = q .. q + m - 1
            BY DEF Buffer
          <6> HIDE DEF p, n, q, m
          <6> QED BY <2>t, <6>1, <6>2, <6>3
        <5> QED BY <2>4, <2>5, <5>1, <5>5
      <4> QED BY <4>1, <4>2
    <3> QED BY <3>2, <3>3, <3>4, <3>5 DEF OwnerSound
  <2>13. AllocatorsSound'
    <3>1. \A d \in HostCallers : BoundSound(d)'
      BY <2>5, <2>8 DEF HostInv, AllocatorsSound, BoundSound
    <3> QED BY <2>5, <2>8, <2>9, <3>1 DEF HostInv, AllocatorsSound
  <2>14. \A d \in HostCallers : OwnerSound(d)'
    BY <2>12 DEF OwnerSound
  <2> QED BY <2>6, <2>10, <2>13, <2>14 DEF HostInv
<1> QED BY <1>1, <1>2

\* What the function reads where the buffer is its call's own is what its caller wrote.
LEMMA HostAnswers ==
  ASSUME HostInv, NEW c \in HostCallers, CallFunction(c)
  PROVE  HostInv'
<1>1. CASE Fails(c)
  BY <1>1, HostFails DEF CallFunction
<1>2. CASE ~Fails(c)
  <2> DEFINE own == \A x \in Buffer(c) : wasm.memory[x] = [by |-> c]
             k == [caller[c] EXCEPT !.at = "return", !.heard = own]
  <2>t. /\ HostTypes /\ c \in InCall /\ caller[c] \in HostCalls /\ caller[c].at = "call"
        /\ Alive(c) /\ UNCHANGED <<context, wasm, filled, generation>>
    BY <1>2, HostCallParts DEF CallFunction, HostInv
  <2>1. /\ k \in HostCalls /\ k.at = "return" /\ k.ptr = caller[c].ptr /\ k.size = caller[c].size
        /\ k.gen = caller[c].gen /\ k.heard = own /\ k.disturbed = caller[c].disturbed
        /\ k.alloc = caller[c].alloc
    <3>1. own \in BOOLEAN
      OBVIOUS
    <3> HIDE DEF own
    <3> QED BY <2>t, <3>1 DEF HostCalls, CallPlaces
  <2>2. caller' = [caller EXCEPT ![c] = k]
    BY <1>2, <2>t DEF CallFunction, HostTypes
  <2>3. own \/ caller[c].disturbed
    BY <2>t DEF HostInv, OwnerSound, Owning, Holding
  <2> HIDE DEF k, own
  <2>4. HostTypes'
    BY <2>t, <2>1, <2>2 DEF HostTypes
  <2>5. caller'[c] = k /\ \A d \in HostCallers : d # c => caller'[d] = caller[d]
    BY <2>t, <2>2 DEF HostTypes
  <2>6. \A d \in HostCallers :
          /\ d \in InCall' <=> d \in InCall
          /\ Alive(d)' <=> Alive(d)
          /\ caller'[d].disturbed = caller[d].disturbed
          /\ caller'[d].ptr = caller[d].ptr /\ caller'[d].size = caller[d].size
          /\ caller'[d].gen = caller[d].gen /\ caller'[d].alloc = caller[d].alloc
    BY <2>t, <2>1, <2>5, NoCallIsNone DEF InCall, Alive
  <2>7. \A d \in HostCallers : (Holding(d)' <=> Holding(d)) /\ (Owning(d)' <=> Owning(d))
    BY <2>t, <2>1, <2>5, <2>6 DEF Holding, Owning
  <2>8. ASSUME NEW d \in HostCallers PROVE HeardSound(d)'
    <3>1. CASE d = c
      BY <2>1, <2>3, <2>t, <2>5, <3>1 DEF HostInv, HeardSound
    <3>2. CASE d # c
      BY <2>t, <2>5, <2>6, <3>2 DEF HostInv, HeardSound
    <3> QED BY <3>1, <3>2
  <2>9. ASSUME NEW d \in HostCallers, Owning(d)' PROVE OwnerSound(d)'
    <3>1. Owning(d) /\ OwnerSound(d)
      BY <2>7, <2>9 DEF HostInv
    <3>2. Buffer(d)' = Buffer(d) /\ BufferEnd(d)' = BufferEnd(d)
      BY <2>6 DEF Buffer, BufferEnd
    <3>3. \A e \in HostCallers \ {d} : Owning(e)' => Apart(d, e)'
      BY <2>6, <2>7, <3>1 DEF OwnerSound, Apart, BufferEnd
    <3>4. \A e \in InCall' : Alive(e)' => ~caller'[e].disturbed
      BY <2>6, <3>1 DEF OwnerSound, InCall
    <3>5. caller'[d].at = "call" => caller[d].at = "call"
      BY <2>1, <2>5
    <3> QED BY <2>t, <3>1, <3>2, <3>3, <3>4, <3>5 DEF OwnerSound
  <2>10. AllocatorsSound'
    <3>1. \A d \in HostCallers : BoundSound(d)'
      BY <2>t, <2>6 DEF HostInv, AllocatorsSound, BoundSound
    <3> QED BY <2>t, <2>6, <2>7, <3>1 DEF HostInv, AllocatorsSound
  <2>11. \A d \in HostCallers : OwnerSound(d)'
    BY <2>9 DEF OwnerSound
  <2> QED BY <2>4, <2>8, <2>10, <2>11 DEF HostInv
<1> QED BY <1>1, <1>2

\* Reset takes every buffer back, and leaves nobody one of his own.
LEMMA HostResets ==
  ASSUME HostInv, NEW i \in Instances, HostReset(i)
  PROVE  HostInv'
<1>t. HostTypes /\ wasm \in WasmStates /\ wasm.gen \in Nat
  BY DEF HostInv, HostTypes, WasmStates
<1>1. /\ wasm' = [wasm EXCEPT !.next = Append(@, 0)]
      /\ caller' = [c \in HostCallers |->
                      IF c \in InCall /\ Alive(c)
                      THEN [caller[c] EXCEPT !.disturbed = TRUE] ELSE caller[c]]
      /\ context' = [context EXCEPT ![i] = NoContext] /\ UNCHANGED <<filled, generation>>
  BY DEF HostReset
<1>a. /\ Append(wasm.next, 0) \in Seq(Nat) /\ Len(wasm.next) \in Nat
      /\ Len(Append(wasm.next, 0)) = Len(wasm.next) + 1
      /\ Append(wasm.next, 0)[Len(wasm.next) + 1] = 0
      /\ \A a \in 1..Len(wasm.next) : Append(wasm.next, 0)[a] = wasm.next[a]
  BY <1>t DEF WasmStates
<1>2. /\ wasm' \in WasmStates /\ wasm'.gen = wasm.gen /\ wasm'.next = Append(wasm.next, 0)
      /\ wasm'.strayed = wasm.strayed
  BY <1>t, <1>1, <1>a DEF WasmStates
<1>3. \A c \in InCall :
        LET r == [caller[c] EXCEPT !.disturbed = TRUE] IN
        /\ r \in HostCalls /\ r.disturbed /\ r.at = caller[c].at /\ r.gen = caller[c].gen
        /\ r.heard = caller[c].heard /\ r.alloc = caller[c].alloc
  <2> SUFFICES ASSUME NEW c \in InCall
               PROVE  LET r == [caller[c] EXCEPT !.disturbed = TRUE] IN
                      /\ r \in HostCalls /\ r.disturbed /\ r.at = caller[c].at
                      /\ r.gen = caller[c].gen /\ r.heard = caller[c].heard
                      /\ r.alloc = caller[c].alloc
    OBVIOUS
  <2>1. caller[c] \in HostCalls
    BY <1>t, HostCallParts
  <2> QED BY <2>1 DEF HostCalls
<1>4. \A c \in HostCallers :
        caller'[c] = IF c \in InCall /\ Alive(c)
                     THEN [caller[c] EXCEPT !.disturbed = TRUE] ELSE caller[c]
  BY <1>1
<1>5. \A c \in HostCallers : caller'[c] \in HostCalls \union {NoCall}
  BY <1>t, <1>3, <1>4 DEF HostTypes
<1>6. caller' \in [HostCallers -> HostCalls \union {NoCall}]
  BY <1>1, <1>5
<1>7. HostTypes'
  <2>1. NoContext \in [gen : Nat, position : Nat]
    BY DEF NoContext
  <2> QED BY <1>t, <1>1, <1>2, <1>6, <2>1 DEF HostTypes
<1>8. ASSUME NEW c \in HostCallers, c \in InCall'
      PROVE  /\ c \in InCall /\ caller'[c].gen = caller[c].gen /\ caller'[c].at = caller[c].at
             /\ caller'[c].heard = caller[c].heard /\ caller'[c].alloc = caller[c].alloc
             /\ caller[c].disturbed => caller'[c].disturbed
             /\ Alive(c) => caller'[c].disturbed
  <2>1. c \in InCall
    BY <1>4, <1>8 DEF InCall
  <2> QED BY <1>3, <1>4, <2>1
<1>9. \A c \in HostCallers : HeardSound(c)'
  BY <1>2, <1>8 DEF HostInv, HeardSound
<1>10. ASSUME NEW c \in HostCallers, Owning(c)' PROVE FALSE
  <2>1. c \in InCall' /\ caller'[c].gen = wasm.gen /\ ~caller'[c].disturbed
    BY <1>2, <1>10 DEF Owning, Holding, Alive
  <2> QED BY <1>8, <2>1 DEF Alive
<1>11. ASSUME NEW c \in HostCallers, Holding(c)
       PROVE  Holding(c)' /\ caller'[c].alloc = caller[c].alloc
  <2>1. /\ caller'[c].gen = caller[c].gen /\ caller'[c].at = caller[c].at
        /\ caller'[c].alloc = caller[c].alloc /\ c \in InCall'
    BY <1>3, <1>4, <1>11, NoCallIsNone DEF Holding, InCall
  <2> QED BY <1>2, <1>11, <2>1 DEF Holding, Alive
<1>12. AllocatorsSound'
  <2>1. Len(wasm'.next) = Len(wasm.next) + 1
    BY <1>2, <1>a
  <2>2. ASSUME NEW c \in HostCallers, c \in InCall', Alive(c)' PROVE BoundSound(c)'
    <3>1. c \in InCall /\ Alive(c) /\ caller'[c].alloc = caller[c].alloc /\ caller'[c].disturbed
      BY <1>2, <1>8, <2>2 DEF Alive
    <3>2. caller[c].alloc \in 1..Len(wasm.next)
      BY <3>1 DEF HostInv, AllocatorsSound, BoundSound
    <3> QED BY <1>a, <2>1, <3>1, <3>2 DEF BoundSound
  <2>3. ASSUME NEW a \in 1..Len(wasm'.next)
        PROVE  \/ wasm'.next[a] = 0 \/ a \in wasm'.strayed
               \/ \E c \in HostCallers : Holding(c)' /\ caller'[c].alloc = a
    <3>1. CASE a = Len(wasm.next) + 1
      BY <1>2, <1>a, <3>1
    <3>2. CASE a \in 1..Len(wasm.next)
      <4>1. wasm'.next[a] = wasm.next[a]
        BY <1>2, <1>a, <3>2
      <4> QED BY <1>2, <1>11, <3>2, <4>1 DEF HostInv, AllocatorsSound
    <3> QED BY <1>a, <2>1, <3>1, <3>2
  <2> QED BY <1>a, <2>1, <2>2, <2>3 DEF AllocatorsSound, BoundSound
<1> QED BY <1>2, <1>7, <1>9, <1>10, <1>12 DEF HostInv, OwnerSound

\* A strategy that is loaded anew has nobody in it.
LEMMA HostLoads ==
  ASSUME HostInv, LoadStrategy
  PROVE  HostInv'
<1>t. HostTypes /\ wasm \in WasmStates /\ wasm.gen \in Nat /\ MemoryCells \in Nat
  BY HostAssumption DEF HostInv, HostTypes, WasmStates
<1>1. /\ wasm' = NewWasm(wasm.gen + 1)
      /\ UNCHANGED <<context, caller, filled, generation>>
  BY DEF LoadStrategy
<1>2. wasm' \in WasmStates /\ wasm'.gen = wasm.gen + 1 /\ wasm'.next = <<0>>
  BY <1>t, <1>1 DEF NewWasm, WasmStates, HostCells
<1>3. HostTypes'
  BY <1>t, <1>1, <1>2 DEF HostTypes
<1>4. InCall' = InCall
  BY <1>1 DEF InCall
<1>5. \A c \in InCall : caller[c].gen \in Nat /\ caller[c].gen <= wasm.gen
  BY <1>t, HostCallParts DEF HostInv, HeardSound
<1>6. \A c \in HostCallers : HeardSound(c)'
  BY <1>t, <1>1, <1>2, <1>4, <1>5 DEF HostInv, HeardSound
<1>7. \A c \in HostCallers : ~Holding(c)'
  BY <1>t, <1>1, <1>2, <1>4, <1>5 DEF Holding, Alive
<1>8. AllocatorsSound'
  <2>1. \A c \in InCall' : ~Alive(c)'
    BY <1>t, <1>1, <1>2, <1>4, <1>5 DEF Alive
  <2>2. Len(wasm'.next) = 1 /\ wasm'.next[1] = 0
    BY <1>2
  <2> QED BY <2>1, <2>2 DEF AllocatorsSound, BoundSound
<1> QED BY <1>2, <1>3, <1>6, <1>7, <1>8 DEF HostInv, OwnerSound, Owning

LEMMA HostUnloads ==
  ASSUME HostInv, UnloadStrategy
  PROVE  HostInv'
<1>1. wasm' = [wasm EXCEPT !.open = FALSE] /\ UNCHANGED <<context, caller, filled, generation>>
  BY DEF UnloadStrategy
<1>2. wasm \in WasmStates
  BY DEF HostInv, HostTypes
<1>3. /\ wasm' \in WasmStates /\ wasm'.gen = wasm.gen /\ wasm'.next = wasm.next
      /\ wasm'.memory = wasm.memory /\ wasm'.strayed = wasm.strayed
  BY <1>1, <1>2 DEF WasmStates
<1>4. HostTypes'
  BY <1>1, <1>3 DEF HostInv, HostTypes
<1> QED BY <1>1, <1>3, <1>4 DEF HostInv, HeardSound, OwnerSound, Owning, Holding, InCall, Alive,
                                Apart, BufferEnd, Buffer, AllocatorsSound, BoundSound

LEMMA HostInductive == HostSpec => []HostInv
<1>1. HostInit => HostInv
  <2> SUFFICES ASSUME HostInit PROVE HostInv
    OBVIOUS
  <2>1. MemoryCells \in Nat
    BY HostAssumption
  <2>2. wasm \in WasmStates /\ wasm.next = <<0>>
    BY <2>1 DEF HostInit, NewWasm, WasmStates, HostCells
  <2>3. HostTypes
    BY <2>2 DEF HostInit, HostTypes, NoContext
  <2>4. InCall = {}
    BY DEF HostInit, InCall
  <2> QED BY <2>2, <2>3, <2>4 DEF HostInv, HeardSound, OwnerSound, Owning, Holding,
                                  AllocatorsSound, BoundSound
<1>2. HostInv /\ [HostNext]_hostVars => HostInv'
  <2> SUFFICES ASSUME HostInv, [HostNext]_hostVars PROVE HostInv'
    OBVIOUS
  <2>1. CASE UNCHANGED hostVars
    BY <2>1 DEF hostVars, HostInv, HostTypes, HeardSound, OwnerSound, Owning, Holding, InCall,
                Alive, Apart, BufferEnd, Buffer, AllocatorsSound, BoundSound
  <2>2. CASE HostNext
    BY <2>2, HostTicks, HostFills, HostCancels, HostAllocates, HostWrites, HostAnswers,
       HostReturns, HostApplies, HostUpdates, HostResets, HostUnloads, HostLoads DEF HostNext
  <2> QED BY <2>1, <2>2
<1> QED BY <1>1, <1>2, PTL DEF HostSpec

\* Whatever calls of other instances, resets, unloads and errors fall between the steps
\* of a call, the strategy reads what its own caller wrote unless a return or a Reset took
\* the buffers back, and the allocator is back at its start once nobody is in the strategy,
\* unless a call that Reset overtook had used it
\* (strategy/wasm/strategy.go:44-68, 100, 299, 320, 367-430).
THEOREM HostTheorem == HostSpec => []HearsItsOwnInput
<1>1. HostInv => HearsItsOwnInput
  <2> SUFFICES ASSUME HostInv PROVE HearsItsOwnInput
    OBVIOUS
  <2>1. \A c \in InCall : caller[c].heard \/ caller[c].disturbed
    BY DEF HostInv, HeardSound, InCall
  <2>2. ASSUME \A c \in InCall : ~Alive(c) \/ caller[c].at \in {"allocate", "apply"}
        PROVE  wasm.next[Len(wasm.next)] = 0 \/ Len(wasm.next) \in wasm.strayed
    <3>1. \A c \in HostCallers : ~Holding(c)
      BY <2>2 DEF Holding
    <3>2. Len(wasm.next) \in 1..Len(wasm.next)
      BY DEF HostInv, AllocatorsSound, HostTypes, WasmStates
    <3> QED BY <3>1, <3>2 DEF HostInv, AllocatorsSound
  <2> QED BY <2>1, <2>2 DEF HearsItsOwnInput
<1> QED BY <1>1, HostInductive, PTL DEF HostSpec

-----------------------------------------------------------------------------
(* What the operator settles *)

\* The calls of the manager.
ConfigEdits ==
    [op : {"apply"}, at : {"truncate", "fill", "store"}, config : Configs, change : Configs]
        \union [op : {"reload"}, at : {"load", "swap"}, config : Configs]

ConfigTypes ==
    /\ configFile \in Configs \union {NoConfig, Undecodable}
    /\ liveConfig \in Configs \union {Down}
    /\ editor \in [Editors -> ConfigEdits \union {NoEdit}]
    /\ expected \in Configs
    /\ overlapped \in BOOLEAN /\ disturbed \in BOOLEAN /\ strayed \in BOOLEAN

\* A call under way puts nothing in place that Validate refuses.
EditsValid ==
    \A e \in Editing : editor[e].op = "apply" \/ editor[e].at = "swap" => Validate(editor[e].config)

\* Before the first file there is nothing; while no process runs there is no call, and
\* the file is what the next start is to find.
RestsSound ==
    /\ configFile = NoConfig => liveConfig = Down /\ expected = Default
    /\ liveConfig = Down =>
          /\ Editing = {}
          /\ ~disturbed /\ Validate(configFile) => configFile = expected

\* What a call that runs alone has in hand, and what the file holds beside it.
EditAlone(e) ==
    /\ ~disturbed /\ editor[e].at \in {"store", "swap"} => configFile = editor[e].config
    /\ ~strayed =>
          /\ editor[e].op = "apply" => editor[e].change = editor[e].config
          /\ editor[e].op = "reload" => editor[e].config.risk = expected.risk
          /\ ~disturbed =>
                /\ editor[e].at = "swap" => editor[e].config = expected
                /\ editor[e].at \in {"truncate", "load"} => configFile = expected

RunsSound ==
    liveConfig # Down =>
        /\ Validate(liveConfig)
        /\ ~overlapped =>
              /\ \A e, f \in Editing : e = f
              /\ \A e \in Editing : EditAlone(e)
              /\ ~strayed =>
                    /\ liveConfig = expected
                    /\ ~disturbed /\ Editing = {} => configFile = expected

ConfigInv == ConfigTypes /\ EditsValid /\ RestsSound /\ RunsSound

LEMMA ConfigValues ==
  /\ NoConfig \notin Configs /\ Undecodable \notin Configs /\ Down \notin Configs
  /\ NoConfig # Undecodable /\ NoEdit \notin ConfigEdits
  /\ Default \in Configs /\ Validate(Default)
<1>1. NoConfig \notin Configs /\ Undecodable \notin Configs /\ NoConfig # Undecodable
  BY DEF NoConfig, Undecodable, Configs
<1>2. Down \notin Configs
  BY DEF Down, Configs
<1>3. NoEdit \notin ConfigEdits
  <2>1. "none" # "apply" /\ "none" # "reload"
    OBVIOUS
  <2>2. \A k \in ConfigEdits : k.op \in {"apply", "reload"}
    BY DEF ConfigEdits
  <2> QED BY <2>1, <2>2 DEF NoEdit
<1>4. Default \in Configs
  BY ConfigAssumption DEF Default, Configs
<1>5. Validate(Default)
  BY <1>4 DEF Validate, Default
<1> QED BY <1>1, <1>2, <1>3, <1>4, <1>5

LEMMA EditParts ==
  ASSUME ConfigTypes, NEW e \in Editing
  PROVE  /\ e \in Editors /\ editor[e] \in ConfigEdits /\ editor[e].config \in Configs
         /\ editor[e].op \in {"apply", "reload"}
         /\ editor[e].op = "apply" =>
               editor[e].change \in Configs /\ editor[e].at \in {"truncate", "fill", "store"}
         /\ editor[e].op = "reload" => editor[e].at \in {"load", "swap"}
<1>1. e \in Editors /\ editor[e] # NoEdit
  BY DEF Editing
<1>2. editor[e] \in ConfigEdits
  BY <1>1 DEF ConfigTypes
<1> QED BY <1>1, <1>2 DEF ConfigEdits

\* A call moves, or ends: the others stay where they are.
LEMMA EditorMoves ==
  ASSUME ConfigTypes, NEW e \in Editors, NEW k \in ConfigEdits \union {NoEdit},
         editor' = [editor EXCEPT ![e] = k]
  PROVE  /\ editor' \in [Editors -> ConfigEdits \union {NoEdit}]
         /\ editor'[e] = k /\ \A f \in Editors \ {e} : editor'[f] = editor[f]
         /\ Editing' = IF k = NoEdit THEN Editing \ {e} ELSE Editing \union {e}
<1>1. /\ editor' \in [Editors -> ConfigEdits \union {NoEdit}]
      /\ editor'[e] = k /\ \A f \in Editors \ {e} : editor'[f] = editor[f]
  BY DEF ConfigTypes
<1>2. \A f \in Editors : f \in Editing' <=> IF f = e THEN k # NoEdit ELSE f \in Editing
  BY <1>1 DEF Editing
<1>3. Editing \subseteq Editors /\ Editing' \subseteq Editors
  BY DEF Editing
<1> QED BY <1>1, <1>2, <1>3

\* A step of a call that leaves a process running: what is left to show of it.
LEMMA EditStep ==
  ASSUME ConfigInv, NEW e \in Editors, NEW k \in ConfigEdits \union {NoEdit},
         editor' = [editor EXCEPT ![e] = k],
         liveConfig # Down, liveConfig' \in Configs, Validate(liveConfig)',
         configFile' \in Configs \union {NoConfig, Undecodable}, configFile' # NoConfig,
         expected' \in Configs, overlapped' \in BOOLEAN, disturbed' \in BOOLEAN,
         k # NoEdit /\ (k.op = "apply" \/ k.at = "swap") => Validate(k.config),
         strayed' \in BOOLEAN,
         ~overlapped' => /\ ~overlapped /\ Editing \subseteq {e}
                         /\ k # NoEdit => EditAlone(e)'
                         /\ ~strayed' => liveConfig' = expected'
                         /\ ~strayed' /\ k = NoEdit /\ ~disturbed' => configFile' = expected'
  PROVE  ConfigInv'
<1>1. /\ ConfigTypes /\ editor' \in [Editors -> ConfigEdits \union {NoEdit}]
      /\ editor'[e] = k /\ \A f \in Editors \ {e} : editor'[f] = editor[f]
      /\ Editing' = IF k = NoEdit THEN Editing \ {e} ELSE Editing \union {e}
      /\ Editing \subseteq Editors
  BY EditorMoves DEF ConfigInv, Editing
<1>2. liveConfig' # Down
  BY ConfigValues
<1>3. ConfigTypes'
  BY <1>1 DEF ConfigTypes
<1>4. EditsValid'
  BY <1>1 DEF ConfigInv, EditsValid, Validate
<1>5. RestsSound'
  BY <1>2 DEF RestsSound
<1>6. RunsSound'
  <2> SUFFICES ASSUME ~overlapped'
               PROVE  /\ \A d, f \in Editing' : d = f
                      /\ \A d \in Editing' : EditAlone(d)'
                      /\ ~strayed' => /\ liveConfig' = expected'
                                      /\ ~disturbed' /\ Editing' = {} => configFile' = expected'
    BY DEF RunsSound
  <2>1. Editing' \subseteq {e} /\ (e \in Editing' <=> k # NoEdit)
    BY <1>1
  <2> QED BY <2>1
<1> QED BY <1>3, <1>4, <1>5, <1>6 DEF ConfigInv

LEMMA CallBegins ==
  ASSUME ConfigInv, NEW e \in Editors, NEW k \in ConfigEdits, BeginCall(e, k),
         k.op = "apply" => /\ k.at = "truncate" /\ Validate(k.config)
                           /\ ~overlapped /\ Editing = {} /\ ~strayed => k.change = k.config,
         k.op = "reload" => k.at = "load" /\ k.config = liveConfig
  PROVE  ConfigInv'
<1>1. /\ liveConfig # Down /\ editor' = [editor EXCEPT ![e] = k]
      /\ overlapped' = (overlapped \/ Editing # {})
      /\ UNCHANGED <<configFile, liveConfig, expected, disturbed, strayed>>
  BY DEF BeginCall
<1>2. k.op \in {"apply", "reload"}
  BY DEF ConfigEdits
<1>3. /\ ConfigTypes /\ RunsSound /\ configFile # NoConfig /\ liveConfig \in Configs
      /\ k # NoEdit
  BY <1>1, ConfigValues DEF ConfigInv, RestsSound, ConfigTypes
<1>4. ASSUME ~overlapped'
      PROVE  /\ ~overlapped /\ Editing = {} /\ (~strayed' => liveConfig' = expected')
             /\ EditAlone(e)'
  <2>1. ~overlapped /\ Editing = {}
    BY <1>1, <1>4
  <2>2. ~strayed => liveConfig = expected /\ (~disturbed => configFile = expected)
    BY <1>1, <1>3, <2>1 DEF RunsSound
  <2>3. editor'[e] = k
    BY <1>1, <1>3, EditorMoves
  <2> QED BY <1>1, <1>2, <2>1, <2>2, <2>3 DEF EditAlone
<1>5. Validate(liveConfig)' /\ overlapped' \in BOOLEAN /\ strayed' \in BOOLEAN
  BY <1>1, <1>3 DEF RunsSound, Validate, ConfigTypes
<1> QED BY <1>1, <1>2, <1>3, <1>4, <1>5, EditStep DEF ConfigTypes

LEMMA ConfigUpdates ==
  ASSUME ConfigInv, NEW e \in Editors, UpdateConfig(e)
  PROVE  ConfigInv'
<1>1. /\ liveConfig # Down /\ liveConfig \in Configs /\ expected \in Configs
  BY DEF UpdateConfig, ConfigInv, ConfigTypes
<1>2. PICK r \in Risks \union {liveConfig.risk}, z \in Zones \union {liveConfig.zone} :
        LET changed == [liveConfig EXCEPT !.risk = r, !.zone = z] IN
        /\ Validate(changed)
        /\ BeginCall(e, Apply(changed, [expected EXCEPT
              !.risk = IF r = liveConfig.risk THEN @ ELSE r,
              !.zone = IF z = liveConfig.zone THEN @ ELSE z]))
  BY DEF UpdateConfig
<1> DEFINE changed == [liveConfig EXCEPT !.risk = r, !.zone = z]
           risk == IF r = liveConfig.risk THEN expected.risk ELSE r
           zone == IF z = liveConfig.zone THEN expected.zone ELSE z
           change == [expected EXCEPT !.risk = risk, !.zone = zone]
           k == Apply(changed, change)
<1>3. /\ r \in Risks \union {0} /\ z \in Zones \union {0}
      /\ risk \in Risks \union {0} /\ zone \in Zones \union {0}
  BY <1>1 DEF Configs
<1>4. changed \in Configs
  BY <1>1, <1>3 DEF Configs
<1>5. change \in Configs
  <2> HIDE DEF risk, zone
  <2> QED BY <1>1, <1>3 DEF Configs
<1>6. BeginCall(e, k) /\ Validate(changed)
  BY <1>2
<1>7. liveConfig = expected => change = changed
  BY <1>1 DEF Configs
<1> HIDE DEF changed, change
<1>8. k \in ConfigEdits /\ k.op = "apply" /\ k.at = "truncate" /\ k.config = changed /\ k.change = change
  BY <1>4, <1>5 DEF Apply, ConfigEdits
<1> HIDE DEF k
<1>9. ~overlapped /\ ~strayed => liveConfig = expected
  BY <1>1 DEF ConfigInv, RunsSound
<1> QED BY <1>6, <1>7, <1>8, <1>9, CallBegins

LEMMA ConfigSets ==
  ASSUME ConfigInv, NEW e \in Editors, SetConfig(e)
  PROVE  ConfigInv'
<1>1. PICK c \in Configs : /\ Validate(ThroughDomain(c))
                           /\ BeginCall(e, Apply(ThroughDomain(c), ThroughDomain(c)))
  BY DEF SetConfig
<1> DEFINE t == ThroughDomain(c)
           k == Apply(t, t)
<1>2. t \in Configs
  BY <1>1 DEF Validate
<1> HIDE DEF t
<1>3. k \in ConfigEdits /\ k.op = "apply" /\ k.at = "truncate" /\ k.config = t /\ k.change = t
  BY <1>2 DEF Apply, ConfigEdits
<1>4. BeginCall(e, k) /\ Validate(t)
  BY <1>1 DEF t
<1> HIDE DEF k
<1> QED BY <1>3, <1>4, CallBegins

LEMMA ConfigReloads ==
  ASSUME ConfigInv, NEW e \in Editors, ReloadFromDisk(e)
  PROVE  ConfigInv'
<1> DEFINE k == [op |-> "reload", at |-> "load", config |-> liveConfig]
<1>1. BeginCall(e, k)
  BY DEF ReloadFromDisk
<1>2. liveConfig \in Configs
  BY <1>1 DEF BeginCall, ConfigInv, ConfigTypes
<1>3. k \in ConfigEdits /\ k.op = "reload" /\ k.at = "load" /\ k.config = liveConfig
  BY <1>2 DEF ConfigEdits
<1> HIDE DEF k
<1> QED BY <1>1, <1>3, CallBegins

\* What is known of a call that takes a step.
LEMMA CallRuns ==
  ASSUME ConfigInv, NEW e \in Editing
  PROVE  /\ ConfigTypes /\ liveConfig \in Configs /\ liveConfig # Down /\ Validate(liveConfig)
         /\ e \in Editors /\ editor[e] \in ConfigEdits /\ editor[e].config \in Configs
         /\ configFile # NoConfig
         /\ editor[e].op = "apply" \/ editor[e].at = "swap" => Validate(editor[e].config)
         /\ ~overlapped => Editing = {e} /\ EditAlone(e)
         /\ ~overlapped /\ ~strayed => liveConfig = expected
<1>1. liveConfig # Down /\ configFile # NoConfig
  BY DEF ConfigInv, RestsSound
<1> QED BY <1>1, EditParts DEF ConfigInv, RunsSound, EditsValid, ConfigTypes

LEMMA NoCallSteps ==
  ASSUME NEW e \in Editors, editor[e].op \in {"apply", "reload"}
  PROVE  e \in Editing
BY DEF Editing, NoEdit

LEMMA ConfigTruncates ==
  ASSUME ConfigInv, NEW e \in Editors, Truncate(e)
  PROVE  ConfigInv'
<1>1. e \in Editing
  BY NoCallSteps DEF Truncate
<1> DEFINE k == [editor[e] EXCEPT !.at = "fill"]
<1>2. /\ editor[e].op = "apply" /\ editor[e].at = "truncate"
      /\ UNCHANGED <<liveConfig, expected, overlapped, disturbed, strayed>>
  BY DEF Truncate
<1>3. /\ k \in ConfigEdits /\ k.op = "apply" /\ k.at = "fill" /\ k.config = editor[e].config
      /\ k.change = editor[e].change
  BY <1>1, <1>2, EditParts DEF ConfigInv, ConfigEdits
<1>4. Validate(liveConfig)' /\ overlapped' \in BOOLEAN /\ disturbed' \in BOOLEAN /\ strayed' \in BOOLEAN
  BY <1>1, <1>2, CallRuns DEF Validate, ConfigTypes
<1>5. CASE configFile' = Undecodable /\ editor' = [editor EXCEPT ![e].at = "fill"]
  <2>1. editor' = [editor EXCEPT ![e] = k]
    BY <1>5
  <2> HIDE DEF k
  <2>2. editor'[e] = k
    BY <2>1, <1>1, <1>3, CallRuns, EditorMoves
  <2>3. ~overlapped' => EditAlone(e)'
    BY <1>1, <1>2, <1>3, <2>2, CallRuns DEF EditAlone
  <2> QED BY <1>1, <1>2, <1>3, <1>4, <1>5, <2>1, <2>3, CallRuns, ConfigValues, EditStep
          DEF ConfigTypes
<1>6. CASE UNCHANGED configFile /\ editor' = [editor EXCEPT ![e] = NoEdit]
  <2>1. ~overlapped /\ ~strayed /\ ~disturbed => configFile = expected
    BY <1>1, <1>2, CallRuns DEF EditAlone
  <2> QED BY <1>1, <1>2, <1>4, <1>6, <2>1, CallRuns, EditStep DEF ConfigTypes
<1> QED BY <1>5, <1>6 DEF Truncate

LEMMA ConfigFills ==
  ASSUME ConfigInv, NEW e \in Editors, FillFile(e)
  PROVE  ConfigInv'
<1>1. e \in Editing
  BY NoCallSteps DEF FillFile
<1> DEFINE k == [editor[e] EXCEPT !.at = "store"]
<1>2. /\ editor[e].op = "apply" /\ editor[e].at = "fill"
      /\ configFile' = editor[e].config \/ configFile' = Undecodable
      /\ disturbed' = (configFile' # editor[e].config)
      /\ editor' = [editor EXCEPT ![e] = k]
      /\ UNCHANGED <<liveConfig, expected, overlapped, strayed>>
  BY DEF FillFile
<1>3. /\ k \in ConfigEdits /\ k.op = "apply" /\ k.at = "store" /\ k.config = editor[e].config
      /\ k.change = editor[e].change
  BY <1>1, <1>2, EditParts DEF ConfigInv, ConfigEdits
<1> HIDE DEF k
<1>4. /\ Validate(liveConfig)' /\ overlapped' \in BOOLEAN /\ disturbed' \in BOOLEAN /\ strayed' \in BOOLEAN
      /\ configFile' \in Configs \union {Undecodable} /\ configFile' # NoConfig
  BY <1>1, <1>2, CallRuns, ConfigValues DEF Validate, ConfigTypes
<1>5. editor'[e] = k
  BY <1>1, <1>2, <1>3, CallRuns, EditorMoves
<1>6. ~overlapped' => EditAlone(e)'
  BY <1>1, <1>2, <1>3, <1>5, CallRuns DEF EditAlone
<1> QED BY <1>1, <1>2, <1>3, <1>4, <1>6, CallRuns, ConfigValues, EditStep DEF ConfigTypes

LEMMA PrefixesAreConfigs ==
  ASSUME NEW c \in Configs
  PROVE  Beginnings(c) \subseteq Configs
<1>1. /\ [c EXCEPT !.licence = Community] \in Configs
      /\ [[c EXCEPT !.licence = Community] EXCEPT !.cloud = FALSE] \in Configs
      /\ [[[c EXCEPT !.licence = Community] EXCEPT !.cloud = FALSE] EXCEPT !.risk = 0] \in Configs
  BY ConfigAssumption DEF Configs
<1> QED BY <1>1 DEF Beginnings

LEMMA ConfigCutShort ==
  ASSUME ConfigInv, NEW e \in Editors, FillCutShort(e)
  PROVE  ConfigInv'
<1>1. e \in Editing
  BY NoCallSteps DEF FillCutShort
<1>2. /\ editor[e].op = "apply"
      /\ configFile' \in {Undecodable} \union Beginnings(editor[e].config)
      /\ disturbed' = TRUE /\ editor' = [editor EXCEPT ![e] = NoEdit]
      /\ UNCHANGED <<liveConfig, expected, overlapped, strayed>>
  BY DEF FillCutShort
<1>3. Beginnings(editor[e].config) \subseteq Configs
  BY <1>1, CallRuns, PrefixesAreConfigs
<1>4. /\ Validate(liveConfig)' /\ overlapped' \in BOOLEAN
      /\ configFile' \in Configs \union {Undecodable} /\ configFile' # NoConfig
  BY <1>1, <1>2, <1>3, CallRuns, ConfigValues DEF Validate, ConfigTypes
<1> QED BY <1>1, <1>2, <1>4, CallRuns, ConfigValues, EditStep DEF ConfigTypes

LEMMA ConfigStores ==
  ASSUME ConfigInv, NEW e \in Editors, Store(e)
  PROVE  ConfigInv'
<1>1. e \in Editing
  BY NoCallSteps DEF Store
<1>2. /\ editor[e].op = "apply" /\ editor[e].at = "store"
      /\ liveConfig' = editor[e].config /\ expected' = editor[e].change
      /\ strayed' = (strayed /\ liveConfig' # expected')
      /\ editor' = [editor EXCEPT ![e] = NoEdit]
      /\ UNCHANGED <<configFile, overlapped, disturbed>>
  BY DEF Store
<1>3. /\ liveConfig' \in Configs /\ expected' \in Configs
      /\ Validate(liveConfig)' /\ overlapped' \in BOOLEAN /\ disturbed' \in BOOLEAN
      /\ strayed' \in BOOLEAN
  BY <1>1, <1>2, CallRuns, EditParts DEF Validate, ConfigTypes
<1>4. ~overlapped => /\ Editing = {e}
                     /\ ~strayed' => liveConfig' = expected'
                     /\ ~disturbed => configFile' = liveConfig'
  BY <1>1, <1>2, CallRuns DEF EditAlone
<1> QED BY <1>1, <1>2, <1>3, <1>4, CallRuns, EditStep DEF ConfigTypes

LEMMA ConfigLoads ==
  ASSUME ConfigInv, NEW e \in Editors, LoadCandidate(e)
  PROVE  ConfigInv'
<1>1. e \in Editing
  BY NoCallSteps DEF LoadCandidate
<1>2. /\ editor[e].op = "reload" /\ editor[e].at = "load"
      /\ UNCHANGED <<configFile, liveConfig, expected, overlapped, disturbed, strayed>>
  BY DEF LoadCandidate
<1>3. /\ Validate(liveConfig)' /\ overlapped' \in BOOLEAN /\ disturbed' \in BOOLEAN /\ strayed' \in BOOLEAN
  BY <1>1, <1>2, CallRuns DEF Validate, ConfigTypes
<1>4. ~overlapped => Editing = {e}
  BY <1>1, CallRuns
<1>4a. ~overlapped /\ ~strayed => /\ liveConfig = expected
                                  /\ ~disturbed => configFile = expected
                                  /\ editor[e].config.risk = expected.risk
  BY <1>1, <1>2, CallRuns DEF EditAlone
<1>5. CASE Validate(configFile) /\ ~CriticalChanges(editor[e].config, configFile)
  <2> DEFINE k == [editor[e] EXCEPT !.at = "swap", !.config = configFile]
  <2>1. configFile \in Configs /\ configFile.risk = editor[e].config.risk
    BY <1>5 DEF Validate, CriticalChanges
  <2>2. k \in ConfigEdits /\ k.op = "reload" /\ k.at = "swap" /\ k.config = configFile
    BY <1>1, <1>2, <2>1, EditParts DEF ConfigInv, ConfigEdits
  <2>3. editor' = [editor EXCEPT ![e] = k]
    BY <1>5 DEF LoadCandidate
  <2> HIDE DEF k
  <2>4. editor'[e] = k
    BY <1>1, <2>2, <2>3, CallRuns, EditorMoves
  <2>5. ~overlapped' => EditAlone(e)'
    BY <1>2, <1>4, <1>4a, <2>1, <2>2, <2>4 DEF EditAlone
  <2> QED BY <1>1, <1>2, <1>3, <1>4, <1>4a, <1>5, <2>2, <2>3, <2>5, CallRuns, EditStep DEF ConfigTypes
<1>6. CASE ~(Validate(configFile) /\ ~CriticalChanges(editor[e].config, configFile))
  <2>1. editor' = [editor EXCEPT ![e] = NoEdit]
    BY <1>6 DEF LoadCandidate
  <2> QED BY <1>1, <1>2, <1>3, <1>4, <1>4a, <2>1, CallRuns, EditStep DEF ConfigTypes
<1> QED BY <1>5, <1>6

LEMMA ConfigSwaps ==
  ASSUME ConfigInv, NEW e \in Editors, Swap(e)
  PROVE  ConfigInv'
<1>1. e \in Editing
  BY NoCallSteps DEF Swap
<1> DEFINE told == [editor[e].config EXCEPT !.risk = expected.risk]
<1>2. /\ editor[e].op = "reload" /\ editor[e].at = "swap"
      /\ liveConfig' = editor[e].config /\ expected' = told
      /\ strayed' = (strayed /\ liveConfig' # expected')
      /\ editor' = [editor EXCEPT ![e] = NoEdit]
      /\ UNCHANGED <<configFile, overlapped, disturbed>>
  BY DEF Swap
<1>3. /\ liveConfig' \in Configs /\ Validate(liveConfig)'
      /\ overlapped' \in BOOLEAN /\ disturbed' \in BOOLEAN /\ strayed' \in BOOLEAN
  BY <1>1, <1>2, CallRuns DEF Validate, ConfigTypes
<1>4. told \in Configs
  <2>1. editor[e].config \in Configs /\ expected.risk \in Risks \union {0}
    BY <1>1, CallRuns DEF ConfigTypes, Configs
  <2> QED BY <2>1 DEF Configs
<1>5. ~overlapped => /\ Editing = {e}
                     /\ ~strayed' => liveConfig' = told
                     /\ ~disturbed => configFile = liveConfig'
  <2>1. ~overlapped => /\ Editing = {e}
                       /\ ~strayed => editor[e].config.risk = expected.risk
                       /\ ~disturbed => configFile = editor[e].config
    BY <1>1, <1>2, CallRuns DEF EditAlone
  <2>2. editor[e].config \in Configs
    BY <1>1, CallRuns
  <2>3. ~overlapped /\ ~strayed => told = editor[e].config
    BY <2>1, <2>2 DEF Configs
  <2> QED BY <1>2, <2>1, <2>3
<1> HIDE DEF told
<1> QED BY <1>1, <1>2, <1>3, <1>4, <1>5, CallRuns, EditStep DEF ConfigTypes

\* The first start writes the default, a later one takes the file as it is.
LEMMA ConfigStarts ==
  ASSUME ConfigInv, NewManager
  PROVE  ConfigInv'
<1>1. /\ liveConfig = Down /\ overlapped' = FALSE /\ UNCHANGED <<editor, expected>>
      /\ ConfigTypes /\ Editing = {} /\ Editing' = {}
  BY DEF NewManager, ConfigInv, RestsSound, Editing
<1>2. EditsValid'
  BY <1>1 DEF EditsValid
<1>3. CASE StartNew
  <2>1. configFile = NoConfig /\ expected = Default /\ strayed' = FALSE
    BY <1>3 DEF StartNew, ConfigInv, RestsSound
  <2>2. CASE configFile' = Default /\ liveConfig' = Default /\ disturbed' = FALSE
    BY <1>1, <1>2, <2>1, <2>2, ConfigValues
    DEF ConfigInv, ConfigTypes, RestsSound, RunsSound, Validate
  <2>3. CASE /\ configFile' \in {NoConfig, Undecodable, Default} \union Beginnings(Default)
             /\ disturbed' = (configFile' \notin {NoConfig, Default})
             /\ UNCHANGED liveConfig
    <3>1. /\ configFile' \in Configs \union {NoConfig, Undecodable}
          /\ ~disturbed' /\ Validate(configFile)' => configFile' = expected'
      BY <1>1, <2>1, <2>3, ConfigValues, PrefixesAreConfigs DEF Validate
    <3>2. disturbed' \in BOOLEAN
      BY <2>3
    <3>3. ConfigTypes' /\ RestsSound' /\ RunsSound'
      BY <1>1, <2>1, <2>3, <3>1, <3>2 DEF ConfigTypes, RestsSound, RunsSound
    <3> QED BY <1>2, <3>3 DEF ConfigInv
  <2> QED BY <1>3, <2>1, <2>2, <2>3 DEF StartNew
<1>4. CASE StartLoaded
  <2>1. /\ Validate(configFile) /\ liveConfig' = configFile /\ strayed' = disturbed
        /\ UNCHANGED <<configFile, disturbed>>
    BY <1>4 DEF StartLoaded
  <2>2. configFile \in Configs /\ Validate(liveConfig)'
    BY <2>1 DEF Validate
  <2>3. ~disturbed => configFile = expected
    BY <1>1, <2>1 DEF ConfigInv, RestsSound
  <2> QED BY <1>1, <1>2, <2>1, <2>2, <2>3, ConfigValues
      DEF ConfigInv, ConfigTypes, RestsSound, RunsSound
<1> QED BY <1>3, <1>4 DEF NewManager

\* The operator's edit is one of the things the file may hold without a call.
LEMMA ConfigFileEdited ==
  ASSUME ConfigInv, EditFile
  PROVE  ConfigInv'
<1>1. /\ configFile # NoConfig /\ configFile' \in Configs \union {Undecodable}
      /\ disturbed' = TRUE /\ UNCHANGED <<liveConfig, editor, expected, overlapped, strayed>>
      /\ Editing' = Editing
  BY DEF EditFile, Editing
<1>2. configFile' # NoConfig
  BY <1>1, ConfigValues
<1>3. ConfigTypes' /\ RestsSound'
  BY <1>1, <1>2 DEF ConfigInv, ConfigTypes, RestsSound
<1>4. EditsValid'
  BY <1>1 DEF ConfigInv, EditsValid, Validate
<1>5. RunsSound'
  BY <1>1 DEF ConfigInv, RunsSound, EditAlone, Validate
<1> QED BY <1>3, <1>4, <1>5 DEF ConfigInv

\* A process that ends in the middle of a write leaves a file that nobody vouches for.
LEMMA ConfigExits ==
  ASSUME ConfigInv, Exit
  PROVE  ConfigInv'
<1>1. /\ liveConfig # Down /\ liveConfig' = Down /\ editor' = [e \in Editors |-> NoEdit]
      /\ disturbed' = \/ disturbed \/ overlapped \/ strayed
                      \/ \E e \in Editing : editor[e].at \in {"fill", "store"}
      /\ strayed' = FALSE
      /\ UNCHANGED <<configFile, expected, overlapped>>
      /\ Editing' = {}
  BY DEF Exit, Editing
<1>2. ConfigTypes' /\ EditsValid' /\ RunsSound'
  BY <1>1 DEF ConfigInv, ConfigTypes, EditsValid, RunsSound
<1>3. configFile # NoConfig
  BY <1>1 DEF ConfigInv, RestsSound
<1>4. ASSUME ~disturbed' PROVE configFile = expected
  <2>1. ~overlapped /\ ~strayed /\ ~disturbed /\ RunsSound
    BY <1>1, <1>4 DEF ConfigInv
  <2>2. CASE Editing = {}
    BY <1>1, <2>1, <2>2 DEF RunsSound
  <2>3. CASE Editing # {}
    <3>1. PICK e \in Editing : TRUE
      BY <2>3
    <3>2. editor[e].at \notin {"fill", "store"} /\ EditAlone(e)
      BY <1>1, <1>4, <2>1 DEF RunsSound
    <3>3. editor[e].at \in {"truncate", "load", "swap"}
      BY <3>2, EditParts DEF ConfigInv
    <3> QED BY <2>1, <3>2, <3>3 DEF EditAlone
  <2> QED BY <2>2, <2>3
<1> QED BY <1>1, <1>2, <1>3, <1>4 DEF ConfigInv, RestsSound

LEMMA ConfigInductive == ConfigSpec => []ConfigInv
<1>1. ConfigInit => ConfigInv
  <2> SUFFICES ASSUME ConfigInit PROVE ConfigInv
    OBVIOUS
  <2>1. Editing = {} /\ ~Validate(configFile)
    BY ConfigValues DEF ConfigInit, Editing, Validate
  <2> QED BY <2>1, ConfigValues
      DEF ConfigInit, ConfigInv, ConfigTypes, EditsValid, RestsSound, RunsSound
<1>2. ConfigInv /\ [ConfigNext]_configVars => ConfigInv'
  <2> SUFFICES ASSUME ConfigInv, [ConfigNext]_configVars PROVE ConfigInv'
    OBVIOUS
  <2>1. CASE UNCHANGED configVars
    BY <2>1 DEF configVars, ConfigInv, ConfigTypes, EditsValid, RestsSound, RunsSound, Editing,
                EditAlone, Validate
  <2>2. CASE ConfigNext
    BY <2>2, ConfigUpdates, ConfigSets, ConfigReloads, ConfigTruncates, ConfigFills,
       ConfigCutShort, ConfigStores, ConfigLoads, ConfigSwaps, ConfigStarts, ConfigFileEdited,
       ConfigExits DEF ConfigNext, EditorStep
  <2> QED BY <2>1, <2>2
<1> QED BY <1>1, <1>2, PTL DEF ConfigSpec

\* EvaluateState goes from licensed to grace to risk-only and never back, and the best
\* edition limits no less than another, for any licence and any times.
LEMMA LicenceFades ==
  ASSUME NEW licence \in Licences
  PROVE  RightsOnlyFade(licence)
<1>1. /\ licence.edition \in Editions /\ licence.expiry \in Nat
      /\ licence.grace \in Nat \/ licence.grace = NoGrace
      /\ LicenceTimes \subseteq Nat /\ GracePeriod \in Nat
  BY LicenceAssumption DEF Licences
<1>2. ASSUME NEW earlier \in LicenceTimes, NEW now \in LicenceTimes, earlier <= now
      PROVE  /\ Rank(EvaluateState(now, licence)) <= Rank(EvaluateState(earlier, licence))
             /\ EvaluateState(earlier, licence) = "risk_only"
                   => EvaluateState(now, licence) = "risk_only"
  <2>1. earlier \in Nat /\ now \in Nat
    BY <1>1
  <2>2. /\ EvaluateState(earlier, licence) = "risk_only"
              => EvaluateState(now, licence) = "risk_only"
        /\ EvaluateState(now, licence) = "licensed"
              => EvaluateState(earlier, licence) = "licensed"
        /\ EvaluateState(now, licence) \in {"licensed", "grace", "risk_only"}
        /\ EvaluateState(earlier, licence) \in {"licensed", "grace", "risk_only"}
    BY <1>1, <1>2, <2>1 DEF EvaluateState, NoGrace
  <2> QED BY <2>2 DEF Rank
<1>3. ASSUME NEW earlier \in LicenceTimes, NEW now \in LicenceTimes, earlier <= now,
             NEW f \in AllowedFeatures(licence.edition), CanUseFeature(now, licence, f)
      PROVE  CanUseFeature(earlier, licence, f)
  BY <1>2, <1>3 DEF CanUseFeature
<1>4. ASSUME NEW kind \in {"exchanges", "strategies", "connectors"}, NEW n
      PROVE  WithinLimits([licence EXCEPT !.edition = "enterprise"], kind, n)
  <2>1. [licence EXCEPT !.edition = "enterprise"].edition = "enterprise"
    BY DEF Licences
  <2> QED BY <2>1 DEF WithinLimits, Limits
<1> QED BY <1>2, <1>3, <1>4 DEF RightsOnlyFade

-----------------------------------------------------------------------------
\* An acceptance that was acknowledged is on a line that nothing continues.
AuditInv ==
    /\ auditLines \in Seq(Actions \union {"garbled"})
    /\ unended \in BOOLEAN /\ (unended => Len(auditLines) > 0)
    /\ acknowledged => \E i \in DOMAIN auditLines :
                          auditLines[i] = Acceptance /\ (unended => i # Len(auditLines))
    /\ HasAction(Acceptance) => begun

LEMMA LineAdded ==
  ASSUME AuditInv, NEW text \in Actions \union {"garbled"}, auditLines' = Appended(text)
  PROVE  /\ auditLines' \in Seq(Actions \union {"garbled"}) /\ Len(auditLines') > 0
         /\ acknowledged => \E i \in DOMAIN auditLines' :
                               auditLines'[i] = Acceptance /\ i # Len(auditLines')
         /\ ~unended => auditLines'[Len(auditLines')] = text
         /\ HasAction(Acceptance)' => HasAction(Acceptance) \/ text = Acceptance
<1>0. "garbled" # Acceptance
  BY DEF Acceptance
<1>1. CASE unended
  <2>1. /\ auditLines' = [auditLines EXCEPT ![Len(auditLines)] = "garbled"]
        /\ Len(auditLines) > 0 /\ auditLines \in Seq(Actions \union {"garbled"})
    BY <1>1 DEF Appended, AuditInv
  <2>2. /\ auditLines' \in Seq(Actions \union {"garbled"}) /\ Len(auditLines') = Len(auditLines)
        /\ DOMAIN auditLines' = DOMAIN auditLines
        /\ \A i \in DOMAIN auditLines :
              auditLines'[i] = IF i = Len(auditLines) THEN "garbled" ELSE auditLines[i]
    BY <2>1
  <2> QED BY <1>0, <1>1, <2>1, <2>2 DEF AuditInv, HasAction
<1>2. CASE ~unended
  <2>1. /\ auditLines' = Append(auditLines, text)
        /\ auditLines \in Seq(Actions \union {"garbled"})
    BY <1>2 DEF Appended, AuditInv
  <2>2. /\ auditLines' \in Seq(Actions \union {"garbled"}) /\ Len(auditLines') = Len(auditLines) + 1
        /\ DOMAIN auditLines = 1..Len(auditLines) /\ DOMAIN auditLines' = 1..Len(auditLines) + 1
        /\ \A i \in DOMAIN auditLines : auditLines'[i] = auditLines[i]
        /\ auditLines'[Len(auditLines) + 1] = text /\ Len(auditLines) \in Nat
    BY <2>1
  <2>3. \A i \in DOMAIN auditLines' : i \in DOMAIN auditLines \/ i = Len(auditLines) + 1
    BY <2>2
  <2>4. \A i \in DOMAIN auditLines : i \in DOMAIN auditLines' /\ i # Len(auditLines')
    BY <2>2
  <2> QED BY <1>2, <2>2, <2>3, <2>4 DEF AuditInv, HasAction
<1> QED BY <1>1, <1>2 DEF AuditInv

LEMMA AuditInductive == AuditSpec => []AuditInv
<1>1. AuditInit => AuditInv
  <2> SUFFICES ASSUME AuditInit PROVE AuditInv
    OBVIOUS
  <2>1. auditLines = <<>> /\ unended = FALSE /\ acknowledged = FALSE
    BY DEF AuditInit
  <2>2. auditLines \in Seq(Actions \union {"garbled"}) /\ ~HasAction(Acceptance)
    BY <2>1 DEF HasAction
  <2> QED BY <2>1, <2>2 DEF AuditInv
<1>2. AuditInv /\ [AuditNext]_auditVars => AuditInv'
  <2> SUFFICES ASSUME AuditInv, [AuditNext]_auditVars PROVE AuditInv'
    OBVIOUS
  <2>1. CASE UNCHANGED auditVars
    BY <2>1 DEF auditVars, AuditInv, HasAction
  <2>2. ASSUME NEW action \in Actions, WriteRecord(action) PROVE AuditInv'
    <3>1. /\ auditLines' = Appended(action) /\ unended' = FALSE
          /\ begun' = (begun \/ action = Acceptance)
          /\ acknowledged' => acknowledged \/ (~unended /\ action = Acceptance)
      BY <2>2 DEF WriteRecord
    <3>2. acknowledged' => \E i \in DOMAIN auditLines' : auditLines'[i] = Acceptance
      <4>1. CASE acknowledged
        BY <3>1, <4>1, LineAdded
      <4>2. CASE ~unended /\ action = Acceptance
        <5>1. /\ auditLines' \in Seq(Actions \union {"garbled"}) /\ Len(auditLines') > 0
              /\ auditLines'[Len(auditLines')] = Acceptance
          BY <3>1, <4>2, LineAdded
        <5>2. Len(auditLines') \in DOMAIN auditLines'
          BY <5>1
        <5> QED BY <5>1, <5>2
      <4> QED BY <3>1, <4>1, <4>2
    <3> QED BY <3>1, <3>2, LineAdded DEF AuditInv
  <2>3. ASSUME NEW action \in Actions, ShortWrite(action) PROVE AuditInv'
    <3>1. UNCHANGED acknowledged /\ begun' = (begun \/ action = Acceptance)
      BY <2>3 DEF ShortWrite
    <3>2. CASE UNCHANGED <<auditLines, unended>>
      BY <3>1, <3>2 DEF AuditInv, HasAction
    <3>3. ASSUME NEW text \in {"garbled", action}, auditLines' = Appended(text), unended' = TRUE
          PROVE  AuditInv'
      <4>1. text = Acceptance => action = Acceptance
        BY DEF Acceptance
      <4> QED BY <3>1, <3>3, <4>1, LineAdded DEF AuditInv
    <3> QED BY <2>3, <3>2, <3>3 DEF ShortWrite
  <2> QED BY <2>1, <2>2, <2>3 DEF AuditNext
<1> QED BY <1>1, <1>2, PTL DEF AuditSpec

\* Whatever calls, edits of the file, cut writes, exits and starts follow each other, the
\* agent runs with what its callers were told of, a licence only fades, and an acceptance
\* that was acknowledged is found (config/config.go:177-203, license/license.go:67-88,
\* audit/logger.go:45-84).
THEOREM SettingsTheorem == SettingsSpec => []SettingsHold
<1>1. ConfigInv /\ AuditInv => SettingsHold
  <2> SUFFICES ASSUME ConfigInv, AuditInv PROVE SettingsHold
    OBVIOUS
  <2>1. ASSUME liveConfig # Down PROVE ConfigSettles /\ RightsOnlyFade(liveConfig.licence)
    <3>1. liveConfig \in Configs
      BY <2>1 DEF ConfigInv, ConfigTypes
    <3>2. liveConfig.licence \in Licences
      BY <3>1, ConfigAssumption DEF Configs
    <3> QED BY <2>1, <3>2, LicenceFades DEF ConfigInv, RunsSound, ConfigSettles
  <2>2. AcceptanceIsFound
    BY DEF AuditInv, AcceptanceIsFound, HasAction
  <2> QED BY <2>1, <2>2 DEF SettingsHold
<1> QED BY <1>1, ConfigInductive, AuditInductive, PTL DEF SettingsSpec

-----------------------------------------------------------------------------
(* Backups and restores *)

Contents == {NoFile, Torn} \union [n : Nat \ {0}, pw : BackupPasswords \union {""}, old : BOOLEAN]
\* Only a vault needs a migration.
Directories == {d \in [FileSet -> Contents] : \A f \in FileSet \ {"vault.db"} : d[f].old = FALSE}
ArchivesMade ==
    [whole : BOOLEAN, pw : BackupPasswords, files : Directories, sum : {"none", "ok", "stale"}]
Creates ==
    {NotMaking}
        \union [at : {"reading"}, pw : BackupPasswords, next : Nat \ {0}, files : Directories]
        \union [at : {"writing"}, second : Nat, pw : BackupPasswords, files : Directories]
        \union [at : {"summing"}, second : Nat]
Restores ==
    {NotRestoring}
        \union [at : {"copying", "filling"}, next : Nat \ {0}, staged : [FileSet -> Contents],
                backups : BOOLEAN]

BackupTypes ==
    /\ live \in Directories /\ former \in Directories /\ source \in Directories
    /\ archives \in [DOMAIN archives -> ArchivesMade] /\ DOMAIN archives \subseteq Nat
    /\ making \in Creates
    /\ making.at \in {"writing", "summing"} => making.second \in DOMAIN archives
    /\ restoring \in Restores
    /\ outcome \in {"none", "ok", "refused", "cut"}

Copied(f) == \E k \in 1..6 : k < restoring.next /\ StagedNames[k] = f
InPlace(f) == IF restoring.staged[f] = NoFile THEN former[f] ELSE restoring.staged[f]
Filling(f) == restoring.at = "filling" /\ StagedNames[restoring.next] = f

\* A restore that copies has the files of the archive, with a vault that was opened, and
\* has put them in place up to the name it is at.
CopySound ==
    restoring.at \in {"copying", "filling"} =>
        /\ outcome = "none" /\ restoring.next <= 7
        /\ restoring.at = "filling" =>
              /\ restoring.next <= 6 /\ StagedNames[restoring.next] \in FileSet
              /\ restoring.staged[StagedNames[restoring.next]] # NoFile
        /\ \A f \in FileSet \ {"vault.db"} : restoring.staged[f] = source[f]
        /\ IF source["vault.db"] = NoFile
           THEN \E pw \in BackupPasswords : restoring.staged["vault.db"] = FreshVault(pw)
           ELSE restoring.staged["vault.db"] = [source["vault.db"] EXCEPT !.old = FALSE]
        /\ \A f \in FileSet : live[f] = IF Copied(f) THEN InPlace(f)
                                       ELSE IF Filling(f) THEN Torn ELSE former[f]

BackupInv == BackupTypes /\ CopySound /\ RestoreIsWhole

LEMMA FileNames ==
  /\ FileSet = {"audit.log", "config.yaml", "journal.log", "trades.sqlite", "vault.db"}
  /\ Len(StateFiles) = 5 /\ \A k \in 1..5 : StateFiles[k] \in FileSet
BY DEF FileSet, StateFiles

LEMMA StagedIn ==
  /\ Len(StagedNames) = 6
  /\ \A f \in FileSet : \E k \in 1..6 : StagedNames[k] = f
  /\ \A j, k \in 1..6 : StagedNames[j] = StagedNames[k] => j = k
  /\ \A k \in 1..6 : StagedNames[k] = "backups" \/ StagedNames[k] \in FileSet
  /\ "backups" \notin FileSet
<1>1. Len(StagedNames) = 6
  BY DEF StagedNames
<1>2. /\ StagedNames[1] = "audit.log" /\ StagedNames[2] = "backups"
      /\ StagedNames[3] = "config.yaml" /\ StagedNames[4] = "journal.log"
      /\ StagedNames[5] = "trades.sqlite" /\ StagedNames[6] = "vault.db"
  BY DEF StagedNames
<1>3. 1..6 = {1, 2, 3, 4, 5, 6}
  OBVIOUS
<1> HIDE DEF StagedNames
<1> QED BY <1>1, <1>2, <1>3, FileNames

LEMMA ContentMade ==
  ASSUME NEW n \in Nat \ {0}, NEW pw \in BackupPasswords \union {""}, NEW old \in BOOLEAN
  PROVE  Content(n, pw, old) \in Contents /\ Content(n, pw, old).n = n /\ Content(n, pw, old).old = old
BY DEF Content, Contents

LEMMA ContentKinds ==
  /\ NoFile \in Contents /\ NoFile.old = FALSE /\ NoFile.n = 0
  /\ Torn \in Contents /\ Torn.old = FALSE /\ Torn # NoFile
  /\ \A d \in Contents : d = NoFile \/ d.n # 0
  /\ \A pw \in BackupPasswords : FreshVault(pw) \in Contents /\ FreshVault(pw) # NoFile
  /\ \A d \in Contents : d # NoFile =>
        [d EXCEPT !.old = FALSE] \in Contents /\ [d EXCEPT !.old = FALSE] # NoFile
  /\ \A d \in Contents : d.old = FALSE => [d EXCEPT !.old = FALSE] = d
  /\ \A d \in Contents : d.old \in BOOLEAN
<1>1. NoFile = [n |-> 0, pw |-> "", old |-> FALSE]
  BY DEF NoFile, Content
<1>2. NoFile \in Contents /\ NoFile.old = FALSE /\ NoFile.n = 0
  BY <1>1 DEF Contents
<1>2a. Torn = [n |-> -1, pw |-> "", old |-> FALSE]
  BY DEF Torn, Content
<1>2b. Torn \in Contents /\ Torn.old = FALSE /\ Torn.n = -1 /\ Torn # NoFile
  <2>1. Torn \in Contents /\ Torn.old = FALSE /\ Torn.n = -1
    BY <1>2a DEF Contents
  <2> QED BY <1>2, <2>1
<1>3. \A pw \in BackupPasswords : FreshVault(pw) \in Contents /\ FreshVault(pw).n = 1
  <2>1. 1 \in Nat \ {0} /\ FALSE \in BOOLEAN
    OBVIOUS
  <2>2. \A pw \in BackupPasswords : pw \in BackupPasswords \union {""}
    OBVIOUS
  <2> QED BY <2>1, <2>2, ContentMade, Zenon DEF FreshVault
<1>4. ASSUME NEW d \in Contents, d # NoFile, d # Torn
      PROVE  /\ [d EXCEPT !.old = FALSE] \in Contents /\ [d EXCEPT !.old = FALSE].n # 0
             /\ d.n # 0 /\ d.old \in BOOLEAN
             /\ d.old = FALSE => [d EXCEPT !.old = FALSE] = d
  <2>1. d \in [n : Nat \ {0}, pw : BackupPasswords \union {""}, old : BOOLEAN]
    BY <1>4 DEF Contents
  <2>2. d = [n |-> d.n, pw |-> d.pw, old |-> d.old]
    BY <2>1
  <2> QED BY <2>1, <2>2 DEF Contents
<1>5. [NoFile EXCEPT !.old = FALSE] = NoFile
  <2> DEFINE empty == [n |-> 0, pw |-> "", old |-> FALSE]
  <2>1. empty \in [n : {0}, pw : {""}, old : {FALSE}] /\ empty.old = FALSE
    OBVIOUS
  <2> HIDE DEF empty
  <2>2. [empty EXCEPT !.old = FALSE] = empty
    BY <2>1
  <2> QED BY <1>1, <2>2 DEF empty
<1>5a. [Torn EXCEPT !.old = FALSE] = Torn
  <2> DEFINE empty == [n |-> -1, pw |-> "", old |-> FALSE]
  <2>1. empty \in [n : {-1}, pw : {""}, old : {FALSE}] /\ empty.old = FALSE
    OBVIOUS
  <2> HIDE DEF empty
  <2>2. [empty EXCEPT !.old = FALSE] = empty
    BY <2>1
  <2> QED BY <1>2a, <2>2 DEF empty
<1>6. \A pw \in BackupPasswords : FreshVault(pw) \in Contents /\ FreshVault(pw) # NoFile
  BY <1>2, <1>3
<1>7. ASSUME NEW d \in Contents
      PROVE  /\ d = NoFile \/ d.n # 0
             /\ d # NoFile => [d EXCEPT !.old = FALSE] \in Contents
                              /\ [d EXCEPT !.old = FALSE] # NoFile
             /\ d.old = FALSE => [d EXCEPT !.old = FALSE] = d
             /\ d.old \in BOOLEAN
  <2>1. CASE d = NoFile
    BY <1>2, <1>5, <2>1
  <2>2. CASE d = Torn
    <3>1. d.n # 0 /\ d # NoFile /\ d.old = FALSE /\ [d EXCEPT !.old = FALSE] = d
      BY <1>2b, <1>5a, <2>2
    <3> QED BY <1>2b, <2>2, <3>1
  <2>3. CASE d # NoFile /\ d # Torn
    <3>1. [d EXCEPT !.old = FALSE] # NoFile
      BY <1>2, <1>4, <2>3
    <3> QED BY <1>4, <2>3, <3>1
  <2> QED BY <2>1, <2>2, <2>3
<1> QED BY <1>2, <1>2b, <1>6, <1>7

LEMMA DirectoryParts ==
  ASSUME NEW d \in Directories
  PROVE  /\ d \in [FileSet -> Contents] /\ \A f \in FileSet : d[f] \in Contents
         /\ \A f \in FileSet \ {"vault.db"} : d[f].old = FALSE
BY DEF Directories

LEMMA AgentWritesFile ==
  ASSUME BackupInv, NEW f \in FileSet, AgentWrites(f)
  PROVE  BackupInv'
<1>0. 3 \in Nat \ {0} /\ \A m \in Nat \ {0} : m + 2 \in Nat \ {0}
  OBVIOUS
<1>1. /\ restoring.at = "idle" /\ outcome' = "none" /\ former' = live' /\ source' = live'
      /\ UNCHANGED <<archives, making, restoring>>
  BY DEF AgentWrites
<1>3. live \in Directories /\ live[f] \in Contents
  BY DirectoryParts DEF BackupInv, BackupTypes
<1>4. PICK pw \in IF f = "vault.db" THEN BackupPasswords ELSE {""} :
        \/ live[f] \in {NoFile, Torn} /\ live' = [live EXCEPT ![f] = Content(3, pw, FALSE)]
        \/ live[f] = Torn /\ UNCHANGED live
        \/ live[f] \notin {NoFile, Torn} /\ live' = [live EXCEPT ![f] = Content(@.n + 2, @.pw, FALSE)]
  BY DEF AgentWrites
<1>5. ASSUME live' = [live EXCEPT ![f] = Content(3, pw, FALSE)]
      PROVE  live' \in Directories
  <2> DEFINE now == Content(3, pw, FALSE)
  <2>1. 3 \in Nat \ {0} /\ FALSE \in BOOLEAN /\ pw \in BackupPasswords \union {""}
    BY <1>0, <1>4, Zenon
  <2>2. now \in Contents /\ now.old = FALSE
    BY <2>1, ContentMade, Zenon
  <2>3. live' = [live EXCEPT ![f] = now]
    BY <1>5
  <2> HIDE DEF now
  <2> QED BY <1>3, <2>2, <2>3 DEF Directories
<1>6. ASSUME live[f] \notin {NoFile, Torn}, live' = [live EXCEPT ![f] = Content(@.n + 2, @.pw, FALSE)]
      PROVE  live' \in Directories
  <2> DEFINE now == Content(live[f].n + 2, live[f].pw, FALSE)
  <2>1. live[f] \in [n : Nat \ {0}, pw : BackupPasswords \union {""}, old : BOOLEAN]
    BY <1>3, <1>6 DEF Contents
  <2>2. live[f].n \in Nat \ {0} /\ live[f].pw \in BackupPasswords \union {""}
    BY <2>1
  <2>3. live[f].n + 2 \in Nat \ {0} /\ FALSE \in BOOLEAN
    BY <1>0, <2>2, Zenon
  <2>4. now \in Contents /\ now.old = FALSE
    BY <2>2, <2>3, ContentMade, Zenon
  <2>5. live' = [live EXCEPT ![f] = now]
    BY <1>6
  <2> HIDE DEF now
  <2> QED BY <1>3, <2>4, <2>5 DEF Directories
<1>6a. live' \in Directories
  BY <1>3, <1>4, <1>5, <1>6
<1>7. BackupTypes'
  BY <1>1, <1>6a DEF BackupInv, BackupTypes
<1> QED BY <1>1, <1>7 DEF BackupInv, CopySound, RestoreIsWhole

\* What a Create does touches neither the directory nor a restore.
LEMMA CreateKeeps ==
  ASSUME BackupInv, UNCHANGED kept,
         archives' \in [DOMAIN archives' -> ArchivesMade], DOMAIN archives' \subseteq Nat,
         making' \in Creates,
         making'.at \in {"writing", "summing"} => making'.second \in DOMAIN archives'
  PROVE  BackupInv'
BY DEF kept, BackupInv, BackupTypes, CopySound, Copied, InPlace, Filling, Archived, RestoreIsWhole

LEMMA CreateMoves ==
  ASSUME BackupInv, CreateReads \/ CreateEncrypts \/ CreateSums \/ CreateStops \/
                    \E pw \in BackupPasswords : CreateStarts(pw)
  PROVE  BackupInv'
<1>0. /\ archives \in [DOMAIN archives -> ArchivesMade] /\ DOMAIN archives \subseteq Nat
      /\ making \in Creates /\ NotMaking \in Creates /\ NotMaking.at = "idle"
      /\ making.at \in {"writing", "summing"} => making.second \in DOMAIN archives
      /\ live \in Directories
  BY DEF BackupInv, BackupTypes, Creates, NotMaking
<1>1. ASSUME NEW pw \in BackupPasswords, CreateStarts(pw) PROVE BackupInv'
  <2> DEFINE none == [g \in FileSet |-> NoFile]
             m == [at |-> "reading", pw |-> pw, next |-> 1, files |-> none]
  <2>1. none \in Directories
    BY ContentKinds DEF Directories
  <2> HIDE DEF none
  <2>2. m \in Creates /\ m.at = "reading"
    BY <2>1 DEF Creates
  <2>3. making' = m /\ UNCHANGED archives /\ UNCHANGED kept
    BY <1>1 DEF CreateStarts, none
  <2> HIDE DEF m
  <2> QED BY <1>0, <2>2, <2>3, CreateKeeps
<1>2. CASE CreateReads
  <2> DEFINE f == StateFiles[making.next]
             files == [making.files EXCEPT ![f] = live[f]]
             m == [making EXCEPT !.next = @ + 1, !.files = files]
  <2>1. making.at = "reading" /\ making.next <= 5 /\ UNCHANGED <<archives, kept>>
    BY <1>2, FileNames DEF CreateReads
  <2>2. /\ making \in [at : {"reading"}, pw : BackupPasswords, next : Nat \ {0},
                       files : Directories]
    BY <1>0, <2>1 DEF Creates, NotMaking
  <2>3. f \in FileSet /\ making.files \in Directories /\ making.next + 1 \in Nat \ {0}
    BY <2>1, <2>2, FileNames
  <2>4. making' = m
    BY <1>2, <2>2 DEF CreateReads
  <2> HIDE DEF f
  <2>5. files \in Directories
    BY <1>0, <2>3 DEF Directories
  <2> HIDE DEF files
  <2>6. m \in Creates /\ m.at = "reading"
    BY <2>2, <2>3, <2>5 DEF Creates
  <2> HIDE DEF m
  <2> QED BY <1>0, <2>1, <2>4, <2>6, CreateKeeps DEF kept
<1>3. CASE CreateEncrypts
  <2> DEFINE m == [at |-> "summing", second |-> making.second]
  <2>1. /\ making.at = "writing" /\ making' = m /\ UNCHANGED kept
        /\ archives' = [archives EXCEPT ![making.second].whole = TRUE]
    BY <1>3 DEF CreateEncrypts
  <2>2. making.second \in DOMAIN archives /\ making.second \in Nat
    BY <1>0, <2>1
  <2>3. m \in Creates /\ m.second = making.second
    BY <2>2 DEF Creates
  <2> DEFINE a == [archives[making.second] EXCEPT !.whole = TRUE]
  <2>4. a \in ArchivesMade
    <3>1. archives[making.second] \in ArchivesMade
      BY <1>0, <2>2
    <3> QED BY <3>1 DEF ArchivesMade
  <2>5. archives' = [archives EXCEPT ![making.second] = a]
    BY <2>1
  <2> HIDE DEF m, a
  <2>6. archives' \in [DOMAIN archives' -> ArchivesMade] /\ DOMAIN archives' = DOMAIN archives
    BY <1>0, <2>4, <2>5
  <2> QED BY <1>0, <2>1, <2>2, <2>3, <2>6, CreateKeeps
<1>4. CASE CreateSums
  <2>1. /\ making.at = "summing" /\ making' = NotMaking /\ UNCHANGED kept
        /\ archives' = [archives EXCEPT ![making.second].sum = "ok"]
    BY <1>4 DEF CreateSums
  <2>2. making.second \in DOMAIN archives
    BY <1>0, <2>1
  <2> DEFINE a == [archives[making.second] EXCEPT !.sum = "ok"]
  <2>3. a \in ArchivesMade
    <3>1. archives[making.second] \in ArchivesMade
      BY <1>0, <2>2
    <3> QED BY <3>1 DEF ArchivesMade
  <2>4. archives' = [archives EXCEPT ![making.second] = a]
    BY <2>1
  <2> HIDE DEF a
  <2>5. archives' \in [DOMAIN archives' -> ArchivesMade] /\ DOMAIN archives' = DOMAIN archives
    BY <1>0, <2>3, <2>4
  <2> QED BY <1>0, <2>1, <2>5, CreateKeeps
<1>5. CASE CreateStops
  BY <1>0, <1>5, CreateKeeps DEF CreateStops
<1> QED BY <1>1, <1>2, <1>3, <1>4, <1>5

LEMMA CreateOpensArchive ==
  ASSUME BackupInv, NEW s \in 1..MaxArchives, CreateOpens(s)
  PROVE  BackupInv'
<1>0. /\ archives \in [DOMAIN archives -> ArchivesMade] /\ DOMAIN archives \subseteq Nat
      /\ making \in Creates
  BY DEF BackupInv, BackupTypes
<1> DEFINE m == [at |-> "writing", second |-> s, pw |-> making.pw, files |-> making.files]
           sum == IF s \in DOMAIN archives /\ archives[s].sum # "none" THEN "stale" ELSE "none"
           a == [whole |-> FALSE, pw |-> making.pw, files |-> making.files, sum |-> sum]
<1>1. /\ making.at = "reading" /\ making' = m /\ UNCHANGED kept
      /\ archives' = [t \in DOMAIN archives \union {s} |-> IF t # s THEN archives[t] ELSE a]
  BY DEF CreateOpens
<1>2. making \in [at : {"reading"}, pw : BackupPasswords, next : Nat \ {0}, files : Directories]
  BY <1>0, <1>1 DEF Creates, NotMaking
<1>3. making.pw \in BackupPasswords /\ making.files \in Directories /\ s \in Nat
  BY <1>2
<1>4. m \in Creates /\ m.second = s
  BY <1>3 DEF Creates
<1>5. a \in ArchivesMade
  BY <1>3 DEF ArchivesMade
<1> HIDE DEF m, a
<1>6. /\ archives' \in [DOMAIN archives' -> ArchivesMade] /\ DOMAIN archives' \subseteq Nat
      /\ s \in DOMAIN archives'
  BY <1>0, <1>1, <1>3, <1>5
<1> QED BY <1>1, <1>4, <1>6, CreateKeeps

\* An archive that verifies is staged; one that does not leaves the directory alone.
LEMMA RestoreStarts ==
  ASSUME BackupInv, NEW s \in 1..MaxArchives, NEW pw \in BackupPasswords, RestoreVerifies(s, pw)
  PROVE  BackupInv'
<1> DEFINE a == archives[s]
<1>1. /\ restoring.at = "idle" /\ s \in DOMAIN archives
      /\ former' = live /\ source' = a.files /\ live' = live
      /\ UNCHANGED <<archives, making>>
      /\ \/ /\ restoring' = [at |-> "copying", next |-> 1, staged |-> Staged(a),
                               backups |-> HasBackupsDir(a)]
            /\ outcome' = "none"
         \/ outcome' = "refused" /\ UNCHANGED restoring
  BY DEF RestoreVerifies, Extracts
<1>2. BackupTypes /\ a \in ArchivesMade /\ live \in Directories
  BY <1>1 DEF BackupInv, BackupTypes
<1>3. a.files \in Directories /\ a.pw \in BackupPasswords
  BY <1>2 DEF ArchivesMade
<1> HIDE DEF a
<1>4. CASE outcome' = "refused" /\ UNCHANGED restoring
  <2>1. BackupTypes'
    BY <1>1, <1>2, <1>3, <1>4 DEF BackupTypes
  <2> QED BY <1>1, <1>4, <2>1 DEF BackupInv, CopySound, RestoreIsWhole
<1>5. CASE /\ restoring' = [at |-> "copying", next |-> 1, staged |-> Staged(a),
                             backups |-> HasBackupsDir(a)]
           /\ outcome' = "none"
  <2> DEFINE st == Staged(a)
             hasDir == HasBackupsDir(a)
             k == [at |-> "copying", next |-> 1, staged |-> st, backups |-> hasDir]
  <2>1. "vault.db" \in FileSet
    BY FileNames
  <2>2. /\ st \in [FileSet -> Contents]
        /\ \A f \in FileSet \ {"vault.db"} : st[f] = a.files[f]
        /\ IF a.files["vault.db"] = NoFile THEN st["vault.db"] = FreshVault(a.pw)
           ELSE st["vault.db"] = [a.files["vault.db"] EXCEPT !.old = FALSE]
    <3>1. \A f \in FileSet : a.files[f] \in Contents
      BY <1>3, DirectoryParts
    <3> QED BY <1>3, <2>1, <3>1, ContentKinds DEF Staged
  <2>3. hasDir \in BOOLEAN
    BY <1>3, <2>1, DirectoryParts, ContentKinds DEF HasBackupsDir
  <2> HIDE DEF st, hasDir
  <2>4. k \in Restores /\ k.at = "copying" /\ k.next = 1 /\ k.staged = st
    BY <2>2, <2>3 DEF Restores
  <2>5. restoring' = k /\ outcome' = "none"
    BY <1>1, <1>5 DEF st, hasDir
  <2> HIDE DEF k
  <2>6. BackupTypes'
    BY <1>1, <1>2, <1>3, <2>4, <2>5 DEF BackupTypes
  <2>7. \A f \in FileSet : ~Copied(f)' /\ ~Filling(f)'
    BY <2>4, <2>5 DEF Copied, Filling
  <2>8. CopySound'
    BY <1>1, <1>3, <2>2, <2>4, <2>5, <2>7 DEF CopySound
  <2> QED BY <2>5, <2>6, <2>8 DEF BackupInv, RestoreIsWhole
<1> QED BY <1>1, <1>4, <1>5

\* A restore that stops has put some of the files in place; one that returns, all.
LEMMA RestoreEnds ==
  ASSUME BackupInv, restoring.at \in {"copying", "filling"}, restoring' = NotRestoring,
         UNCHANGED <<live, archives, making, former, source>>,
         \/ outcome' = "cut"
         \/ outcome' = "ok" /\ restoring.at = "copying" /\ restoring.next > 6
  PROVE  BackupInv'
<1>1. /\ BackupTypes /\ NotRestoring.at = "idle"
      /\ restoring.next <= 7
      /\ \A f \in FileSet \ {"vault.db"} : restoring.staged[f] = source[f]
      /\ IF source["vault.db"] = NoFile
         THEN \E pw \in BackupPasswords : restoring.staged["vault.db"] = FreshVault(pw)
         ELSE restoring.staged["vault.db"] = [source["vault.db"] EXCEPT !.old = FALSE]
      /\ \A f \in FileSet : live[f] = IF Copied(f) THEN InPlace(f)
                                     ELSE IF Filling(f) THEN Torn ELSE former[f]
  BY DEF BackupInv, CopySound, NotRestoring
<1>2. BackupTypes' /\ CopySound'
  BY <1>1 DEF BackupTypes, CopySound, Restores
<1>3. restoring.next \in Nat \ {0}
  BY <1>1 DEF BackupTypes, Restores, NotRestoring
<1>4. ASSUME NEW f \in FileSet
      PROVE  InPlace(f) \in Archived(f)
  <2>1. source[f] \in Contents
    BY <1>1, DirectoryParts DEF BackupTypes
  <2>2. CASE f = "vault.db"
    BY <1>1, <2>1, <2>2, ContentKinds DEF InPlace, Archived
  <2>3. CASE f # "vault.db"
    <3>1. source[f].old = FALSE /\ restoring.staged[f] = source[f]
      BY <1>1, <2>3, DirectoryParts DEF BackupTypes
    <3>2. [source[f] EXCEPT !.old = FALSE] = source[f]
      BY <2>1, <3>1, ContentKinds
    <3> QED BY <2>3, <3>1, <3>2 DEF InPlace, Archived
  <2> QED BY <2>2, <2>3
<1>5. \A f \in FileSet : Archived(f)' = Archived(f)
  BY DEF Archived
<1>6. CASE outcome' = "ok" /\ restoring.at = "copying" /\ restoring.next > 6
  <2>1. \A f \in FileSet : Copied(f)
    BY <1>3, <1>6, StagedIn DEF Copied
  <2>2. \A f \in FileSet : live'[f] \in Archived(f)'
    BY <1>1, <1>4, <1>5, <2>1
  <2>3. RestoreIsWhole'
    BY <1>6, <2>2 DEF RestoreIsWhole
  <2> QED BY <1>2, <2>3 DEF BackupInv
<1>7. CASE outcome' = "cut"
  <2> DEFINE at == restoring.next
  <2>1. at \in 1..Len(StagedNames) + 1
    BY <1>1, <1>3, StagedIn
  <2>2. ASSUME NEW k \in DOMAIN StagedNames, StagedNames[k] \in FileSet
        PROVE  live'[StagedNames[k]] \in
                 IF k < at THEN Archived(StagedNames[k])'
                 ELSE IF k = at THEN {former'[StagedNames[k]], Torn} ELSE {former'[StagedNames[k]]}
    <3>1. k \in 1..6
      BY DEF StagedNames
    <3>2. Copied(StagedNames[k]) <=> k < at
      BY <1>3, <2>2, <3>1, StagedIn DEF Copied
    <3>3. Filling(StagedNames[k]) => k = at \/ k < at
      <4>1. CASE at <= 6
        <5>1. at \in 1..6
          BY <1>3, <4>1
        <5> QED BY <3>1, <5>1, StagedIn DEF Filling
      <4>2. CASE ~(at <= 6)
        BY <1>3, <3>1, <4>2
      <4> QED BY <4>1, <4>2
    <3> QED BY <1>1, <1>3, <1>4, <1>5, <2>2, <3>1, <3>2, <3>3
  <2>3. RestoreIsWhole'
    <3> HIDE DEF at
    <3>1. \E n \in 1..Len(StagedNames) + 1 : \A k \in DOMAIN StagedNames :
              LET f == StagedNames[k] IN
              f \in FileSet =>
                  live'[f] \in IF k < n THEN Archived(f)'
                               ELSE IF k = n THEN {former'[f], Torn} ELSE {former'[f]}
      BY <2>1, <2>2
    <3> QED BY <1>7, <3>1 DEF RestoreIsWhole
  <2> QED BY <1>2, <2>3 DEF BackupInv
<1> QED BY <1>6, <1>7

\* What is known of a restore that goes on.
LEMMA RestoreRuns ==
  ASSUME BackupInv, restoring.at \in {"copying", "filling"}, restoring.next <= 6
  PROVE  /\ BackupTypes /\ CopySound /\ live \in Directories /\ live \in [FileSet -> Contents]
         /\ restoring \in [at : {"copying", "filling"}, next : Nat \ {0},
                           staged : [FileSet -> Contents], backups : BOOLEAN]
         /\ restoring.next \in 1..6 /\ restoring.staged \in [FileSet -> Contents]
         /\ \A f \in FileSet : StagedNames[restoring.next] = f => ~Copied(f)
         /\ \A f \in FileSet : f # "vault.db" => restoring.staged[f].old = FALSE
<1>1. BackupTypes /\ CopySound /\ live \in Directories /\ live \in [FileSet -> Contents]
  BY DirectoryParts DEF BackupInv, BackupTypes
<1>2. restoring \in [at : {"copying", "filling"}, next : Nat \ {0},
                     staged : [FileSet -> Contents], backups : BOOLEAN]
  BY <1>1 DEF BackupTypes, Restores, NotRestoring
<1>3. restoring.next \in 1..6 /\ restoring.staged \in [FileSet -> Contents]
  BY <1>2
<1>4. \A f \in FileSet : StagedNames[restoring.next] = f => ~Copied(f)
  BY <1>3, StagedIn DEF Copied
<1>5. ASSUME NEW f \in FileSet, f # "vault.db" PROVE restoring.staged[f].old = FALSE
  <2>1. restoring.staged[f] = source[f] /\ source \in Directories
    BY <1>1, <1>5 DEF CopySound, BackupTypes
  <2> QED BY <1>5, <2>1, DirectoryParts
<1> QED BY <1>1, <1>2, <1>3, <1>4, <1>5

\* A step of the copying: what it has in hand stays, the files follow.
LEMMA RestoreStep ==
  ASSUME BackupInv, restoring.at \in {"copying", "filling"}, restoring.next <= 6,
         NEW k \in Restores, restoring' = k, k.at \in {"copying", "filling"},
         k.staged = restoring.staged, k.next <= 7,
         k.at = "filling" => /\ k.next <= 6 /\ StagedNames[k.next] \in FileSet
                             /\ k.staged[StagedNames[k.next]] # NoFile,
         UNCHANGED <<archives, making, former, source, outcome>>, live' \in Directories,
         \A f \in FileSet : live'[f] = IF Copied(f)' THEN InPlace(f)'
                                       ELSE IF Filling(f)' THEN Torn ELSE former[f]
  PROVE  BackupInv'
<1>1. BackupTypes /\ CopySound
  BY DEF BackupInv
<1>2. BackupTypes'
  BY <1>1 DEF BackupTypes
<1>3. CopySound'
  BY <1>1 DEF CopySound
<1>4. RestoreIsWhole'
  BY <1>1 DEF CopySound, RestoreIsWhole
<1> QED BY <1>2, <1>3, <1>4 DEF BackupInv

LEMMA RestoreCopiesFile ==
  ASSUME BackupInv, RestoreCopies
  PROVE  BackupInv'
<1> DEFINE f == StagedNames[restoring.next]
           present == IF f = "backups" THEN restoring.backups ELSE restoring.staged[f] # NoFile
<1>1. /\ restoring.at = "copying" /\ restoring.next <= 6
      /\ UNCHANGED <<archives, making, former, source>>
  BY StagedIn DEF RestoreCopies
<1>2. /\ BackupTypes /\ CopySound /\ live \in Directories /\ live \in [FileSet -> Contents]
      /\ restoring \in [at : {"copying", "filling"}, next : Nat \ {0},
                        staged : [FileSet -> Contents], backups : BOOLEAN]
      /\ restoring.next \in 1..6 /\ restoring.staged \in [FileSet -> Contents]
      /\ \A g \in FileSet : f = g => ~Copied(g)
  BY <1>1, RestoreRuns
<1>3. \A g \in FileSet : live[g] = IF Copied(g) THEN InPlace(g) ELSE former[g]
  BY <1>1, <1>2 DEF CopySound, Filling
<1>4. CASE f = "backups" /\ restoring' = NotRestoring /\ outcome' = "cut" /\ UNCHANGED live
  BY <1>1, <1>4, RestoreEnds
<1>5. CASE ~present /\ restoring' = [restoring EXCEPT !.next = @ + 1] /\ UNCHANGED <<live, outcome>>
  <2> DEFINE k == [restoring EXCEPT !.next = @ + 1]
  <2>1. /\ k \in Restores /\ k.at = "copying" /\ k.next = restoring.next + 1
        /\ k.staged = restoring.staged
    BY <1>1, <1>2 DEF Restores
  <2>2. restoring' = k
    BY <1>5
  <2> HIDE DEF k
  <2>3. \A j \in 1..6 : j < restoring.next + 1 <=> (j < restoring.next \/ j = restoring.next)
    BY <1>2
  <2>4. \A g \in FileSet : Copied(g)' <=> (Copied(g) \/ g = f)
    BY <1>2, <2>1, <2>2, <2>3 DEF Copied
  <2>5. \A g \in FileSet : InPlace(g)' = InPlace(g) /\ ~Filling(g)'
    BY <1>1, <2>1, <2>2 DEF InPlace, Filling
  <2>6. ASSUME NEW g \in FileSet
        PROVE  live'[g] = IF Copied(g)' THEN InPlace(g)' ELSE former[g]
    <3>1. CASE g = f
      <4>1. restoring.staged[g] = NoFile
        BY <1>5, <3>1, StagedIn
      <4> QED BY <1>2, <1>3, <1>5, <2>4, <2>5, <3>1, <4>1 DEF InPlace
    <3>2. CASE g # f
      BY <1>3, <1>5, <2>4, <2>5, <3>2
    <3> QED BY <3>1, <3>2
  <2>7. k.next <= 7
    BY <1>2, <2>1
  <2> QED BY <1>1, <1>2, <1>5, <2>1, <2>2, <2>5, <2>6, <2>7, RestoreStep
<1>6. CASE /\ f # "backups" /\ present /\ live' = [live EXCEPT ![f] = Torn]
           /\ restoring' = [restoring EXCEPT !.at = "filling"] /\ UNCHANGED outcome
  <2> DEFINE k == [restoring EXCEPT !.at = "filling"]
  <2>1. /\ k \in Restores /\ k.at = "filling" /\ k.next = restoring.next
        /\ k.staged = restoring.staged
    BY <1>1, <1>2 DEF Restores
  <2>2. restoring' = k
    BY <1>6
  <2> HIDE DEF k
  <2>3. f \in FileSet /\ restoring.staged[f] # NoFile
    BY <1>2, <1>6, StagedIn
  <2>4. \A g \in FileSet : Copied(g)' = Copied(g) /\ InPlace(g)' = InPlace(g)
    BY <1>1, <2>1, <2>2 DEF InPlace, Copied
  <2>5. \A g \in FileSet : Filling(g)' <=> g = f
    BY <2>1, <2>2 DEF Filling
  <2> HIDE DEF f
  <2>6. \A g \in FileSet : live'[g] = IF g = f THEN Torn ELSE live[g]
    BY <1>2, <1>6
  <2>7. \A g \in FileSet : live'[g] = IF Copied(g)' THEN InPlace(g)'
                                      ELSE IF Filling(g)' THEN Torn ELSE former[g]
    BY <1>2, <1>3, <2>4, <2>5, <2>6
  <2>8. live' \in Directories
    BY <1>2, <1>6, <2>3, ContentKinds DEF Directories
  <2>9. k.next <= 7 /\ k.next <= 6 /\ StagedNames[k.next] = f
    BY <1>2, <2>1 DEF f
  <2> QED BY <1>1, <1>6, <2>1, <2>2, <2>3, <2>7, <2>8, <2>9, RestoreStep
<1> QED BY <1>4, <1>5, <1>6 DEF RestoreCopies

LEMMA RestoreFillsFile ==
  ASSUME BackupInv, RestoreFills
  PROVE  BackupInv'
<1> DEFINE f == StagedNames[restoring.next]
           k == [restoring EXCEPT !.at = "copying", !.next = @ + 1]
<1>1. /\ restoring.at = "filling" /\ live' = [live EXCEPT ![f] = restoring.staged[f]]
      /\ restoring' = k /\ UNCHANGED <<archives, making, former, source, outcome>>
  BY DEF RestoreFills
<1>2. restoring.next <= 6 /\ f \in FileSet /\ restoring.staged[f] # NoFile
  BY <1>1 DEF BackupInv, CopySound
<1>3. /\ BackupTypes /\ CopySound /\ live \in Directories /\ live \in [FileSet -> Contents]
      /\ restoring \in [at : {"copying", "filling"}, next : Nat \ {0},
                        staged : [FileSet -> Contents], backups : BOOLEAN]
      /\ restoring.next \in 1..6 /\ restoring.staged \in [FileSet -> Contents]
      /\ \A g \in FileSet : f = g => ~Copied(g)
      /\ \A g \in FileSet : g # "vault.db" => restoring.staged[g].old = FALSE
  BY <1>1, <1>2, RestoreRuns
<1>4. /\ k \in Restores /\ k.at = "copying" /\ k.next = restoring.next + 1
      /\ k.staged = restoring.staged
  <2>1. restoring.next + 1 \in Nat \ {0}
    BY <1>3
  <2> QED BY <1>3, <2>1 DEF Restores
<1> HIDE DEF k
<1>5. \A j \in 1..6 : j < restoring.next + 1 <=> (j < restoring.next \/ j = restoring.next)
  BY <1>3
<1>6. \A g \in FileSet : Copied(g)' <=> (Copied(g) \/ g = f)
  BY <1>1, <1>3, <1>4, <1>5 DEF Copied
<1>7. \A g \in FileSet : InPlace(g)' = InPlace(g) /\ ~Filling(g)'
  BY <1>1, <1>4 DEF InPlace, Filling
<1>8. \A g \in FileSet : g # f => live[g] = IF Copied(g) THEN InPlace(g) ELSE former[g]
  BY <1>1, <1>3 DEF CopySound, Filling
<1> HIDE DEF f
<1>9. \A g \in FileSet : live'[g] = IF g = f THEN restoring.staged[f] ELSE live[g]
  BY <1>1, <1>3
<1>10. InPlace(f) = restoring.staged[f]
  BY <1>2 DEF InPlace
<1>11. \A g \in FileSet : live'[g] = IF Copied(g)' THEN InPlace(g)' ELSE former[g]
  BY <1>6, <1>7, <1>8, <1>9, <1>10
<1>12. live' \in Directories
  BY <1>1, <1>2, <1>3 DEF Directories
<1>13. k.next <= 7
  BY <1>3, <1>4
<1> QED BY <1>1, <1>2, <1>4, <1>7, <1>11, <1>12, <1>13, RestoreStep

LEMMA BackupInductive == BackupSpec => []BackupInv
<1>1. BackupInit => BackupInv
  <2> SUFFICES ASSUME BackupInit PROVE BackupInv
    OBVIOUS
  <2>1. PICK pw \in BackupPasswords, old \in BOOLEAN, hasVault \in BOOLEAN :
          live = [f \in FileSet |->
                    CASE f = "vault.db" -> IF hasVault THEN Content(2, pw, old) ELSE NoFile
                      [] f \in {"config.yaml", "trades.sqlite"} -> Content(1, "", FALSE)
                      [] OTHER -> NoFile]
    BY DEF BackupInit
  <2>2. Content(2, pw, old) \in Contents /\ Content(1, "", FALSE) \in Contents
    <3>1. 1 \in Nat \ {0} /\ 2 \in Nat \ {0} /\ FALSE \in BOOLEAN
      OBVIOUS
    <3>2. pw \in BackupPasswords \union {""} /\ "" \in BackupPasswords \union {""}
      OBVIOUS
    <3> QED BY <3>1, <3>2, ContentMade, Zenon
  <2>3. Content(1, "", FALSE).old = FALSE
    BY DEF Content
  <2>4. \A f \in FileSet : live[f] \in Contents /\ (f # "vault.db" => live[f].old = FALSE)
    BY <2>1, <2>2, <2>3, ContentKinds
  <2>5. live \in Directories
    BY <2>1, <2>4 DEF Directories
  <2>6. BackupTypes
    <3>1. NotMaking \in Creates /\ NotMaking.at = "idle" /\ NotRestoring \in Restores
      BY DEF Creates, Restores, NotMaking
    <3>2. archives \in [DOMAIN archives -> ArchivesMade] /\ DOMAIN archives \subseteq Nat
      <4>1. archives = <<>>
        BY DEF BackupInit
      <4>2. DOMAIN <<>> = {} /\ <<>> = [x \in {} |-> <<>>[x]]
        OBVIOUS
      <4> QED BY <4>1, <4>2
    <3> QED BY <2>5, <3>1, <3>2 DEF BackupInit, BackupTypes
  <2> QED BY <2>6 DEF BackupInit, BackupInv, CopySound, RestoreIsWhole, NotRestoring
<1>2. BackupInv /\ [BackupNext]_backupVars => BackupInv'
  <2> SUFFICES ASSUME BackupInv, [BackupNext]_backupVars PROVE BackupInv'
    OBVIOUS
  <2>1. CASE UNCHANGED backupVars
    BY <2>1, CreateKeeps DEF backupVars, kept, BackupInv, BackupTypes
  <2>2. CASE BackupNext
    <3>1. CASE RestoreReturns
      BY <3>1, StagedIn, RestoreEnds DEF RestoreReturns
    <3>2. CASE RestoreStops
      BY <3>2, RestoreEnds DEF RestoreStops
    <3> QED BY <2>2, <3>1, <3>2, AgentWritesFile, CreateMoves, CreateOpensArchive, RestoreStarts,
               RestoreCopiesFile, RestoreFillsFile DEF BackupNext
  <2> QED BY <2>1, <2>2
<1> QED BY <1>1, <1>2, PTL DEF BackupSpec

\* However creations, writes, restores and stops follow each other, a restore that is
\* refused has changed nothing, one that returns has put the whole archive in place, and
\* one that stops on its way tears one file at most, between those it has replaced and
\* those it has not reached (backup/backup.go:117-195).
THEOREM RestoreTheorem == BackupSpec => []RestoreIsWhole
<1>1. BackupInv => RestoreIsWhole
  BY DEF BackupInv
<1> QED BY <1>1, BackupInductive, PTL DEF BackupSpec

-----------------------------------------------------------------------------
(* The strategy builder *)

TemplateNames == {"sma_crossover", "rsi_mean_revert"}
\* A stored instance is its template's, with parameters the template allows.
Configured(inst) ==
    /\ validateParameters(inst.template, inst.params)
    /\ inst.built = Built(inst.template, inst.params)

BuilderInv ==
    /\ instances \in [InstanceIds -> StrategyInstances \union {Missing}]
    /\ usedIds \subseteq InstanceIds /\ spoiled \subseteq usedIds /\ StoredIds \subseteq usedIds
    /\ \A i \in StoredIds : Configured(instances[i]) /\ (i \notin spoiled => ValidInstance(instances[i]))

LEMMA TemplateParts ==
  /\ DOMAIN Templates = TemplateNames
  /\ \A t \in TemplateNames :
        /\ Templates[t].indicators \subseteq DOMAIN DefsOf(t)
        /\ Templates[t].rules \subseteq DOMAIN DefsOf(t)
        /\ \A key \in DOMAIN DefsOf(t) : DefsOf(t)[key].type # "string"
<1>1. DOMAIN Templates = TemplateNames
  BY DEF Templates, TemplateNames
<1>2. /\ Templates["sma_crossover"].indicators = {"fast_period", "slow_period"}
      /\ Templates["sma_crossover"].rules = {"quantity"}
      /\ Templates["sma_crossover"].parameters =
            [fast_period |-> Def("int", 5, 50), slow_period |-> Def("int", 20, 200),
             quantity |-> Quantity]
      /\ Templates["rsi_mean_revert"].indicators = {"rsi_period"}
      /\ Templates["rsi_mean_revert"].rules = {"oversold_level", "overbought_level", "quantity"}
      /\ Templates["rsi_mean_revert"].parameters =
            [rsi_period |-> Def("int", 7, 30), oversold_level |-> Def("int", 10, 40),
             overbought_level |-> Def("int", 60, 90), quantity |-> Quantity]
  BY DEF Templates
<1>3. \A type, min, max : Def(type, min, max).type = type
  BY DEF Def
<1>4. /\ Quantity.type = "decimal" /\ Def("int", 5, 50).type = "int" /\ Def("int", 20, 200).type = "int"
      /\ Def("int", 7, 30).type = "int" /\ Def("int", 10, 40).type = "int"
      /\ Def("int", 60, 90).type = "int"
  BY DEF Def, Quantity
<1>5. CASE TRUE
  <2>1. /\ DOMAIN DefsOf("sma_crossover") = {"fast_period", "slow_period", "quantity"}
        /\ \A key \in DOMAIN DefsOf("sma_crossover") : DefsOf("sma_crossover")[key].type # "string"
    BY <1>2, <1>4 DEF DefsOf
  <2>2. /\ DOMAIN DefsOf("rsi_mean_revert") =
              {"rsi_period", "oversold_level", "overbought_level", "quantity"}
        /\ \A key \in DOMAIN DefsOf("rsi_mean_revert") :
              DefsOf("rsi_mean_revert")[key].type # "string"
    BY <1>2, <1>4 DEF DefsOf
  <2> QED BY <1>1, <1>2, <2>1, <2>2 DEF TemplateNames
<1> QED BY <1>5

\* What is built with parameters that were validated has no placeholder left in it.
LEMMA NothingLeftOpen ==
  ASSUME NEW t \in DOMAIN Templates, NEW params, validateParameters(t, params),
         NEW side \in {"indicators", "rules"}, NEW key \in DOMAIN Built(t, params)[side]
  PROVE  Built(t, params)[side][key] # Placeholder
<1>1. /\ Built(t, params)["indicators"] = resolve(Templates[t].indicators, params)
      /\ Built(t, params)["rules"] = resolve(Templates[t].rules, params)
  BY DEF Built
<1>2. key \in DOMAIN DefsOf(t) /\ Built(t, params)[side][key] = resolveValue(key, params)
  BY <1>1, TemplateParts DEF resolve
<1>3. key \in DOMAIN params /\ params[key].type = DefsOf(t)[key].type
  BY <1>2 DEF validateParameters, validateParameterValue
<1>4. DefsOf(t)[key].type # "string" /\ Placeholder.type = "string"
  BY <1>2, TemplateParts DEF Placeholder
<1>5. Built(t, params)[side][key] = params[key]
  BY <1>2, <1>3 DEF resolveValue
<1> QED BY <1>3, <1>4, <1>5

LEMMA BuilderCreates ==
  ASSUME BuilderInv, NEW i \in InstanceIds, NEW t \in DOMAIN Templates, NEW name \in Names,
         NEW symbol \in Names, NEW params \in Offers(t), CreateInstance(i, t, name, symbol, params)
  PROVE  BuilderInv'
<1> DEFINE inst == [template |-> t, name |-> name, symbol |-> symbol, enabled |-> FALSE,
                    params |-> params, built |-> Built(t, params)]
<1>1. CASE validateParameters(t, params) /\ ValidInstance(inst)
  <2>1. /\ instances' = [instances EXCEPT ![i] = inst] /\ usedIds' = usedIds \union {i}
        /\ i \notin usedIds /\ UNCHANGED spoiled
    BY <1>1 DEF CreateInstance
  <2>2. params \in AnyParameters /\ Built(t, params) \in AnyBuilt
    BY DEF AnyParameters, AnyBuilt
  <2>3. inst \in StrategyInstances
    BY <2>2 DEF StrategyInstances
  <2>4. Configured(inst) /\ ValidInstance(inst)
    BY <1>1 DEF Configured
  <2> HIDE DEF inst
  <2>5. /\ instances' \in [InstanceIds -> StrategyInstances \union {Missing}]
        /\ instances'[i] = inst /\ \A j \in InstanceIds \ {i} : instances'[j] = instances[j]
    BY <2>1, <2>3 DEF BuilderInv
  <2>6. \A j \in StoredIds' : j = i \/ (j \in StoredIds /\ instances'[j] = instances[j])
    BY <2>5 DEF StoredIds
  <2> QED BY <2>1, <2>4, <2>5, <2>6 DEF BuilderInv, Configured, ValidInstance
<1>2. CASE ~(validateParameters(t, params) /\ ValidInstance(inst))
  BY <1>2 DEF CreateInstance, BuilderInv, StoredIds, Configured, ValidInstance
<1> QED BY <1>1, <1>2

\* An update that is refused leaves the parameters as they were and marks what it left
\* without a name or a symbol.
LEMMA BuilderUpdates ==
  ASSUME BuilderInv, NEW i \in InstanceIds, NEW name \in Names \union {Missing},
         NEW symbol \in Names \union {Missing}, NEW enabled \in BOOLEAN \union {Missing},
         NEW params, params \in Offers(instances[i].template) \/ params = Missing,
         UpdateInstance(i, name, symbol, enabled, params)
  PROVE  BuilderInv' /\ instances'[i] \in StrategyInstances
<1> DEFINE old == instances[i]
           newName == Given(name, old.name)
           newSymbol == Given(symbol, old.symbol)
           newEnabled == Given(enabled, old.enabled)
           changed == [old EXCEPT !.name = newName, !.symbol = newSymbol, !.enabled = newEnabled]
           inst == IF params = Missing THEN changed ELSE TakesParameters(changed, params)
<1>1. /\ instances' = [instances EXCEPT ![i] = inst]
      /\ spoiled' = IF ValidInstance(inst) THEN spoiled \ {i} ELSE spoiled \union {i}
      /\ UNCHANGED usedIds /\ instances[i] # Missing
  BY DEF UpdateInstance
<1>2. old \in StrategyInstances /\ i \in StoredIds /\ Configured(old) /\ i \in usedIds
  BY <1>1 DEF BuilderInv, StoredIds
<1>3. newName \in Names /\ newSymbol \in Names /\ newEnabled \in BOOLEAN
  BY <1>2 DEF StrategyInstances, Given
<1> HIDE DEF newName, newSymbol, newEnabled
<1>4. /\ changed \in StrategyInstances /\ changed.template = old.template
      /\ changed.params = old.params /\ changed.built = old.built
  BY <1>2, <1>3 DEF StrategyInstances
<1>5. Configured(changed)
  BY <1>2, <1>4 DEF Configured
<1> HIDE DEF old, changed
<1>6. inst \in StrategyInstances /\ Configured(inst)
  <2>1. CASE params = Missing \/ ~validateParameters(changed.template, params)
    BY <1>4, <1>5, <2>1 DEF TakesParameters
  <2>2. CASE params # Missing /\ validateParameters(changed.template, params)
    <3> DEFINE b == Built(changed.template, params)
               new == [changed EXCEPT !.params = params, !.built = b]
    <3>1. params \in Offers(changed.template) /\ changed.template \in DOMAIN Templates
      BY <1>4, <2>2 DEF old, StrategyInstances
    <3>2. params \in AnyParameters /\ b \in AnyBuilt
      BY <3>1 DEF AnyParameters, AnyBuilt
    <3>3. inst = new
      BY <2>2 DEF TakesParameters
    <3> HIDE DEF b
    <3>4. /\ new \in StrategyInstances /\ new.template = changed.template
          /\ new.params = params /\ new.built = b
      BY <1>4, <3>2 DEF StrategyInstances
    <3>5. Configured(new)
      BY <2>2, <3>4 DEF Configured, b
    <3> QED BY <3>3, <3>4, <3>5
  <2> QED BY <2>1, <2>2
<1> HIDE DEF inst
<1>7. /\ instances' \in [InstanceIds -> StrategyInstances \union {Missing}]
      /\ instances'[i] = inst /\ \A j \in InstanceIds \ {i} : instances'[j] = instances[j]
  BY <1>1, <1>6 DEF BuilderInv
<1>8. \A j \in StoredIds' : j = i \/ (j \in StoredIds /\ instances'[j] = instances[j])
  BY <1>7 DEF StoredIds
<1>9. BuilderInv'
  BY <1>1, <1>2, <1>6, <1>7, <1>8 DEF BuilderInv, Configured, ValidInstance
<1> QED BY <1>6, <1>7, <1>9

LEMMA BuilderSets ==
  ASSUME BuilderInv, NEW i \in InstanceIds, NEW on \in BOOLEAN, SetEnabled(i, on)
  PROVE  BuilderInv'
<1> DEFINE inst == [instances[i] EXCEPT !.enabled = on]
<1>1. instances' = [instances EXCEPT ![i] = inst] /\ UNCHANGED <<usedIds, spoiled>>
      /\ instances[i] # Missing
  BY DEF SetEnabled
<1>2. instances[i] \in StrategyInstances /\ i \in StoredIds
  BY <1>1 DEF BuilderInv, StoredIds
<1>3. /\ inst \in StrategyInstances /\ inst.template = instances[i].template
      /\ inst.params = instances[i].params /\ inst.built = instances[i].built
      /\ inst.name = instances[i].name /\ inst.symbol = instances[i].symbol
  BY <1>2 DEF StrategyInstances
<1>4. /\ Configured(inst)
      /\ i \notin spoiled => ValidInstance(inst)
  BY <1>2, <1>3 DEF BuilderInv, Configured, ValidInstance
<1> HIDE DEF inst
<1>5. /\ instances' \in [InstanceIds -> StrategyInstances \union {Missing}]
      /\ instances'[i] = inst /\ \A j \in InstanceIds \ {i} : instances'[j] = instances[j]
  BY <1>1, <1>3 DEF BuilderInv
<1>6. \A j \in StoredIds' : j = i \/ (j \in StoredIds /\ instances'[j] = instances[j])
  BY <1>5 DEF StoredIds
<1> QED BY <1>1, <1>2, <1>4, <1>5, <1>6 DEF BuilderInv, Configured, ValidInstance

LEMMA BuilderDeletes ==
  ASSUME BuilderInv, NEW i \in InstanceIds, DeleteInstance(i)
  PROVE  BuilderInv'
<1>1. /\ instances' = [instances EXCEPT ![i] = Missing] /\ UNCHANGED usedIds
      /\ spoiled' = spoiled \ {i}
  BY DEF DeleteInstance
<1>2. /\ instances' \in [InstanceIds -> StrategyInstances \union {Missing}]
      /\ instances'[i] = Missing /\ \A j \in InstanceIds \ {i} : instances'[j] = instances[j]
  BY <1>1 DEF BuilderInv
<1>3. \A j \in StoredIds' : j # i /\ j \in StoredIds /\ instances'[j] = instances[j]
  BY <1>2 DEF StoredIds
<1> QED BY <1>1, <1>2, <1>3 DEF BuilderInv, Configured, ValidInstance

LEMMA BuilderInductive == BuilderSpec => []BuilderInv
<1>1. BuilderInit => BuilderInv
  BY DEF BuilderInit, BuilderInv, StoredIds
<1>2. BuilderInv /\ [BuilderNext]_builderVars => BuilderInv'
  <2> SUFFICES ASSUME BuilderInv, [BuilderNext]_builderVars PROVE BuilderInv'
    OBVIOUS
  <2>1. CASE UNCHANGED builderVars
    BY <2>1 DEF builderVars, BuilderInv, StoredIds, Configured, ValidInstance
  <2>2. ASSUME NEW i \in InstanceIds, StrategyCreateCommand(i) PROVE BuilderInv'
    <3>1. "a name" \in Names
      BY DEF Names
    <3> QED BY <2>2, <3>1, BuilderCreates DEF StrategyCreateCommand, CommandOffers
  <2>3. ASSUME NEW i \in InstanceIds, StrategyUpdateCommand(i) PROVE BuilderInv'
    BY <2>3, BuilderUpdates DEF StrategyUpdateCommand, CommandOffers
  <2>4. ASSUME NEW i \in InstanceIds, NotFound(i) PROVE BuilderInv'
    BY <2>4 DEF NotFound, BuilderInv, StoredIds, Configured, ValidInstance
  <2> QED BY <2>1, <2>2, <2>3, <2>4, BuilderCreates, BuilderUpdates, BuilderSets, BuilderDeletes
      DEF BuilderNext
<1> QED BY <1>1, <1>2, PTL DEF BuilderSpec

\* Whatever updates are made, refused or half made, a stored instance is its template's
\* with parameters the template allows, and no placeholder is left in it
\* (strategy/builder/service.go:75-113).
THEOREM BuiltTheorem == BuilderSpec => []BuiltAsConfigured
<1>1. BuilderInv => BuiltAsConfigured
  <2> SUFFICES ASSUME BuilderInv, NEW i \in StoredIds
               PROVE  LET inst == instances[i] IN
                      /\ validateParameters(inst.template, inst.params)
                      /\ inst.built = Built(inst.template, inst.params)
                      /\ \A part \in {"indicators", "rules"} :
                            \A key \in DOMAIN inst.built[part] : inst.built[part][key] # Placeholder
                      /\ i \notin spoiled => ValidInstance(inst)
    BY DEF BuiltAsConfigured
  <2>1. instances[i] \in StrategyInstances /\ Configured(instances[i])
    BY DEF BuilderInv, StoredIds
  <2>2. instances[i].template \in DOMAIN Templates
    BY <2>1 DEF StrategyInstances
  <2> QED BY <2>1, <2>2, NothingLeftOpen DEF Configured, BuilderInv
<1> QED BY <1>1, BuilderInductive, PTL DEF BuilderSpec

-----------------------------------------------------------------------------
(* The journal *)

JournalEntries == [id : ClientOrderIds, n : Nat]
Lines == Seq(JournalEntries \union {Garbage})

JournalTypes ==
    /\ segments \in [DOMAIN segments -> Lines]
    /\ second \in Nat \ {0} /\ DOMAIN segments \subseteq 0..second
    /\ version \in Nat /\ torn \in BOOLEAN
    /\ journalFile = "open" => 0 \in DOMAIN segments
    /\ acked \in [DOMAIN acked -> Nat] /\ DOMAIN acked \subseteq ClientOrderIds

\* The entries are numbered in the order they were written: along the lines of a segment,
\* from one rotated segment to the next, and from the rotated ones to the active file.
Along(lines, v) ==
    \A k \in DOMAIN lines : lines[k] # Garbage =>
        /\ lines[k].n <= v
        /\ \A j \in DOMAIN lines : j < k /\ lines[j] # Garbage => lines[j].n < lines[k].n
Precedes(lines, more) ==
    \A j \in DOMAIN lines, k \in DOMAIN more :
        lines[j] # Garbage /\ more[k] # Garbage => lines[j].n < more[k].n
Earlier(s, t) == s # 0 /\ (s < t \/ t = 0)

InOrder ==
    /\ \A s \in DOMAIN segments : Along(segments[s], version)
    /\ \A s, t \in DOMAIN segments : Earlier(s, t) => Precedes(segments[s], segments[t])

\* A torn line is the last of the active file, and no entry.
TornSound ==
    torn => /\ 0 \in DOMAIN segments /\ Len(segments[0]) > 0
            /\ segments[0][Len(segments[0])] = Garbage

\* The acknowledged entry of an id that lost nothing is in a segment.
HasEntry(lines, e) == \E k \in DOMAIN lines : lines[k] = e
EntriesKept ==
    \A id \in DOMAIN acked \ lost :
        \E s \in DOMAIN segments : HasEntry(segments[s], [id |-> id, n |-> acked[id]])

JournalInv == JournalTypes /\ InOrder /\ TornSound /\ EntriesKept

LEMMA EntryIsOne ==
  ASSUME NEW id \in ClientOrderIds, NEW n \in Nat
  PROVE  /\ [id |-> id, n |-> n] \in JournalEntries /\ [id |-> id, n |-> n] # Garbage
         /\ [id |-> id, n |-> n].id = id /\ [id |-> id, n |-> n].n = n
BY JournalAssumption DEF JournalEntries

LEMMA NoLines ==
  /\ <<>> \in Lines /\ \A v : Along(<<>>, v)
  /\ \A lines : Precedes(lines, <<>>) /\ Precedes(<<>>, lines)
<1>1. <<>> \in Lines /\ DOMAIN <<>> = {}
  BY DEF Lines
<1> QED BY <1>1 DEF Along, Precedes

\* What the active file is after a line is written.
LEMMA LineWritten ==
  ASSUME JournalTypes, TornSound, 0 \in DOMAIN segments,
         NEW line \in JournalEntries \union {Garbage}, NEW L, L = WithLine(line)
  PROVE  /\ L \in Lines /\ Len(L) > 0 /\ Len(L) \in DOMAIN L
         /\ torn => L[Len(L)] = Garbage
         /\ ~torn => L[Len(L)] = line
         /\ \A k \in DOMAIN L : k = Len(L) \/ (k \in DOMAIN segments[0] /\ L[k] = segments[0][k])
         /\ \A k \in DOMAIN L : k <= Len(L)
         /\ \A k \in DOMAIN segments[0] : segments[0][k] # Garbage =>
               k \in DOMAIN L /\ L[k] = segments[0][k]
<1> DEFINE active == segments[0]
<1>1. active \in Lines
  BY DEF JournalTypes
<1> HIDE DEF active
<1>2. CASE ~torn
  <2>1. L = Append(active, line)
    BY <1>2 DEF WithLine, active
  <2> QED BY <1>1, <1>2, <2>1 DEF Lines, active
<1>3. CASE torn
  <2>1. Len(active) > 0 /\ active[Len(active)] = Garbage
    BY <1>3 DEF TornSound, active
  <2> DEFINE front == Front(active)
  <2>2. front = SubSeq(active, 1, Len(active) - 1)
    BY DEF Front
  <2>3. /\ front \in Lines /\ Len(front) = Len(active) - 1
        /\ \A k \in 1..Len(active) - 1 : front[k] = active[k]
    <3>1. Len(active) \in Nat /\ Len(active) - 1 \in Int /\ 1 \in Int
      BY <1>1 DEF Lines
    <3>2. \A k \in 1..Len(active) - 1 : active[k] \in JournalEntries \union {Garbage}
      BY <1>1, <2>1, <3>1 DEF Lines
    <3>3. /\ front \in Seq(JournalEntries \union {Garbage})
          /\ Len(front) = IF 1 <= Len(active) - 1 THEN Len(active) - 1 - 1 + 1 ELSE 0
          /\ \A k \in 1..Len(active) - 1 - 1 + 1 : front[k] = active[1 + k - 1]
      BY <2>2, <3>1, <3>2, SubSeqProperties
    <3> HIDE DEF front
    <3>4. Len(front) = Len(active) - 1 /\ Len(active) - 1 - 1 + 1 = Len(active) - 1
      <4>1. \A n \in Nat : n > 0 => /\ (IF 1 <= n - 1 THEN n - 1 - 1 + 1 ELSE 0) = n - 1
                                     /\ n - 1 - 1 + 1 = n - 1
        OBVIOUS
      <4> QED BY <2>1, <3>1, <3>3, <4>1
    <3>5. \A k \in 1..Len(active) - 1 : 1 + k - 1 = k
      BY <3>1
    <3>6. \A k \in 1..Len(active) - 1 : front[k] = active[k]
      BY <3>3, <3>4, <3>5
    <3> QED BY <3>3, <3>4, <3>6 DEF Lines
  <2>4. L = Append(front, Garbage)
    BY <1>3 DEF WithLine, active
  <2> HIDE DEF front
  <2>5. /\ L \in Lines /\ Len(L) = Len(active) /\ L[Len(L)] = Garbage
        /\ \A k \in 1..Len(active) - 1 : L[k] = active[k]
    BY <1>1, <2>1, <2>3, <2>4 DEF Lines
  <2>6. DOMAIN L = 1..Len(active) /\ DOMAIN active = 1..Len(active) /\ Len(active) \in Nat
    BY <1>1, <2>5 DEF Lines
  <2> QED BY <1>3, <2>1, <2>5, <2>6 DEF active
<1> QED BY <1>2, <1>3

\* The new line is after all the others, whether it is an entry with the next number or
\* what is left of one.
LEMMA LineIsLast ==
  ASSUME JournalInv, 0 \in DOMAIN segments,
         NEW line \in JournalEntries \union {Garbage}, line # Garbage => line.n = version + 1,
         NEW L, L = WithLine(line)
  PROVE  /\ Along(L, version + 1)
         /\ \A s \in DOMAIN segments : /\ Along(segments[s], version + 1)
                                       /\ s # 0 => Precedes(segments[s], L)
<1>1. /\ L \in Lines /\ Len(L) \in Nat /\ version \in Nat
      /\ \A k \in DOMAIN L : k \in Nat /\ k <= Len(L)
      /\ \A k \in DOMAIN L : \/ k = Len(L) /\ L[k] \in {Garbage, line}
                             \/ k \in DOMAIN segments[0] /\ L[k] = segments[0][k]
  <2>1. L \in Lines
    BY LineWritten DEF JournalInv
  <2> QED BY <2>1, LineWritten DEF JournalInv, JournalTypes, Lines
<1>2. \A s \in DOMAIN segments : \A k \in DOMAIN segments[s] :
         segments[s][k] # Garbage => segments[s][k].n \in Nat /\ segments[s][k].n <= version
  <2>1. \A s \in DOMAIN segments : segments[s] \in Lines
    BY DEF JournalInv, JournalTypes
  <2>2. \A s \in DOMAIN segments : \A k \in DOMAIN segments[s] :
           segments[s][k] \in JournalEntries \union {Garbage}
    BY <2>1 DEF Lines
  <2> QED BY <2>2 DEF JournalInv, InOrder, Along, JournalEntries
<1>3. \A k \in DOMAIN L : L[k] # Garbage =>
        \/ k = Len(L) /\ L[k].n = version + 1
        \/ k \in DOMAIN segments[0] /\ L[k] = segments[0][k] /\ L[k].n \in Nat /\ L[k].n <= version
  BY <1>1, <1>2
<1>4. Along(L, version + 1)
  <2> SUFFICES ASSUME NEW k \in DOMAIN L, L[k] # Garbage
               PROVE  /\ L[k].n <= version + 1
                      /\ \A j \in DOMAIN L : j < k /\ L[j] # Garbage => L[j].n < L[k].n
    BY DEF Along
  <2>1. Along(segments[0], version)
    BY DEF JournalInv, InOrder
  <2>2. L[k].n <= version + 1
    BY <1>1, <1>3
  <2>3. ASSUME NEW j \in DOMAIN L, j < k, L[j] # Garbage PROVE L[j].n < L[k].n
    <3>1. j # Len(L)
      BY <1>1, <2>3
    <3>2. j \in DOMAIN segments[0] /\ L[j] = segments[0][j] /\ L[j].n \in Nat /\ L[j].n <= version
      BY <1>3, <2>3, <3>1
    <3>3. CASE k = Len(L) /\ L[k].n = version + 1
      BY <1>1, <3>2, <3>3
    <3>4. CASE k \in DOMAIN segments[0] /\ L[k] = segments[0][k]
      BY <2>1, <2>3, <3>2, <3>4 DEF Along
    <3> QED BY <1>3, <3>3, <3>4
  <2> QED BY <2>2, <2>3
<1>5. ASSUME NEW s \in DOMAIN segments PROVE Along(segments[s], version + 1)
  <2>1. Along(segments[s], version)
    BY DEF JournalInv, InOrder
  <2>2. \A m \in Nat : m <= version => m <= version + 1
    BY <1>1
  <2> QED BY <1>2, <2>1, <2>2 DEF Along
<1>6. ASSUME NEW s \in DOMAIN segments, s # 0 PROVE Precedes(segments[s], L)
  <2> SUFFICES ASSUME NEW j \in DOMAIN segments[s], NEW k \in DOMAIN L,
                      segments[s][j] # Garbage, L[k] # Garbage
               PROVE  segments[s][j].n < L[k].n
    BY DEF Precedes
  <2>1. segments[s][j].n \in Nat /\ segments[s][j].n <= version
    BY <1>2
  <2>2. CASE L[k].n = version + 1
    BY <1>1, <2>1, <2>2
  <2>3. CASE k \in DOMAIN segments[0] /\ L[k] = segments[0][k]
    <3>1. Precedes(segments[s], segments[0])
      BY <1>6 DEF JournalInv, InOrder, Earlier
    <3> QED BY <2>3, <3>1 DEF Precedes
  <2> QED BY <1>3, <2>2, <2>3
<1> QED BY <1>4, <1>5, <1>6

\* The line goes to the active file.
LEMMA ActiveWritten ==
  ASSUME JournalInv, 0 \in DOMAIN segments,
         NEW line \in JournalEntries \union {Garbage}, line # Garbage => line.n = version + 1,
         NEW L, L = WithLine(line),
         segments' = [segments EXCEPT ![0] = L], version' = version + 1
  PROVE  /\ segments' \in [DOMAIN segments' -> Lines] /\ DOMAIN segments' = DOMAIN segments
         /\ segments'[0] = L /\ InOrder'
         /\ \A s \in DOMAIN segments : \A e \in JournalEntries :
               HasEntry(segments[s], e) => HasEntry(segments'[s], e)
         /\ ~torn => HasEntry(segments'[0], line)
<1>1. L \in Lines /\ segments \in [DOMAIN segments -> Lines]
  BY LineWritten DEF JournalInv, JournalTypes
<1>2. /\ DOMAIN segments' = DOMAIN segments /\ segments'[0] = L
      /\ \A s \in DOMAIN segments : s # 0 => segments'[s] = segments[s]
      /\ segments' \in [DOMAIN segments' -> Lines]
  BY <1>1
<1>3. InOrder'
  <2>1. \A s \in DOMAIN segments : Along(segments'[s], version + 1)
    BY <1>2, LineIsLast
  <2>2. ASSUME NEW s \in DOMAIN segments, NEW t \in DOMAIN segments, Earlier(s, t)
        PROVE  Precedes(segments'[s], segments'[t])
    <3>1. s # 0
      BY <2>2 DEF Earlier
    <3>2. CASE t = 0
      BY <1>2, <3>1, <3>2, LineIsLast
    <3>3. CASE t # 0
      BY <1>2, <2>2, <3>1, <3>3 DEF JournalInv, InOrder
    <3> QED BY <3>2, <3>3
  <2> QED BY <1>2, <2>1, <2>2 DEF InOrder
<1>4. \A e \in JournalEntries : HasEntry(segments[0], e) => HasEntry(L, e)
  <2>1. Garbage \notin JournalEntries
    BY JournalAssumption DEF JournalEntries
  <2> QED BY <2>1, LineWritten DEF HasEntry, JournalInv
<1>5. ~torn => HasEntry(L, line)
  BY LineWritten DEF HasEntry, JournalInv
<1> QED BY <1>2, <1>3, <1>4, <1>5

\* The active file takes the name of the second, in place of a segment of that name.
LEMMA ActiveRenamed ==
  ASSUME JournalInv, 0 \in DOMAIN segments,
         NEW line \in JournalEntries \union {Garbage}, line # Garbage => line.n = version + 1,
         NEW L, L = WithLine(line),
         NEW D, D = DOMAIN segments \union {second} \/ D = (DOMAIN segments \union {second}) \ {0},
         segments' = [s \in D |-> IF s = 0 THEN <<>> ELSE IF s = second THEN L ELSE segments[s]],
         version' = version + 1
  PROVE  /\ segments' \in [DOMAIN segments' -> Lines] /\ DOMAIN segments' = D /\ D \subseteq 0..second
         /\ InOrder'
         /\ \A s \in DOMAIN segments : s # second =>
               \A e \in JournalEntries : HasEntry(segments[s], e) =>
                  \E t \in D : HasEntry(segments'[t], e)
         /\ ~torn => HasEntry(segments'[second], line) /\ second \in D
<1>1. /\ L \in Lines /\ segments \in [DOMAIN segments -> Lines] /\ second \in Nat /\ second # 0
      /\ DOMAIN segments \subseteq 0..second
  BY LineWritten DEF JournalInv, JournalTypes
<1>2. /\ DOMAIN segments' = D /\ second \in D /\ segments'[second] = L
      /\ \A s \in D : s # 0 /\ s # second => s \in DOMAIN segments /\ segments'[s] = segments[s]
      /\ 0 \in D => segments'[0] = <<>>
      /\ D \subseteq 0..second
      /\ \A s \in DOMAIN segments : s # 0 => s \in D
  BY <1>1
<1>3. segments' \in [DOMAIN segments' -> Lines]
  <2>1. \A s \in D : segments'[s] \in Lines
    BY <1>1, <1>2, NoLines
  <2> QED BY <1>2, <2>1
<1>4. InOrder'
  <2>1. ASSUME NEW s \in D PROVE Along(segments'[s], version + 1)
    <3>1. CASE s = 0
      BY <1>2, <3>1, NoLines
    <3>2. CASE s # 0
      BY <1>2, <3>2, LineIsLast
    <3> QED BY <3>1, <3>2
  <2>2. ASSUME NEW s \in D, NEW t \in D, Earlier(s, t)
        PROVE  Precedes(segments'[s], segments'[t])
    <3>1. s # 0
      BY <2>2 DEF Earlier
    <3>2. CASE t = 0
      BY <1>2, <3>2, NoLines
    <3>3. CASE t # 0
      <4>1. s < t /\ s <= second /\ t <= second /\ s \in Nat /\ t \in Nat
        BY <1>1, <1>2, <2>2, <3>3 DEF Earlier
      <4>2. s # second
        BY <1>1, <4>1
      <4>3. CASE t = second
        BY <1>2, <3>1, <4>2, <4>3, LineIsLast
      <4>4. CASE t # second
        BY <1>2, <2>2, <3>1, <3>3, <4>2, <4>4 DEF JournalInv, InOrder
      <4> QED BY <4>3, <4>4
    <3> QED BY <3>2, <3>3
  <2> QED BY <1>2, <2>1, <2>2 DEF InOrder
<1>5. \A e \in JournalEntries : HasEntry(segments[0], e) => HasEntry(L, e)
  <2>1. Garbage \notin JournalEntries
    BY JournalAssumption DEF JournalEntries
  <2> QED BY <2>1, LineWritten DEF HasEntry, JournalInv
<1>6. ~torn => HasEntry(L, line)
  BY LineWritten DEF HasEntry, JournalInv
<1>7. ASSUME NEW s \in DOMAIN segments, s # second, NEW e \in JournalEntries,
             HasEntry(segments[s], e)
      PROVE  \E t \in D : HasEntry(segments'[t], e)
  <2>1. CASE s = 0
    BY <1>2, <1>5, <1>7, <2>1
  <2>2. CASE s # 0
    BY <1>2, <1>7, <2>2
  <2> QED BY <2>1, <2>2
<1> QED BY <1>2, <1>3, <1>4, <1>6, <1>7

\* An id with an entry in the segment that is replaced is among the replaced.
LEMMA ReplacedIds ==
  ASSUME NEW id \in ClientOrderIds, NEW n \in Nat, id \notin Replaced,
         NEW s \in DOMAIN segments, HasEntry(segments[s], [id |-> id, n |-> n])
  PROVE  s # second
<1> SUFFICES ASSUME s = second PROVE FALSE
  OBVIOUS
<1>1. PICK k \in DOMAIN segments[s] : segments[s][k] = [id |-> id, n |-> n]
  BY DEF HasEntry
<1>2. segments[s][k] # Garbage /\ segments[s][k].id = id
  BY <1>1, EntryIsOne
<1>3. id \in IdsOf(segments[s])
  BY <1>2 DEF IdsOf
<1> QED BY <1>3 DEF Replaced

LEMMA JournalAppends ==
  ASSUME JournalInv, NEW id \in ClientOrderIds, AppendEntry(id)
  PROVE  JournalInv'
<1> DEFINE L == WithLine(Entry(id))
           gone == IF Len(L) >= SegmentLines THEN Replaced ELSE {}
<1>1. /\ journalFile = "open" /\ version' = version + 1 /\ torn' = FALSE
      /\ segments' = IF Len(L) >= SegmentLines THEN Renamed(L) ELSE [segments EXCEPT ![0] = L]
      /\ acked' = [i \in DOMAIN acked \union {id} |-> IF i = id THEN version + 1 ELSE acked[i]]
      /\ lost' = (lost \ {id}) \union gone \union (IF torn THEN {id} ELSE {})
      /\ UNCHANGED <<journalFile, second>>
  BY DEF AppendEntry
<1>2. /\ 0 \in DOMAIN segments /\ version \in Nat /\ version + 1 \in Nat /\ second \in Nat \ {0}
      /\ acked \in [DOMAIN acked -> Nat] /\ DOMAIN acked \subseteq ClientOrderIds
  BY <1>1 DEF JournalInv, JournalTypes
<1> DEFINE line == Entry(id)
<1>3. line \in JournalEntries /\ line # Garbage /\ line.n = version + 1 /\ line = [id |-> id, n |-> version + 1]
  BY <1>2, EntryIsOne DEF Entry
<1> HIDE DEF line
<1>4. L = WithLine(line)
  BY DEF line
<1>5. acked' \in [DOMAIN acked' -> Nat] /\ DOMAIN acked' = DOMAIN acked \union {id}
      /\ acked'[id] = version + 1 /\ \A i \in DOMAIN acked : i # id => acked'[i] = acked[i]
  BY <1>1, <1>2
<1> HIDE DEF L
<1>6. /\ segments' \in [DOMAIN segments' -> Lines] /\ 0 \in DOMAIN segments'
      /\ DOMAIN segments' \subseteq 0..second /\ InOrder'
      /\ ~torn => \E t \in DOMAIN segments' : HasEntry(segments'[t], line)
      /\ \A i \in ClientOrderIds, n \in Nat : i \notin gone =>
            \A s \in DOMAIN segments : HasEntry(segments[s], [id |-> i, n |-> n]) =>
               \E t \in DOMAIN segments' : HasEntry(segments'[t], [id |-> i, n |-> n])
  <2>1. CASE Len(L) >= SegmentLines
    <3> DEFINE D == DOMAIN segments \union {second}
    <3>1. segments' = [s \in D |-> IF s = 0 THEN <<>> ELSE IF s = second THEN L ELSE segments[s]]
      BY <1>1, <2>1 DEF Renamed
    <3>2. D = DOMAIN segments \union {second} \/ D = (DOMAIN segments \union {second}) \ {0}
      OBVIOUS
    <3>3. 0 \in D
      BY <1>2
    <3> HIDE DEF D
    <3>4. /\ segments' \in [DOMAIN segments' -> Lines] /\ DOMAIN segments' = D /\ D \subseteq 0..second
          /\ InOrder'
          /\ \A s \in DOMAIN segments : s # second =>
                \A e \in JournalEntries : HasEntry(segments[s], e) =>
                   \E t \in D : HasEntry(segments'[t], e)
          /\ ~torn => HasEntry(segments'[second], line) /\ second \in D
      BY <1>1, <1>2, <1>3, <1>4, <3>1, <3>2, ActiveRenamed
    <3>5. ASSUME NEW i \in ClientOrderIds, NEW n \in Nat, i \notin gone, NEW s \in DOMAIN segments,
                 HasEntry(segments[s], [id |-> i, n |-> n])
          PROVE  \E t \in DOMAIN segments' : HasEntry(segments'[t], [id |-> i, n |-> n])
      <4>1. s # second
        BY <2>1, <3>5, ReplacedIds
      <4>2. [id |-> i, n |-> n] \in JournalEntries
        BY EntryIsOne
      <4> QED BY <3>4, <3>5, <4>1, <4>2
    <3> QED BY <3>3, <3>4, <3>5
  <2>2. CASE ~(Len(L) >= SegmentLines)
    <3>1. segments' = [segments EXCEPT ![0] = L]
      BY <1>1, <2>2
    <3>2. /\ segments' \in [DOMAIN segments' -> Lines] /\ DOMAIN segments' = DOMAIN segments
          /\ InOrder'
          /\ \A s \in DOMAIN segments : \A e \in JournalEntries :
                HasEntry(segments[s], e) => HasEntry(segments'[s], e)
          /\ ~torn => HasEntry(segments'[0], line)
      BY <1>1, <1>2, <1>3, <1>4, <3>1, ActiveWritten
    <3>3. DOMAIN segments \subseteq 0..second
      BY DEF JournalInv, JournalTypes
    <3> QED BY <1>2, <3>2, <3>3, EntryIsOne
  <2> QED BY <2>1, <2>2
<1>7. JournalTypes'
  BY <1>1, <1>2, <1>5, <1>6 DEF JournalInv, JournalTypes
<1>8. EntriesKept'
  <2> SUFFICES ASSUME NEW i \in DOMAIN acked', i \notin lost'
               PROVE  \E t \in DOMAIN segments' : HasEntry(segments'[t], [id |-> i, n |-> acked'[i]])
    BY DEF EntriesKept
  <2>1. i \notin gone /\ i \in ClientOrderIds
    BY <1>1, <1>2, <1>5
  <2>2. CASE i = id
    <3>1. ~torn
      BY <1>1, <2>2
    <3> QED BY <1>3, <1>5, <1>6, <2>2, <3>1
  <2>3. CASE i # id
    <3>1. i \in DOMAIN acked /\ i \notin lost /\ acked'[i] = acked[i] /\ acked[i] \in Nat
      BY <1>1, <1>2, <1>5, <2>3
    <3>2. PICK s \in DOMAIN segments : HasEntry(segments[s], [id |-> i, n |-> acked[i]])
      BY <3>1 DEF JournalInv, EntriesKept
    <3> QED BY <1>6, <2>1, <3>1, <3>2
  <2> QED BY <2>2, <2>3
<1> QED BY <1>1, <1>6, <1>7, <1>8 DEF JournalInv, TornSound

LEMMA JournalBreaks ==
  ASSUME JournalInv, NEW id \in ClientOrderIds, AppendBreaks(id)
  PROVE  JournalInv'
<1>1. PICK whole \in BOOLEAN :
        /\ segments' = [segments EXCEPT ![0] = WithLine(IF whole THEN Entry(id) ELSE Garbage)]
        /\ torn' = ~whole
  BY DEF AppendBreaks
<1>2. /\ journalFile = "open" /\ version' = version + 1 /\ UNCHANGED <<second, acked, lost>>
      /\ 0 \in DOMAIN segments /\ version \in Nat /\ version + 1 \in Nat
      /\ DOMAIN segments \subseteq 0..second
      /\ acked \in [DOMAIN acked -> Nat] /\ DOMAIN acked \subseteq ClientOrderIds
  BY DEF AppendBreaks, JournalInv, JournalTypes
<1> DEFINE line == IF whole THEN Entry(id) ELSE Garbage
           L == WithLine(line)
<1>3. /\ line \in JournalEntries \union {Garbage} /\ (line # Garbage => line.n = version + 1)
      /\ ~whole => line = Garbage
  BY <1>2, EntryIsOne DEF Entry
<1>4. segments' = [segments EXCEPT ![0] = L]
  BY <1>1
<1> HIDE DEF line
<1>5. L = WithLine(line)
  OBVIOUS
<1> HIDE DEF L
<1>6. /\ segments' \in [DOMAIN segments' -> Lines] /\ DOMAIN segments' = DOMAIN segments
      /\ segments'[0] = L /\ InOrder'
      /\ \A s \in DOMAIN segments : \A e \in JournalEntries :
            HasEntry(segments[s], e) => HasEntry(segments'[s], e)
  BY <1>2, <1>3, <1>4, <1>5, ActiveWritten
<1>7. Len(L) > 0 /\ (~whole => L[Len(L)] = Garbage)
  BY <1>2, <1>3, <1>5, LineWritten DEF JournalInv
<1>8. JournalTypes'
  BY <1>1, <1>2, <1>6 DEF JournalInv, JournalTypes
<1>9. EntriesKept'
  BY <1>2, <1>6, EntryIsOne DEF JournalInv, EntriesKept
<1> QED BY <1>1, <1>2, <1>6, <1>7, <1>8, <1>9 DEF JournalInv, TornSound

LEMMA JournalRotationFails ==
  ASSUME JournalInv, NEW id \in ClientOrderIds, RotationFails(id)
  PROVE  JournalInv'
<1> DEFINE line == Entry(id)
           L == WithLine(line)
           D == (DOMAIN segments \union {second}) \ {0}
<1>1. /\ journalFile = "open" /\ version' = version + 1 /\ torn' = FALSE
      /\ journalFile' = "closed" /\ UNCHANGED <<second, acked>>
      /\ \/ segments' = [segments EXCEPT ![0] = L] /\ UNCHANGED lost
         \/ /\ segments' = [s \in D |-> IF s = second THEN L ELSE segments[s]]
            /\ lost' = lost \union Replaced
  BY DEF RotationFails
<1>2. /\ 0 \in DOMAIN segments /\ version \in Nat /\ version + 1 \in Nat
      /\ DOMAIN segments \subseteq 0..second
      /\ acked \in [DOMAIN acked -> Nat] /\ DOMAIN acked \subseteq ClientOrderIds
  BY <1>1 DEF JournalInv, JournalTypes
<1>3. line \in JournalEntries \union {Garbage} /\ line.n = version + 1
  BY <1>2, EntryIsOne DEF Entry
<1> HIDE DEF line
<1>4. L = WithLine(line)
  OBVIOUS
<1> HIDE DEF L
<1>5. CASE segments' = [segments EXCEPT ![0] = L] /\ UNCHANGED lost
  <2>1. /\ segments' \in [DOMAIN segments' -> Lines] /\ DOMAIN segments' = DOMAIN segments
        /\ InOrder'
        /\ \A s \in DOMAIN segments : \A e \in JournalEntries :
              HasEntry(segments[s], e) => HasEntry(segments'[s], e)
    BY <1>1, <1>2, <1>3, <1>4, <1>5, ActiveWritten
  <2>2. JournalTypes'
    BY <1>1, <1>2, <2>1 DEF JournalInv, JournalTypes
  <2>3. EntriesKept'
    BY <1>1, <1>2, <1>5, <2>1, EntryIsOne DEF JournalInv, EntriesKept
  <2> QED BY <1>1, <2>1, <2>2, <2>3 DEF JournalInv, TornSound
<1>6. CASE segments' = [s \in D |-> IF s = second THEN L ELSE segments[s]]
           /\ lost' = lost \union Replaced
  <2>1. segments' = [s \in D |-> IF s = 0 THEN <<>> ELSE IF s = second THEN L ELSE segments[s]]
    BY <1>6
  <2>2. D = DOMAIN segments \union {second} \/ D = (DOMAIN segments \union {second}) \ {0}
    OBVIOUS
  <2> HIDE DEF D
  <2>3. /\ segments' \in [DOMAIN segments' -> Lines] /\ DOMAIN segments' = D /\ D \subseteq 0..second
        /\ InOrder'
        /\ \A s \in DOMAIN segments : s # second =>
              \A e \in JournalEntries : HasEntry(segments[s], e) =>
                 \E t \in D : HasEntry(segments'[t], e)
    BY <1>1, <1>2, <1>3, <1>4, <2>1, <2>2, ActiveRenamed
  <2>4. JournalTypes'
    BY <1>1, <1>2, <2>3 DEF JournalInv, JournalTypes
  <2>5. EntriesKept'
    <3> SUFFICES ASSUME NEW i \in DOMAIN acked, i \notin lost, i \notin Replaced
                 PROVE  \E t \in D : HasEntry(segments'[t], [id |-> i, n |-> acked[i]])
      BY <1>1, <1>6, <2>3 DEF EntriesKept
    <3>1. i \in ClientOrderIds /\ acked[i] \in Nat
      BY <1>2
    <3>2. PICK s \in DOMAIN segments : HasEntry(segments[s], [id |-> i, n |-> acked[i]])
      BY DEF JournalInv, EntriesKept
    <3>3. s # second
      BY <3>1, <3>2, ReplacedIds
    <3> QED BY <2>3, <3>1, <3>2, <3>3, EntryIsOne
  <2> QED BY <1>1, <2>3, <2>4, <2>5 DEF JournalInv, TornSound
<1> QED BY <1>1, <1>5, <1>6

\* A truncation that removed nothing leaves the active file as it was; any other removed
\* it first.
LEMMA JournalTruncates ==
  ASSUME JournalInv, NEW k \in Nat, TruncateAfterReconciliation(k)
  PROVE  JournalInv'
<1> DEFINE some == DOMAIN segments \ FirstNames(k)
<1>1. /\ journalFile = "open" /\ acked' = <<>> /\ lost' = {} /\ UNCHANGED <<second, version>>
      /\ torn' = (torn /\ k = 0)
      /\ \/ k = Cardinality(DOMAIN segments) /\ segments' = [s \in {0} |-> <<>>]
         \/ /\ k = Cardinality(DOMAIN segments) /\ segments' = <<>> /\ journalFile' = "closed"
         \/ segments' = [s \in some |-> segments[s]] /\ journalFile' \in {"closed", "down"}
  BY DEF TruncateAfterReconciliation
<1>2. /\ 0 \in DOMAIN segments /\ DOMAIN segments \subseteq 0..second /\ second \in Nat \ {0}
      /\ version \in Nat /\ torn \in BOOLEAN
      /\ \A s \in DOMAIN segments : segments[s] \in Lines
  BY <1>1 DEF JournalInv, JournalTypes
<1>3. IsFiniteSet(DOMAIN segments)
  <2>1. IsFiniteSet(0..second)
    BY <1>2, FS_Interval
  <2> QED BY <1>2, <2>1, FS_Subset
<1>4. Cardinality(DOMAIN segments) # 0
  BY <1>2, <1>3, FS_EmptySet
<1>5. FirstNames(0) = {}
  <2> SUFFICES ASSUME NEW s \in DOMAIN segments
               PROVE  ~(Cardinality({t \in DOMAIN segments : t < s}) < 0)
    BY DEF FirstNames
  <2> DEFINE below == {t \in DOMAIN segments : t < s}
  <2>1. IsFiniteSet(below)
    BY <1>3, FS_Subset
  <2>2. Cardinality(below) \in Nat
    BY <2>1, FS_CardinalityType
  <2> HIDE DEF below
  <2>3. ~(Cardinality(below) < 0)
    BY <2>2
  <2> QED BY <2>3 DEF below
<1>6. acked' \in [DOMAIN acked' -> Nat] /\ DOMAIN acked' = {}
  BY <1>1
<1>7. CASE k = Cardinality(DOMAIN segments) /\ segments' = [s \in {0} |-> <<>>]
  <2>1. /\ DOMAIN segments' = {0} /\ segments'[0] = <<>>
        /\ segments' \in [DOMAIN segments' -> Lines]
    BY <1>7, NoLines
  <2>2. InOrder'
    BY <2>1, NoLines DEF InOrder
  <2>3. {0} \subseteq 0..second
    BY <1>2
  <2> QED BY <1>1, <1>2, <1>4, <1>6, <1>7, <2>1, <2>2, <2>3
          DEF JournalInv, JournalTypes, TornSound, EntriesKept
<1>8. CASE k = Cardinality(DOMAIN segments) /\ segments' = <<>> /\ journalFile' = "closed"
  <2>1. DOMAIN segments' = {} /\ segments' \in [DOMAIN segments' -> Lines]
    BY <1>8
  <2> QED BY <1>1, <1>2, <1>4, <1>6, <1>8, <2>1
          DEF JournalInv, JournalTypes, InOrder, TornSound, EntriesKept
<1>9. CASE segments' = [s \in some |-> segments[s]] /\ journalFile' \in {"closed", "down"}
  <2>1. /\ DOMAIN segments' = some /\ some \subseteq DOMAIN segments
        /\ \A s \in some : segments'[s] = segments[s]
        /\ segments' \in [DOMAIN segments' -> Lines]
    BY <1>2, <1>9
  <2>2. k = 0 => some = DOMAIN segments
    BY <1>5
  <2> HIDE DEF some
  <2>3. InOrder'
    BY <1>1, <2>1 DEF JournalInv, InOrder
  <2>4. TornSound'
    BY <1>1, <1>2, <2>1, <2>2 DEF JournalInv, TornSound
  <2>5. JournalTypes'
    BY <1>1, <1>2, <1>6, <1>9, <2>1 DEF JournalTypes
  <2> QED BY <1>6, <2>3, <2>4, <2>5 DEF JournalInv, EntriesKept
<1> QED BY <1>1, <1>7, <1>8, <1>9

LEMMA JournalOpens ==
  ASSUME JournalInv, OpenJournal
  PROVE  JournalInv'
<1> DEFINE D == DOMAIN segments \union {0}
<1>1. /\ segments' = [s \in D |-> IF s \in DOMAIN segments THEN segments[s] ELSE <<>>]
      /\ UNCHANGED <<torn, second, version, acked, lost>>
  BY DEF OpenJournal
<1>2. /\ \A s \in DOMAIN segments : segments[s] \in Lines
      /\ DOMAIN segments \subseteq 0..second /\ second \in Nat
  BY DEF JournalInv, JournalTypes
<1>3. /\ DOMAIN segments' = D /\ 0 \in D /\ DOMAIN segments \subseteq D /\ D \subseteq 0..second
      /\ \A s \in DOMAIN segments : segments'[s] = segments[s]
      /\ \A s \in D : s \in DOMAIN segments \/ segments'[s] = <<>>
      /\ segments' \in [DOMAIN segments' -> Lines]
  <2>1. \A s \in D : segments'[s] \in Lines
    BY <1>1, <1>2, NoLines
  <2> QED BY <1>1, <1>2, <2>1, SMTT(30)
<1> HIDE DEF D
<1>4. InOrder'
  <2>1. \A s \in D : Along(segments'[s], version)
    BY <1>3, NoLines DEF JournalInv, InOrder
  <2>2. \A s, t \in D : Earlier(s, t) => Precedes(segments'[s], segments'[t])
    BY <1>3, NoLines DEF JournalInv, InOrder
  <2> QED BY <1>1, <1>3, <2>1, <2>2 DEF InOrder
<1>5. TornSound'
  BY <1>1, <1>3 DEF JournalInv, TornSound
<1>6. EntriesKept'
  BY <1>1, <1>3 DEF JournalInv, EntriesKept
<1> QED BY <1>1, <1>3, <1>4, <1>5, <1>6 DEF JournalInv, JournalTypes

\* The journal's state between two calls.
LEMMA JournalInductive == JournalSpec => []JournalInv
<1>1. JournalInit => JournalInv
  <2> SUFFICES ASSUME JournalInit PROVE JournalInv
    OBVIOUS
  <2>1. /\ DOMAIN segments = {0} /\ segments[0] = <<>> /\ second = 1 /\ version = 0
        /\ acked = <<>> /\ torn = FALSE
        /\ segments \in [DOMAIN segments -> Lines]
    BY NoLines DEF JournalInit
  <2>2. InOrder
    BY <2>1, NoLines DEF InOrder
  <2>3. acked \in [DOMAIN acked -> Nat] /\ DOMAIN acked = {}
    BY <2>1
  <2> QED BY <2>1, <2>2, <2>3 DEF JournalInv, JournalTypes, TornSound, EntriesKept
<1>2. JournalInv /\ [JournalNext]_journalVars => JournalInv'
  <2> SUFFICES ASSUME JournalInv, [JournalNext]_journalVars PROVE JournalInv'
    OBVIOUS
  <2>1. CASE \E id \in ClientOrderIds : AppendEntry(id)
    BY <2>1, JournalAppends
  <2>2. CASE \E id \in ClientOrderIds : AppendBreaks(id)
    BY <2>2, JournalBreaks
  <2>3. CASE \E id \in ClientOrderIds : RotationFails(id)
    BY <2>3, JournalRotationFails
  <2>4. CASE \E k \in 0..(MaxSeconds + 1) : TruncateAfterReconciliation(k)
    BY <2>4, JournalTruncates
  <2>5. CASE CloseJournal
    BY <2>5 DEF CloseJournal, JournalInv, JournalTypes, InOrder, TornSound, EntriesKept
  <2>6. CASE OpenJournal
    BY <2>6, JournalOpens
  <2>7. CASE NextSecond
    <3>1. \A m \in Nat : 0..m \subseteq 0..(m + 1) /\ m + 1 \in Nat \ {0}
      OBVIOUS
    <3>2. second' \in Nat \ {0} /\ 0..second \subseteq 0..second'
      BY <2>7, <3>1 DEF NextSecond, JournalInv, JournalTypes
    <3> QED BY <2>7, <3>2 DEF NextSecond, JournalInv, JournalTypes, InOrder, TornSound, EntriesKept
  <2>8. CASE UNCHANGED journalVars
    BY <2>8 DEF journalVars, JournalInv, JournalTypes, InOrder, TornSound, EntriesKept
  <2> QED BY <2>1, <2>2, <2>3, <2>4, <2>5, <2>6, <2>7, <2>8 DEF JournalNext
<1> QED BY <1>1, <1>2, PTL DEF JournalSpec

LEMMA MaxIsGreatest ==
  ASSUME NEW n \in Nat, NEW T, T \subseteq 0..n, T # {}
  PROVE  Max(T) \in T /\ \A y \in T : y <= Max(T)
<1>1. PICK x \in T : \A y \in T : y <= x
  BY Greatest
<1>2. \E z \in T : \A y \in T : z >= y
  BY <1>1
<1>3. Max(T) \in T /\ \A y \in T : Max(T) >= y
  BY <1>2 DEF Max
<1> QED BY <1>3

\* What a replay returns of an id: the last of its lines in the last segment that has any.
LEMMA ReplayOf ==
  ASSUME JournalInv, NEW id \in ClientOrderIds, NEW s \in DOMAIN segments,
         NEW k \in DOMAIN segments[s], segments[s][k] # Garbage, segments[s][k].id = id
  PROVE  /\ id \in DOMAIN Replay
         /\ \E top \in DOMAIN segments : \E last \in DOMAIN segments[top] :
               /\ segments[top][last] # Garbage /\ segments[top][last].id = id
               /\ Replay[id] = segments[top][last].n
               /\ s <= top /\ (s = top => k <= last)
<1> DEFINE holding == {t \in DOMAIN segments : LinesOf(id, segments[t]) # {}}
           top == Max(holding)
           lines == LinesOf(id, segments[top])
           last == Max(lines)
<1>1. second \in Nat /\ DOMAIN segments \subseteq 0..second /\ \A t \in DOMAIN segments : segments[t] \in Lines
  BY DEF JournalInv, JournalTypes
<1>2. k \in LinesOf(id, segments[s])
  BY DEF LinesOf
<1>3. s \in holding /\ holding \subseteq 0..second
  BY <1>1, <1>2
<1>4. top \in holding /\ s <= top
  <2> HIDE DEF holding
  <2> QED BY <1>1, <1>3, MaxIsGreatest
<1>5. top \in DOMAIN segments /\ lines # {}
  BY <1>4
<1>6. Len(segments[top]) \in Nat /\ lines \subseteq 0..Len(segments[top])
      /\ \A j \in lines : /\ j \in DOMAIN segments[top]
                          /\ segments[top][j] # Garbage /\ segments[top][j].id = id
  <2>1. \A j \in lines : /\ j \in DOMAIN segments[top]
                          /\ segments[top][j] # Garbage /\ segments[top][j].id = id
    BY DEF LinesOf
  <2> HIDE DEF lines, top
  <2>2. Len(segments[top]) \in Nat /\ DOMAIN segments[top] = 1..Len(segments[top])
    BY <1>1, <1>5 DEF Lines
  <2> QED BY <2>1, <2>2
<1>7. last \in lines /\ \A j \in lines : j <= last
  <2> HIDE DEF lines
  <2> QED BY <1>5, <1>6, MaxIsGreatest
<1>8. s = top => k <= last
  BY <1>2, <1>7
<1>9. id \in UNION {IdsOf(segments[t]) : t \in ReplayFiles}
  BY DEF ReplayFiles, IdsOf
<1>10. id \in DOMAIN Replay /\ Replay[id] = segments[top][last].n
  BY <1>9 DEF Replay, ReplayFiles
<1> HIDE DEF top, last
<1> QED BY <1>4, <1>5, <1>6, <1>7, <1>8, <1>10

\* However entries, broken writes, rotations, failed rotations, truncations and restarts
\* follow one another, a replay finds every intent whose append returned nil unless its
\* line was lost, and its last entry unless that one is in the active file with an older
\* one in a rotated segment (journal/journal.go:57-93, 96-126).
THEOREM ReplayTheorem == JournalSpec => []JournalReplays
<1>1. JournalInv => JournalReplays
  <2> SUFFICES ASSUME JournalInv, NEW id \in DOMAIN acked \ lost
               PROVE  /\ id \in DOMAIN Replay
                      /\ \/ Replay[id] >= acked[id]
                         \/ /\ 0 \in DOMAIN segments
                            /\ \E k \in DOMAIN segments[0] :
                                  segments[0][k] = [id |-> id, n |-> acked[id]]
                            /\ \E s \in DOMAIN segments \ {0} : id \in IdsOf(segments[s])
    BY DEF JournalReplays
  <2>1. id \in ClientOrderIds /\ acked[id] \in Nat /\ second \in Nat /\ DOMAIN segments \subseteq 0..second
    <3>1. DOMAIN acked \subseteq ClientOrderIds /\ acked \in [DOMAIN acked -> Nat]
      BY DEF JournalInv, JournalTypes
    <3>2. second \in Nat /\ DOMAIN segments \subseteq 0..second
      BY DEF JournalInv, JournalTypes
    <3> QED BY <3>1, <3>2
  <2>2. PICK s \in DOMAIN segments : HasEntry(segments[s], [id |-> id, n |-> acked[id]])
    BY DEF JournalInv, EntriesKept
  <2> PICK k \in DOMAIN segments[s] : segments[s][k] = [id |-> id, n |-> acked[id]]
    BY <2>2 DEF HasEntry
  <2>3. segments[s][k] # Garbage /\ segments[s][k].id = id /\ segments[s][k].n = acked[id]
    BY <2>1, <2>2, EntryIsOne
  <2>4. id \in DOMAIN Replay
    BY <2>1, <2>3, ReplayOf
  <2> PICK top \in DOMAIN segments : \E last \in DOMAIN segments[top] :
           /\ segments[top][last] # Garbage /\ segments[top][last].id = id
           /\ Replay[id] = segments[top][last].n
           /\ s <= top /\ (s = top => k <= last)
    BY <2>1, <2>3, ReplayOf
  <2>5. PICK last \in DOMAIN segments[top] :
           /\ segments[top][last] # Garbage /\ segments[top][last].id = id
           /\ Replay[id] = segments[top][last].n
           /\ s <= top /\ (s = top => k <= last)
    OBVIOUS
  <2>6. segments[top][last].n \in Nat
    <3>1. segments[top] \in Lines
      BY DEF JournalInv, JournalTypes
    <3>2. segments[top][last] \in JournalEntries \union {Garbage}
      BY <3>1 DEF Lines
    <3> QED BY <2>5, <3>2 DEF JournalEntries
  <2>7. CASE s = top
    <3>1. Along(segments[top], version)
      BY DEF JournalInv, InOrder
    <3>2. k \in Nat /\ last \in Nat
      BY <2>7 DEF JournalInv, JournalTypes, Lines
    <3>3. CASE k = last
      BY <2>1, <2>3, <2>4, <2>5, <2>7, <3>3
    <3>4. CASE k < last
      <4>1. acked[id] < segments[top][last].n
        BY <2>3, <2>5, <2>7, <3>1, <3>4 DEF Along
      <4> QED BY <2>1, <2>4, <2>5, <2>6, <4>1
    <3> QED BY <2>5, <2>7, <3>2, <3>3, <3>4
  <2>8. CASE s # top /\ s # 0
    <3>1. Earlier(s, top)
      BY <2>1, <2>5, <2>8 DEF Earlier
    <3>2. acked[id] < segments[top][last].n
      BY <2>3, <2>5, <3>1 DEF JournalInv, InOrder, Precedes
    <3> QED BY <2>1, <2>4, <2>5, <2>6, <3>2
  <2>9. CASE s # top /\ s = 0
    <3>1. id \in IdsOf(segments[top])
      BY <2>5 DEF IdsOf
    <3> QED BY <2>4, <2>9, <3>1
  <2> QED BY <2>7, <2>8, <2>9
<1> QED BY <1>1, JournalInductive, PTL

-----------------------------------------------------------------------------
(* The backtest *)

\* A set of subsets of a finite set has one that leaves it with any of its elements.
LEMMA SmallestSubset ==
  ASSUME NEW D, IsFiniteSet(D), NEW Bad, Bad \subseteq SUBSET D, Bad # {}
  PROVE  \E s \in Bad : \A x \in s : s \ {x} \notin Bad
<1> DEFINE N == {Cardinality(s) : s \in Bad}
<1>1. \A s \in SUBSET D : IsFiniteSet(s) /\ Cardinality(s) \in Nat
  BY FS_Subset, FS_CardinalityType
<1>2. N \subseteq Nat /\ N # {}
  BY <1>1
<1>3. PICK n \in N : \A m \in N : ~(m < n)
  <2> HIDE DEF N
  <2> QED BY <1>2, Least
<1>4. PICK s \in Bad : n = Cardinality(s)
  OBVIOUS
<1>5. ASSUME NEW x \in s, s \ {x} \in Bad PROVE FALSE
  <2>1. Cardinality(s \ {x}) = Cardinality(s) - 1
    BY <1>1, FS_RemoveElement
  <2>2. Cardinality(s \ {x}) \in N
    BY <1>5
  <2>3. \A m \in Nat : m - 1 < m
    OBVIOUS
  <2> QED BY <1>1, <1>3, <1>4, <2>1, <2>2, <2>3
<1> QED BY <1>4, <1>5

\* The fold of AtEntry: what the positions of a set cost.
CostOf(p, s) == p[s].qty * p[s].entry * Unit
EntryStep(p, g, t) ==
    IF t = {} THEN 0 ELSE LET x == CHOOSE x \in t : TRUE IN CostOf(p, x) + g[t \ {x}]
IsSum(p, g, D) == g = [t \in SUBSET D |-> EntryStep(p, g, t)]

LEMMA SumExists ==
  ASSUME NEW p, NEW D, IsFiniteSet(D)
  PROVE  \E g : IsSum(p, g, D)
<1> DEFINE Small(n) == {t \in SUBSET D : Cardinality(t) <= n}
           SumTo(n, g) == g = [t \in Small(n) |-> EntryStep(p, g, t)]
           Bad == {n \in Nat : ~\E g : SumTo(n, g)}
<1>1. \A t \in SUBSET D : /\ IsFiniteSet(t) /\ Cardinality(t) \in Nat
                          /\ Cardinality(t) <= Cardinality(D)
                          /\ Cardinality(t) = 0 <=> t = {}
  BY FS_Subset, FS_CardinalityType, FS_EmptySet
<1>2. \A t \in SUBSET D : \A x \in t : t \ {x} \in SUBSET D /\ Cardinality(t \ {x}) = Cardinality(t) - 1
  BY <1>1, FS_RemoveElement
<1>3. Bad = {}
  <2> SUFFICES ASSUME Bad # {} PROVE FALSE
    OBVIOUS
  <2>1. PICK n \in Bad : \A m \in Bad : ~(m < n)
    <3>1. Bad \subseteq Nat
      OBVIOUS
    <3> HIDE DEF Bad
    <3> QED BY <3>1, Least
  <2>2. n \in Nat /\ ~\E g : SumTo(n, g)
    BY <2>1
  <2>3. CASE n = 0
    <3> DEFINE g == [t \in Small(n) |-> 0]
    <3>1. \A t \in Small(n) : t = {}
      BY <1>1, <2>3
    <3>2. \A t \in Small(n) : EntryStep(p, g, t) = 0
      BY <3>1 DEF EntryStep
    <3>3. SumTo(n, g)
      BY <3>2
    <3> QED BY <2>2, <3>3
  <2>4. CASE n # 0
    <3>1. n - 1 \in Nat /\ n - 1 < n
      BY <2>2, <2>4
    <3>2. PICK h : SumTo(n - 1, h)
      BY <2>1, <3>1
    <3> DEFINE g == [t \in Small(n) |-> EntryStep(p, h, t)]
    <3>3. ASSUME NEW t \in Small(n) PROVE EntryStep(p, g, t) = EntryStep(p, h, t)
      <4>1. CASE t = {}
        BY <4>1 DEF EntryStep
      <4>2. CASE t # {}
        <5> DEFINE x == CHOOSE x \in t : TRUE
        <5>1. x \in t
          BY <4>2
        <5>2. t \ {x} \in Small(n - 1) /\ t \ {x} \in Small(n)
          BY <1>1, <1>2, <2>2, <5>1
        <5>3. g[t \ {x}] = EntryStep(p, h, t \ {x})
          BY <5>2
        <5>4. h[t \ {x}] = EntryStep(p, h, t \ {x})
          BY <3>2, <5>2
        <5> HIDE DEF g
        <5> QED BY <4>2, <5>3, <5>4 DEF EntryStep
      <4> QED BY <4>1, <4>2
    <3>4. SumTo(n, g)
      BY <3>3
    <3> QED BY <2>2, <3>4
  <2> QED BY <2>3, <2>4
<1>4. Cardinality(D) \in Nat
  BY <1>1
<1>5. PICK g : SumTo(Cardinality(D), g)
  BY <1>3, <1>4
<1>6. Small(Cardinality(D)) = SUBSET D
  BY <1>1
<1> QED BY <1>5, <1>6 DEF IsSum

LEMMA AtEntryIsSum ==
  ASSUME NEW b, IsFiniteSet(DOMAIN b.positions)
  PROVE  \E g : IsSum(b.positions, g, DOMAIN b.positions) /\ AtEntry(b) = g[DOMAIN b.positions]
<1> DEFINE D == DOMAIN b.positions
           G == CHOOSE g : IsSum(b.positions, g, D)
<1>1. AtEntry(b) = G[D]
  BY DEF AtEntry, MapThenSumSet, MapThenFoldSet, IsSum, EntryStep, CostOf
<1>2. IsSum(b.positions, G, D)
  BY SumExists
<1> QED BY <1>1, <1>2

LEMMA SumIsInt ==
  ASSUME NEW D, IsFiniteSet(D), NEW p, \A s \in D : CostOf(p, s) \in Int,
         NEW g, IsSum(p, g, D)
  PROVE  \A t \in SUBSET D : g[t] \in Int
<1> DEFINE Bad == {t \in SUBSET D : g[t] \notin Int}
<1>1. ASSUME Bad # {} PROVE FALSE
  <2>1. PICK t \in Bad : \A x \in t : t \ {x} \notin Bad
    <3>1. Bad \subseteq SUBSET D
      OBVIOUS
    <3> HIDE DEF Bad
    <3> QED BY <1>1, <3>1, SmallestSubset
  <2>2. g[t] = EntryStep(p, g, t)
    BY <2>1 DEF IsSum
  <2>3. CASE t = {}
    BY <2>1, <2>2, <2>3 DEF EntryStep
  <2>4. CASE t # {}
    <3> DEFINE x == CHOOSE x \in t : TRUE
    <3>1. x \in t
      BY <2>4
    <3>2. g[t] = CostOf(p, x) + g[t \ {x}]
      BY <2>2, <2>4 DEF EntryStep
    <3> HIDE DEF x
    <3>3. g[t \ {x}] \in Int
      BY <2>1, <3>1
    <3>4. CostOf(p, x) \in Int
      BY <3>1
    <3> QED BY <2>1, <3>2, <3>3, <3>4
  <2> QED BY <2>3, <2>4
<1> QED BY <1>1

\* The order in which the fold takes the elements does not matter.
LEMMA SumTakesAny ==
  ASSUME NEW D, IsFiniteSet(D), NEW p, \A d \in D : CostOf(p, d) \in Int,
         NEW g, IsSum(p, g, D), NEW s \in SUBSET D, NEW y \in s,
         NEW rest, rest = s \ {y}
  PROVE  g[s] = CostOf(p, y) + g[rest]
<1> DEFINE Bad == {t \in SUBSET D : \E x \in t : g[t] # CostOf(p, x) + g[t \ {x}]}
<1>1. \A t \in SUBSET D : g[t] = EntryStep(p, g, t) /\ g[t] \in Int
  BY SumIsInt DEF IsSum
<1>2. ASSUME Bad # {} PROVE FALSE
  <2>1. PICK t \in Bad : \A x \in t : t \ {x} \notin Bad
    <3>1. Bad \subseteq SUBSET D
      OBVIOUS
    <3> HIDE DEF Bad
    <3> QED BY <1>2, <3>1, SmallestSubset
  <2>2. PICK x \in t : g[t] # CostOf(p, x) + g[t \ {x}]
    BY <2>1
  <2> DEFINE c == CHOOSE c \in t : TRUE
  <2>3. c \in t
    BY <2>2
  <2>4. g[t] = CostOf(p, c) + g[t \ {c}]
    BY <1>1, <2>1, <2>2 DEF EntryStep
  <2> HIDE DEF c
  <2>5. c # x
    BY <2>2, <2>4
  <2> DEFINE both == t \ {c, x}
  <2>6. both = (t \ {c}) \ {x} /\ both = (t \ {x}) \ {c} /\ both \in SUBSET D
    BY <2>1
  <2> HIDE DEF both
  <2>7. g[t \ {c}] = CostOf(p, x) + g[both]
    <3>1. t \ {c} \notin Bad /\ x \in t \ {c} /\ t \ {c} \in SUBSET D
      BY <2>1, <2>3, <2>5
    <3>2. g[t \ {c}] = CostOf(p, x) + g[(t \ {c}) \ {x}]
      BY <3>1
    <3> QED BY <2>6, <3>2
  <2>8. g[t \ {x}] = CostOf(p, c) + g[both]
    <3>1. t \ {x} \notin Bad /\ c \in t \ {x} /\ t \ {x} \in SUBSET D
      BY <2>1, <2>3, <2>5
    <3>2. g[t \ {x}] = CostOf(p, c) + g[(t \ {x}) \ {c}]
      BY <3>1
    <3> QED BY <2>6, <3>2
  <2>9. CostOf(p, c) \in Int /\ CostOf(p, x) \in Int /\ g[both] \in Int
    BY <1>1, <2>1, <2>3, <2>6
  <2> QED BY <2>2, <2>4, <2>7, <2>8, <2>9
<1> QED BY <1>2

LEMMA SumsAgree ==
  ASSUME NEW D, IsFiniteSet(D), NEW E, D \subseteq E, NEW p, NEW q,
         \A s \in D : CostOf(p, s) = CostOf(q, s),
         NEW g, IsSum(p, g, D), NEW h, IsSum(q, h, E)
  PROVE  g[D] = h[D]
<1> DEFINE Bad == {t \in SUBSET D : g[t] # h[t]}
<1>1. ASSUME Bad # {} PROVE FALSE
  <2>1. PICK t \in Bad : \A x \in t : t \ {x} \notin Bad
    <3>1. Bad \subseteq SUBSET D
      OBVIOUS
    <3> HIDE DEF Bad
    <3> QED BY <1>1, <3>1, SmallestSubset
  <2>2. t \in SUBSET D /\ t \in SUBSET E /\ g[t] # h[t]
    BY <2>1
  <2>3. g[t] = EntryStep(p, g, t) /\ h[t] = EntryStep(q, h, t)
    BY <2>2 DEF IsSum
  <2>4. CASE t = {}
    BY <2>2, <2>3, <2>4 DEF EntryStep
  <2>5. CASE t # {}
    <3> DEFINE x == CHOOSE x \in t : TRUE
    <3>1. x \in t
      BY <2>5
    <3>2. g[t] = CostOf(p, x) + g[t \ {x}] /\ h[t] = CostOf(q, x) + h[t \ {x}]
      BY <2>3, <2>5 DEF EntryStep
    <3> HIDE DEF x
    <3>3. t \ {x} \in SUBSET D /\ t \ {x} \notin Bad
      BY <2>1, <2>2, <3>1
    <3>4. g[t \ {x}] = h[t \ {x}]
      BY <3>3
    <3> QED BY <2>2, <3>1, <3>2, <3>4
  <2> QED BY <2>4, <2>5
<1> QED BY <1>1

LEMMA SumOfOneMore ==
  ASSUME NEW D, IsFiniteSet(D), NEW E, NEW x, x \in E, D = E \ {x}, IsFiniteSet(E),
         NEW p, NEW q, \A s \in D : CostOf(p, s) = CostOf(q, s), \A s \in E : CostOf(q, s) \in Int,
         NEW g, IsSum(p, g, D), NEW h, IsSum(q, h, E)
  PROVE  g[D] \in Int /\ h[E] = CostOf(q, x) + g[D]
<1>1. E \in SUBSET E /\ D \in SUBSET D /\ D \subseteq E
  OBVIOUS
<1>2. h[E] = CostOf(q, x) + h[D]
  BY <1>1, SumTakesAny
<1>3. g[D] = h[D]
  BY <1>1, SumsAgree
<1>4. \A s \in D : CostOf(p, s) \in Int
  BY <1>1
<1>5. g[D] \in Int
  BY <1>1, <1>4, SumIsInt
<1> QED BY <1>2, <1>3, <1>5

\* One position more costs its price more.
LEMMA EntryAdds ==
  ASSUME NEW b, NEW more, IsFiniteSet(DOMAIN b.positions),
         NEW x, x \notin DOMAIN b.positions,
         DOMAIN more.positions = DOMAIN b.positions \union {x},
         \A s \in DOMAIN b.positions : more.positions[s] = b.positions[s],
         \A s \in DOMAIN more.positions : CostOf(more.positions, s) \in Int
  PROVE  /\ AtEntry(b) \in Int
         /\ AtEntry(more) = CostOf(more.positions, x) + AtEntry(b)
<1> DEFINE p == b.positions
           q == more.positions
           D == DOMAIN p
           E == DOMAIN q
<1>1. IsFiniteSet(D) /\ IsFiniteSet(E)
  BY FS_AddElement
<1>2. PICK g : IsSum(p, g, D) /\ AtEntry(b) = g[D]
  BY AtEntryIsSum
<1>3. PICK h : IsSum(q, h, E) /\ AtEntry(more) = h[E]
  BY <1>1, AtEntryIsSum
<1>4. \A s \in D : CostOf(p, s) = CostOf(q, s)
  BY DEF CostOf
<1>5. x \in E /\ D = E \ {x} /\ \A s \in E : CostOf(q, s) \in Int
  OBVIOUS
<1> HIDE DEF p, q, D, E
<1>6. g[D] \in Int /\ h[E] = CostOf(q, x) + g[D]
  BY <1>1, <1>2, <1>3, <1>4, <1>5, SumOfOneMore
<1> QED BY <1>2, <1>3, <1>6 DEF q

HeldPositions == [qty : Nat \ {0}, entry : Nat]
BacktestPositions == UNION {[S -> HeldPositions] : S \in SUBSET Instruments}
AccountBooks == [balance : Nat, positions : BacktestPositions, profit : Nat, loss : Nat, trades : Nat]
GoodBooks(b) == b \in AccountBooks /\ IsFiniteSet(DOMAIN b.positions)
\* What neither a signal nor the end of a run changes, but for the fees of an opening.
Worth(b) == b.balance + AtEntry(b) - b.profit + b.loss

LEMMA BookParts ==
  ASSUME NEW b, GoodBooks(b)
  PROVE  /\ b.balance \in Nat /\ b.profit \in Nat /\ b.loss \in Nat /\ b.trades \in Nat
         /\ b.positions \in BacktestPositions
         /\ b.positions \in [DOMAIN b.positions -> HeldPositions]
         /\ DOMAIN b.positions \subseteq Instruments /\ IsFiniteSet(DOMAIN b.positions)
         /\ \A s \in DOMAIN b.positions : CostOf(b.positions, s) \in Int
         /\ AtEntry(b) \in Int
<1>1. /\ b.balance \in Nat /\ b.profit \in Nat /\ b.loss \in Nat /\ b.trades \in Nat
      /\ b.positions \in BacktestPositions /\ IsFiniteSet(DOMAIN b.positions)
  BY DEF GoodBooks, AccountBooks
<1>2. PICK S \in SUBSET Instruments : b.positions \in [S -> HeldPositions]
  BY <1>1 DEF BacktestPositions
<1>3. /\ b.positions \in [DOMAIN b.positions -> HeldPositions]
      /\ DOMAIN b.positions \subseteq Instruments
  BY <1>2
<1>4. ASSUME NEW s \in DOMAIN b.positions PROVE CostOf(b.positions, s) \in Int
  <2>1. b.positions[s].qty \in Nat /\ b.positions[s].entry \in Nat /\ Unit \in Nat
    BY <1>3, BacktestAssumption DEF HeldPositions
  <2> QED BY <2>1 DEF CostOf
<1>5. AtEntry(b) \in Int
  <2>1. PICK g : IsSum(b.positions, g, DOMAIN b.positions) /\ AtEntry(b) = g[DOMAIN b.positions]
    BY <1>1, AtEntryIsSum
  <2> QED BY <1>1, <1>4, <2>1, SumIsInt
<1> QED BY <1>1, <1>3, <1>4, <1>5

\* A position opened with fill and quantity costs its price and the commission.
LEMMA BacktestOpens ==
  ASSUME GoodBooks(books), fees \in Int, NEW sym \in Instruments, NEW qty \in Lots,
         NEW price \in ClosePrices, openPosition(sym, qty, price)
  PROVE  /\ GoodBooks(books') /\ fees' \in Int
         /\ Worth(books') + fees' = Worth(books) + fees
<1> DEFINE fill == applySlippage(price, TRUE)
           commission == CommissionOf(qty * fill)
           cost == qty * fill * Unit + commission
           more == [s \in DOMAIN books.positions \union {sym} |->
                       IF s = sym THEN [qty |-> qty, entry |-> fill] ELSE books.positions[s]]
<1>1. CASE UNCHANGED <<books, fees>>
  BY <1>1
<1>2. CASE /\ CanOpen(books, sym, cost)
           /\ books' = [books EXCEPT !.balance = books.balance - cost, !.positions = more]
           /\ fees' = fees + commission
  <2>1. /\ sym \notin DOMAIN books.positions /\ books.balance >= cost
    BY <1>2 DEF CanOpen, Holds
  <2>2. /\ qty \in Nat \ {0} /\ price \in Nat /\ Unit \in Nat
        /\ Slippage \in Nat /\ Commission \in Nat
    BY BacktestAssumption
  <2>3. fill \in Nat
    <3>1. Unit + Slippage \in Nat
      BY <2>2
    <3> QED BY <2>2, <3>1 DEF applySlippage
  <2> HIDE DEF fill
  <2>4. qty * fill \in Nat
    BY <2>2, <2>3
  <2>5. qty * fill * Unit \in Nat /\ commission \in Nat
    BY <2>2, <2>4 DEF CommissionOf
  <2> HIDE DEF commission
  <2>6. cost \in Nat
    BY <2>5
  <2>7. books.balance - cost \in Nat
    BY <2>1, <2>6, BookParts
  <2>8. /\ DOMAIN more = DOMAIN books.positions \union {sym}
        /\ more[sym] = [qty |-> qty, entry |-> fill]
        /\ \A s \in DOMAIN books.positions : more[s] = books.positions[s]
    BY <2>1
  <2>9. more \in BacktestPositions
    <3>1. [qty |-> qty, entry |-> fill] \in HeldPositions
      BY <2>2, <2>3 DEF HeldPositions
    <3>2. \A s \in DOMAIN books.positions : books.positions[s] \in HeldPositions
      BY BookParts
    <3>3. \A s \in DOMAIN more : more[s] \in HeldPositions
      BY <2>8, <3>1, <3>2
    <3>4. more \in [DOMAIN books.positions \union {sym} -> HeldPositions]
      BY <2>8, <3>3
    <3>5. DOMAIN books.positions \union {sym} \in SUBSET Instruments
      BY BookParts
    <3> QED BY <3>4, <3>5 DEF BacktestPositions
  <2> HIDE DEF more
  <2>10. /\ books' \in AccountBooks /\ books'.balance = books.balance - cost
         /\ books'.positions = more /\ books'.profit = books.profit /\ books'.loss = books.loss
    BY <1>2, <2>7, <2>9 DEF GoodBooks, AccountBooks
  <2>11. IsFiniteSet(DOMAIN books'.positions)
    BY <2>8, <2>10, FS_AddElement, BookParts
  <2>12. GoodBooks(books')
    BY <2>10, <2>11 DEF GoodBooks
  <2>13. AtEntry(books') = CostOf(more, sym) + AtEntry(books)
    <3>1. \A s \in DOMAIN books'.positions : CostOf(books'.positions, s) \in Int
      BY <2>12, BookParts
    <3>2. IsFiniteSet(DOMAIN books.positions)
      BY BookParts
    <3> QED BY <2>1, <2>8, <2>10, <3>1, <3>2, EntryAdds
  <2>14. CostOf(more, sym) = qty * fill * Unit
    BY <2>8 DEF CostOf
  <2> DEFINE price1 == qty * fill * Unit
  <2>15. price1 \in Nat /\ cost = price1 + commission /\ CostOf(more, sym) = price1
    BY <2>5, <2>14
  <2> HIDE DEF price1, cost
  <2>16. Worth(books') + fees' = Worth(books) + fees /\ fees' \in Int
    BY <1>2, <2>5, <2>6, <2>10, <2>13, <2>15, BookParts DEF Worth
  <2> QED BY <2>12, <2>16
<1> QED BY <1>1, <1>2 DEF openPosition

LEMMA BacktestCloses ==
  ASSUME NEW b, GoodBooks(b), NEW sym \in DOMAIN b.positions, NEW price \in Nat,
         NEW a, a = AfterClose(b, sym, price)
  PROVE  /\ GoodBooks(a) /\ Worth(a) = Worth(b)
         /\ DOMAIN a.positions = DOMAIN b.positions \ {sym}
         /\ a.positions \in [DOMAIN a.positions -> HeldPositions]
<1> DEFINE p == b.positions[sym]
           fill == applySlippage(price, FALSE)
           commission == CommissionOf(p.qty * fill)
           pnl == (fill - p.entry) * p.qty * Unit - commission
           fewer == [s \in DOMAIN b.positions \ {sym} |-> b.positions[s]]
           won == IF pnl > 0 THEN b.profit + pnl ELSE b.profit
           missed == IF pnl > 0 THEN b.loss ELSE b.loss - pnl
           cash == b.balance + p.qty * fill * Unit - commission
<1>1. a = [balance |-> cash, positions |-> fewer, profit |-> won, loss |-> missed,
           trades |-> b.trades + 1]
  BY DEF AfterClose
<1>2. p.qty \in Nat /\ p.entry \in Nat /\ Unit \in Nat /\ Commission \in Nat /\ Commission <= Unit
  BY BacktestAssumption, BookParts DEF HeldPositions
<1>3. fill \in Nat
  <2>1. Unit - Slippage \in Nat
    BY BacktestAssumption
  <2> QED BY <2>1 DEF applySlippage
<1> HIDE DEF fill
<1> DEFINE got == p.qty * fill
           back == got * Unit
           paid == CostOf(b.positions, sym)
<1>4. got \in Nat
  BY <1>2, <1>3
<1>5. back \in Nat /\ commission \in Nat /\ commission <= back
  <2> HIDE DEF got
  <2>1. \A n, x, y \in Nat : x <= y => n * x \in Nat /\ n * y \in Nat /\ n * x <= n * y
    OBVIOUS
  <2> QED BY <1>2, <1>4, <2>1 DEF CommissionOf, got
<1>6. paid \in Int /\ pnl = back - paid - commission
  <2>1. paid = p.qty * p.entry * Unit
    BY DEF CostOf
  <2>2. \A f, e, q, u \in Nat : (f - e) * q * u = q * f * u - q * e * u
    OBVIOUS
  <2>3. (fill - p.entry) * p.qty * Unit = back - paid
    <3> DEFINE q == p.qty
               e == p.entry
    <3>1. q \in Nat /\ e \in Nat
      BY <1>2
    <3> HIDE DEF q, e
    <3>2. (fill - e) * q * Unit = q * fill * Unit - q * e * Unit
      BY <1>2, <1>3, <2>2, <3>1
    <3> QED BY <2>1, <3>2 DEF q, e
  <2>4. paid \in Int
    BY BookParts
  <2> QED BY <2>3, <2>4
<1>7. cash = b.balance + back - commission
  OBVIOUS
<1> HIDE DEF commission, pnl, cash, back, paid
<1>8. cash \in Nat /\ pnl \in Int
  BY <1>5, <1>6, <1>7, BookParts
<1>9. won \in Nat /\ missed \in Nat /\ won - missed = b.profit - b.loss + pnl
  BY <1>8, BookParts
<1>10. /\ DOMAIN fewer = DOMAIN b.positions \ {sym}
       /\ \A s \in DOMAIN fewer : fewer[s] = b.positions[s]
       /\ fewer \in [DOMAIN b.positions \ {sym} -> HeldPositions]
  BY BookParts
<1>11. fewer \in BacktestPositions
  BY <1>10, BookParts DEF BacktestPositions
<1> HIDE DEF won, missed, fewer
<1>12. /\ a \in AccountBooks /\ a.balance = cash /\ a.positions = fewer
       /\ a.profit = won /\ a.loss = missed
  BY <1>1, <1>8, <1>9, <1>11, BookParts DEF AccountBooks
<1>13. GoodBooks(a)
  BY <1>10, <1>12, FS_RemoveElement, BookParts DEF GoodBooks
<1>14. AtEntry(b) = paid + AtEntry(a)
  <2>1. /\ IsFiniteSet(DOMAIN a.positions) /\ sym \notin DOMAIN a.positions
        /\ DOMAIN b.positions = DOMAIN a.positions \union {sym}
        /\ \A s \in DOMAIN a.positions : b.positions[s] = a.positions[s]
    BY <1>10, <1>12, <1>13 DEF GoodBooks
  <2>2. \A s \in DOMAIN b.positions : CostOf(b.positions, s) \in Int
    BY BookParts
  <2> QED BY <2>1, <2>2, EntryAdds DEF paid
<1>15. AtEntry(a) \in Int /\ AtEntry(b) \in Int
  BY <1>13, BookParts
<1>16. Worth(a) = Worth(b)
  BY <1>5, <1>6, <1>7, <1>8, <1>9, <1>12, <1>14, <1>15, BookParts DEF Worth
<1> QED BY <1>10, <1>12, <1>13, <1>16

\* The fold of AfterCloseAll: the books after the positions of a set are closed.
CloseStep(price, b, g, t) ==
    IF t = {} THEN b ELSE LET x == CHOOSE x \in t : TRUE IN AfterClose(g[t \ {x}], x, price)
IsClosing(price, b, g, D) == g = [t \in SUBSET D |-> CloseStep(price, b, g, t)]

LEMMA ClosingExists ==
  ASSUME NEW price, NEW b, NEW D, IsFiniteSet(D)
  PROVE  \E g : IsClosing(price, b, g, D)
<1> DEFINE Small(n) == {t \in SUBSET D : Cardinality(t) <= n}
           ClosedTo(n, g) == g = [t \in Small(n) |-> CloseStep(price, b, g, t)]
           Bad == {n \in Nat : ~\E g : ClosedTo(n, g)}
<1>1. \A t \in SUBSET D : /\ IsFiniteSet(t) /\ Cardinality(t) \in Nat
                          /\ Cardinality(t) <= Cardinality(D)
                          /\ Cardinality(t) = 0 <=> t = {}
  BY FS_Subset, FS_CardinalityType, FS_EmptySet
<1>2. \A t \in SUBSET D : \A x \in t : t \ {x} \in SUBSET D /\ Cardinality(t \ {x}) = Cardinality(t) - 1
  BY <1>1, FS_RemoveElement
<1>3. Bad = {}
  <2> SUFFICES ASSUME Bad # {} PROVE FALSE
    OBVIOUS
  <2>1. PICK n \in Bad : \A m \in Bad : ~(m < n)
    <3>1. Bad \subseteq Nat
      OBVIOUS
    <3> HIDE DEF Bad
    <3> QED BY <3>1, Least
  <2>2. n \in Nat /\ ~\E g : ClosedTo(n, g)
    BY <2>1
  <2>3. CASE n = 0
    <3> DEFINE g == [t \in Small(n) |-> b]
    <3>1. \A t \in Small(n) : t = {}
      BY <1>1, <2>3
    <3>2. \A t \in Small(n) : CloseStep(price, b, g, t) = b
      BY <3>1 DEF CloseStep
    <3>3. ClosedTo(n, g)
      BY <3>2
    <3> QED BY <2>2, <3>3
  <2>4. CASE n # 0
    <3>1. n - 1 \in Nat /\ n - 1 < n
      BY <2>2, <2>4
    <3>2. PICK h : ClosedTo(n - 1, h)
      BY <2>1, <3>1
    <3> DEFINE g == [t \in Small(n) |-> CloseStep(price, b, h, t)]
    <3>3. ASSUME NEW t \in Small(n) PROVE CloseStep(price, b, g, t) = CloseStep(price, b, h, t)
      <4>1. CASE t = {}
        BY <4>1 DEF CloseStep
      <4>2. CASE t # {}
        <5> DEFINE x == CHOOSE x \in t : TRUE
        <5>1. x \in t
          BY <4>2
        <5>2. t \ {x} \in Small(n - 1) /\ t \ {x} \in Small(n)
          BY <1>1, <1>2, <2>2, <5>1
        <5>3. g[t \ {x}] = CloseStep(price, b, h, t \ {x})
          BY <5>2
        <5>4. h[t \ {x}] = CloseStep(price, b, h, t \ {x})
          BY <3>2, <5>2
        <5> HIDE DEF g
        <5> QED BY <4>2, <5>3, <5>4 DEF CloseStep
      <4> QED BY <4>1, <4>2
    <3>4. ClosedTo(n, g)
      BY <3>3
    <3> QED BY <2>2, <3>4
  <2> QED BY <2>3, <2>4
<1>4. Cardinality(D) \in Nat
  BY <1>1
<1>5. PICK g : ClosedTo(Cardinality(D), g)
  BY <1>3, <1>4
<1>6. Small(Cardinality(D)) = SUBSET D
  BY <1>1
<1> QED BY <1>5, <1>6 DEF IsClosing

LEMMA BacktestClosesAll ==
  ASSUME GoodBooks(books), NEW price \in Nat, NEW b, b = AfterCloseAll(price)
  PROVE  GoodBooks(b) /\ Worth(b) = Worth(books) /\ b.positions = <<>> /\ AtEntry(b) = 0
<1> DEFINE D == DOMAIN books.positions
           g == CHOOSE g : IsClosing(price, books, g, D)
           Closed(t) == /\ GoodBooks(g[t]) /\ Worth(g[t]) = Worth(books)
                        /\ DOMAIN g[t].positions = D \ t
           Bad == {t \in SUBSET D : ~Closed(t)}
<1>1. b = g[D]
  BY DEF AfterCloseAll, FoldSet, MapThenFoldSet, IsClosing, CloseStep
<1>2. IsFiniteSet(D)
  BY BookParts
<1>3. IsClosing(price, books, g, D)
  BY <1>2, ClosingExists
<1> HIDE DEF g
<1>4. \A t \in SUBSET D : g[t] = CloseStep(price, books, g, t)
  BY <1>3 DEF IsClosing
<1>5. ASSUME Bad # {} PROVE FALSE
  <2>1. PICK t \in Bad : \A x \in t : t \ {x} \notin Bad
    <3>1. Bad \subseteq SUBSET D
      OBVIOUS
    <3> HIDE DEF Bad
    <3> QED BY <1>2, <1>5, <3>1, SmallestSubset
  <2>2. t \in SUBSET D /\ ~Closed(t)
    BY <2>1
  <2>3. CASE t = {}
    <3>1. g[t] = books
      BY <1>4, <2>2, <2>3 DEF CloseStep
    <3> QED BY <2>2, <2>3, <3>1
  <2>4. CASE t # {}
    <3> DEFINE x == CHOOSE x \in t : TRUE
               was == g[t \ {x}]
    <3>1. x \in t
      BY <2>4
    <3>2. g[t] = AfterClose(was, x, price)
      BY <1>4, <2>2, <2>4 DEF CloseStep
    <3> HIDE DEF x
    <3>3. t \ {x} \in SUBSET D /\ t \ {x} \notin Bad
      BY <2>1, <2>2, <3>1
    <3>4. Closed(t \ {x})
      BY <3>3
    <3>5. x \in DOMAIN was.positions /\ (D \ (t \ {x})) \ {x} = D \ t
      BY <2>2, <3>1, <3>4
    <3>6. /\ GoodBooks(was) /\ Worth(was) = Worth(books)
          /\ DOMAIN was.positions = D \ (t \ {x})
      BY <3>4
    <3> HIDE DEF was, D
    <3>7. /\ GoodBooks(g[t]) /\ Worth(g[t]) = Worth(was)
          /\ DOMAIN g[t].positions = DOMAIN was.positions \ {x}
      BY <3>2, <3>5, <3>6, BacktestCloses
    <3>8. Closed(t)
      BY <3>5, <3>6, <3>7
    <3> QED BY <2>2, <3>8
  <2> QED BY <2>3, <2>4
<1>6. Closed(D)
  BY <1>5
<1>7. GoodBooks(b) /\ Worth(b) = Worth(books) /\ DOMAIN b.positions = {}
  BY <1>1, <1>6
<1>8. b.positions = <<>>
  <2>1. b.positions \in [{} -> HeldPositions]
    BY <1>7, BookParts
  <2> QED BY <2>1
<1>9. AtEntry(b) = 0
  <2>1. PICK h : IsSum(b.positions, h, DOMAIN b.positions) /\ AtEntry(b) = h[DOMAIN b.positions]
    BY <1>7, AtEntryIsSum, BookParts
  <2>2. h[{}] = EntryStep(b.positions, h, {})
    BY <1>7, <2>1 DEF IsSum
  <2> QED BY <1>7, <2>1, <2>2 DEF EntryStep
<1> QED BY <1>7, <1>8, <1>9

BacktestInv ==
    /\ GoodBooks(books) /\ fees \in Int /\ candle \in Int
    /\ lastClose \in ClosePrices \union {0}
    /\ Worth(books) + fees = InitialBalance
    /\ result.kind = "done" =>
          /\ candle = NotRunning
          /\ books # FreshBooks => /\ books.positions = <<>>
                                   /\ result.equity = InitialBalance + result.profit - result.loss - fees

LEMMA FreshAreGood ==
  GoodBooks(FreshBooks) /\ Worth(FreshBooks) = InitialBalance
<1>1. InitialBalance \in Nat
  BY BacktestAssumption
<1>2. DOMAIN FreshBooks.positions = {} /\ FreshBooks.positions = <<>>
  BY DEF FreshBooks
<1>3. <<>> \in BacktestPositions
  <2>1. <<>> \in [{} -> HeldPositions]
    OBVIOUS
  <2> QED BY <2>1 DEF BacktestPositions
<1>4. GoodBooks(FreshBooks)
  BY <1>1, <1>2, <1>3, FS_EmptySet DEF GoodBooks, AccountBooks, FreshBooks
<1>5. AtEntry(FreshBooks) = 0
  <2>1. PICK h : /\ IsSum(FreshBooks.positions, h, DOMAIN FreshBooks.positions)
                 /\ AtEntry(FreshBooks) = h[DOMAIN FreshBooks.positions]
    BY <1>2, AtEntryIsSum, FS_EmptySet
  <2>2. h[{}] = EntryStep(FreshBooks.positions, h, {})
    BY <1>2, <2>1 DEF IsSum
  <2> QED BY <1>2, <2>1, <2>2 DEF EntryStep
<1>6. Worth(FreshBooks) = InitialBalance + AtEntry(FreshBooks) - 0 + 0
  BY DEF Worth, FreshBooks
<1> QED BY <1>1, <1>4, <1>5, <1>6

LEMMA CandleKeeps ==
  ASSUME BacktestInv, NEW price \in ClosePrices, OnCandle(price)
  PROVE  BacktestInv'
<1>1. /\ candle # NotRunning /\ candle' = candle + 1 /\ lastClose' = price /\ UNCHANGED result
      /\ \/ \E sym \in Instruments, qty \in Lots : openPosition(sym, qty, price)
         \/ \E sym \in Instruments :
               /\ books' = IF Holds(books, sym) THEN AfterClose(books, sym, price) ELSE books
               /\ UNCHANGED fees
         \/ UNCHANGED <<books, fees>>
  BY DEF OnCandle
<1>2. candle' \in Int /\ lastClose' \in ClosePrices \union {0} /\ result'.kind # "done"
  BY <1>1 DEF BacktestInv
<1>3. GoodBooks(books') /\ fees' \in Int /\ Worth(books') + fees' = Worth(books) + fees
  <2>1. CASE \E sym \in Instruments, qty \in Lots : openPosition(sym, qty, price)
    BY <2>1, BacktestOpens DEF BacktestInv
  <2>2. CASE \E sym \in Instruments :
                /\ books' = IF Holds(books, sym) THEN AfterClose(books, sym, price) ELSE books
                /\ UNCHANGED fees
    <3>1. PICK sym \in Instruments :
             /\ books' = IF Holds(books, sym) THEN AfterClose(books, sym, price) ELSE books
             /\ UNCHANGED fees
      BY <2>2
    <3>2. price \in Nat
      BY BacktestAssumption
    <3>3. CASE Holds(books, sym)
      <4>1. sym \in DOMAIN books.positions /\ GoodBooks(books)
        BY <3>3 DEF Holds, BacktestInv
      <4>2. books' = AfterClose(books, sym, price)
        BY <3>1, <3>3
      <4>3. GoodBooks(books') /\ Worth(books') = Worth(books)
        BY <3>2, <4>1, <4>2, BacktestCloses
      <4> QED BY <3>1, <4>3 DEF BacktestInv
    <3>4. CASE ~Holds(books, sym)
      BY <3>1, <3>4 DEF BacktestInv
    <3> QED BY <3>3, <3>4
  <2>3. CASE UNCHANGED <<books, fees>>
    BY <2>3 DEF BacktestInv
  <2> QED BY <1>1, <2>1, <2>2, <2>3
<1> QED BY <1>2, <1>3 DEF BacktestInv

LEMMA FinishKeeps ==
  ASSUME BacktestInv, FinishRun
  PROVE  BacktestInv'
<1>1. candle' = NotRunning /\ UNCHANGED <<fees, lastClose>> /\ candle' \in Int
  BY DEF FinishRun, NotRunning
<1>2. CASE candle = 0
  BY <1>1, <1>2 DEF FinishRun, BacktestInv
<1>3. CASE candle # 0
  <2> DEFINE b == AfterCloseAll(lastClose)
  <2>1. books' = b /\ result' = calculateResult(b)
    BY <1>3 DEF FinishRun
  <2>2. lastClose \in Nat
    BY BacktestAssumption DEF BacktestInv
  <2>3. GoodBooks(b) /\ Worth(b) = Worth(books) /\ b.positions = <<>> /\ AtEntry(b) = 0
    BY <2>2, BacktestClosesAll DEF BacktestInv
  <2> HIDE DEF b
  <2>4. /\ result'.equity = b.balance + AtEntry(b)
        /\ result'.profit = b.profit /\ result'.loss = b.loss
    BY <2>1 DEF calculateResult
  <2>5. result'.equity = InitialBalance + result'.profit - result'.loss - fees
    <3>1. /\ b.balance \in Int /\ b.profit \in Int /\ b.loss \in Int
          /\ fees \in Int /\ InitialBalance \in Int
      BY <2>3, BookParts, BacktestAssumption DEF BacktestInv
    <3>2. b.balance + 0 - b.profit + b.loss + fees = InitialBalance
      BY <2>3 DEF BacktestInv, Worth
    <3> QED BY <2>3, <2>4, <3>1, <3>2
  <2> QED BY <1>1, <2>1, <2>3, <2>5 DEF BacktestInv
<1> QED BY <1>2, <1>3

\* The books between two steps of any run.
LEMMA BacktestInductive == BacktestSpec => []BacktestInv
<1>1. BacktestInit => BacktestInv
  <2> SUFFICES ASSUME BacktestInit PROVE BacktestInv
    OBVIOUS
  <2>1. /\ books = FreshBooks /\ fees = 0 /\ candle = NotRunning /\ lastClose = 0
        /\ result.kind = "none" /\ candle \in Int
    BY DEF BacktestInit, NotRunning
  <2>2. Worth(books) + fees = InitialBalance
    BY <2>1, FreshAreGood, BacktestAssumption
  <2> QED BY <2>1, <2>2, FreshAreGood DEF BacktestInv
<1>2. BacktestInv /\ [BacktestNext]_backtestVars => BacktestInv'
  <2> SUFFICES ASSUME BacktestInv, [BacktestNext]_backtestVars PROVE BacktestInv'
    OBVIOUS
  <2>1. CASE StartRun
    <3>1. candle' = 0 /\ result'.kind = "none" /\ lastClose' = 0 /\ UNCHANGED <<books, fees>>
      BY <2>1 DEF StartRun
    <3> QED BY <3>1 DEF BacktestInv
  <2>2. CASE \E price \in ClosePrices : OnCandle(price)
    BY <2>2, CandleKeeps
  <2>3. CASE CancelRun
    <3>1. /\ candle' = NotRunning /\ candle' \in Int /\ result'.kind = "cancelled"
          /\ UNCHANGED <<books, fees, lastClose>>
      BY <2>3 DEF CancelRun, NotRunning
    <3> QED BY <3>1 DEF BacktestInv
  <2>4. CASE FinishRun
    BY <2>4, FinishKeeps
  <2>5. CASE ResetBacktest
    <3>1. books' = FreshBooks /\ fees' = 0 /\ UNCHANGED <<candle, lastClose, result>>
      BY <2>5 DEF ResetBacktest
    <3>2. Worth(books') + fees' = InitialBalance
      BY <3>1, FreshAreGood, BacktestAssumption
    <3> QED BY <3>1, <3>2, FreshAreGood DEF BacktestInv
  <2>6. CASE UNCHANGED backtestVars
    BY <2>6 DEF backtestVars, BacktestInv
  <2> QED BY <2>1, <2>2, <2>3, <2>4, <2>5, <2>6 DEF BacktestNext
<1> QED BY <1>1, <1>2, PTL DEF BacktestSpec

\* For any instruments, prices, rates and number of runs the cash and the positions at
\* their entry price are the initial balance plus what trades won, less what they lost
\* and what openings cost; the cash is never overdrawn; and the equity a run reports is
\* that of its books, with no position left (service/backtest/engine.go:241-333, 360-411).
THEOREM BacktestTheorem == BacktestSpec => []BacktestAddsUp
<1>1. BacktestInv => BacktestAddsUp
  <2> SUFFICES ASSUME BacktestInv PROVE BacktestAddsUp
    OBVIOUS
  <2>1. books.balance + AtEntry(books) = InitialBalance + books.profit - books.loss - fees
    BY BookParts, BacktestAssumption, SMTT(30) DEF BacktestInv, Worth
  <2>2. books.balance >= 0
    BY BookParts DEF BacktestInv
  <2> QED BY <2>1, <2>2 DEF BacktestInv, BacktestAddsUp
<1> QED BY <1>1, BacktestInductive, PTL
-----------------------------------------------------------------------------
(* Types *)

\* A schema version is copied before it is migrated.
LEMMA StoreTyped == StoreSpec => []StoreTypeOK
<1>1. StoreInit => StoreInv
  BY StoreStarts
<1>2. StoreInv /\ [StoreNext]_storeVars => StoreInv'
  BY StoreInductive
<1>3. StoreInv => StoreTypeOK
  <2> SUFFICES ASSUME StoreInv PROVE StoreTypeOK
    OBVIOUS
  <2>1. \A p \in Openers : store[p].key \in StoreKeys \union {Nothing}
    BY DEF StoreInv, Opening, OpenedBy, Copying, Migrating
  <2> QED BY <2>1 DEF StoreInv, CopiesSound, VaultFiles, StoreTypeOK
<1> QED BY <1>1, <1>2, <1>3, PTL DEF StoreSpec

LEMMA VaultTyped == VaultSpec => []VaultTypeOK
<1>1. VaultInv => VaultTypeOK
  BY DEF VaultInv, VaultTypes, VaultTypeOK
<1> QED BY <1>1, VaultInductive, PTL

LEMMA TablesTyped == TablesSpec => []TablesTypeOK
<1>1. TablesInv => TablesTypeOK
  <2> SUFFICES ASSUME TablesInv PROVE TablesTypeOK
    OBVIOUS
  <2>1. /\ tables \in TableSets /\ conn \in Sessions \union {NoOne} /\ loose \subseteq OrderIds
        /\ schema \in [tables : BOOLEAN, version : {0, 1}]
    BY DEF TablesInv, TableSound
  <2>2. /\ DOMAIN tables = DOMAIN NoRows /\ tables.orders \in [OrderIds -> OrderRows \union {NoOne}]
        /\ tables.balances \subseteq [asset : Assets, at : 0..MaxTimes, even : BOOLEAN]
    BY <2>1 DEF TableSets, NoRows, Rows
  <2>3. \A o \in Exists("orders") : tables.orders[o] \in OrderRows
    BY <2>2 DEF Exists
  <2> QED BY <2>1, <2>2, <2>3 DEF TablesTypeOK
<1> QED BY <1>1, TablesInductive, PTL

\* An entry goes from one read of CreateOrder to the next.
EntryPlaces == {"new", "strategy", "symbol", "position", "accepted", "refused"}
RiskPlaces ==
    /\ \A e \in Entries : entry[e].at \in EntryPlaces
    /\ pass.at \in {"idle", "listed", "fetched"}

LEMMA EntryMoves ==
  ASSUME RiskInv, RiskPlaces, NEW e \in Entries, NEW c, c.at \in EntryPlaces,
         entry' = [entry EXCEPT ![e] = c], UNCHANGED pass
  PROVE  RiskPlaces'
<1>1. \A f \in Entries : entry'[f] = IF f = e THEN c ELSE entry[f]
  BY DEF RiskInv
<1> QED BY <1>1 DEF RiskPlaces

LEMMA RiskTyped == RiskSpec => []RiskTypeOK
<1>1. RiskInit => RiskPlaces
  BY DEF RiskInit, RiskPlaces, EntryPlaces, NewEntry, NoPass
<1>2. RiskInv /\ RiskPlaces /\ [RiskNext]_riskVars => RiskPlaces'
  <2> SUFFICES ASSUME RiskInv, RiskPlaces, [RiskNext]_riskVars PROVE RiskPlaces'
    OBVIOUS
  <2>1. ASSUME NEW e \in Entries,
               ReadsStrategy(e) \/ ReadsSymbol(e) \/ ReadsPosition(e) \/ EntryFails(e)
        PROVE  RiskPlaces'
    <3>1. PICK c : c.at \in EntryPlaces /\ entry' = [entry EXCEPT ![e] = c] /\ UNCHANGED pass
      <4>1. CASE ReadsStrategy(e)
        BY <4>1 DEF ReadsStrategy, unread, EntryPlaces
      <4>2. CASE ReadsSymbol(e)
        BY <4>2 DEF ReadsSymbol, unread, EntryPlaces
      <4>3. CASE ReadsPosition(e)
        BY <4>3 DEF ReadsPosition, unread, EntryPlaces
      <4>4. CASE EntryFails(e)
        BY <4>4 DEF EntryFails, unread, EntryPlaces
      <4> QED BY <2>1, <4>1, <4>2, <4>3, <4>4
    <3> QED BY <3>1, EntryMoves
  <2>2. ASSUME NEW e \in Entries, NEW order \in Orders, NEW funds \in Funds \union {NoBalance},
               Decides(e, order, funds)
        PROVE  RiskPlaces'
    <3>1. PICK c : c.at \in EntryPlaces /\ entry' = [entry EXCEPT ![e] = c] /\ UNCHANGED pass
      BY <2>2 DEF Decides, EntryPlaces
    <3> QED BY <3>1, EntryMoves
  <2>3. CASE PassBegins \/ PassFetches \/ PassUpdates \/ PassFails
    <3>1. UNCHANGED entry /\ pass'.at \in {"idle", "listed", "fetched"}
      BY <2>3 DEF PassBegins, PassFetches, PassUpdates, PassFails, NoPass
    <3> QED BY <3>1 DEF RiskPlaces
  <2>4. CASE UNCHANGED <<entry, pass>>
    BY <2>4 DEF RiskPlaces
  <2>5. ASSUME (\E e \in Entries : Fill(e)) \/ TradeByHand \/ AccountMoves \/ UNCHANGED riskVars
        PROVE  UNCHANGED <<entry, pass>>
    BY <2>5 DEF Fill, TradeByHand, AccountMoves, riskVars
  <2> QED BY <2>1, <2>2, <2>3, <2>4, <2>5 DEF RiskNext
<1>3. RiskInv /\ RiskPlaces => RiskTypeOK
  <2> SUFFICES ASSUME RiskInv, RiskPlaces PROVE RiskTypeOK
    OBVIOUS
  <2>1. row # NoPosition =>
           row \in [side : {"long", "short", "flat"}, qty : Nat, price : Nat, open : BOOLEAN]
    <3> DEFINE RowsOf == [side : {"long", "short", "flat"}, qty : Nat, price : Nat, open : BOOLEAN]
    <3>1. OpenRows \subseteq RowsOf
      BY DEF OpenRows
    <3>2. ASSUME NEW r \in ClosedRows PROVE r \in RowsOf
      <4>1. r = [side |-> r.side, qty |-> r.qty, price |-> r.price, open |-> r.open]
        BY DEF ClosedRows
      <4>2. r.qty \in Nat /\ r.price \in Nat
        BY DEF ClosedRows
      <4>3. r.side \in {"long", "short", "flat"} /\ r.open \in BOOLEAN
        BY Zenon DEF ClosedRows
      <4> QED BY <4>1, <4>2, <4>3, Zenon
    <3>3. row # NoPosition => row \in OpenRows \union ClosedRows
      BY DEF RiskInv
    <3> QED BY <3>1, <3>2, <3>3
  <2> QED BY <2>1 DEF RiskInv, RiskPlaces, EntryPlaces, RiskTypeOK
<1> QED BY <1>1, <1>2, <1>3, RiskInductive, PTL DEF RiskSpec

LEMMA ConfigTyped == ConfigSpec => []ConfigTypeOK
<1>1. ConfigInv => ConfigTypeOK
  <2> SUFFICES ASSUME ConfigInv PROVE ConfigTypeOK
    OBVIOUS
  <2>1. \A e \in Editing : editor[e] \in ConfigEdits
    BY DEF ConfigInv, ConfigTypes, Editing
  <2> QED BY <2>1 DEF ConfigInv, ConfigTypes, ConfigEdits, ConfigTypeOK
<1> QED BY <1>1, ConfigInductive, PTL

LEMMA AuditTyped == AuditSpec => []AuditTypeOK
<1>1. AuditInv => AuditTypeOK
  BY EmptySeq DEF AuditInv, AuditTypeOK
<1> QED BY <1>1, AuditInductive, PTL

\* No context is told of more fills than the exchange has made, and the loads are counted.
HostBounds ==
    /\ \A i \in Instances : context[i].position <= MaxFills /\ filled[i] <= MaxFills
    /\ \A c \in InCall : caller[c].fill <= MaxFills
    /\ wasm.gen \in 1..MaxLoads

\* A call begins with a fill that was made, and the calls under way keep theirs.
LEMMA BeginBounded ==
  ASSUME HostInv, HostBounds, NEW c \in HostCallers, NEW i \in Instances, NEW size \in Sizes,
         NEW op \in {"tick", "fill", "cancel"}, NEW n \in 0..MaxFills, Begin(c, CallOf(op, i, size, n))
  PROVE  \A d \in InCall' : caller'[d].fill <= MaxFills
<1>1. \A d \in HostCallers : caller'[d] = IF d = c THEN CallOf(op, i, size, n) ELSE caller[d]
  BY DEF Begin, HostInv, HostTypes
<1>2. CallOf(op, i, size, n).fill = n /\ n <= MaxFills
  BY HostAssumption DEF CallOf
<1> QED BY <1>1, <1>2 DEF HostBounds, InCall

\* So do the calls that another one's return or error disturbs.
LEMMA KeepsFills ==
  ASSUME HostInv, HostBounds,
         \A d \in InCall' : d \in InCall /\ caller'[d].fill = caller[d].fill
  PROVE  \A d \in InCall' : caller'[d].fill <= MaxFills
BY DEF HostBounds

LEMMA HostTyped == HostSpec => []HostTypeOK
<1>1. HostInit => HostBounds
  BY HostAssumption DEF HostInit, HostBounds, NoContext, NewWasm, InCall
<1>2. HostInv /\ HostBounds /\ [HostNext]_hostVars => HostBounds'
  <2> SUFFICES ASSUME HostInv, HostBounds, [HostNext]_hostVars PROVE HostBounds'
    OBVIOUS
  <2>t. /\ context \in [Instances -> [gen : Nat, position : Nat]] /\ wasm \in WasmStates
        /\ caller \in [HostCallers -> HostCalls \union {NoCall}] /\ filled \in [Instances -> Nat]
        /\ MaxFills \in Nat /\ MaxLoads \in Nat /\ wasm.gen \in Nat /\ generation \in Nat
    BY HostAssumption DEF HostInv, HostTypes, WasmStates
  <2>1. \A i \in Instances : filled'[i] <= MaxFills
    <3>1. UNCHANGED filled \/ \E i \in Instances : /\ filled[i] < MaxFills
                                                  /\ filled' = [filled EXCEPT ![i] = @ + 1]
      BY DEF HostNext, OnTick, OnOrderFilled, OnOrderCanceled, Allocate, WriteToMemory, CallFunction,
             Fails, Returns, AppliesFill, UpdatePosition, HostReset, UnloadStrategy, LoadStrategy,
             hostVars
    <3> QED BY <2>t, <3>1 DEF HostBounds
  <2>2. wasm'.gen \in 1..MaxLoads
    <3>1. wasm'.gen = wasm.gen \/ (wasm.gen < MaxLoads /\ wasm'.gen = wasm.gen + 1)
      <4>1. \/ UNCHANGED wasm \/ \E x, y : wasm' = [wasm EXCEPT !.next = x, !.strayed = y]
            \/ \E x : wasm' = [wasm EXCEPT !.next = x]
            \/ \E x : wasm' = [wasm EXCEPT !.memory = x]
            \/ wasm' = [wasm EXCEPT !.open = FALSE]
            \/ wasm.gen < MaxLoads /\ wasm' = NewWasm(wasm.gen + 1)
        BY DEF HostNext, OnTick, OnOrderFilled, OnOrderCanceled, Allocate, WriteToMemory,
               CallFunction, Fails, ResetAllocator, Returns, AppliesFill, UpdatePosition, HostReset,
               UnloadStrategy, LoadStrategy, hostVars
      <4>2. wasm = [gen |-> wasm.gen, open |-> wasm.open, next |-> wasm.next,
                    strayed |-> wasm.strayed, memory |-> wasm.memory]
        BY <2>t DEF WasmStates
      <4>3. NewWasm(wasm.gen + 1).gen = wasm.gen + 1
        BY DEF NewWasm
      <4>4. CASE \E x, y : wasm' = [wasm EXCEPT !.next = x, !.strayed = y]
        BY <4>2, <4>4
      <4>5. CASE \E x : wasm' = [wasm EXCEPT !.next = x]
        BY <4>2, <4>5
      <4>6. CASE \E x : wasm' = [wasm EXCEPT !.memory = x]
        BY <4>2, <4>6
      <4> QED BY <4>1, <4>2, <4>3, <4>4, <4>5, <4>6
    <3> QED BY <2>t, <3>1 DEF HostBounds
  <2>3. \A i \in Instances : context'[i].position <= MaxFills
    <3>1. CASE UNCHANGED context
      BY <3>1 DEF HostBounds
    <3>2. ASSUME NEW c \in HostCallers, NEW i \in Instances, NEW size \in Sizes, OnTick(c, i, size)
          PROVE  \A j \in Instances : context'[j].position <= MaxFills
      <4>1. UNCHANGED context
               \/ context' = [context EXCEPT ![i] = [gen |-> generation + 1, position |-> 0]]
        BY <3>2 DEF OnTick
      <4> QED BY <2>t, <4>1 DEF HostBounds
    <3>3. ASSUME NEW c \in HostCallers, AppliesFill(c)
          PROVE  \A j \in Instances : context'[j].position <= MaxFills
      <4>1. c \in InCall /\ caller[c].fill <= MaxFills
        BY <3>3 DEF AppliesFill, HostBounds
      <4>2. UNCHANGED context
               \/ context' = [context EXCEPT ![caller[c].inst].position = caller[c].fill]
        BY <3>3 DEF AppliesFill
      <4> QED BY <2>t, <4>1, <4>2 DEF HostBounds
    <3>4. ASSUME NEW i \in Instances, UpdatePosition(i) \/ HostReset(i)
          PROVE  \A j \in Instances : context'[j].position <= MaxFills
      <4>1. \/ context' = [context EXCEPT ![i].position = filled[i]]
            \/ context' = [context EXCEPT ![i] = NoContext]
        BY <3>4 DEF UpdatePosition, HostReset
      <4> QED BY <2>t, <4>1 DEF HostBounds, NoContext
    <3> QED
      BY <3>1, <3>2, <3>3, <3>4
         DEF HostNext, OnOrderFilled, OnOrderCanceled, Allocate, WriteToMemory, CallFunction,
             Fails, Returns, UnloadStrategy, LoadStrategy, hostVars
  <2>4. \A d \in InCall' : caller'[d].fill <= MaxFills
    <3>1. CASE UNCHANGED caller
      BY <3>1 DEF HostBounds, InCall
    <3>2. ASSUME NEW c \in HostCallers, NEW i \in Instances, NEW size \in Sizes,
                 OnTick(c, i, size) \/ OnOrderFilled(c, i, size) \/ OnOrderCanceled(c, i, size)
          PROVE  \A d \in InCall' : caller'[d].fill <= MaxFills
      <4>1. UNCHANGED caller \/ \E op \in {"tick", "fill", "cancel"}, n \in 0..MaxFills :
                                   Begin(c, CallOf(op, i, size, n))
        <5>1. CASE OnTick(c, i, size)
          BY <2>t, <5>1 DEF OnTick
        <5>2. CASE OnOrderFilled(c, i, size)
          BY <2>t, <5>2 DEF OnOrderFilled
        <5>3. CASE OnOrderCanceled(c, i, size)
          BY <2>t, <5>3 DEF OnOrderCanceled
        <5> QED BY <3>2, <5>1, <5>2, <5>3
      <4> QED BY <3>1, <4>1, BeginBounded
    <3>3. ASSUME NEW c \in HostCallers, c \in InCall,
                 \/ Allocate(c) \/ WriteToMemory(c) \/ CallFunction(c) \/ Returns(c)
                 \/ AppliesFill(c) \/ Fails(c)
          PROVE  \A d \in InCall' : d \in InCall /\ caller'[d].fill = caller[d].fill
      <4>1. ASSUME Fails(c) PROVE \A d \in InCall' : d \in InCall /\ caller'[d].fill = caller[d].fill
        BY <2>t, <4>1, NoCallIsNone DEF Fails, Disturb, InCall, HostCalls
      <4>2. ASSUME NEW r, caller' = [caller EXCEPT ![c] = r], r = NoCall \/ r.fill = caller[c].fill
            PROVE  \A d \in InCall' : d \in InCall /\ caller'[d].fill = caller[d].fill
        BY <2>t, <3>3, <4>2 DEF InCall
      <4>3. caller[c] \in HostCalls
        BY <2>t, <3>3 DEF InCall
      <4>4. CASE ~Fails(c) /\ ~Returns(c)
        <5>1. PICK r : caller' = [caller EXCEPT ![c] = r] /\ (r = NoCall \/ r.fill = caller[c].fill)
          <6>1. CASE Allocate(c)
            <7>0. PICK a \in caller[c].alloc..Len(wasm.next) :
                    caller' = [caller EXCEPT ![c].at = "write", ![c].ptr = wasm.next[a],
                                 ![c].disturbed = \E d \in InCall : caller[d].disturbed /\ Alive(d)]
              BY <4>4, <6>1 DEF Allocate
            <7> DEFINE q == [caller[c] EXCEPT !.at = "write", !.ptr = wasm.next[a],
                                !.disturbed = \E d \in InCall : caller[d].disturbed /\ Alive(d)]
            <7>1. caller' = [caller EXCEPT ![c] = q]
              BY <2>t, <7>0
            <7>2. q.fill = caller[c].fill
              BY <4>3 DEF HostCalls
            <7> HIDE DEF q
            <7> QED BY <7>1, <7>2
          <6>2. CASE WriteToMemory(c)
            <7> DEFINE q == [caller[c] EXCEPT !.at = "call"]
            <7>1. caller' = [caller EXCEPT ![c] = q]
              BY <4>4, <6>2 DEF WriteToMemory, Goes
            <7>2. q.fill = caller[c].fill
              BY <4>3 DEF HostCalls
            <7> HIDE DEF q
            <7> QED BY <7>1, <7>2
          <6>3. CASE CallFunction(c)
            <7> DEFINE q == [caller[c] EXCEPT !.at = "return",
                                !.heard = \A x \in Buffer(c) : wasm.memory[x] = [by |-> c]]
            <7>1. caller' = [caller EXCEPT ![c] = q]
              BY <2>t, <4>4, <6>3 DEF CallFunction
            <7>2. q.fill = caller[c].fill
              BY <4>3 DEF HostCalls
            <7> HIDE DEF q
            <7> QED BY <7>1, <7>2
          <6>4. CASE AppliesFill(c)
            BY <6>4 DEF AppliesFill
          <6> QED BY <3>3, <4>4, <6>1, <6>2, <6>3, <6>4
        <5> QED BY <4>2, <5>1
      <4>5. CASE Returns(c)
        <5>1. caller' = Disturb(c)
                 \/ caller' = [Disturb(c) EXCEPT ![c] = [caller[c] EXCEPT !.at = "apply"]]
          BY <4>5 DEF Returns
        <5> DEFINE q == [caller[c] EXCEPT !.at = "apply"]
        <5>2. q.fill = caller[c].fill
          BY <4>3 DEF HostCalls
        <5>3. /\ DOMAIN Disturb(c) = HostCallers
              /\ \A d \in HostCallers \ {c} :
                    Disturb(c)[d] = NoCall \/ Disturb(c)[d].fill = caller[d].fill
              /\ \A d \in HostCallers : d # c /\ d \notin InCall => Disturb(c)[d] = NoCall
              /\ Disturb(c)[c] = NoCall
          BY <2>t, <3>3, NoCallIsNone DEF Disturb, InCall, HostCalls
        <5> HIDE DEF q
        <5>4. \A d \in HostCallers : \/ d = c /\ caller'[d] \in {NoCall, q}
                                     \/ d # c /\ caller'[d] = Disturb(c)[d]
          BY <3>3, <5>1, <5>3 DEF q
        <5> QED BY <3>3, <5>2, <5>3, <5>4 DEF InCall
      <4> QED BY <4>1, <4>4, <4>5
    <3>4. ASSUME NEW i \in Instances, HostReset(i)
          PROVE  \A d \in InCall' : d \in InCall /\ caller'[d].fill = caller[d].fill
      BY <2>t, <3>4, NoCallIsNone DEF HostReset, InCall, HostCalls
    <3>5. ASSUME NEW c \in HostCallers,
                 Allocate(c) \/ WriteToMemory(c) \/ CallFunction(c) \/ Returns(c) \/ AppliesFill(c)
          PROVE  c \in InCall
      BY <3>5 DEF Allocate, WriteToMemory, CallFunction, Returns, AppliesFill
    <3>6. ASSUME \/ \E i \in Instances : UpdatePosition(i)
                 \/ UnloadStrategy \/ LoadStrategy \/ UNCHANGED hostVars
          PROVE  UNCHANGED caller
      BY <3>6 DEF UpdatePosition, UnloadStrategy, LoadStrategy, hostVars
    <3> QED BY <3>1, <3>2, <3>3, <3>4, <3>5, <3>6, KeepsFills DEF HostNext
  <2> QED BY <2>1, <2>2, <2>3, <2>4 DEF HostBounds
<1>3. HostInv /\ HostBounds => HostTypeOK
  <2> SUFFICES ASSUME HostInv, HostBounds PROVE HostTypeOK
    OBVIOUS
  <2>1. /\ context \in [Instances -> [gen : Nat, position : Nat]] /\ MaxFills \in Nat
        /\ wasm.next \in Seq(Nat) /\ wasm.open \in BOOLEAN
    BY HostAssumption DEF HostInv, HostTypes, WasmStates
  <2>2. \A c \in InCall : caller[c].at \in {"allocate", "write", "call", "return", "apply"}
    BY DEF HostInv, HostTypes, InCall, HostCalls, CallPlaces
  <2> QED BY <2>1, <2>2 DEF HostBounds, HostTypeOK
<1> QED BY <1>1, <1>2, <1>3, HostInductive, PTL DEF HostSpec

LEMMA BacktestTyped == BacktestSpec => []BacktestTypeOK
<1> DEFINE Kinds == result.kind \in {"none", "cancelled", "panicked", "done"}
           Inv == BacktestInv /\ candle \in NotRunning..MaxCandles /\ Kinds
<1>0. MaxCandles \in Nat /\ NotRunning = -1
  BY BacktestAssumption DEF NotRunning
<1>1. BacktestInit => candle \in NotRunning..MaxCandles /\ Kinds
  BY <1>0 DEF BacktestInit
<1>2. Inv /\ [BacktestNext]_backtestVars => (candle \in NotRunning..MaxCandles /\ Kinds)'
  <2> SUFFICES ASSUME Inv, [BacktestNext]_backtestVars
               PROVE  candle' \in NotRunning..MaxCandles /\ Kinds'
    OBVIOUS
  <2>1. UNCHANGED candle \/ candle' = NotRunning \/ candle' = 0
           \/ (candle < MaxCandles /\ candle' = candle + 1)
    BY DEF BacktestNext, StartRun, OnCandle, CancelRun, FinishRun, ResetBacktest, backtestVars
  <2>2. UNCHANGED result \/ result'.kind \in {"none", "cancelled", "panicked", "done"}
    BY DEF BacktestNext, StartRun, OnCandle, CancelRun, FinishRun, calculateResult, ResetBacktest,
           backtestVars
  <2>3. candle' \in NotRunning..MaxCandles
    BY <1>0, <2>1
  <2>4. Kinds'
    BY <2>2
  <2> QED BY <2>3, <2>4
<1>3. Inv => BacktestTypeOK
  <2> SUFFICES ASSUME Inv PROVE BacktestTypeOK
    OBVIOUS
  <2>1. /\ books.balance \in Nat /\ books.profit \in Nat /\ books.loss \in Nat /\ books.trades \in Nat
        /\ books.positions \in [DOMAIN books.positions -> HeldPositions]
        /\ DOMAIN books.positions \subseteq Instruments
    BY BookParts DEF BacktestInv
  <2>2. \A s \in DOMAIN books.positions : books.positions[s].qty > 0
    BY <2>1 DEF HeldPositions
  <2> QED BY <2>1, <2>2 DEF BacktestTypeOK
<1> HIDE DEF Kinds
<1> QED BY <1>1, <1>2, <1>3, BacktestInductive, PTL DEF BacktestSpec

\* What a refused update leaves is stored all the same.
SpoiledStored == reply \in {"ok", "refused"} /\ spoiled \subseteq StoredIds

LEMMA SpoiledKept ==
  ASSUME BuilderInv, BuilderInv', SpoiledStored, NEW i \in InstanceIds,
         \A j \in InstanceIds \ {i} : instances'[j] = instances[j],
         spoiled' \subseteq spoiled \union {i}, i \in spoiled' => instances'[i] # Missing,
         reply' \in {"ok", "refused"}
  PROVE  SpoiledStored'
<1>1. \A j \in spoiled' : j \in InstanceIds /\ instances'[j] # Missing
  BY DEF SpoiledStored, StoredIds, BuilderInv
<1> QED BY <1>1 DEF SpoiledStored, StoredIds

LEMMA BuilderTyped == BuilderSpec => []BuilderTypeOK
<1>1. BuilderInit => SpoiledStored
  BY DEF BuilderInit, SpoiledStored
<1>2. BuilderInv /\ BuilderInv' /\ SpoiledStored /\ [BuilderNext]_builderVars => SpoiledStored'
  <2> SUFFICES ASSUME BuilderInv, BuilderInv', SpoiledStored, [BuilderNext]_builderVars
               PROVE  SpoiledStored'
    OBVIOUS
  <2>1. ASSUME NEW i \in InstanceIds, NEW t, NEW name, NEW symbol, NEW params,
               CreateInstance(i, t, name, symbol, params)
        PROVE  SpoiledStored'
    <3> DEFINE inst == [template |-> t, name |-> name, symbol |-> symbol, enabled |-> FALSE,
                        params |-> params, built |-> Built(t, params)]
    <3>1. /\ i \notin usedIds /\ UNCHANGED spoiled
          /\ \/ instances' = [instances EXCEPT ![i] = inst] /\ reply' = "ok"
             \/ reply' = "refused" /\ UNCHANGED instances
      BY <2>1 DEF CreateInstance, Refuses
    <3> HIDE DEF inst
    <3>2. i \notin spoiled' /\ \A j \in InstanceIds \ {i} : instances'[j] = instances[j]
      BY <3>1 DEF BuilderInv
    <3> QED BY <3>1, <3>2, SpoiledKept
  <2>2. ASSUME NEW i \in InstanceIds, NEW name \in Names \union {Missing},
               NEW symbol \in Names \union {Missing}, NEW enabled \in BOOLEAN \union {Missing},
               NEW params, params \in Offers(instances[i].template) \/ params = Missing,
               UpdateInstance(i, name, symbol, enabled, params)
        PROVE  SpoiledStored'
    <3> DEFINE old == instances[i]
               changed == [old EXCEPT !.name = Given(name, @), !.symbol = Given(symbol, @),
                                      !.enabled = Given(enabled, @)]
               inst == IF params = Missing THEN changed ELSE TakesParameters(changed, params)
               accepted == params = Missing \/ validateParameters(old.template, params)
    <3>1. /\ instances' = [instances EXCEPT ![i] = inst]
          /\ reply' = IF accepted /\ ValidInstance(inst) THEN "ok" ELSE "refused"
          /\ spoiled' = IF ValidInstance(inst) THEN spoiled \ {i} ELSE spoiled \union {i}
      BY <2>2 DEF UpdateInstance
    <3>2. instances'[i] # Missing
      BY <2>2, BuilderUpdates, MissingAssumption
    <3> HIDE DEF inst, accepted
    <3>3. \A j \in InstanceIds \ {i} : instances'[j] = instances[j]
      BY <3>1 DEF BuilderInv
    <3> QED BY <3>1, <3>2, <3>3, SpoiledKept
  <2>3. ASSUME NEW i \in InstanceIds, NEW on \in BOOLEAN, SetEnabled(i, on) PROVE SpoiledStored'
    <3>1. /\ instances' = [instances EXCEPT ![i] = [instances[i] EXCEPT !.enabled = on]]
          /\ instances[i] # Missing /\ reply' = "ok" /\ UNCHANGED spoiled
      BY <2>3 DEF SetEnabled
    <3>2. instances[i] \in StrategyInstances
      BY <3>1 DEF BuilderInv
    <3>3. [instances[i] EXCEPT !.enabled = on] \in StrategyInstances
      BY <3>2 DEF StrategyInstances
    <3>4. /\ instances'[i] \in StrategyInstances
          /\ \A j \in InstanceIds \ {i} : instances'[j] = instances[j]
      BY <3>1, <3>3 DEF BuilderInv
    <3> QED BY <3>1, <3>4, MissingAssumption, SpoiledKept
  <2>4. ASSUME NEW i \in InstanceIds, DeleteInstance(i) \/ NotFound(i) PROVE SpoiledStored'
    <3>1. /\ \A j \in InstanceIds \ {i} : instances'[j] = instances[j]
          /\ spoiled' \subseteq spoiled /\ reply' \in {"ok", "refused"}
          /\ i \in spoiled' => instances'[i] # Missing
      BY <2>4 DEF DeleteInstance, NotFound, Refuses, BuilderInv, SpoiledStored, StoredIds
    <3> QED BY <3>1, SpoiledKept
  <2>5. CASE UNCHANGED builderVars
    BY <2>5 DEF builderVars, SpoiledStored, StoredIds
  <2>6. ASSUME NEW i \in InstanceIds, StrategyCreateCommand(i) \/ StrategyUpdateCommand(i)
        PROVE  SpoiledStored'
    BY <2>1, <2>2, <2>6 DEF StrategyCreateCommand, StrategyUpdateCommand, CommandOffers
  <2> QED BY <2>1, <2>2, <2>3, <2>4, <2>5, <2>6 DEF BuilderNext
<1>3. BuilderInv /\ SpoiledStored => BuilderTypeOK
  BY DEF BuilderInv, BuilderTypeOK, SpoiledStored
<1> QED BY <1>1, <1>2, <1>3, BuilderInductive, PTL DEF BuilderSpec

\* The clock stops at its bound, and only entries that were appended are lost.
JournalBounds ==
    /\ journalFile \in {"open", "closed", "down"}
    /\ second <= MaxSeconds
    /\ lost \subseteq ClientOrderIds

LEMMA ReplacedAreIds == ASSUME JournalInv PROVE Replaced \subseteq ClientOrderIds
<1> SUFFICES ASSUME second \in DOMAIN segments, NEW k \in DOMAIN segments[second],
                    segments[second][k] # Garbage
             PROVE  segments[second][k].id \in ClientOrderIds
  BY DEF Replaced, IdsOf
<1>1. segments[second] \in Seq(JournalEntries \union {Garbage})
  BY DEF JournalInv, JournalTypes, Lines
<1>2. segments[second][k] \in JournalEntries
  BY <1>1
<1> QED BY <1>2 DEF JournalEntries

LEMMA JournalTyped == JournalSpec => []JournalTypeOK
<1>1. JournalInit => JournalBounds
  BY JournalAssumption DEF JournalInit, JournalBounds
<1>2. JournalInv /\ JournalBounds /\ [JournalNext]_journalVars => JournalBounds'
  <2> SUFFICES ASSUME JournalInv, JournalBounds, [JournalNext]_journalVars PROVE JournalBounds'
    OBVIOUS
  <2>t. /\ second \in Nat /\ MaxSeconds \in Nat /\ Replaced \subseteq ClientOrderIds
        /\ journalFile \in {"open", "closed", "down"} /\ second <= MaxSeconds
        /\ lost \subseteq ClientOrderIds
    BY JournalAssumption, ReplacedAreIds DEF JournalInv, JournalTypes, JournalBounds
  <2>1. journalFile' \in {"open", "closed", "down"}
    BY <2>t DEF JournalNext, AppendEntry, AppendBreaks, RotationFails, TruncateAfterReconciliation,
                CloseJournal, OpenJournal, NextSecond, journalVars
  <2>2. UNCHANGED second \/ (second < MaxSeconds /\ second' = second + 1)
    BY DEF JournalNext, AppendEntry, AppendBreaks, RotationFails, TruncateAfterReconciliation,
           CloseJournal, OpenJournal, NextSecond, journalVars
  <2>3. second' <= MaxSeconds
    BY <2>t, <2>2
  <2>4. lost' \subseteq ClientOrderIds
    <3>1. ASSUME NEW id \in ClientOrderIds, AppendEntry(id) PROVE lost' \subseteq ClientOrderIds
      BY <2>t, <3>1 DEF AppendEntry
    <3>2. ASSUME NEW id \in ClientOrderIds, RotationFails(id) PROVE lost' \subseteq ClientOrderIds
      BY <2>t, <3>2 DEF RotationFails
    <3>3. CASE UNCHANGED lost \/ lost' = {}
      BY <2>t, <3>3
    <3> QED BY <3>1, <3>2, <3>3
            DEF JournalNext, AppendBreaks, TruncateAfterReconciliation, CloseJournal, OpenJournal,
                NextSecond, journalVars
  <2> QED BY <2>1, <2>3, <2>4 DEF JournalBounds
<1>3. JournalInv /\ JournalBounds => JournalTypeOK
  <2> SUFFICES ASSUME JournalInv, JournalBounds PROVE JournalTypeOK
    OBVIOUS
  <2>1. DOMAIN segments \subseteq 0..MaxSeconds
    BY JournalAssumption DEF JournalInv, JournalTypes, JournalBounds
  <2> QED BY <2>1 DEF JournalInv, JournalTypes, JournalBounds, JournalTypeOK
<1> QED BY <1>1, <1>2, <1>3, JournalInductive, PTL DEF JournalSpec

LEMMA BackupTyped == BackupSpec => []BackupTypeOK
<1> DEFINE Named == DOMAIN archives \subseteq 1..MaxArchives
<1>1. BackupInit => Named
  <2> SUFFICES ASSUME BackupInit PROVE Named
    OBVIOUS
  <2>1. archives = <<>>
    BY DEF BackupInit
  <2> QED BY <2>1
<1>2. Named /\ [BackupNext]_backupVars => Named'
  <2> SUFFICES ASSUME Named, [BackupNext]_backupVars PROVE Named'
    OBVIOUS
  <2>1. ASSUME NEW s \in 1..MaxArchives, CreateOpens(s) PROVE Named'
    BY <2>1 DEF CreateOpens
  <2>2. CASE CreateEncrypts
    BY <2>2 DEF CreateEncrypts
  <2>3. CASE CreateSums
    BY <2>3 DEF CreateSums
  <2>4. CASE UNCHANGED archives
    BY <2>4
  <2> HIDE DEF Named
  <2> QED BY <2>1, <2>2, <2>3, <2>4
          DEF BackupNext, AgentWrites, CreateStarts, CreateReads, CreateStops, RestoreVerifies,
              RestoreCopies, RestoreFills, RestoreReturns, RestoreStops, backupVars
<1>3. BackupInv /\ Named => BackupTypeOK
  <2> SUFFICES ASSUME BackupInv, Named PROVE BackupTypeOK
    OBVIOUS
  <2>1. DOMAIN live = FileSet /\ outcome \in {"none", "ok", "refused", "cut"}
    BY DEF BackupInv, BackupTypes, Directories
  <2>2. \A s \in DOMAIN archives : archives[s].sum \in {"none", "ok", "stale"}
    BY DEF BackupInv, BackupTypes, ArchivesMade
  <2>3. making.at \in {"idle", "reading", "writing", "summing"}
    BY DEF BackupInv, BackupTypes, Creates, NotMaking
  <2>4. restoring.at \in {"idle", "copying", "filling"}
    BY DEF BackupInv, BackupTypes, Restores, NotRestoring
  <2> QED BY <2>1, <2>2, <2>3, <2>4 DEF BackupTypeOK
<1> HIDE DEF Named
<1> QED BY <1>1, <1>2, <1>3, BackupInductive, PTL DEF BackupSpec

\* The state of every service keeps its types, for any number of processes, handles,
\* sessions, instances and calls.
THEOREM ServicesTypeTheorem ==
  /\ VaultSpec => []VaultTypeOK
  /\ StoreSpec => []StoreTypeOK
  /\ TablesSpec => []TablesTypeOK
  /\ HostSpec => []HostTypeOK
  /\ RiskSpec => []RiskTypeOK
  /\ BacktestSpec => []BacktestTypeOK
  /\ BuilderSpec => []BuilderTypeOK
  /\ JournalSpec => []JournalTypeOK
  /\ BackupSpec => []BackupTypeOK
  /\ ConfigSpec => []ConfigTypeOK
  /\ AuditSpec => []AuditTypeOK
BY VaultTyped, StoreTyped, TablesTyped, HostTyped, RiskTyped, BacktestTyped, BuilderTyped,
   JournalTyped, BackupTyped, ConfigTyped, AuditTyped
=============================================================================
