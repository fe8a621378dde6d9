------------------------------- MODULE Vault -------------------------------
(***************************************************************************)
(* The password vault: internal/vault/vault.go over one SQLite file, with  *)
(* the encryption of crypto.go abstracted to the key a text is sealed with.*)
(*                                                                         *)
(* A handle is a Vault value of one process and is used by one goroutine   *)
(* at a time: the type has no lock.  Several handles share the file.  One  *)
(* step is one statement or one transaction of the database; whatever a    *)
(* call computes between two of them belongs to the step before.  A call   *)
(* may fail at any statement (a busy database, a cancelled context), and a *)
(* process may die between two of them.                                    *)
(***************************************************************************)
EXTENDS Naturals, FiniteSets

CONSTANTS Handles, Keys, Values, Passwords,
          NoRow,            \* no value: an absent row, a key not held
          MaxSets,          \* bound: calls of Set
          MaxSalts          \* bound: salts drawn, one per Initialize or change

ASSUME VaultAssumption ==
    /\ MaxSets \in Nat /\ MaxSalts \in Nat
    /\ IsFiniteSet(Keys)

VARIABLES
    meta,       \* the rows of vault_meta: the salt and the password hash
    secrets,    \* the rows of secrets: the sealed text of a key
    handle,     \* handle -> its key (crypto) and what its call is doing
    drawn,      \* salts drawn so far
    sets,       \* calls of Set so far
    \* what the calls have done, for the properties
    written,    \* key -> the value of the last upsert, NoRow after a Delete
    password,   \* the password of the last Initialize or change that wrote
    excused,    \* keys a Set wrote beside a change of password
    cut         \* an Initialize died or failed between its two inserts

vaultVars == <<meta, secrets, handle, drawn, sets,
               written, password, excused, cut>>

Salts == 1..MaxSalts
NewCrypto(p, s) == <<p, s>>
HashPassword(p, s) == <<p, s>>
VerifyPassword(p, s, hash) == hash = HashPassword(p, s)
CryptoKeys == Passwords \X Salts

Encrypt(c, v) == [under |-> c, holds |-> v]
SealedTexts == [under : CryptoKeys, holds : Values]

\* No value is none of them.
ASSUME NoRowAssumption ==
    NoRow \notin Salts \union Values \union CryptoKeys \union SealedTexts

Decrypt(c, text) == IF text.under = c THEN text.holds ELSE NoRow

Idle == [op |-> "none"]
IdleHandles == {h \in Handles : handle[h].call = Idle}
Changing == {h \in Handles : handle[h].call.op = "change"}

\* List and Get of an unlocked handle: what the tables hold for it.
List == {k \in Keys : secrets[k] # NoRow}
Get(h, k) == IF secrets[k] = NoRow THEN NoRow ELSE Decrypt(handle[h].crypto, secrets[k])

VaultInit ==
    /\ meta = [salt |-> NoRow, hash |-> NoRow]
    /\ secrets = [k \in Keys |-> NoRow]
    /\ handle = [h \in Handles |-> [crypto |-> NoRow, call |-> Idle]]
    /\ drawn = 0 /\ sets = 0
    /\ written = [k \in Keys |-> NoRow]
    /\ password = NoRow
    /\ excused = {}
    /\ cut = FALSE

Call(h, c) == handle' = [handle EXCEPT ![h].call = c]
Return(h) == Call(h, Idle)
vaultRows == <<meta, secrets>>
ghosts == <<written, password, excused, cut>>

DrawSalt == drawn < MaxSalts /\ drawn' = drawn + 1

(***************************************************************************)
(* Initialize: two inserts, each a transaction of its own.  The first one  *)
(* fails when the table has a salt already.                                *)
(***************************************************************************)
InitializeSalt(h, p) ==
    /\ h \in IdleHandles /\ handle[h].crypto = NoRow
    /\ meta.salt = NoRow
    /\ DrawSalt
    /\ meta' = [meta EXCEPT !.salt = drawn + 1]
    /\ Call(h, [op |-> "initialize", pwd |-> p])
    /\ UNCHANGED <<secrets, sets, ghosts>>

InitializeHash(h) ==
    /\ handle[h].call.op = "initialize"
    /\ meta' = [meta EXCEPT !.hash = HashPassword(handle[h].call.pwd, meta.salt)]
    /\ password' = handle[h].call.pwd
    /\ Return(h)
    /\ UNCHANGED <<secrets, drawn, sets, written, excused, cut>>

\* Unlock reads the salt, then the hash, and keeps the key when they fit.
UnlockReads(h, p) ==
    /\ h \in IdleHandles /\ handle[h].crypto = NoRow
    /\ meta.salt # NoRow
    /\ Call(h, [op |-> "unlock", pwd |-> p, salt |-> meta.salt])
    /\ UNCHANGED <<vaultRows, drawn, sets, ghosts>>

UnlockVerifies(h) ==
    LET c == handle[h].call IN
    /\ c.op = "unlock"
    /\ handle' = [handle EXCEPT ![h] =
           [crypto |-> IF VerifyPassword(c.pwd, c.salt, meta.hash)
                       THEN NewCrypto(c.pwd, c.salt) ELSE NoRow,
            call |-> Idle]]
    /\ UNCHANGED <<vaultRows, drawn, sets, ghosts>>

\* Lock forgets the key; Close is Lock and the end of the connection.
Lock(h) ==
    /\ h \in IdleHandles /\ handle[h].crypto # NoRow
    /\ handle' = [handle EXCEPT ![h].crypto = NoRow]
    /\ UNCHANGED <<vaultRows, drawn, sets, ghosts>>

\* The handle's key is not the one the tables are sealed with.
Stale(h) == handle[h].crypto # <<password, meta.salt>>

\* Set seals the value with the key it holds, then upserts the row.
SetEncrypts(h, k, v) ==
    /\ h \in IdleHandles /\ handle[h].crypto # NoRow
    /\ sets < MaxSets
    /\ sets' = sets + 1
    /\ Call(h, [op |-> "set", key |-> k, text |-> Encrypt(handle[h].crypto, v)])
    /\ excused' = IF Changing # {} \/ Stale(h) THEN excused \union {k} ELSE excused
    /\ UNCHANGED <<vaultRows, drawn, written, password, cut>>

SetStores(h) ==
    LET c == handle[h].call IN
    /\ c.op = "set"
    /\ secrets' = [secrets EXCEPT ![c.key] = c.text]
    /\ written' = [written EXCEPT ![c.key] = c.text.holds]
    /\ Return(h)
    /\ UNCHANGED <<meta, drawn, sets, password, excused, cut>>

Delete(h, k) ==
    /\ h \in IdleHandles /\ handle[h].crypto # NoRow
    /\ k \in List
    /\ secrets' = [secrets EXCEPT ![k] = NoRow]
    /\ written' = [written EXCEPT ![k] = NoRow]
    /\ UNCHANGED <<meta, handle, drawn, sets, password, excused, cut>>

(***************************************************************************)
(* ChangePassword: salt, hash, the list and every secret are read one by   *)
(* one; then one transaction rewrites the listed rows, the salt and the    *)
(* hash, and the handle takes the new key.                                 *)
(***************************************************************************)
SettingKeys == {handle[h].call.key : h \in {g \in Handles : handle[g].call.op = "set"}}

ChangeReadsSalt(h, old, new) ==
    /\ h \in IdleHandles /\ handle[h].crypto # NoRow
    /\ Call(h, [op |-> "change", at |-> "verify", old |-> old, new |-> new,
                salt |-> meta.salt])
    /\ excused' = excused \union SettingKeys
    /\ UNCHANGED <<vaultRows, drawn, sets, written, password, cut>>

ChangeVerifies(h) ==
    LET c == handle[h].call IN
    /\ c.op = "change" /\ c.at = "verify"
    /\ IF VerifyPassword(c.old, c.salt, meta.hash)
       THEN /\ DrawSalt
            /\ Call(h, [op |-> "change", at |-> "list", crypto |-> NewCrypto(c.new, drawn + 1)])
       ELSE Return(h) /\ UNCHANGED drawn
    /\ UNCHANGED <<vaultRows, sets, ghosts>>

ChangeLists(h) ==
    LET c == handle[h].call IN
    /\ c.op = "change" /\ c.at = "list"
    /\ Call(h, [op |-> "change", at |-> "read", crypto |-> c.crypto,
                left |-> List, plain |-> [k \in List |-> NoRow]])
    /\ UNCHANGED <<vaultRows, drawn, sets, ghosts>>

\* Slip: the change rewrites the rows in statements of their own, so that a
\* failure leaves the first ones under the new key.
ChangeReadsAndRewrites(h) ==
    LET c == handle[h].call IN
    /\ c.op = "change" /\ c.at = "read"
    /\ \E k \in c.left :
          IF Get(h, k) = NoRow THEN Return(h) /\ UNCHANGED secrets
          ELSE /\ Call(h, [c EXCEPT !.left = @ \ {k}, !.plain[k] = Get(h, k)])
               /\ secrets' = [secrets EXCEPT ![k] = Encrypt(c.crypto, Get(h, k))]
    /\ UNCHANGED <<meta, drawn, sets, ghosts>>

ChangeReads(h) ==
    LET c == handle[h].call IN
    /\ c.op = "change" /\ c.at = "read"
    /\ \E k \in c.left :
          IF Get(h, k) = NoRow THEN Return(h)
          ELSE Call(h, [c EXCEPT !.left = @ \ {k}, !.plain[k] = Get(h, k)])
    /\ UNCHANGED <<vaultRows, drawn, sets, ghosts>>

\* UPDATE changes a row that is there: a listed key deleted since stays away.
ChangeCommits(h) ==
    LET c == handle[h].call IN
    /\ c.op = "change" /\ c.at = "read" /\ c.left = {}
    /\ secrets' = [k \in Keys |-> IF k \in DOMAIN c.plain /\ secrets[k] # NoRow
                                  THEN Encrypt(c.crypto, c.plain[k]) ELSE secrets[k]]
    /\ meta' = [salt |-> c.crypto[2], hash |-> HashPassword(c.crypto[1], c.crypto[2])]
    /\ password' = c.crypto[1]
    /\ handle' = [handle EXCEPT ![h] = [crypto |-> c.crypto, call |-> Idle]]
    /\ UNCHANGED <<drawn, sets, written, excused, cut>>

\* A statement fails: the call returns its error, a transaction rolls back.
CallFails(h) ==
    /\ handle[h].call # Idle
    /\ Return(h)
    /\ cut' = (cut \/ handle[h].call.op = "initialize")
    /\ UNCHANGED <<vaultRows, drawn, sets, written, password, excused>>

\* The handle's process dies: the key and the call are gone, the file stays.
VaultCrash(h) ==
    /\ handle' = [handle EXCEPT ![h] = [crypto |-> NoRow, call |-> Idle]]
    /\ cut' = (cut \/ handle[h].call.op = "initialize")
    /\ UNCHANGED <<vaultRows, drawn, sets, written, password, excused>>

VaultNext == \E h \in Handles :
    \/ \E p \in Passwords : InitializeSalt(h, p)
    \/ InitializeHash(h)
    \/ \E p \in Passwords : UnlockReads(h, p)
    \/ UnlockVerifies(h)
    \/ Lock(h)
    \/ \E k \in Keys, v \in Values : SetEncrypts(h, k, v)
    \/ SetStores(h)
    \/ \E k \in Keys : Delete(h, k)
    \/ \E old, new \in Passwords : ChangeReadsSalt(h, old, new)
    \/ ChangeVerifies(h)
    \/ ChangeLists(h)
    \/ ChangeReads(h)
    \/ ChangeCommits(h)
    \/ CallFails(h)
    \/ VaultCrash(h)

VaultSpec == VaultInit /\ [][VaultNext]_vaultVars

-----------------------------------------------------------------------------
\* The state has the type the code gives it.
VaultTypeOK ==
    /\ meta \in [salt : Salts \union {NoRow}, hash : CryptoKeys \union {NoRow}]
    /\ \A k \in Keys : secrets[k] # NoRow =>
          secrets[k] \in SealedTexts
    /\ \A h \in Handles : handle[h].crypto \in CryptoKeys \union {NoRow}
    /\ written \in [Keys -> Values \union {NoRow}]
    /\ excused \subseteq Keys

\* A change of password, whatever fails or dies around it and whatever other
\* handles delete, loses no secret: every key that no Set wrote beside a
\* change, or through a handle unlocked before another handle's change, is
\* absent exactly when it was deleted and otherwise opens, under the salt and
\* the password of the file, to the value last stored; that password is the
\* only one the file opens with (ChangePassword's reads outside its
\* transaction, vault.go:316-376); and a file with a salt and no hash, which
\* neither Unlock nor another Initialize gets past, is one whose Initialize
\* is running or was cut short between its two inserts (vault.go:93-101).
ChangeLosesNoSecret ==
    /\ password # NoRow => meta.hash = HashPassword(password, meta.salt)
    /\ \A k \in Keys \ excused :
          IF written[k] = NoRow THEN secrets[k] = NoRow
          ELSE secrets[k] = Encrypt(NewCrypto(password, meta.salt), written[k])
    /\ meta.salt # NoRow /\ meta.hash = NoRow =>
          cut \/ \E h \in Handles : handle[h].call.op = "initialize"
=============================================================================
