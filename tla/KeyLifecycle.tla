---------------------------- MODULE KeyLifecycle ----------------------------
(***************************************************************************)
(* Encryption keys and certificates (ctdisr/cryptography): a key row holds *)
(* one version of its material, rotation overwrites it, and every backend  *)
(* caches what it read for five minutes.  The master key is configured.    *)
(* Presumed: a material comes back from its BYTEA column as it was written *)
(* (the code sends a Buffer, which JSON.stringify turns into an object).   *)
(* Flag "keys": a history about this component; "overlap": rotations of    *)
(* one key may overlap; "writes", "reads": requests may fail; "crash".     *)
(***************************************************************************)
EXTENDS Histories, Integers, FiniteSets, Sequences, SequencesExt

CONSTANTS
    Keys,          \* rows of encryption_keys, each with its alias
    KeyCalls,      \* requests to the backend
    RotationJob,   \* checkKeyRotation, one of them
    Certs,         \* rows of certificates
    MaxMaterials,  \* bound: materials made for one key
    MaxSealed      \* bound: ciphertexts told apart

ASSUME KeysAssumption ==
    /\ RotationJob \in KeyCalls /\ MaxMaterials \in Nat \ {0}
    /\ None \notin {"rotate", "encrypt", "decrypt"}

VARIABLES
    keyRow,      \* encryption_keys
    made,        \* materials generated so far; each is new
    due,         \* keys past next_rotation_at, the longest overdue first
    rotations,   \* key_rotation_history
    cache,       \* keyCache: entries that have not expired
    sealed,      \* what encrypt returned: the key, its version, what encrypted it
    keyCall,     \* requests under way
    isRunning,   \* the flag of the rotation job
    certificate  \* certificates, with their pending renewals

keyVars == <<keyRow, made, due, rotations, cache, sealed, keyCall, isRunning, certificate>>

Versions == Nat
EncryptionKey == [status : {"none", "active", "destroyed"}, version : Versions,
                  material : Versions]
DecryptedKey == [version : Versions, material : Versions]
EncryptionResult == [key : Keys, version : Versions, material : Versions]
KeyRotationHistory == [key : Keys, old : Versions, new : Versions]
Certificate == [status : {"none", "active", "expired", "revoked"}, over : BOOLEAN,
                renewals : 0..2]
\* wanted: the ciphertext to be decrypted; by: the version asked for, 0 for any.
KeyCall == [pc : {"idle", "due", "row", "write", "history", "fetch", "use", "mismatch"},
            kind : {"rotate", "encrypt", "decrypt", None}, key : Keys \cup {None},
            read : DecryptedKey \cup {None}, wanted : EncryptionResult \cup {None},
            by : Versions]
IdleKeyCall == [pc |-> "idle", kind |-> None, key |-> None, read |-> None,
                wanted |-> None, by |-> 0]

KeyInit ==
    /\ keyRow = [k \in Keys |-> [status |-> "none", version |-> 0, material |-> 0]]
    /\ made = [k \in Keys |-> 0]
    /\ due = <<>> /\ rotations = {} /\ sealed = {}
    /\ cache = [k \in Keys |-> None]
    /\ keyCall = [c \in KeyCalls |-> IdleKeyCall]
    /\ isRunning = FALSE
    /\ certificate = [x \in Certs |-> [status |-> "none", over |-> FALSE, renewals |-> 0]]

KeyCallEnded(c) == keyCall[c].pc \in {"idle", "mismatch"}
Rotating(k) == {c \in KeyCalls : keyCall[c].kind = "rotate" /\ keyCall[c].key = k}
\* Bounds the materials made: rotations that were begun and those that are due count.
Room(k) == made[k] + Cardinality(Rotating(k) \ {RotationJob})
             + (IF Contains(due, k) \/ RotationJob \in Rotating(k) THEN 1 ELSE 0) < MaxMaterials
RotationsApart(k) == May("overlap") \/ Rotating(k) = {}
KeyWritesFail == May("writes")
unchangedCrypto == UNCHANGED <<made, due, rotations, sealed, certificate>>

\* The call is over: its record is reset, and the job's 'finally' runs.  Mutated form:
\* the flag is not reset.
EndKeyCallStuck(c) == keyCall' = [keyCall EXCEPT ![c] = IdleKeyCall] /\ UNCHANGED isRunning
EndKeyCall(c) == /\ keyCall' = [keyCall EXCEPT ![c] = IdleKeyCall]
                 /\ isRunning' = (isRunning /\ c # RotationJob)

-----------------------------------------------------------------------------
(* Keys: generateKey, rotateKey, destroyKey.                               *)

\* key_alias is unique; a failing insert changes nothing.
GenerateKey(k) ==
    /\ keyRow[k].status = "none"
    /\ keyRow' = [keyRow EXCEPT ![k] = [status |-> "active", version |-> 1, material |-> 1]]
    /\ made' = [made EXCEPT ![k] = 1]
    /\ UNCHANGED <<due, rotations, cache, sealed, keyCall, isRunning, certificate>>

RotateKey(c, k) ==
    /\ KeyCallEnded(c) /\ c # RotationJob /\ keyRow[k].status # "none"
    /\ Room(k) /\ RotationsApart(k)
    /\ keyCall' = [keyCall EXCEPT ![c] = [IdleKeyCall EXCEPT !.kind = "rotate", !.key = k,
                                                             !.pc = "row"]]
    /\ UNCHANGED <<keyRow, cache, isRunning>> /\ unchangedCrypto

\* getKeyById, whatever the status.
GetKeyById(c) ==
    /\ keyCall[c].pc = "row"
    /\ LET row == keyRow[keyCall[c].key] IN
       \/ /\ keyCall' = [keyCall EXCEPT ![c].pc = "write",
                           ![c].read = [version |-> row.version, material |-> 0]]
          /\ UNCHANGED isRunning
       \/ May("reads") /\ EndKeyCall(c)
    /\ UNCHANGED <<keyRow, cache>> /\ unchangedCrypto

\* New material overwrites the old, and the key is active again.  Mutated form: the
\* version is kept.
NewVersionKept(read) == read.version
NewVersion(read) == read.version + 1
UpdateKey(c) ==
    /\ keyCall[c].pc = "write"
    /\ LET k == keyCall[c].key IN
       \/ /\ made' = [made EXCEPT ![k] = @ + 1]
          /\ keyRow' = [keyRow EXCEPT ![k] =
                [status |-> "active", version |-> NewVersion(keyCall[c].read),
                 material |-> made[k] + 1]]
          /\ due' = IF Contains(due, k) THEN RemoveAt(due, CHOOSE i \in DOMAIN due : due[i] = k)
                    ELSE due
          /\ keyCall' = [keyCall EXCEPT ![c].pc = "history"]
          /\ UNCHANGED isRunning
       \/ KeyWritesFail /\ EndKeyCall(c) /\ UNCHANGED <<made, keyRow, due>>
    /\ UNCHANGED <<rotations, cache, sealed, certificate>>

\* The error of the insert is not looked at; the cached key goes after its answer.  The
\* job ends here: logSecurityEvent, which it calls next, does not exist, and what it
\* calls to report that does not either.
RecordRotation(c) ==
    /\ keyCall[c].pc = "history"
    /\ LET k == keyCall[c].key
           entry == [key |-> k, old |-> keyCall[c].read.version,
                     new |-> NewVersion(keyCall[c].read)]
       IN /\ \/ rotations' = rotations \cup {entry}
             \/ KeyWritesFail /\ UNCHANGED rotations
          /\ cache' = [cache EXCEPT ![k] = None]
    /\ EndKeyCall(c)
    /\ UNCHANGED <<keyRow, made, due, sealed, certificate>>

\* The cache is left as it is.
DestroyKey(k) ==
    /\ keyRow[k].status = "active"
    /\ keyRow' = [keyRow EXCEPT ![k].status = "destroyed"]
    /\ UNCHANGED <<cache, keyCall, isRunning>> /\ unchangedCrypto

KeyFallsDue(k) ==
    /\ keyRow[k].status = "active" /\ ~Contains(due, k) /\ Room(k)
    /\ due' = Append(due, k)
    /\ UNCHANGED <<keyRow, made, rotations, cache, sealed, keyCall, isRunning, certificate>>

-----------------------------------------------------------------------------
(* The hourly job.                                                         *)

CheckKeyRotation ==
    /\ ~isRunning /\ isRunning' = TRUE
    /\ keyCall' = [keyCall EXCEPT ![RotationJob].pc = "due"]
    /\ UNCHANGED <<keyRow, cache>> /\ unchangedCrypto

\* get_keys_needing_rotation; only the first key is ever reached.
GetKeysNeedingRotation ==
    /\ keyCall[RotationJob].pc = "due"
    /\ LET needing == {i \in DOMAIN due : keyRow[due[i]].status = "active"} IN
       \/ \E i \in needing :
             /\ \A j \in needing : i <= j
             /\ RotationsApart(due[i])
             /\ keyCall' = [keyCall EXCEPT ![RotationJob] =
                   [IdleKeyCall EXCEPT !.kind = "rotate", !.key = due[i], !.pc = "row"]]
             /\ UNCHANGED isRunning
       \/ (needing = {} \/ May("reads")) /\ EndKeyCall(RotationJob)
    /\ UNCHANGED <<keyRow, cache>> /\ unchangedCrypto

-----------------------------------------------------------------------------
(* encrypt and decrypt over getDecryptedKey.                               *)

\* A cached key serves if no version is asked for, or this one.  Mutated form: any.
ServesAny(entry, v) == entry # None
Serves(entry, v) == entry # None /\ (v = 0 \/ entry.version = v)

\* The call has its key: a plaintext is sealed by it, a ciphertext opened or refused.
WithKey(c, call, key) ==
    \/ /\ call.kind = "encrypt"
       /\ LET s == [key |-> call.key, version |-> key.version, material |-> key.material] IN
          sealed' = IF s \in sealed \/ Cardinality(sealed) < MaxSealed THEN sealed \cup {s}
                    ELSE sealed
       /\ EndKeyCall(c)
    \/ /\ call.kind = "decrypt" /\ UNCHANGED <<sealed, isRunning>>
       /\ keyCall' = [keyCall EXCEPT ![c] =
             IF key.material = call.wanted.material THEN IdleKeyCall
             ELSE [IdleKeyCall EXCEPT !.pc = "mismatch", !.by = call.by]]

GetDecryptedKey(c, call) ==
    /\ KeyCallEnded(c) /\ c # RotationJob /\ keyRow[call.key].status # "none"
    /\ \/ Serves(cache[call.key], call.by) /\ WithKey(c, call, cache[call.key])
       \/ /\ ~Serves(cache[call.key], call.by)
          /\ keyCall' = [keyCall EXCEPT ![c] = call] /\ UNCHANGED <<sealed, isRunning>>
    /\ UNCHANGED <<keyRow, made, due, rotations, cache, certificate>>
Encrypt(c, k) ==
    GetDecryptedKey(c, [IdleKeyCall EXCEPT !.pc = "fetch", !.kind = "encrypt", !.key = k])
Decrypt(c, s, v) ==
    GetDecryptedKey(c, [IdleKeyCall EXCEPT !.pc = "fetch", !.kind = "decrypt", !.key = s.key,
                                           !.wanted = s, !.by = v])

\* The row of an active key, of the version asked for.  Mutated form: of any status.
UsableAny(row, v) == v = 0 \/ row.version = v
Usable(row, v) == row.status = "active" /\ (v = 0 \/ row.version = v)
FetchKey(c) ==
    /\ keyCall[c].pc = "fetch"
    /\ LET row == keyRow[keyCall[c].key] IN
       \/ /\ Usable(row, keyCall[c].by)
          /\ keyCall' = [keyCall EXCEPT ![c].pc = "use",
                ![c].read = [version |-> row.version, material |-> row.material]]
          /\ UNCHANGED isRunning
       \/ (~Usable(row, keyCall[c].by) \/ May("reads")) /\ EndKeyCall(c)
    /\ UNCHANGED <<keyRow, cache>> /\ unchangedCrypto

\* The answer may come after a rotation emptied the cache.
UseKey(c) ==
    /\ keyCall[c].pc = "use"
    /\ cache' = [cache EXCEPT ![keyCall[c].key] = keyCall[c].read]
    /\ WithKey(c, keyCall[c], keyCall[c].read)
    /\ UNCHANGED <<keyRow, made, due, rotations, certificate>>

CacheExpires(k) ==
    /\ cache[k] # None /\ cache' = [cache EXCEPT ![k] = None]
    /\ UNCHANGED <<keyRow, keyCall, isRunning>> /\ unchangedCrypto

KeyBackendDies ==
    /\ May("crash") /\ \E c \in KeyCalls : ~KeyCallEnded(c)
    /\ cache' = [k \in Keys |-> None] /\ isRunning' = FALSE
    /\ keyCall' = [c \in KeyCalls |-> IdleKeyCall]
    /\ UNCHANGED keyRow /\ unchangedCrypto

-----------------------------------------------------------------------------
(* Certificates.  Nothing completes a renewal; the daily job throws before *)
(* it asks for one.                                                        *)

\* check_certificate_expiry, before every update.
Touched(cert) == IF cert.status = "active" /\ cert.over THEN [cert EXCEPT !.status = "expired"]
                 ELSE cert
ImportCertificate(x) ==
    certificate[x].status = "none" /\ certificate' = [certificate EXCEPT ![x].status = "active"]
RevokeCertificate(x) ==
    /\ certificate[x].status # "none"
    /\ certificate' = [certificate EXCEPT ![x] = Touched([@ EXCEPT !.status = "revoked"])]
InitiateCertificateRenewal(x) ==
    /\ certificate[x].status # "none" /\ certificate[x].renewals < 2
    /\ certificate' = [certificate EXCEPT ![x].renewals = @ + 1]
NotAfterPasses(x) ==
    /\ certificate[x].status # "none" /\ ~certificate[x].over
    /\ certificate' = [certificate EXCEPT ![x].over = TRUE]

KeyCallStep(c) == GetKeyById(c) \/ UpdateKey(c) \/ RecordRotation(c) \/ FetchKey(c) \/ UseKey(c)
KeyNext ==
    \/ /\ May("keys")
       /\ \/ \E k \in Keys : GenerateKey(k) \/ DestroyKey(k) \/ KeyFallsDue(k) \/ CacheExpires(k)
          \/ \E c \in KeyCalls, k \in Keys : RotateKey(c, k) \/ Encrypt(c, k)
          \/ \E c \in KeyCalls, s \in sealed : Decrypt(c, s, s.version) \/ Decrypt(c, s, 0)
          \/ CheckKeyRotation \/ GetKeysNeedingRotation \/ KeyBackendDies
          \/ \E c \in KeyCalls : KeyCallStep(c)
    \/ /\ May("certificates")
       /\ \E x \in Certs : \/ ImportCertificate(x) \/ RevokeCertificate(x)
                           \/ InitiateCertificateRenewal(x) \/ NotAfterPasses(x)
       /\ UNCHANGED <<keyRow, made, due, rotations, cache, sealed, keyCall, isRunning>>

\* Requests to the database are answered, the job recurs and time passes.
KeyFairness == /\ WF_keyVars(May("keys") /\ CheckKeyRotation)
               /\ WF_keyVars(GetKeysNeedingRotation)
               /\ \A c \in KeyCalls : WF_keyVars(KeyCallStep(c))
               /\ \A k \in Keys : WF_keyVars(May("keys") /\ CacheExpires(k))

-----------------------------------------------------------------------------
(* Properties.                                                             *)

KeyTypeOK ==
    /\ keyRow \in [Keys -> EncryptionKey] /\ made \in [Keys -> Versions]
    /\ due \in Seq(Keys) /\ rotations \subseteq KeyRotationHistory
    /\ cache \in [Keys -> DecryptedKey \cup {None}]
    /\ sealed \subseteq EncryptionResult
    /\ keyCall \in [KeyCalls -> KeyCall] /\ isRunning \in BOOLEAN
    /\ certificate \in [Certs -> Certificate]

\* Where rotations of a key do not overlap, data that is decrypted under the version it
\* was encrypted with is never refused as forged, although the material of a version is
\* read, cached and overwritten in separate steps (getDecryptedKey, rotateKey).
VersionsTellMaterials ==
    ~May("overlap") => \A c \in KeyCalls : keyCall[c].pc = "mismatch" => keyCall[c].by = 0

\* The hourly check comes to every key that is due, although each run rotates one key
\* and then fails, if the database answers (checkKeyRotation).
DueIsRotated ==
    ~KeyWritesFail /\ ~May("reads") /\ ~May("crash") =>
        \A k \in Keys : Contains(due, k) /\ keyRow[k].status = "active" ~>
                           ~Contains(due, k) \/ keyRow[k].status # "active"

\* A key that stays destroyed is out of the cache for good, although destroyKey leaves
\* the cache alone and reads on their way may still fill it (getDecryptedKey).
DestroyedIsForgotten ==
    \A k \in Keys : <>[](keyRow[k].status = "destroyed") => <>[](cache[k] = None)
=============================================================================
