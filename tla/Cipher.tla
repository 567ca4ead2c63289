------------------------------- MODULE Cipher -------------------------------
(***************************************************************************)
(* Encryption at rest with key versions (crypto/aesgcm.go) and the         *)
(* encryption_keys table (store/repos.go).  The process loads the table    *)
(* once, at boot, and keeps using what it loaded; the operator inserts and *)
(* retires keys in the table and sets BOUNCER_ENCRYPTION_KEY, at any time. *)
(*                                                                         *)
(* A key is its material.  AES-GCM is perfect: a ciphertext opens with the *)
(* material that sealed it and with no other.                              *)
(***************************************************************************)
EXTENDS Naturals, FiniteSets

CONSTANTS
    KeyIDs,        \* key_id values that match keyIDPattern
    bootstrapKeyID,\* "k1"
    Materials,     \* 32-byte keys
    Blobs,         \* encrypted columns: client secrets, upstream refresh tokens
    None           \* no ciphertext, no key_id, no process

ASSUME CipherAssumption ==
    /\ bootstrapKeyID \in KeyIDs
    /\ None \notin KeyIDs \cup Materials

VARIABLES
    table,       \* encryption_keys: key_id -> material and status
    env,         \* BOUNCER_ENCRYPTION_KEY of the next boot
    cipher,      \* the Cipher of the running process
    blobs,       \* the stored ciphertexts
    envChanged   \* history: the operator has changed the environment

cipherVars == <<table, env, cipher, blobs, envChanged>>

Row == [material : Materials, status : {"active", "retired"}]

NoCipher == [keys |-> [id \in {} |-> None], activeID |-> None, legacy |-> None]

\* A ciphertext.  id is what parseVersioned reads from its first bytes: the
\* key_id of a versioned one, and None for a legacy one unless its random
\* nonce happens to look like a header.
Ciphertext(form, id, material) == [form |-> form, id |-> id, material |-> material]

NoBlob == Ciphertext("absent", None, None)

\* A database that an older build may have filled, before any key has an id.
CipherInit ==
    /\ table = [id \in {} |-> None]
    /\ env \in Materials
    /\ cipher = NoCipher
    /\ blobs \in [Blobs -> {NoBlob} \cup
                           {Ciphertext("legacy", id, env) : id \in KeyIDs \cup {None}}]
    /\ envChanged = FALSE

------------------------------------------------------------------------------
(* NewCipherWithStore *)

ActiveKeys == {id \in DOMAIN table : table[id].status = "active"}

NewCipher(keys, active) == [keys |-> keys, activeID |-> active, legacy |-> env]

\* First boot: the environment's key becomes the active row "k1".
SeedKey ==
    /\ DOMAIN table = {}
    /\ table' = [id \in {bootstrapKeyID} |-> [material |-> env, status |-> "active"]]
    /\ cipher' = NewCipher([id \in {bootstrapKeyID} |-> env], bootstrapKeyID)

\* Mutant: later boots load the active row only.
LoadActiveKey ==
    /\ DOMAIN table # {}
    /\ \E active \in DOMAIN table :
          /\ ActiveKeys = {active}
          /\ cipher' = NewCipher([id \in {active} |-> table[id].material], active)
    /\ UNCHANGED table

\* Later boots load every row, active or retired, and demand one active row.
LoadKeys ==
    /\ DOMAIN table # {}
    /\ \E active \in DOMAIN table :
          /\ ActiveKeys = {active}
          /\ cipher' = NewCipher([id \in DOMAIN table |-> table[id].material], active)
    /\ UNCHANGED table

NewCipherWithStore ==
    /\ SeedKey \/ LoadKeys
    /\ UNCHANGED <<env, blobs, envChanged>>

------------------------------------------------------------------------------
(* Encrypt and Decrypt *)

\* Encrypt with the active key of the process, and the INSERT of the result.
Encrypt(b) ==
    /\ blobs' = [blobs EXCEPT ![b] =
           Ciphertext("versioned", cipher.activeID, cipher.keys[cipher.activeID])]
    /\ UNCHANGED <<table, env, cipher, envChanged>>

\* parseVersioned: the bytes read as a header.
LooksVersioned(b) == blobs[b].id # None

\* Decrypt returns the plaintext.  What looks versioned is never tried as
\* legacy, and a legacy ciphertext cut at the wrong place does not open.
Decrypts(b) ==
    IF LooksVersioned(b)
    THEN /\ blobs[b].id \in DOMAIN cipher.keys
         /\ blobs[b].form = "versioned"
         /\ cipher.keys[blobs[b].id] = blobs[b].material
    ELSE cipher.legacy = blobs[b].material

------------------------------------------------------------------------------
(* The operator *)

\* INSERT INTO encryption_keys; key_id is the primary key.
InsertEncryptionKey(id, m, status) ==
    /\ id \notin DOMAIN table
    /\ table' = [k \in DOMAIN table \cup {id} |->
                    IF k = id THEN [material |-> m, status |-> status] ELSE table[k]]
    /\ UNCHANGED <<env, cipher, blobs, envChanged>>

\* UPDATE encryption_keys SET status.
SetEncryptionKeyStatus(id, status) ==
    /\ id \in DOMAIN table
    /\ table' = [table EXCEPT ![id].status = status]
    /\ UNCHANGED <<env, cipher, blobs, envChanged>>

\* A new BOUNCER_ENCRYPTION_KEY, which a running process does not see.
ChangeEnv(m) ==
    /\ m # env
    /\ env' = m
    /\ envChanged' = TRUE
    /\ UNCHANGED <<table, cipher, blobs>>

Operator ==
    \/ \E id \in KeyIDs, status \in {"active", "retired"} :
          \/ \E m \in Materials : InsertEncryptionKey(id, m, status)
          \/ SetEncryptionKeyStatus(id, status)
    \/ \E m \in Materials : ChangeEnv(m)

\* The end of the process.
LoseCipher ==
    /\ cipher' = NoCipher
    /\ UNCHANGED <<table, env, blobs, envChanged>>

------------------------------------------------------------------------------
CipherTypeOK ==
    /\ DOMAIN table \subseteq KeyIDs /\ \A id \in DOMAIN table : table[id] \in Row
    /\ env \in Materials
    /\ DOMAIN cipher.keys \subseteq KeyIDs
    /\ \A id \in DOMAIN cipher.keys : cipher.keys[id] \in Materials
    /\ cipher.activeID \in KeyIDs \cup {None} /\ cipher.legacy \in Materials \cup {None}
    /\ blobs \in [Blobs -> [form : {"absent", "legacy", "versioned"},
                            id : KeyIDs \cup {None}, material : Materials \cup {None}]]
    /\ envChanged \in BOOLEAN

\* Why secrets stay readable: a row keeps its material for good, so what the
\* process has loaded, however long ago, and the header of every versioned
\* ciphertext both still name the material of the row.
CipherInv ==
    /\ \A id \in DOMAIN cipher.keys :
          id \in DOMAIN table /\ cipher.keys[id] = table[id].material
    /\ \A b \in Blobs : blobs[b].form = "versioned" =>
          /\ blobs[b].id \in DOMAIN table
          /\ blobs[b].material = table[blobs[b].id].material
          /\ cipher.activeID # None => blobs[b].id \in DOMAIN cipher.keys
    /\ \A b \in Blobs : blobs[b].form = "legacy" /\ ~envChanged => blobs[b].material = env
    /\ cipher.activeID # None =>
          cipher.activeID \in DOMAIN cipher.keys /\ cipher.legacy # None
    /\ ~envChanged => cipher.legacy \in {env, None}
==============================================================================
