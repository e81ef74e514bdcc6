-------------------------- MODULE SealedArtifacts --------------------------
(***************************************************************************)
(* The artifacts of a sealed program and what opens them: fenc envelopes     *)
(* bound to a target, grants that wrap the project's data key (DEK) under a   *)
(* key derived from a passphrase or shared with a wallet, the key providers,  *)
(* and the encrypted bundle of a database.                                   *)
(*                                                                          *)
(* Encryption is symbolic: a box opens with the key and the associated data   *)
(* it was made with and with nothing else (AES-GCM). Nonces and base64 are    *)
(* left out. What a step throws stands for its result.                       *)
(***************************************************************************)
EXTENDS Integers, FiniteSets, FiniteSetsExt

CONSTANT Nothing  \* undefined or null

---------------------------------------------------------------------------
(* Failures and boxes *)

DecryptionFailed == [error |-> "DecryptionFailed"]
OtherError       == [error |-> "Error"]

Fails(x) == x \in {DecryptionFailed, OtherError}

Or(v, default) == IF v = Nothing THEN default ELSE v

aesGcmEncrypt(key, aad, content) == [key |-> key, aad |-> aad, content |-> content]
aesGcmDecrypt(key, aad, box)     == IF box.key = key /\ box.aad = aad THEN box.content ELSE OtherError

Ciphers == {"aes-256-gcm"}
Wraps   == {"aesgcm-keywrap", "ecies-secp256k1", "eth-decrypt"}

---------------------------------------------------------------------------
(* Envelopes. A body is an envelope, another JSON document or no JSON at all. *)

Document(content) == [kind |-> "document", content |-> content]
Garbage == [kind |-> "garbage"]

VALID_TARGETS == {"program", "inputs", "db", "output"}

encryptEnvelope(dek, target, content) ==
  [kind |-> "fenc", target |-> target, cipher |-> "aes-256-gcm", aad |-> target,
   ct |-> aesGcmEncrypt(dek, target, content)]

isFencEnvelope(body) == body.kind = "fenc"
IsFor(body, target)  == isFencEnvelope(body) /\ body.target = target

\* The aad field, where there is one, repeats the target; the box decides.
decryptEnvelope(dek, body) ==
  IF /\ isFencEnvelope(body)
     /\ body.aad \in {Nothing, body.target}
     /\ body.cipher \in Ciphers
     /\ body.target \in VALID_TARGETS
     /\ ~Fails(aesGcmDecrypt(dek, body.target, body.ct))
  THEN aesGcmDecrypt(dek, body.target, body.ct)
  ELSE DecryptionFailed

---------------------------------------------------------------------------
(* Key derivation, on a host that can or cannot run Argon2id *)

PBKDF2_MIN_ITERATIONS == 210000
ARGON2_MIN_MEMORY     == 65536
ARGON2_MIN_ITERATIONS == 3

\* A key of lengthBytes bytes.
pbkdf2Sha256Raw(passphrase, salt, iterations, lengthBytes) ==
  IF iterations < PBKDF2_MIN_ITERATIONS THEN OtherError
  ELSE [kdf |-> "pbkdf2", passphrase |-> passphrase, salt |-> salt, params |-> <<iterations>>, length |-> lengthBytes]

\* Web Crypto takes an iteration count of 32 bits and throws at a larger one.
Elevated(iterations) == Max({PBKDF2_MIN_ITERATIONS, iterations * 100000})

argon2idDeriveRaw(hasArgon2, passphrase, salt, params) ==
  LET memorySize == Or(params.memorySize, ARGON2_MIN_MEMORY)
      iterations == Or(params.iterations, ARGON2_MIN_ITERATIONS)
      hashLength == Or(params.hashLength, 32)
  IN  IF memorySize < ARGON2_MIN_MEMORY \/ iterations < ARGON2_MIN_ITERATIONS THEN OtherError
      ELSE IF hasArgon2
      THEN [kdf |-> "argon2id", passphrase |-> passphrase, salt |-> salt,
            params |-> <<Or(params.parallelism, 1), iterations, memorySize>>, length |-> hashLength]
      ELSE IF iterations > 42949 THEN OtherError
      ELSE pbkdf2Sha256Raw(passphrase, salt, Elevated(iterations), hashLength)

---------------------------------------------------------------------------
(* Grants and key providers *)

\* AES takes keys of 128, 192 or 256 bits and throws at any other.
importAesKey(raw) == IF raw.length \in {16, 24, 32} THEN raw ELSE OtherError

wrapDekWithKek(kek, dek) ==
  IF Fails(importAesKey(kek)) THEN OtherError
  ELSE [wrap |-> "aesgcm-keywrap", ct |-> aesGcmEncrypt(kek, "finvm:dek-wrap", dek)]

unwrapDekWithKek(kek, grant) ==
  IF Fails(importAesKey(kek)) THEN OtherError ELSE aesGcmDecrypt(kek, "finvm:dek-wrap", grant.ct)

\* The secret an ephemeral key shares with the wallet of a private key.
Shared(ephemeral, privateKey) == <<"ecdh", ephemeral, privateKey>>

wrapDekWithEcies(ephemeral, privateKey, dek) ==
  [wrap |-> "ecies-secp256k1", ephemeralPub |-> ephemeral,
   ct |-> aesGcmEncrypt(Shared(ephemeral, privateKey), "finvm:ecies-dek", dek)]

unwrapDekWithEcies(privateKey, grant) ==
  aesGcmDecrypt(Shared(grant.ephemeralPub, privateKey), "finvm:ecies-dek", grant.ct)

createWalletGrant(privateKey, dek) == wrapDekWithEcies("ephemeral", privateKey, dek)

\* A parameter below its floor, or a key no cipher takes, makes no grant. The
\* length asked for counts for Argon2id only.
createPassphraseGrant(hasArgon2, passphrase, dek, kdf, params) ==
  LET kek == IF kdf = "argon2id" THEN argon2idDeriveRaw(hasArgon2, passphrase, "salt", params)
             ELSE pbkdf2Sha256Raw(passphrase, "salt", Or(params.iterations, PBKDF2_MIN_ITERATIONS), 32)
      wrapped == wrapDekWithKek(kek, dek)
  IN  IF Fails(kek) THEN kek
      ELSE IF Fails(wrapped) THEN wrapped
      ELSE [wrap |-> wrapped.wrap, ct |-> wrapped.ct, kdf |-> kdf, salt |-> "salt", kdfParams |-> params]

PassphraseKeyProvider(passphrase, kdf) == [type |-> "passphrase", passphrase |-> passphrase, kdf |-> kdf]
WalletKeyProvider(privateKey) == [type |-> "wallet", privateKey |-> privateKey]

\* What a provider takes of a grant's parameters: all but the length of the key.
Rebuilt(params) ==
  [memorySize |-> params.memorySize, iterations |-> params.iterations, parallelism |-> params.parallelism,
   hashLength |-> Nothing]

\* Here and below, a definition named for what it leaves out is a slip of the
\* one it precedes: a plausible bug, which the runs must notice.
DeriveAtTheFloor(hasArgon2, provider, grant) ==
  IF provider.type = "wallet" THEN Nothing
  ELSE IF "argon2id" \in {provider.kdf, grant.kdf}
  THEN argon2idDeriveRaw(hasArgon2, provider.passphrase, grant.salt, Rebuilt(grant.kdfParams))
  ELSE pbkdf2Sha256Raw(provider.passphrase, grant.salt, PBKDF2_MIN_ITERATIONS, 32)

\* A provider for Argon2id, the default, takes every grant for one of Argon2id.
deriveKEK(hasArgon2, provider, grant) ==
  IF provider.type = "wallet" THEN Nothing
  ELSE IF "argon2id" \in {provider.kdf, grant.kdf}
  THEN argon2idDeriveRaw(hasArgon2, provider.passphrase, grant.salt, Rebuilt(grant.kdfParams))
  ELSE pbkdf2Sha256Raw(provider.passphrase, grant.salt,
                       Max({PBKDF2_MIN_ITERATIONS, Or(grant.kdfParams.iterations, PBKDF2_MIN_ITERATIONS)}), 32)

getWalletPrivateKey(provider) == IF provider.type = "wallet" THEN provider.privateKey ELSE Nothing

\* What the wrap itself throws is passed on: it is returned without an await.
unwrapDek(hasArgon2, grant, provider) ==
  LET privateKey == getWalletPrivateKey(provider)
      kek == deriveKEK(hasArgon2, provider, grant)
  IN  IF grant.wrap \in {"ecies-secp256k1", "eth-decrypt"}
      THEN IF privateKey = Nothing THEN DecryptionFailed ELSE unwrapDekWithEcies(privateKey, grant)
      ELSE IF grant.wrap \notin Wraps \/ kek = Nothing \/ Fails(kek) THEN DecryptionFailed
      ELSE unwrapDekWithKek(kek, grant)

---------------------------------------------------------------------------
(* Database bundles, under the DEK or a passphrase of the database *)

DbKey(passphrase, salt) == pbkdf2Sha256Raw(passphrase, salt, PBKDF2_MIN_ITERATIONS, 32)

ExportForOutput(dek, passphrase, plaintext) == encryptEnvelope(dek, "output", plaintext)

exportEncrypted(dek, passphrase, plaintext) ==
  IF dek # Nothing THEN encryptEnvelope(dek, "db", plaintext)
  ELSE IF passphrase = Nothing THEN Nothing
  ELSE [kind |-> "v2", salt |-> "db-salt", data |-> aesGcmEncrypt(DbKey(passphrase, "db-salt"), Nothing, plaintext)]

\* The plaintext of a bundle, or the failure to import it. A bundle in the clear
\* that is neither an object with tables nor an array is in no format it supports.
importEncrypted(dek, passphrase, bundle) ==
  CASE bundle.kind = "garbage" -> OtherError
    [] bundle.kind = "fenc" -> IF bundle.target # "db" \/ dek = Nothing THEN DecryptionFailed ELSE decryptEnvelope(dek, bundle)
    [] bundle.kind = "v2" -> IF passphrase = Nothing THEN OtherError
                             ELSE aesGcmDecrypt(DbKey(passphrase, bundle.salt), Nothing, bundle.data)
    [] bundle.kind = "document" -> bundle.content
    [] bundle.kind = "unsupported" -> DecryptionFailed
=============================================================================
