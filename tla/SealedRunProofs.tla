-------------------------- MODULE SealedRunProofs --------------------------
(***************************************************************************)
(* What was sealed for a run is what it loads, what its database told a      *)
(* caller stays, and a commit leaves a bundle that opens, in this process    *)
(* and in the next: proofs about SealedRun and EncryptedStorage.             *)
(***************************************************************************)
EXTENDS SealedRun, FiniteSetTheorems, TLAPS

---------------------------------------------------------------------------
(* The inductive invariant *)

Asked == [given : Grants \union {Nothing}, provider : Providers, hasArgon2 : BOOLEAN,
          program : Programs, inputs : Inputs, db : Bundles, live : BOOLEAN]

\* Until it goes live a run knows its request and has not used its storage.
RunInv ==
  /\ stage \in {"asked", "loaded", "live", "returned", "failed", "threw"}
  /\ stage \in {"asked", "loaded"} => request \in Asked
  /\ stage = "loaded" =>
       loaded.kind = "loaded" /\ loaded.program.code \in Decodable /\ loaded.db \in {Nothing} \union Body(Bundles)
  /\ stage \in {"asked", "loaded"} => dek = Nothing /\ disk = Nothing /\ ~restarted /\ calls = [s \in Slot |-> Idle]
  /\ stage = "live" => request = Nothing

\* The snapshot of a database, sealed under the DEK.
IsBundle(b) == isFencEnvelope(b) /\ b = encryptEnvelope(dek, "db", b.ct.content) /\ IsSnapshot(b.ct.content)

\* What a process starts from is what it was given or what an earlier one left.
MediumInv ==
  /\ medium \in Media
  /\ disk = Nothing \/ IsBundle(disk) \/ (medium = "file" /\ disk = Garbage)
  /\ blob = Nothing \/ IsBundle(blob) \/ ((~restarted \/ medium = "file") /\ blob \in {Garbage} \union Body(Bundles))

Fields == {"op", "id", "content", "pc", "held", "wrote", "overlap", "from", "result"}

\* How far a call is decides what it holds.
CallTyped(c) ==
  /\ c.pc \in {"idle", "preparing", "importing", "acting", "encrypting", "writing", "flushing", "sealing", "done", "failed"}
  /\ c.pc # "idle" =>
       /\ DOMAIN c = Fields /\ c.from \in Nat /\ dek # Nothing
       /\ c.pc \in {"preparing", "importing", "acting", "encrypting", "writing", "flushing"} => c.wrote = Nothing
       /\ c.pc = "importing" => blob # Nothing
       /\ c.pc \in {"encrypting", "writing", "flushing"} => c.op = "commit"
       /\ c.pc = "encrypting" => IsSnapshot(c.held)
       /\ c.pc \in {"writing", "flushing"} => IsBundle(c.held)
       /\ c.pc = "sealing" => c.op = "save" \/ (c.op = "commit" /\ IsSnapshot(c.held))
       /\ c.op = "commit" /\ c.pc = "done" => IsBundle(c.result)
       /\ c.wrote # Nothing => c.op = "commit" /\ IsBundle(c.wrote)
       /\ c.pc = "flushing" \/ c.overlap => medium = "file"

\* A restarted process fails no call of the database but a commit.
Recovered(c) ==
  restarted /\ medium # "file" => ~(c.pc = "failed" /\ c.op \in {"insert", "get", "update", "delete"})

\* While the storage is not ready nothing has been done with it.
Waiting(c) == c.pc \in {"idle", "preparing", "importing", "failed"} \/ c.op \in Outside

Pending(s) == calls[s].pc = "importing" \/ (calls[s].pc = "preparing" /\ blob # Nothing)

ReadyInv ==
  /\ IsSnapshot(Snapshot) /\ ready \in BOOLEAN /\ raced \in BOOLEAN /\ restarted \in BOOLEAN
  /\ rounds \in 0 .. MaxRounds
  /\ ~ready => acked = Empty /\ sequence = 0 /\ \A s \in Slot : Waiting(calls[s])
  /\ ~raced => \A s \in Slot : Pending(s) => ~ready /\ \A t \in Slot : Pending(t) => s = t

\* The counter a call saw, the one it wrote and the one it returned.
Paced(c) ==
  c.pc # "idle" =>
    /\ c.from <= sequence
    /\ c.pc = "encrypting" => c.from <= c.held.sequence /\ c.held.sequence <= sequence
    /\ c.pc \in {"writing", "flushing"} => c.from <= c.held.ct.content.sequence /\ c.held.ct.content.sequence <= sequence
    /\ c.pc = "sealing" /\ c.op = "commit" => c.held.sequence <= sequence
    /\ c.wrote # Nothing => c.from <= c.wrote.ct.content.sequence
    /\ c.wrote # Nothing /\ c.pc = "sealing" => c.wrote.ct.content.sequence <= c.held.sequence
    /\ c.wrote # Nothing /\ c.pc = "done" => c.wrote.ct.content.sequence <= c.result.ct.content.sequence

\* A commit with no other beside it is the only one to write.
Undisturbed(c) == c.pc # "idle" /\ c.op = "commit" => ~c.overlap /\ (c.wrote # Nothing => disk = c.wrote)

Alone(s) == \A t \in Slot \ {s} : calls[t].pc = "idle"

\* With no other call beside it, what it took from the database is still the database.
Current(c) ==
  c.pc # "idle" =>
    /\ c.pc = "encrypting" => c.held = Snapshot
    /\ c.pc \in {"writing", "flushing"} => c.held.ct.content = Snapshot
    /\ c.wrote # Nothing => c.wrote.ct.content = Snapshot

CallsInv ==
  /\ calls = [s \in Slot |-> calls[s]]
  /\ \A s \in Slot : CallTyped(calls[s]) /\ Recovered(calls[s])

CommitInv ==
  \A s \in Slot :
    /\ ~raced => Paced(calls[s])
    /\ Lone(s) => Undisturbed(calls[s])
    /\ Alone(s) => Current(calls[s])

IInv == RunInv /\ MediumInv /\ CallsInv /\ ReadyInv /\ AckedKept /\ CommitInv /\ OwnGrantsOpen /\ LoadsWhatWasSealed

---------------------------------------------------------------------------
(* Opening artifacts *)

\* The errors are two, and neither is a record of other fields.
LEMMA Errors ==
  /\ DecryptionFailed # OtherError /\ Fails(DecryptionFailed) /\ Fails(OtherError)
  /\ \A x : Fails(x) => DOMAIN x = {"error"}
BY DEF Fails, DecryptionFailed, OtherError

\* A snapshot is no error.
LEMMA SnapshotsOpen ==
  ASSUME NEW p, IsSnapshot(p)
  PROVE  ~Fails(p)
<1>1. DOMAIN p = {"rows", "sequence"}
  BY DEF IsSnapshot
<1> QED
  BY <1>1, Errors

\* An envelope opens to what was sealed in it, for its target and under its key.
LEMMA Opened ==
  ASSUME NEW key, NEW body, ~Fails(decryptEnvelope(key, body))
  PROVE  /\ isFencEnvelope(body) /\ body.ct.key = key /\ body.ct.aad = body.target
         /\ decryptEnvelope(key, body) = body.ct.content
<1>1. ~Fails(aesGcmDecrypt(key, body.target, body.ct)) /\ isFencEnvelope(body)
      /\ decryptEnvelope(key, body) = aesGcmDecrypt(key, body.target, body.ct)
  BY Errors DEF decryptEnvelope
<1>2. body.ct.key = key /\ body.ct.aad = body.target
      /\ aesGcmDecrypt(key, body.target, body.ct) = body.ct.content
  BY <1>1, Errors DEF aesGcmDecrypt
<1> QED
  BY <1>1, <1>2

\* What was sealed for a target opens with its key.
LEMMA Opens ==
  ASSUME NEW key, NEW target \in VALID_TARGETS, NEW content, ~Fails(content)
  PROVE  decryptEnvelope(key, encryptEnvelope(key, target, content)) = content
<1> DEFINE body == encryptEnvelope(key, target, content)
<1>1. /\ body.kind = "fenc" /\ body.aad = target /\ body.target = target /\ body.cipher = "aes-256-gcm"
      /\ body.ct = aesGcmEncrypt(key, target, content)
  BY DEF encryptEnvelope
<1>2. aesGcmDecrypt(key, target, aesGcmEncrypt(key, target, content)) = content
  BY DEF aesGcmDecrypt, aesGcmEncrypt
<1> HIDE DEF body
<1>3. aesGcmDecrypt(key, body.target, body.ct) = content
  BY <1>1, <1>2
<1>4. decryptEnvelope(key, body) = content
  BY <1>1, <1>3 DEF decryptEnvelope, isFencEnvelope, Ciphers
<1> QED
  BY <1>4 DEF body

\* A grant keeps its DEK in a box, under the key its provider derives.
LEMMA Wrapped ==
  ASSUME NEW g \in Grants
  PROVE  /\ g.grant.wrap \in Wraps => g.grant.ct.content = g.dek
         /\ g.kdf = "wallet" =>
              /\ g.secret # Nothing /\ g.grant.wrap = "ecies-secp256k1"
              /\ unwrapDekWithEcies(g.secret, g.grant) = g.dek
         /\ g.kdf \in {"argon2id", "pbkdf2"} =>
              LET kek == IF g.kdf = "argon2id"
                         THEN argon2idDeriveRaw(g.hasArgon2, g.secret, g.grant.salt, g.grant.kdfParams)
                         ELSE pbkdf2Sha256Raw(g.secret, g.grant.salt, Or(g.grant.kdfParams.iterations, PBKDF2_MIN_ITERATIONS), 32)
              IN  /\ ~Fails(kek) /\ kek # Nothing
                  /\ g.grant.wrap = "aesgcm-keywrap" /\ g.grant.kdf = g.kdf /\ g.grant.ct.key = kek
                  /\ unwrapDekWithKek(kek, g.grant) = g.dek
<1> DEFINE grant == g.grant
           kek == IF g.kdf = "argon2id"
                  THEN argon2idDeriveRaw(g.hasArgon2, g.secret, grant.salt, grant.kdfParams)
                  ELSE pbkdf2Sha256Raw(g.secret, grant.salt, Or(grant.kdfParams.iterations, PBKDF2_MIN_ITERATIONS), 32)
           derived == IF g.kdf = "argon2id"
                  THEN argon2idDeriveRaw(g.hasArgon2, g.secret, "salt", grant.kdfParams)
                  ELSE pbkdf2Sha256Raw(g.secret, "salt", Or(grant.kdfParams.iterations, PBKDF2_MIN_ITERATIONS), 32)
<1>1. Made(g) /\ ~Fails(g.grant) /\ ~Fails(g.dek)
  BY GrantsAssumption
<1>2. CASE g.kdf = "wallet"
  <2>1. g.secret # Nothing /\ grant = wrapDekWithEcies("ephemeral", g.secret, g.dek)
    BY <1>1, <1>2 DEF Made, createWalletGrant
  <2>2. /\ grant.wrap = "ecies-secp256k1" /\ grant.ephemeralPub = "ephemeral"
        /\ grant.ct = aesGcmEncrypt(Shared("ephemeral", g.secret), "finvm:ecies-dek", g.dek)
    BY <2>1 DEF wrapDekWithEcies
  <2>3. grant.ct.content = g.dek /\ unwrapDekWithEcies(g.secret, grant) = g.dek
    BY <2>2 DEF unwrapDekWithEcies, aesGcmEncrypt, aesGcmDecrypt
  <2> QED
    BY <1>2, <2>1, <2>2, <2>3
<1>3. CASE g.kdf \in {"argon2id", "pbkdf2"}
  <2>1. /\ grant = createPassphraseGrant(g.hasArgon2, g.secret, g.dek, g.kdf, grant.kdfParams)
        /\ grant.ct.key # Nothing
    BY <1>1, <1>3 DEF Made
  <2>2. ~Fails(derived) /\ ~Fails(wrapDekWithKek(derived, g.dek))
    BY <1>1, <2>1 DEF createPassphraseGrant
  <2>3. grant = [wrap |-> wrapDekWithKek(derived, g.dek).wrap, ct |-> wrapDekWithKek(derived, g.dek).ct, kdf |-> g.kdf,
                 salt |-> "salt", kdfParams |-> grant.kdfParams]
    BY <2>1, <2>2 DEF createPassphraseGrant
  <2> HIDE DEF derived
  <2>4. /\ grant.wrap = "aesgcm-keywrap" /\ grant.kdf = g.kdf /\ grant.salt = "salt"
        /\ grant.ct = aesGcmEncrypt(derived, "finvm:dek-wrap", g.dek)
        /\ ~Fails(importAesKey(derived))
    BY <2>2, <2>3, Errors DEF wrapDekWithKek
  <2>5. derived # Nothing /\ grant.ct.key = derived /\ grant.ct.content = g.dek /\ unwrapDekWithKek(derived, grant) = g.dek
    BY <2>1, <2>4 DEF unwrapDekWithKek, aesGcmEncrypt, aesGcmDecrypt
  <2>6. kek = derived
    BY <2>4 DEF derived
  <2> QED
    BY <1>3, <2>2, <2>4, <2>5, <2>6
<1>4. CASE g.kdf \notin {"wallet", "argon2id", "pbkdf2"}
  BY <1>1, <1>4 DEF Made
<1> QED
  BY <1>2, <1>3, <1>4

\* Whoever opens a grant has its DEK.
LEMMA UnwrapsItsDek ==
  ASSUME NEW g \in Grants, NEW hasArgon2, NEW provider, ~Fails(unwrapDek(hasArgon2, g.grant, provider))
  PROVE  unwrapDek(hasArgon2, g.grant, provider) = g.dek
<1> DEFINE privateKey == getWalletPrivateKey(provider)
           kek == deriveKEK(hasArgon2, provider, g.grant)
<1>1. \A k, a, box : ~Fails(aesGcmDecrypt(k, a, box)) => aesGcmDecrypt(k, a, box) = box.content
  BY Errors DEF aesGcmDecrypt
<1> HIDE DEF privateKey, kek
<1>2. CASE g.grant.wrap \in {"ecies-secp256k1", "eth-decrypt"}
  <2>1. unwrapDek(hasArgon2, g.grant, provider) = unwrapDekWithEcies(privateKey, g.grant) /\ g.grant.wrap \in Wraps
    BY <1>2, Errors DEF unwrapDek, Wraps, privateKey
  <2> QED
    BY <1>1, <2>1, Wrapped DEF unwrapDekWithEcies
<1>3. CASE g.grant.wrap \notin {"ecies-secp256k1", "eth-decrypt"}
  <2>1. unwrapDek(hasArgon2, g.grant, provider) = unwrapDekWithKek(kek, g.grant) /\ g.grant.wrap \in Wraps
    BY <1>3, Errors DEF unwrapDek, kek
  <2>2. ~Fails(unwrapDekWithKek(kek, g.grant))
    BY <2>1, Zenon
  <2>3. unwrapDekWithKek(kek, g.grant) = aesGcmDecrypt(kek, "finvm:dek-wrap", g.grant.ct)
    BY <2>2, Errors DEF unwrapDekWithKek
  <2>4. unwrapDekWithKek(kek, g.grant) = g.grant.ct.content
    BY <1>1, <2>2, <2>3
  <2>5. g.grant.ct.content = g.dek
    BY <2>1, Wrapped
  <2> QED
    BY <2>1, <2>4, <2>5
<1> QED
  BY <1>2, <1>3

\* The length a provider derives by default is the usual one.
LEMMA RebuiltDerives ==
  ASSUME NEW hasArgon2, NEW passphrase, NEW salt, NEW params, params.hashLength \in {Nothing, 32}
  PROVE  argon2idDeriveRaw(hasArgon2, passphrase, salt, Rebuilt(params))
           = argon2idDeriveRaw(hasArgon2, passphrase, salt, params)
<1>1. PICK q : q = Rebuilt(params)
  OBVIOUS
<1>2. /\ q.memorySize = params.memorySize /\ q.iterations = params.iterations
      /\ q.parallelism = params.parallelism /\ q.hashLength = Nothing
  BY <1>1 DEF Rebuilt
<1>3. Or(q.hashLength, 32) = Or(params.hashLength, 32)
  BY <1>2 DEF Or
<1>4. argon2idDeriveRaw(hasArgon2, passphrase, salt, q) = argon2idDeriveRaw(hasArgon2, passphrase, salt, params)
  BY <1>2, <1>3 DEF argon2idDeriveRaw
<1> QED
  BY <1>1, <1>4

\* A provider with the secret of a grant, for its kind of key and of the usual
\* length, opens it.
LEMMA MatchingOpens ==
  ASSUME NEW r, r.given \in Grants, Matches(r), UsualLength(r.given)
  PROVE  unwrapDek(r.hasArgon2, r.given.grant, r.provider) = r.given.dek
<1> DEFINE g == r.given
           provider == r.provider
<1>1. CASE provider.type = "wallet"
  <2>1. g.kdf = "wallet" /\ provider.privateKey = g.secret
    BY <1>1 DEF Matches
  <2>2. getWalletPrivateKey(provider) = g.secret
    BY <1>1, <2>1 DEF getWalletPrivateKey
  <2> QED
    BY <2>1, <2>2, Wrapped DEF unwrapDek
<1>2. CASE provider.type # "wallet"
  <2> DEFINE params == g.grant.kdfParams
             kek == IF g.kdf = "argon2id" THEN argon2idDeriveRaw(g.hasArgon2, g.secret, g.grant.salt, params)
                    ELSE pbkdf2Sha256Raw(g.secret, g.grant.salt, Or(params.iterations, PBKDF2_MIN_ITERATIONS), 32)
  <2>1. /\ g.kdf \in {"argon2id", "pbkdf2"} /\ provider.passphrase = g.secret
        /\ g.kdf = "argon2id" => r.hasArgon2 = g.hasArgon2
        /\ g.kdf # "argon2id" => provider.kdf # "argon2id"
    BY <1>2 DEF Matches
  <2>2. /\ ~Fails(kek) /\ kek # Nothing
        /\ g.grant.wrap = "aesgcm-keywrap" /\ g.grant.kdf = g.kdf
        /\ unwrapDekWithKek(kek, g.grant) = g.dek
    BY <2>1, Wrapped
  <2>3. deriveKEK(r.hasArgon2, provider, g.grant) = kek
    <3>1. CASE g.kdf = "argon2id"
      <4>1. params.hashLength \in {Nothing, 32}
        BY <3>1 DEF UsualLength
      <4>2. deriveKEK(r.hasArgon2, provider, g.grant)
              = argon2idDeriveRaw(g.hasArgon2, g.secret, g.grant.salt, Rebuilt(params))
        BY <1>2, <2>1, <2>2, <3>1 DEF deriveKEK
      <4> QED
        BY <3>1, <4>1, <4>2, RebuiltDerives
    <3>2. CASE g.kdf = "pbkdf2"
      <4> DEFINE n == Or(params.iterations, PBKDF2_MIN_ITERATIONS)
      <4>1. params.iterations \in Int \union {Nothing}
        BY <3>2, GrantsAssumption DEF Made
      <4>2. n \in Int
        BY <4>1 DEF Or, PBKDF2_MIN_ITERATIONS
      <4>3. kek = pbkdf2Sha256Raw(g.secret, g.grant.salt, n, 32)
        BY <3>2
      <4>4. n >= PBKDF2_MIN_ITERATIONS
        BY <2>2, <4>2, <4>3, Errors DEF pbkdf2Sha256Raw, PBKDF2_MIN_ITERATIONS
      <4> HIDE DEF n, kek
      <4>5. Max({PBKDF2_MIN_ITERATIONS, n}) = n
        BY <4>2, <4>4 DEF Max, PBKDF2_MIN_ITERATIONS
      <4>6. deriveKEK(r.hasArgon2, provider, g.grant)
              = pbkdf2Sha256Raw(g.secret, g.grant.salt, Max({PBKDF2_MIN_ITERATIONS, n}), 32)
        BY <1>2, <2>1, <2>2, <3>2 DEF deriveKEK, n
      <4> QED
        BY <4>3, <4>5, <4>6
    <3> QED
      BY <2>1, <3>1, <3>2
  <2> HIDE DEF kek
  <2> QED
    BY <2>2, <2>3 DEF unwrapDek, Wraps
<1> QED
  BY <1>1, <1>2

\* Argon2id, or what stands in for it, derives a key of the length asked for.
LEMMA DerivesLength ==
  ASSUME NEW hasArgon2, NEW passphrase, NEW salt, NEW params,
         ~Fails(argon2idDeriveRaw(hasArgon2, passphrase, salt, params))
  PROVE  argon2idDeriveRaw(hasArgon2, passphrase, salt, params).length = Or(params.hashLength, 32)
<1>1. PICK n : n = Or(params.hashLength, 32)
  OBVIOUS
<1>2. ASSUME NEW iterations, ~Fails(pbkdf2Sha256Raw(passphrase, salt, iterations, n))
      PROVE  pbkdf2Sha256Raw(passphrase, salt, iterations, n).length = n
  BY <1>2, Errors DEF pbkdf2Sha256Raw
<1> QED
  BY <1>1, <1>2, Errors DEF argon2idDeriveRaw

\* A grant of Argon2id for a key of another length opens for no provider.
LEMMA OddLengthStaysShut ==
  ASSUME NEW g \in Grants, NEW hasArgon2, NEW provider, ~Fails(unwrapDek(hasArgon2, g.grant, provider))
  PROVE  UsualLength(g)
<1> SUFFICES ASSUME g.kdf = "argon2id", g.grant.kdfParams.hashLength # Nothing
             PROVE  g.grant.kdfParams.hashLength = 32
  BY DEF UsualLength
<1> DEFINE params == g.grant.kdfParams
<1>1. PICK made : made = argon2idDeriveRaw(g.hasArgon2, g.secret, g.grant.salt, params)
  OBVIOUS
<1>2. ~Fails(made) /\ g.grant.wrap = "aesgcm-keywrap" /\ g.grant.kdf = "argon2id" /\ g.grant.ct.key = made
  BY <1>1, Wrapped
<1>3. made.length = params.hashLength
  BY <1>1, <1>2, DerivesLength DEF Or
<1>4. PICK kek : kek = deriveKEK(hasArgon2, provider, g.grant)
  OBVIOUS
<1>5. kek # Nothing /\ ~Fails(kek) /\ ~Fails(unwrapDekWithKek(kek, g.grant))
  BY <1>2, <1>4, Errors DEF unwrapDek
<1>6. kek = argon2idDeriveRaw(hasArgon2, provider.passphrase, g.grant.salt, Rebuilt(params))
  BY <1>2, <1>4, <1>5 DEF deriveKEK
<1>7. kek.length = 32
  <2>1. Rebuilt(params).hashLength = Nothing
    BY DEF Rebuilt
  <2> QED
    BY <1>5, <1>6, <2>1, DerivesLength DEF Or
<1>8. kek = made
  BY <1>2, <1>5, Errors DEF unwrapDekWithKek, aesGcmDecrypt
<1> QED
  BY <1>3, <1>7, <1>8

---------------------------------------------------------------------------
(* Loading *)

\* What is loaded: the grant's DEK, and what was sealed for "program".
LEMMA LoadsSealed ==
  ASSUME NEW r \in Asked, ~Fails(loadSecure(r))
  PROVE  /\ loadSecure(r) = [kind |-> "loaded", program |-> loadSecure(r).program, inputs |-> loadSecure(r).inputs,
                             db |-> LoadBundle(r.db), dek |-> r.given.dek]
         /\ r.program # Nothing /\ UsualLength(r.given)
         /\ isFencEnvelope(r.program.body) =>
              /\ r.program.body.ct.key = r.given.dek /\ r.program.body.ct.aad = "program"
              /\ loadSecure(r).program = r.program.body.ct.content
<1> DEFINE key == IF r.given = Nothing THEN DecryptionFailed ELSE unwrapDek(r.hasArgon2, r.given.grant, r.provider)
           program == LoadProgram(r.program, key)
           inputs == LoadInputs(r.inputs, key)
<1>1. /\ ~Fails(key) /\ ~Fails(program)
      /\ loadSecure(r) = [kind |-> "loaded", program |-> program, inputs |-> inputs, db |-> LoadBundle(r.db), dek |-> key]
  BY Errors DEF loadSecure
<1>2. r.given # Nothing /\ r.given \in Grants
  BY <1>1, Errors DEF Asked
<1>3. key = r.given.dek
  BY <1>1, <1>2, UnwrapsItsDek
<1>6. UsualLength(r.given)
  BY <1>1, <1>2, OddLengthStaysShut
<1> HIDE DEF key
<1>4. ~Fails(program) => r.program # Nothing
  BY Errors DEF LoadProgram
<1>5. ASSUME isFencEnvelope(r.program.body)
      PROVE  r.program.body.ct.key = key /\ r.program.body.ct.aad = "program" /\ program = r.program.body.ct.content
  <2>1. IsFor(r.program.body, "program") /\ program = decryptEnvelope(key, r.program.body)
    BY <1>1, <1>5, Errors, Zenon DEF LoadProgram, Garbage, isFencEnvelope
  <2>2. ~Fails(decryptEnvelope(key, r.program.body))
    BY <1>1, <2>1
  <2> QED
    BY <2>1, <2>2, Opened DEF IsFor
<1> HIDE DEF program, inputs
<1> QED
  BY <1>1, <1>3, <1>4, <1>5, <1>6

\* An artifact sealed under the DEK for its place opens.
LEMMA SoundOpens ==
  ASSUME NEW r, NEW artifact, NEW target \in VALID_TARGETS, Sound(r, artifact, target),
         isFencEnvelope(artifact.body), ~Fails(artifact.body.ct.content)
  PROVE  IsFor(artifact.body, target) /\ ~Fails(decryptEnvelope(r.given.dek, artifact.body))
<1>1. artifact.body = encryptEnvelope(r.given.dek, target, artifact.body.ct.content)
  BY DEF Sound
<1>2. PICK content : content = artifact.body.ct.content
  OBVIOUS
<1>3. decryptEnvelope(r.given.dek, encryptEnvelope(r.given.dek, target, content)) = content
  BY <1>2, Opens
<1>4. artifact.body.target = target
  BY <1>1 DEF encryptEnvelope
<1> QED
  BY <1>1, <1>2, <1>3, <1>4 DEF IsFor

\* With a matching provider, a key of the usual length, and artifacts sealed under the DEK, loading succeeds.
LEMMA SoundLoads ==
  ASSUME NEW r \in Asked, Matches(r), UsualLength(r.given),
         r.program # Nothing, Sound(r, r.program, "program"),
         r.inputs # Nothing => Sound(r, r.inputs, "inputs")
  PROVE  ~Fails(loadSecure(r))
<1> DEFINE key == IF r.given = Nothing THEN DecryptionFailed ELSE unwrapDek(r.hasArgon2, r.given.grant, r.provider)
           program == LoadProgram(r.program, key)
           inputs == LoadInputs(r.inputs, key)
<1>1. r.given # Nothing /\ r.given \in Grants
  BY DEF Matches, Asked
<1>2. key = r.given.dek /\ ~Fails(r.given.dek)
  BY <1>1, MatchingOpens, GrantsAssumption
<1> HIDE DEF key
<1>3. r.program.body \in Body(Programs)
  BY DEF Asked, Body
<1>4. r.inputs # Nothing => r.inputs.body \in Body(Inputs)
  BY DEF Asked, Body
<1>5. ~Fails(program)
  <2>1. CASE isFencEnvelope(r.program.body)
    <3>1. IsFor(r.program.body, "program") /\ ~Fails(decryptEnvelope(key, r.program.body))
      BY <1>2, <1>3, <2>1, SoundOpens, ArtifactsAssumption DEF VALID_TARGETS
    <3>2. r.program.body # Garbage
      BY <2>1 DEF isFencEnvelope, Garbage
    <3> QED
      BY <3>1, <3>2, Zenon DEF LoadProgram
  <2>2. CASE ~isFencEnvelope(r.program.body)
    <3>1. r.program.body # Garbage /\ ~Fails(r.program.body.content)
      BY <1>3, <2>2, ArtifactsAssumption DEF Sound
    <3> QED
      BY <2>2, <3>1, Zenon DEF LoadProgram, IsFor, Text
  <2> QED
    BY <2>1, <2>2
<1>6. inputs # Nothing => ~Fails(inputs)
  <2>1. CASE r.inputs = Nothing \/ r.inputs.as = "string"
    BY <2>1, Zenon DEF LoadInputs
  <2>2. CASE ~(r.inputs = Nothing \/ r.inputs.as = "string") /\ isFencEnvelope(r.inputs.body)
    <3>1. IsFor(r.inputs.body, "inputs") /\ ~Fails(decryptEnvelope(key, r.inputs.body))
      BY <1>2, <1>4, <2>2, SoundOpens, ArtifactsAssumption DEF VALID_TARGETS
    <3> QED
      BY <2>2, <3>1, Zenon DEF LoadInputs
  <2>3. CASE ~(r.inputs = Nothing \/ r.inputs.as = "string") /\ ~isFencEnvelope(r.inputs.body)
    <3>1. ~Fails(r.inputs.body.content)
      BY <1>4, <2>3, ArtifactsAssumption DEF Sound
    <3> QED
      BY <2>3, <3>1, Zenon DEF LoadInputs, IsFor, Text
  <2> QED
    BY <2>1, <2>2, <2>3
<1> DEFINE result == [kind |-> "loaded", program |-> program, inputs |-> inputs, db |-> LoadBundle(r.db), dek |-> key]
<1>7. ~Fails(key)
  BY <1>2
<1>8. loadSecure(r) = IF Fails(key) THEN DecryptionFailed
                      ELSE IF Fails(program) THEN program
                      ELSE IF inputs # Nothing /\ Fails(inputs) THEN inputs ELSE result
  BY Zenon DEF loadSecure, key
<1> HIDE DEF program, inputs
<1>9. ~Fails(result)
  BY Errors
<1> QED
  BY <1>5, <1>6, <1>7, <1>8, <1>9

\* Merging inputs leaves the code of a program.
LEMMA LoadStep ==
  ASSUME RunInv, OwnGrantsOpen, LoadsWhatWasSealed, Load
  PROVE  RunInv' /\ OwnGrantsOpen' /\ LoadsWhatWasSealed'
<1> DEFINE result == loadSecure(request)
           merged == mergeProgramWithInputs(result.program, result.inputs)
<1>1. /\ stage = "asked" /\ request \in Asked /\ UNCHANGED <<request, dek, disk, restarted, calls>>
      /\ dek = Nothing /\ disk = Nothing /\ ~restarted /\ calls = [s \in Slot |-> Idle]
  BY DEF RunInv, Load, storageVars
<1>2. CASE Fails(result)
  <2>1. stage' \in {"failed", "threw"}
    BY <1>2 DEF Load, Outcome
  <2>2. ~(/\ Matches(request) /\ UsualLength(request.given) /\ request.program # Nothing /\ Sound(request, request.program, "program")
          /\ request.inputs # Nothing => Sound(request, request.inputs, "inputs"))
    BY <1>1, <1>2, SoundLoads
  <2> QED
    BY <1>1, <2>1, <2>2 DEF RunInv, OwnGrantsOpen, OwnerTurnedAway, LoadsWhatWasSealed, Sound, Matches
<1>3. CASE ~Fails(result)
  <2>1. stage' = Decoded(merged.code) /\ loaded' = [result EXCEPT !.program = merged]
    BY <1>3 DEF Load
  <2>2. /\ result = [kind |-> "loaded", program |-> result.program, inputs |-> result.inputs,
                     db |-> LoadBundle(request.db), dek |-> request.given.dek]
        /\ request.program # Nothing /\ UsualLength(request.given)
        /\ isFencEnvelope(request.program.body) =>
             /\ request.program.body.ct.key = request.given.dek /\ request.program.body.ct.aad = "program"
             /\ result.program = request.program.body.ct.content
    BY <1>1, <1>3, LoadsSealed
  <2>3. isFencEnvelope(request.program.body) => merged.code = request.program.body.ct.content.code
    <3> SUFFICES ASSUME isFencEnvelope(request.program.body)
                 PROVE  merged.code = request.program.body.ct.content.code
      OBVIOUS
    <3>1. request.program.body \in Body(Programs)
      BY <1>1, <2>2 DEF Asked, Body
    <3>2. result.program = [code |-> result.program.code, values |-> result.program.values]
      BY <2>2, <3>1, ArtifactsAssumption
    <3> HIDE DEF result
    <3>3. [result.program EXCEPT !.values = result.inputs].code = result.program.code
      BY <3>2
    <3> QED
      BY <2>2, <3>3 DEF mergeProgramWithInputs
  <2>4. LoadBundle(request.db) \in {Nothing} \union Body(Bundles)
    BY <1>1 DEF LoadBundle, Asked, Body
  <2> HIDE DEF result, merged
  <2>5. /\ loaded'.kind = "loaded" /\ loaded'.program = merged /\ loaded'.dek = request.given.dek
        /\ loaded'.db = LoadBundle(request.db)
    BY <2>1, <2>2
  <2>6. RunInv'
    BY <1>1, <2>1, <2>4, <2>5 DEF RunInv, Decoded
  <2>7. OwnGrantsOpen'
    BY <1>1, <2>2, <2>5 DEF OwnGrantsOpen, OwnerTurnedAway, UsualLength
  <2>8. LoadsWhatWasSealed'
    BY <1>1, <2>2, <2>3, <2>5 DEF LoadsWhatWasSealed
  <2> QED
    BY <2>6, <2>7, <2>8
<1> QED
  BY <1>2, <1>3

---------------------------------------------------------------------------
(* One call's step *)

StorageInv == MediumInv /\ CallsInv /\ ReadyInv /\ AckedKept /\ CommitInv

\* Call s becomes c: what no step of a call changes, and what it may do to the disk.
Moves(s, c) ==
  /\ calls' = [calls EXCEPT ![s] = c]
  /\ calls[s].pc # "idle" /\ c.pc # "idle" /\ c.op = calls[s].op
  /\ UNCHANGED <<dek, blob, medium, restarted, raced, rounds>>
  /\ disk' = disk \/ (c.op = "commit" /\ (IsBundle(disk') \/ (medium = "file" /\ disk' = Garbage)))

\* A snapshot's counter is a number.
LEMMA Counters ==
  ASSUME NEW c, CallTyped(c), c.pc # "idle"
  PROVE  /\ c.from \in Nat
         /\ c.pc = "encrypting" => c.held.sequence \in Nat
         /\ c.pc \in {"writing", "flushing"} => c.held.ct.content.sequence \in Nat
         /\ c.pc = "sealing" /\ c.op = "commit" => c.held.sequence \in Nat
         /\ c.wrote # Nothing => c.wrote.ct.content.sequence \in Nat /\ c.op = "commit"
         /\ c.op = "commit" /\ c.pc = "done" => c.result.ct.content.sequence \in Nat
<1>1. \A b : IsBundle(b) => b.ct.content.sequence \in Nat
  BY DEF IsBundle, IsSnapshot
<1>2. \A p : IsSnapshot(p) => p.sequence \in Nat
  BY DEF IsSnapshot
<1>3. c.pc \in {"encrypting"} => IsSnapshot(c.held)
  BY DEF CallTyped
<1>4. c.pc = "sealing" /\ c.op = "commit" => IsSnapshot(c.held)
  BY DEF CallTyped
<1>5. c.pc \in {"writing", "flushing"} => IsBundle(c.held)
  BY DEF CallTyped
<1>6. c.wrote # Nothing => IsBundle(c.wrote) /\ c.op = "commit"
  BY DEF CallTyped
<1>7. c.op = "commit" /\ c.pc = "done" => IsBundle(c.result)
  BY DEF CallTyped
<1>8. c.from \in Nat
  BY DEF CallTyped
<1> QED
  BY <1>1, <1>2, <1>3, <1>4, <1>5, <1>6, <1>7, <1>8

\* A counter that grows leaves a call's pace.
LEMMA PacedStays ==
  ASSUME NEW c, CallTyped(c), Paced(c), sequence \in Nat, sequence' \in Nat, sequence <= sequence'
  PROVE  Paced(c)'
BY Counters DEF Paced

\* A call that moves leaves the other calls as they were.
LEMMA CallsKept ==
  ASSUME NEW s \in Slot, NEW c, CallsInv, Moves(s, c), CallTyped(c), Recovered(c)
  PROVE  CallsInv'
<1>1. calls' = [calls EXCEPT ![s] = c] /\ calls = [t \in Slot |-> calls[t]]
  BY DEF Moves, CallsInv
<1>2. calls' = [t \in Slot |-> IF t = s THEN c ELSE calls[t]]
  BY <1>1
<1>3. \A t \in Slot : CallTyped(calls'[t]) /\ Recovered(calls'[t])
  BY <1>2 DEF CallsInv
<1>4. UNCHANGED <<dek, blob, medium, restarted>>
  BY DEF Moves
<1>5. \A d : (CallTyped(d) <=> CallTyped(d)') /\ (Recovered(d) <=> Recovered(d)')
  BY <1>4 DEF CallTyped, Recovered, IsBundle
<1>6. \A t \in Slot : CallTyped(calls[t])' /\ Recovered(calls[t])'
  BY <1>3, <1>4 DEF CallTyped, Recovered, IsBundle
<1> QED
  BY <1>2, <1>6 DEF CallsInv

\* A call that moves writes nothing but a bundle of its own, or garbage, to the medium.
LEMMA MediumKept ==
  ASSUME NEW s \in Slot, NEW c, MediumInv, Moves(s, c)
  PROVE  MediumInv'
BY DEF MediumInv, Moves, IsBundle

\* A call that moves, and does not prepare, keeps what preparation promises.
LEMMA ReadyKept ==
  ASSUME NEW s \in Slot, NEW c, CallsInv, ReadyInv, Moves(s, c), c.pc \notin {"preparing", "importing"},
         IsSnapshot(Snapshot)', ready' = ready,
         ready \/ (Waiting(c) /\ UNCHANGED <<acked, sequence>>)
  PROVE  ReadyInv'
<1>1. calls' = [t \in Slot |-> IF t = s THEN c ELSE calls[t]] /\ UNCHANGED <<blob, raced, restarted, rounds, ready>>
  BY DEF Moves, CallsInv
<1>2. ~ready => acked' = Empty /\ sequence' = 0 /\ \A t \in Slot : Waiting(calls'[t])
  BY <1>1 DEF ReadyInv
<1>3. \A t \in Slot : Pending(t)' => Pending(t)
  BY <1>1 DEF Pending
<1>4. ~ready' => acked' = Empty /\ sequence' = 0 /\ \A t \in Slot : Waiting(calls[t])'
  BY <1>1, <1>2 DEF Waiting, Outside
<1>5. ~raced' => \A t \in Slot : Pending(t)' => ~ready' /\ \A u \in Slot : Pending(u)' => t = u
  BY <1>1, <1>3 DEF ReadyInv
<1> QED
  BY <1>1, <1>4, <1>5 DEF ReadyInv

\* A call that moves keeps what a commit under way promises.
LEMMA CommitKept ==
  ASSUME NEW s \in Slot, NEW c, CallsInv, CommitInv, Moves(s, c),
         ~raced => Paced(c)' /\ sequence \in Nat /\ sequence' \in Nat /\ sequence <= sequence',
         Lone(s) => Undisturbed(c)', Alone(s) => Current(c)'
  PROVE  CommitInv'
<1>1. /\ calls' = [t \in Slot |-> IF t = s THEN c ELSE calls[t]] /\ raced' = raced
      /\ c.pc # "idle" /\ c.op = calls[s].op /\ (disk' = disk \/ c.op = "commit")
  BY DEF Moves, CallsInv
<1> SUFFICES ASSUME NEW t \in Slot
             PROVE  /\ ~raced' => Paced(calls[t])'
                    /\ Lone(t)' => Undisturbed(calls[t])'
                    /\ Alone(t)' => Current(calls[t])'
  BY DEF CommitInv
<1>2. CASE t = s
  <2>1. (Lone(s)' => Lone(s)) /\ (Alone(s)' => Alone(s)) /\ calls'[t] = c
    BY <1>1, <1>2 DEF Lone, Alone
  <2>2. (Paced(c)' => Paced(calls[t])') /\ (Undisturbed(c)' => Undisturbed(calls[t])') /\ (Current(c)' => Current(calls[t])')
    BY <2>1 DEF Paced, Undisturbed, Current, Snapshot
  <2> QED
    BY <1>1, <1>2, <2>1, <2>2
<1>3. CASE t # s
  <2>1. calls'[t] = calls[t] /\ ~Alone(t)'
    BY <1>1, <1>3 DEF Alone
  <2>2. ~raced' => Paced(calls[t])'
    <3> SUFFICES ASSUME ~raced PROVE Paced(calls[t])'
      BY <1>1
    <3>1. PICK d : d = calls[t]
      OBVIOUS
    <3>2. CallTyped(d) /\ Paced(d)
      BY <3>1 DEF CallsInv, CommitInv
    <3>3. Paced(d)'
      BY <3>2, PacedStays
    <3> QED
      BY <2>1, <3>1, <3>3 DEF Paced
  <2>3. ASSUME Lone(t)' PROVE Undisturbed(calls[t])'
    <3>1. c.op # "commit"
      BY <1>1, <1>3, <2>3 DEF Lone
    <3>2. Lone(t) /\ disk' = disk
      BY <1>1, <1>3, <2>3, <3>1 DEF Lone
    <3>3. Undisturbed(calls[t])
      BY <3>2 DEF CommitInv
    <3> QED
      BY <2>1, <3>2, <3>3 DEF Undisturbed
  <2> QED
    BY <2>1, <2>2, <2>3
<1> QED
  BY <1>2, <1>3

\* A step that leaves the database as it is.
LEMMA MovesQuietly ==
  ASSUME NEW s \in Slot, NEW c, StorageInv, Moves(s, c), UNCHANGED memory, CallTyped(c), Recovered(c),
         c.pc \notin {"preparing", "importing"}, ready \/ Waiting(c),
         ~raced => Paced(c), Lone(s) => Undisturbed(c)', Alone(s) => Current(c)
  PROVE  StorageInv'
<1>1. UNCHANGED <<rows, sequence, ready, acked, raced>> /\ IsSnapshot(Snapshot) /\ sequence \in Nat
  BY DEF memory, StorageInv, ReadyInv, IsSnapshot, Snapshot
<1>2. IsSnapshot(Snapshot)' /\ Snapshot' = Snapshot /\ (Paced(c) => Paced(c)') /\ (Current(c) => Current(c)')
  BY <1>1 DEF Snapshot, IsSnapshot, Paced, Current
<1>3. MediumInv'
  BY MediumKept DEF StorageInv
<1>4. CallsInv'
  BY CallsKept DEF StorageInv
<1>5. ReadyInv'
  BY <1>1, <1>2, ReadyKept DEF StorageInv
<1>6. AckedKept'
  BY <1>1 DEF StorageInv, AckedKept
<1>7. ~raced => Paced(c)' /\ sequence \in Nat /\ sequence' \in Nat /\ sequence <= sequence'
  BY <1>1, <1>2
<1>8. Alone(s) => Current(c)'
  BY <1>2
<1>9. CommitInv'
  BY <1>7, <1>8, CommitKept DEF StorageInv
<1> QED
  BY <1>3, <1>4, <1>5, <1>6, <1>9 DEF StorageInv

---------------------------------------------------------------------------
(* Bundles *)

\* What a commit writes is a bundle of the snapshot it took.
LEMMA Exported ==
  ASSUME NEW p, IsSnapshot(p), dek # Nothing
  PROVE  IsBundle(exportEncrypted(dek, Nothing, p)) /\ exportEncrypted(dek, Nothing, p).ct.content = p
BY DEF exportEncrypted, encryptEnvelope, IsBundle, isFencEnvelope, aesGcmEncrypt

\* A bundle the run wrote opens with its key, to the snapshot written.
LEMMA BundleOpens ==
  ASSUME NEW b, IsBundle(b), dek # Nothing
  PROVE  importEncrypted(dek, Nothing, b) = b.ct.content /\ ~Fails(importEncrypted(dek, Nothing, b))
<1>1. PICK p : p = b.ct.content
  OBVIOUS
<1>2. b = encryptEnvelope(dek, "db", p) /\ IsSnapshot(p)
  BY <1>1 DEF IsBundle
<1>3. b.kind = "fenc" /\ b.target = "db"
  BY <1>2 DEF encryptEnvelope
<1>4. ~Fails(p)
  BY <1>2, SnapshotsOpen
<1>5. decryptEnvelope(dek, b) = p
  BY <1>2, <1>4, Opens DEF VALID_TARGETS
<1>6. importEncrypted(dek, Nothing, b) = decryptEnvelope(dek, b)
  BY <1>3 DEF importEncrypted
<1> QED
  BY <1>1, <1>4, <1>5, <1>6

\* Whatever is imported is the snapshot of a database.
LEMMA Imported ==
  ASSUME MediumInv, blob # Nothing, ~Fails(importEncrypted(dek, Nothing, blob)), dek # Nothing
  PROVE  IsSnapshot(importEncrypted(dek, Nothing, blob))
<1>1. CASE IsBundle(blob)
  BY <1>1, BundleOpens DEF IsBundle
<1>2. CASE blob = Garbage
  BY <1>2, Errors DEF importEncrypted, Garbage
<1>3. CASE blob \in Body(Bundles)
  <2>1. blob.kind \in {"garbage", "fenc", "v2", "document", "unsupported"}
    BY <1>3, ArtifactsAssumption
  <2>2. CASE blob.kind = "garbage"
    BY <2>2, Errors DEF importEncrypted
  <2>3. CASE blob.kind = "fenc"
    <3>1. blob.target = "db" /\ importEncrypted(dek, Nothing, blob) = decryptEnvelope(dek, blob)
      BY <2>3, Errors DEF importEncrypted
    <3>2. blob.ct.aad = "db" /\ decryptEnvelope(dek, blob) = blob.ct.content /\ isFencEnvelope(blob)
      BY <3>1, Opened
    <3> QED
      BY <1>3, <3>1, <3>2, ArtifactsAssumption
  <2>4. CASE blob.kind = "v2"
    BY <2>4, Errors DEF importEncrypted
  <2>5. CASE blob.kind = "document"
    <3>1. importEncrypted(dek, Nothing, blob) = blob.content
      BY <2>5 DEF importEncrypted
    <3> QED
      BY <1>3, <2>5, <3>1, ArtifactsAssumption
  <2>6. CASE blob.kind = "unsupported"
    BY <2>6, Errors DEF importEncrypted
  <2> QED
    BY <2>1, <2>2, <2>3, <2>4, <2>5, <2>6
<1> QED
  BY <1>1, <1>2, <1>3 DEF MediumInv

---------------------------------------------------------------------------
(* The steps of a call, one by one *)

\* A call on its way has its fields, and the storage is ready for it.
LEMMA UnderWay ==
  ASSUME StorageInv, NEW s \in Slot, calls[s].pc # "idle"
  PROVE  /\ DOMAIN calls[s] = Fields /\ dek # Nothing
         /\ CallTyped(calls[s]) /\ Recovered(calls[s])
         /\ ~raced => Paced(calls[s])
         /\ Lone(s) => Undisturbed(calls[s])
         /\ Alone(s) => Current(calls[s])
         /\ ~Waiting(calls[s]) => ready
         /\ sequence \in Nat /\ IsSnapshot(Snapshot)
BY DEF StorageInv, CallsInv, CommitInv, ReadyInv, CallTyped, IsSnapshot, Snapshot

\* dbGet: an answer, and nothing written.
LEMMA GetStep ==
  ASSUME StorageInv, NEW s \in Slot, dbGet(s)
  PROVE  StorageInv'
<1>1. PICK result, c, d : /\ d = calls[s] /\ c = [d EXCEPT !.pc = "done", !.result = result, !.held = Nothing]
                          /\ calls' = [calls EXCEPT ![s] = c]
  BY DEF dbGet, Done, Update
<1>2. d.pc = "acting" /\ d.op = "get" /\ UNCHANGED <<dek, blob, medium, disk, memory, rounds, restarted>>
  BY <1>1 DEF dbGet, Acting
<1>3. /\ DOMAIN d = Fields /\ dek # Nothing /\ CallTyped(d) /\ Recovered(d)
      /\ (~raced => Paced(d)) /\ (Lone(s) => Undisturbed(d)) /\ ready
  BY <1>1, <1>2, UnderWay DEF Waiting, Outside
<1>4. /\ DOMAIN c = Fields /\ c.pc = "done" /\ c.op = "get" /\ c.from = d.from /\ c.wrote = d.wrote /\ c.overlap = d.overlap
      /\ d.wrote = Nothing
  BY <1>1, <1>2, <1>3 DEF Fields, CallTyped
<1>5. Moves(s, c)
  BY <1>1, <1>2, <1>4 DEF Moves, memory
<1>6. CallTyped(c)
  BY <1>2, <1>3, <1>4 DEF CallTyped
<1>7. Recovered(c) /\ (~raced => Paced(c)) /\ Undisturbed(c)' /\ Current(c)
  BY <1>2, <1>3, <1>4 DEF Recovered, Paced, Undisturbed, Current
<1> QED
  BY <1>2, <1>3, <1>4, <1>5, <1>6, <1>7, MovesQuietly

\* The result of a save or a commit is sealed.
LEMMA SealedStep ==
  ASSUME StorageInv, NEW s \in Slot, Sealed(s)
  PROVE  StorageInv'
<1>1. PICK result, c, d : /\ d = calls[s] /\ c = [d EXCEPT !.pc = "done", !.result = result, !.held = Nothing]
                          /\ calls' = [calls EXCEPT ![s] = c]
                          /\ result = IF d.op = "save" THEN encryptEnvelope(dek, "output", d.held)
                                      ELSE exportEncrypted(dek, Nothing, d.held)
  BY DEF Sealed, Done, Update
<1>2. d.pc = "sealing" /\ UNCHANGED <<dek, blob, medium, disk, memory, rounds, restarted>>
  BY <1>1 DEF Sealed
<1>3. /\ DOMAIN d = Fields /\ dek # Nothing /\ CallTyped(d) /\ Recovered(d)
      /\ (~raced => Paced(d)) /\ (Lone(s) => Undisturbed(d)) /\ (Alone(s) => Current(d)) /\ (~Waiting(d) => ready)
  BY <1>1, <1>2, UnderWay
<1>4. /\ DOMAIN c = Fields /\ c.pc = "done" /\ c.op = d.op /\ c.from = d.from /\ c.wrote = d.wrote /\ c.overlap = d.overlap
      /\ c.result = result
  BY <1>1, <1>2, <1>3 DEF Fields, CallTyped
<1>5. d.op = "save" \/ (d.op = "commit" /\ IsSnapshot(d.held))
  BY <1>2, <1>3 DEF CallTyped
<1>6. d.op = "commit" => IsBundle(result) /\ result.ct.content = d.held
  BY <1>1, <1>3, <1>5, Exported
<1>7. Moves(s, c)
  BY <1>1, <1>2, <1>4 DEF Moves, memory
<1>8. CallTyped(c)
  BY <1>2, <1>3, <1>4, <1>6 DEF CallTyped
<1>9. Recovered(c) /\ (ready \/ Waiting(c))
  BY <1>2, <1>3, <1>4, <1>5 DEF Recovered, Waiting, Outside
<1>10. ~raced => Paced(c)
  <2>1. c.wrote # Nothing => c.op = "commit"
    BY <1>8, <1>4 DEF CallTyped
  <2> QED
    BY <1>2, <1>3, <1>4, <1>6, <2>1 DEF Paced
<1>11. (Lone(s) => Undisturbed(c)') /\ (Alone(s) => Current(c))
  BY <1>2, <1>3, <1>4 DEF Undisturbed, Current
<1> QED
  BY <1>2, <1>4, <1>7, <1>8, <1>9, <1>10, <1>11, MovesQuietly

\* A commit has encrypted the snapshot it took.
LEMMA EncryptedStep ==
  ASSUME StorageInv, NEW s \in Slot, Encrypted(s)
  PROVE  StorageInv'
<1>1. PICK held, c, d : /\ d = calls[s] /\ c = [d EXCEPT !.pc = "writing", !.held = held]
                        /\ calls' = [calls EXCEPT ![s] = c]
                        /\ held = exportEncrypted(dek, Nothing, d.held)
  <2>1. PICK d : d = calls[s]
    OBVIOUS
  <2>2. PICK held : held = exportEncrypted(dek, Nothing, d.held)
    OBVIOUS
  <2>3. d.pc # "idle"
    BY <2>1 DEF Encrypted
  <2>4. DOMAIN d = Fields
    BY <2>1, <2>3, UnderWay
  <2>5. [d EXCEPT !.pc = "writing", !.held = exportEncrypted(dek, Nothing, @)] = [d EXCEPT !.pc = "writing", !.held = held]
    BY <2>2, <2>4, Zenon DEF Fields
  <2> QED
    BY <2>1, <2>2, <2>5 DEF Encrypted, Update
<1>2. d.pc = "encrypting" /\ UNCHANGED <<dek, blob, medium, disk, memory, rounds, restarted>>
  BY <1>1 DEF Encrypted
<1>3. /\ DOMAIN d = Fields /\ dek # Nothing /\ CallTyped(d) /\ Recovered(d)
      /\ (~raced => Paced(d)) /\ (Lone(s) => Undisturbed(d)) /\ (Alone(s) => Current(d)) /\ (~Waiting(d) => ready)
  BY <1>1, <1>2, UnderWay
<1>4. /\ DOMAIN c = Fields /\ c.pc = "writing" /\ c.op = d.op /\ c.from = d.from /\ c.wrote = d.wrote /\ c.overlap = d.overlap
      /\ c.held = held
  BY <1>1, <1>2, <1>3 DEF Fields, CallTyped
<1>5. d.op = "commit" /\ IsSnapshot(d.held) /\ d.wrote = Nothing
  BY <1>2, <1>3 DEF CallTyped
<1>6. IsBundle(held) /\ held.ct.content = d.held
  BY <1>1, <1>3, <1>5, Exported
<1>7. Moves(s, c)
  BY <1>1, <1>2, <1>4 DEF Moves, memory
<1>8. CallTyped(c)
  BY <1>2, <1>3, <1>4, <1>5, <1>6 DEF CallTyped
<1>9. Recovered(c) /\ ready
  BY <1>2, <1>3, <1>4, <1>5 DEF Recovered, Waiting, Outside
<1>10. ~raced => Paced(c)
  BY <1>2, <1>3, <1>4, <1>5, <1>6 DEF Paced
<1>11. (Lone(s) => Undisturbed(c)') /\ (Alone(s) => Current(c))
  BY <1>2, <1>3, <1>4, <1>5, <1>6 DEF Undisturbed, Current
<1> QED
  BY <1>2, <1>4, <1>7, <1>8, <1>9, <1>10, <1>11, MovesQuietly

\* A commit takes its snapshot, or fails because the rows cannot be printed.
LEMMA CommitStep ==
  ASSUME StorageInv, NEW s \in Slot, commit(s)
  PROVE  StorageInv'
<1>1. PICK c, d : /\ d = calls[s] /\ calls' = [calls EXCEPT ![s] = c]
                  /\ \/ c = [[d EXCEPT !.pc = "encrypting"] EXCEPT !.held = Snapshot]
                     \/ c = [d EXCEPT !.pc = "failed", !.result = OtherError, !.held = Nothing]
  BY DEF commit, Serialise, Update, Fail
<1>2. d.pc = "acting" /\ d.op = "commit" /\ UNCHANGED <<dek, blob, medium, disk, memory, rounds, restarted>>
  BY <1>1 DEF commit, Acting
<1>3. /\ DOMAIN d = Fields /\ dek # Nothing /\ CallTyped(d) /\ Recovered(d)
      /\ (~raced => Paced(d)) /\ (Lone(s) => Undisturbed(d)) /\ ready /\ sequence \in Nat /\ IsSnapshot(Snapshot)
  BY <1>1, <1>2, UnderWay DEF Waiting, Outside
<1>4. /\ DOMAIN c = Fields /\ c.op = "commit" /\ c.from = d.from /\ c.wrote = Nothing /\ c.overlap = d.overlap
      /\ c.pc = "failed" \/ (c.pc = "encrypting" /\ c.held = Snapshot)
  BY <1>1, <1>2, <1>3 DEF Fields, CallTyped
<1>5. Moves(s, c)
  BY <1>1, <1>2, <1>4 DEF Moves, memory
<1>6. CallTyped(c)
  BY <1>2, <1>3, <1>4 DEF CallTyped
<1>7. Recovered(c) /\ (~raced => Paced(c)) /\ (Lone(s) => Undisturbed(c)') /\ Current(c)
  <2>1. Snapshot.sequence = sequence
    BY DEF Snapshot
  <2> QED
    BY <1>2, <1>3, <1>4, <2>1 DEF Recovered, Paced, Undisturbed, Current
<1>8. c.pc \notin {"preparing", "importing"} /\ UNCHANGED memory
  BY <1>2, <1>4
<1> QED
  BY <1>3, <1>5, <1>6, <1>7, <1>8, MovesQuietly

\* The write of a commit ends: the bundle is at rest, or garbage if another write overlapped.
LEMMA WriteEndsStep ==
  ASSUME StorageInv, NEW s \in Slot, WriteEnds(s)
  PROVE  StorageInv'
<1>1. PICK c, d : /\ d = calls[s] /\ calls' = [calls EXCEPT ![s] = c]
                  /\ \/ c = [[d EXCEPT !.pc = "sealing", !.wrote = d.held] EXCEPT !.held = Snapshot]
                     \/ c = [d EXCEPT !.pc = "failed", !.result = OtherError, !.held = Nothing]
  BY DEF WriteEnds, Serialise, Update, Fail
<1>2. /\ d.pc \in {"writing", "flushing"} /\ UNCHANGED <<dek, blob, medium, memory, rounds, restarted>>
      /\ disk' = d.held \/ (d.overlap /\ disk' = Garbage)
  BY <1>1 DEF WriteEnds, Writes
<1>3. /\ DOMAIN d = Fields /\ dek # Nothing /\ CallTyped(d) /\ Recovered(d)
      /\ (~raced => Paced(d)) /\ (Lone(s) => Undisturbed(d)) /\ (Alone(s) => Current(d))
      /\ (~Waiting(d) => ready) /\ sequence \in Nat /\ IsSnapshot(Snapshot)
  BY <1>1, <1>2, UnderWay
<1>4. d.op = "commit" /\ d.wrote = Nothing /\ IsBundle(d.held) /\ (d.overlap => medium = "file") /\ ready
  BY <1>2, <1>3 DEF CallTyped, Waiting, Outside
<1>5. /\ DOMAIN c = Fields /\ c.op = "commit" /\ c.from = d.from /\ c.overlap = d.overlap
      /\ \/ c.pc = "failed" /\ c.wrote = Nothing
         \/ c.pc = "sealing" /\ c.held = Snapshot /\ c.wrote = d.held
  BY <1>1, <1>2, <1>3, <1>4 DEF Fields
<1>6. IsBundle(disk') \/ (medium = "file" /\ disk' = Garbage)
  BY <1>2, <1>4
<1>7. Moves(s, c)
  BY <1>1, <1>2, <1>4, <1>5, <1>6 DEF Moves, memory
<1>8. CallTyped(c)
  BY <1>2, <1>3, <1>4, <1>5 DEF CallTyped
<1>9. Recovered(c)
  BY <1>5 DEF Recovered
<1>10. ~raced => Paced(c)
  <2>1. Snapshot.sequence = sequence
    BY DEF Snapshot
  <2>2. d.held.ct.content.sequence \in Nat /\ d.from \in Nat
    BY <1>2, <1>3, Counters
  <2>3. ~raced => d.from <= d.held.ct.content.sequence /\ d.held.ct.content.sequence <= sequence /\ d.from <= sequence
    BY <1>2, <1>3 DEF Paced
  <2> QED
    BY <1>3, <1>5, <2>1, <2>2, <2>3 DEF Paced
<1>11. Lone(s) => Undisturbed(c)'
  BY <1>2, <1>3, <1>4, <1>5 DEF Undisturbed
<1>12. Alone(s) => Current(c)
  BY <1>2, <1>3, <1>4, <1>5 DEF Current
<1>13. c.pc \notin {"preparing", "importing"} /\ UNCHANGED memory
  BY <1>2, <1>5
<1> QED
  BY <1>4, <1>7, <1>8, <1>9, <1>10, <1>11, <1>12, <1>13, MovesQuietly

\* The write of a commit fails: the medium stays as it is, and the commit goes on.
LEMMA WriteFailsStep ==
  ASSUME StorageInv, NEW s \in Slot, WriteFails(s)
  PROVE  StorageInv'
<1>1. PICK c, d : /\ d = calls[s] /\ calls' = [calls EXCEPT ![s] = c]
                  /\ \/ c = [[d EXCEPT !.pc = "sealing"] EXCEPT !.held = Snapshot]
                     \/ c = [d EXCEPT !.pc = "failed", !.result = OtherError, !.held = Nothing]
  BY DEF WriteFails, Serialise, Update, Fail
<1>2. d.pc \in {"writing", "flushing"} /\ UNCHANGED <<dek, blob, medium, disk, memory, rounds, restarted>>
  BY <1>1 DEF WriteFails
<1>3. /\ DOMAIN d = Fields /\ dek # Nothing /\ CallTyped(d) /\ Recovered(d)
      /\ (~raced => Paced(d)) /\ (Lone(s) => Undisturbed(d))
      /\ (~Waiting(d) => ready) /\ sequence \in Nat /\ IsSnapshot(Snapshot)
  BY <1>1, <1>2, UnderWay
<1>4. d.op = "commit" /\ d.wrote = Nothing /\ ready
  BY <1>2, <1>3 DEF CallTyped, Waiting, Outside
<1>5. /\ DOMAIN c = Fields /\ c.op = "commit" /\ c.from = d.from /\ c.overlap = d.overlap /\ c.wrote = Nothing
      /\ c.pc = "failed" \/ (c.pc = "sealing" /\ c.held = Snapshot)
  BY <1>1, <1>2, <1>3, <1>4 DEF Fields
<1>6. Moves(s, c)
  BY <1>1, <1>2, <1>4, <1>5 DEF Moves, memory
<1>7. CallTyped(c)
  BY <1>2, <1>3, <1>4, <1>5 DEF CallTyped
<1>8. Recovered(c) /\ (~raced => Paced(c)) /\ (Lone(s) => Undisturbed(c)') /\ Current(c)
  <2>1. Snapshot.sequence = sequence
    BY DEF Snapshot
  <2> QED
    BY <1>2, <1>3, <1>4, <1>5, <2>1 DEF Recovered, Paced, Undisturbed, Current
<1>9. c.pc \notin {"preparing", "importing"} /\ UNCHANGED memory
  BY <1>2, <1>5
<1> QED
  BY <1>4, <1>6, <1>7, <1>8, <1>9, MovesQuietly

\* Other commits that are writing learn that they are not alone.
LEMMA TruncateStep ==
  ASSUME StorageInv, NEW s \in Slot, Truncate(s)
  PROVE  StorageInv'
<1> DEFINE others == {t \in Slot \ {s} : calls[t].pc = "flushing"}
<1>1. /\ medium = "file" /\ calls[s].pc = "writing" /\ disk' = Garbage
      /\ UNCHANGED <<dek, blob, medium, rows, sequence, ready, acked, raced, rounds, restarted>>
  BY DEF Truncate, memory
<1>2. calls' = [t \in Slot |-> IF t = s THEN [calls[t] EXCEPT !.pc = "flushing", !.overlap = others # {}]
                              ELSE IF t \in others THEN [calls[t] EXCEPT !.overlap = TRUE] ELSE calls[t]]
  BY DEF Truncate
<1>3. \A t \in Slot : calls[t].pc # "idle" => DOMAIN calls[t] = Fields
  BY UnderWay
<1>4. \A t \in Slot : t \in others \/ t = s => calls[t].op = "commit" /\ calls[t].wrote = Nothing
  BY <1>1, UnderWay DEF CallTyped
<1>5. ASSUME NEW t \in Slot
      PROVE  /\ calls'[t].op = calls[t].op /\ (calls[t].pc = "idle" => calls'[t] = calls[t])
             /\ calls'[t].pc = IF t = s THEN "flushing" ELSE calls[t].pc
             /\ calls[t].pc # "idle" =>
                  /\ DOMAIN calls'[t] = Fields /\ calls'[t].from = calls[t].from /\ calls'[t].held = calls[t].held
                  /\ calls'[t].wrote = calls[t].wrote /\ calls'[t].result = calls[t].result
             /\ t \notin others \union {s} => calls'[t] = calls[t]
             /\ t = s => calls'[t].overlap = (others # {})
  <2>1. CASE t = s
    BY <1>1, <1>2, <1>3, <2>1 DEF Fields
  <2>2. CASE t # s /\ t \in others
    BY <1>2, <1>3, <2>2 DEF Fields
  <2>3. CASE t # s /\ t \notin others
    BY <1>2, <1>3, <2>3 DEF Fields
  <2> QED
    BY <2>1, <2>2, <2>3
<1>6. /\ \A t \in Slot : t # s => calls'[t].pc = calls[t].pc
      /\ calls'[s].pc = "flushing" /\ calls[s].pc = "writing"
      /\ \A t \in others : calls[t].pc = "flushing" /\ t # s
  BY <1>1, <1>5
<1>7. MediumInv'
  BY <1>1 DEF StorageInv, MediumInv, IsBundle
<1>8. CallsInv'
  <2>1. ASSUME NEW t \in Slot PROVE CallTyped(calls[t])' /\ Recovered(calls[t])'
    <3>1. PICK c, d : c = calls'[t] /\ d = calls[t]
      OBVIOUS
    <3>2. CallTyped(d) /\ Recovered(d)
      BY <3>1 DEF StorageInv, CallsInv
    <3>3. CASE t \notin others \union {s}
      BY <1>1, <1>5, <3>1, <3>2, <3>3 DEF CallTyped, Recovered, IsBundle
    <3>4. CASE t \in others \union {s}
      <4>1. d.pc \in {"writing", "flushing"} /\ c.pc = "flushing" /\ d.op = "commit" /\ d.wrote = Nothing
        <5>1. CASE t = s
          BY <1>4, <1>6, <3>1, <5>1
        <5>2. CASE t # s
          BY <1>4, <1>6, <3>1, <3>4, <5>2
        <5> QED
          BY <5>1, <5>2
      <4>2. DOMAIN c = Fields /\ c.op = "commit" /\ c.from = d.from /\ c.held = d.held /\ c.wrote = Nothing
        BY <1>5, <3>1, <4>1
      <4>3. CallTyped(c) /\ Recovered(c)
        BY <1>1, <3>2, <4>1, <4>2 DEF CallTyped, Recovered
      <4> QED
        BY <1>1, <3>1, <4>3 DEF CallTyped, Recovered, IsBundle
    <3> QED
      BY <3>3, <3>4
  <2>2. calls' = [t \in Slot |-> calls'[t]]
    BY <1>2
  <2> QED
    BY <2>1, <2>2 DEF CallsInv
<1>9. ReadyInv'
  <2>1. IsSnapshot(Snapshot)'
    BY <1>1 DEF StorageInv, ReadyInv, Snapshot, IsSnapshot
  <2>2. \A t \in Slot : Pending(t)' => Pending(t)
    <3> SUFFICES ASSUME NEW t \in Slot, Pending(t)' PROVE Pending(t)
      OBVIOUS
    <3>1. t # s
      BY <1>6 DEF Pending
    <3>2. calls'[t].pc = calls[t].pc /\ blob' = blob
      BY <1>1, <1>6, <3>1
    <3> QED
      BY <3>2 DEF Pending
  <2>3. ready
    BY <1>1, <1>4, UnderWay DEF Waiting, Outside
  <2> QED
    BY <1>1, <2>1, <2>2, <2>3 DEF StorageInv, ReadyInv
<1>10. AckedKept'
  BY <1>1 DEF StorageInv, AckedKept
<1>11. CommitInv'
  <2> SUFFICES ASSUME NEW t \in Slot
               PROVE  /\ ~raced' => Paced(calls[t])'
                      /\ Lone(t)' => Undisturbed(calls[t])'
                      /\ Alone(t)' => Current(calls[t])'
    BY DEF CommitInv
  <2>1. PICK c, d : c = calls'[t] /\ d = calls[t]
    OBVIOUS
  <2>2. /\ ~raced => Paced(d)
        /\ Lone(t) => Undisturbed(d)
        /\ Alone(t) => Current(d)
        /\ CallTyped(d)
    BY <2>1 DEF StorageInv, CommitInv, CallsInv
  <2>3. /\ (d.pc = "idle") = (c.pc = "idle") /\ c.op = d.op
        /\ c.pc = d.pc \/ (c.pc = "flushing" /\ d.pc = "writing")
        /\ d.pc # "idle" => c.from = d.from /\ c.held = d.held /\ c.wrote = d.wrote /\ c.result = d.result
    BY <1>1, <1>5, <1>6, <2>1
  <2>4. ~raced => Paced(c)
    BY <2>2, <2>3 DEF Paced
  <2>5. Alone(t)' => Alone(t)
    <3> SUFFICES ASSUME Alone(t)', NEW u \in Slot \ {t} PROVE calls[u].pc = "idle"
      BY DEF Alone
    <3>1. calls'[u].pc = "idle"
      BY DEF Alone
    <3>2. u # s
      BY <1>6, <3>1
    <3> QED
      BY <1>6, <3>1, <3>2
  <2>6. Alone(t) => Current(c)
    BY <2>2, <2>3 DEF Current
  <2>7. Lone(t)' => Undisturbed(c)'
    <3> SUFFICES ASSUME Lone(t)' PROVE Undisturbed(c)'
      OBVIOUS
    <3>1. t = s
      BY <1>4, <1>5 DEF Lone
    <3>2. others = {}
      BY <1>4, <1>5, <3>1 DEF Lone
    <3> QED
      BY <1>4, <1>5, <2>1, <2>3, <3>1, <3>2 DEF Undisturbed
  <2> QED
    BY <1>1, <2>1, <2>4, <2>5, <2>6, <2>7 DEF Paced, Undisturbed, Current, Snapshot
<1> QED
  BY <1>7, <1>8, <1>9, <1>10, <1>11 DEF StorageInv

\* A step that changes the database of a storage that is ready.
LEMMA MovesLoudly ==
  ASSUME NEW s \in Slot, NEW c, StorageInv, Moves(s, c), CallTyped(c), Recovered(c), c.pc = "done", c.op # "commit",
         ready, ready' = ready, IsSnapshot(Snapshot)', AckedKept', sequence <= sequence',
         c.from <= sequence \/ raced, c.wrote = Nothing
  PROVE  StorageInv'
<1>1. MediumInv'
  BY MediumKept DEF StorageInv
<1>2. CallsInv'
  BY CallsKept DEF StorageInv
<1>3. ReadyInv'
  BY ReadyKept DEF StorageInv
<1>4. sequence \in Nat /\ sequence' \in Nat
  BY DEF StorageInv, ReadyInv, IsSnapshot, Snapshot
<1>5. c.from \in Nat
  BY Counters
<1>6. ~raced => Paced(c)' /\ sequence \in Nat /\ sequence' \in Nat /\ sequence <= sequence'
  BY <1>4, <1>5 DEF Paced
<1>7. Undisturbed(c)' /\ Current(c)'
  BY DEF Undisturbed, Current
<1>8. CommitInv'
  BY <1>6, <1>7, CommitKept DEF StorageInv
<1> QED
  BY <1>1, <1>2, <1>3, <1>8 DEF StorageInv

\* A call on the database that is done.
LEMMA DoneCall ==
  ASSUME StorageInv, NEW s \in Slot, NEW result, NEW op \in {"insert", "update", "delete"}, Acting(s, op), Done(s, result),
         UNCHANGED <<dek, blob, medium, disk, restarted, raced, rounds>>
  PROVE  \E c : /\ Moves(s, c) /\ CallTyped(c) /\ Recovered(c) /\ c.pc = "done" /\ c.op # "commit"
                /\ c.from <= sequence \/ raced
                /\ c.wrote = Nothing /\ ready
<1>1. PICK c, d : /\ d = calls[s] /\ c = [d EXCEPT !.pc = "done", !.result = result, !.held = Nothing]
                  /\ calls' = [calls EXCEPT ![s] = c]
  BY DEF Done, Update
<1>2. d.pc = "acting" /\ d.op = op /\ op # "commit"
  BY <1>1 DEF Acting
<1>3. DOMAIN d = Fields /\ dek # Nothing /\ CallTyped(d) /\ (~raced => Paced(d)) /\ ready
  BY <1>1, <1>2, UnderWay DEF Waiting, Outside
<1>4. /\ DOMAIN c = Fields /\ c.pc = "done" /\ c.op = op /\ c.from = d.from /\ c.wrote = d.wrote /\ c.overlap = d.overlap
      /\ d.wrote = Nothing
  BY <1>1, <1>2, <1>3 DEF Fields, CallTyped
<1>5. Moves(s, c)
  BY <1>1, <1>2, <1>4 DEF Moves
<1>6. CallTyped(c) /\ Recovered(c)
  BY <1>2, <1>3, <1>4 DEF CallTyped, Recovered
<1>7. c.from <= sequence \/ raced
  BY <1>2, <1>3, <1>4 DEF Paced
<1> QED
  BY <1>2, <1>3, <1>4, <1>5, <1>6, <1>7

\* dbInsert: a row at the next sequence number.
LEMMA InsertStep ==
  ASSUME StorageInv, NEW s \in Slot, dbInsert(s)
  PROVE  StorageInv'
<1>1. /\ rows' = [i \in DOMAIN rows \union {sequence} |-> IF i = sequence THEN calls[s].content ELSE rows[i]]
      /\ acked' = [i \in DOMAIN acked \union {sequence} |-> IF i = sequence THEN calls[s].content ELSE acked[i]]
      /\ sequence' = sequence + 1
      /\ Acting(s, "insert") /\ Done(s, sequence)
      /\ UNCHANGED <<dek, blob, medium, disk, ready, raced, rounds, restarted>>
  BY DEF dbInsert
<1>2. PICK c : /\ Moves(s, c) /\ CallTyped(c) /\ Recovered(c) /\ c.pc = "done" /\ c.op # "commit"
               /\ c.from <= sequence \/ raced
               /\ c.wrote = Nothing /\ ready
  <2>1. PICK result : result = sequence
    OBVIOUS
  <2>2. Done(s, result) /\ Acting(s, "insert") /\ UNCHANGED <<dek, blob, medium, disk, restarted, raced, rounds>>
    BY <1>1, <2>1
  <2> QED
    BY <2>2, DoneCall
<1>3. sequence \in Nat /\ DOMAIN rows \subseteq 0 .. sequence - 1
  BY DEF StorageInv, ReadyInv, IsSnapshot, Snapshot
<1>4. IsSnapshot(Snapshot)'
  <2>1. sequence' \in Nat /\ rows' = [i \in DOMAIN rows' |-> rows'[i]] /\ DOMAIN rows' \subseteq 0 .. sequence' - 1
    BY <1>1, <1>3
  <2> QED
    BY <2>1 DEF IsSnapshot, Snapshot
<1>5. AckedKept'
  <2> SUFFICES ASSUME ~raced, NEW id \in DOMAIN acked'
               PROVE  id \in DOMAIN rows' /\ rows'[id] = acked'[id] /\ id < sequence'
    BY <1>1 DEF AckedKept
  <2>1. CASE id = sequence
    BY <1>1, <1>3, <2>1
  <2>2. CASE id # sequence
    <3>1. id \in DOMAIN acked
      BY <1>1, <2>2
    <3>2. id \in DOMAIN rows /\ rows[id] = acked[id] /\ id < sequence
      BY <3>1 DEF StorageInv, AckedKept
    <3>3. id \in Nat
      BY <1>3, <3>2
    <3> QED
      BY <1>1, <1>3, <2>2, <3>1, <3>2, <3>3
  <2> QED
    BY <2>1, <2>2
<1>6. ready' = ready /\ sequence <= sequence'
  BY <1>1, <1>3
<1> QED
  BY <1>2, <1>4, <1>5, <1>6, MovesLoudly

\* dbUpdate: a row replaced, if there is one.
LEMMA UpdateStep ==
  ASSUME StorageInv, NEW s \in Slot, dbUpdate(s)
  PROVE  StorageInv'
<1> DEFINE id == calls[s].id
<1>1. /\ IF id \notin DOMAIN rows THEN UNCHANGED <<rows, acked, sequence>>
         ELSE /\ rows' = [rows EXCEPT ![id] = calls[s].content]
              /\ acked' = [i \in DOMAIN acked \union {id} |-> IF i = id THEN calls[s].content ELSE acked[i]]
              /\ sequence' = sequence + 1
      /\ Acting(s, "update") /\ Done(s, id \in DOMAIN rows)
      /\ UNCHANGED <<dek, blob, medium, disk, ready, raced, rounds, restarted>>
  BY DEF dbUpdate
<1> HIDE DEF id
<1>2. PICK c : /\ Moves(s, c) /\ CallTyped(c) /\ Recovered(c) /\ c.pc = "done" /\ c.op # "commit"
               /\ c.from <= sequence \/ raced
               /\ c.wrote = Nothing /\ ready
  <2>1. PICK result : result = (id \in DOMAIN rows)
    OBVIOUS
  <2>2. Done(s, result) /\ Acting(s, "update") /\ UNCHANGED <<dek, blob, medium, disk, restarted, raced, rounds>>
    BY <1>1, <2>1
  <2> QED
    BY <2>2, DoneCall
<1>3. sequence \in Nat /\ DOMAIN rows \subseteq 0 .. sequence - 1 /\ rows = [i \in DOMAIN rows |-> rows[i]] /\ IsSnapshot(Snapshot)
  BY DEF StorageInv, ReadyInv, IsSnapshot, Snapshot
<1>4. IsSnapshot(Snapshot)' /\ sequence <= sequence'
  <2>1. CASE id \notin DOMAIN rows
    BY <1>1, <1>3, <2>1 DEF IsSnapshot, Snapshot
  <2>2. CASE id \in DOMAIN rows
    <3>1. /\ sequence' \in Nat /\ rows' = [i \in DOMAIN rows' |-> rows'[i]] /\ DOMAIN rows' \subseteq 0 .. sequence' - 1
          /\ sequence <= sequence'
      BY <1>1, <1>3, <2>2
    <3> QED
      BY <3>1 DEF IsSnapshot, Snapshot
  <2> QED
    BY <2>1, <2>2
<1>5. AckedKept'
  <2>1. CASE id \notin DOMAIN rows
    BY <1>1, <2>1 DEF StorageInv, AckedKept
  <2>2. CASE id \in DOMAIN rows
    <3> SUFFICES ASSUME ~raced, NEW i \in DOMAIN acked'
                 PROVE  i \in DOMAIN rows' /\ rows'[i] = acked'[i] /\ i < sequence'
      BY <1>1 DEF AckedKept
    <3>1. CASE i = id
      BY <1>1, <1>3, <2>2, <3>1
    <3>2. CASE i # id
      <4>1. i \in DOMAIN acked
        BY <1>1, <2>2, <3>2
      <4>2. i \in DOMAIN rows /\ rows[i] = acked[i] /\ i < sequence
        BY <4>1 DEF StorageInv, AckedKept
      <4>3. i \in Nat
        BY <1>3, <4>2
      <4> QED
        BY <1>1, <1>3, <2>2, <3>2, <4>1, <4>2, <4>3
    <3> QED
      BY <3>1, <3>2
  <2> QED
    BY <2>1, <2>2
<1>6. ready' = ready
  BY <1>1
<1> QED
  BY <1>2, <1>4, <1>5, <1>6, MovesLoudly

\* dbDelete: a row removed, if there is one.
LEMMA DeleteStep ==
  ASSUME StorageInv, NEW s \in Slot, dbDelete(s)
  PROVE  StorageInv'
<1> DEFINE id == calls[s].id
<1>1. /\ rows' = [i \in DOMAIN rows \ {id} |-> rows[i]] /\ acked' = [i \in DOMAIN acked \ {id} |-> acked[i]]
      /\ Acting(s, "delete") /\ Done(s, id \in DOMAIN rows)
      /\ UNCHANGED <<dek, blob, medium, disk, sequence, ready, raced, rounds, restarted>>
  <2>1. DOMAIN rows \ {id} \subseteq DOMAIN rows /\ DOMAIN acked \ {id} \subseteq DOMAIN acked
    OBVIOUS
  <2> QED
    BY <2>1 DEF dbDelete, Restrict
<1> HIDE DEF id
<1>2. PICK c : /\ Moves(s, c) /\ CallTyped(c) /\ Recovered(c) /\ c.pc = "done" /\ c.op # "commit"
               /\ c.from <= sequence \/ raced
               /\ c.wrote = Nothing /\ ready
  <2>1. PICK result : result = (id \in DOMAIN rows)
    OBVIOUS
  <2>2. Done(s, result) /\ Acting(s, "delete") /\ UNCHANGED <<dek, blob, medium, disk, restarted, raced, rounds>>
    BY <1>1, <2>1
  <2> QED
    BY <2>2, DoneCall
<1>3. sequence \in Nat /\ DOMAIN rows \subseteq 0 .. sequence - 1
  BY DEF StorageInv, ReadyInv, IsSnapshot, Snapshot
<1>4. IsSnapshot(Snapshot)'
  <2>1. sequence' \in Nat /\ rows' = [i \in DOMAIN rows' |-> rows'[i]] /\ DOMAIN rows' \subseteq 0 .. sequence' - 1
    BY <1>1, <1>3
  <2> QED
    BY <2>1 DEF IsSnapshot, Snapshot
<1>5. AckedKept'
  BY <1>1 DEF StorageInv, AckedKept
<1>6. ready' = ready /\ sequence <= sequence'
  BY <1>1, <1>3
<1> QED
  BY <1>2, <1>4, <1>5, <1>6, MovesLoudly

\* With no blob there is nothing to import, for this call or any other.
LEMMA PrepareStep ==
  ASSUME StorageInv, NEW s \in Slot, Prepare(s)
  PROVE  StorageInv'
<1>1. /\ calls[s].pc = "preparing" /\ UNCHANGED <<dek, blob, medium, disk, rows, sequence, acked, raced, rounds, restarted>>
      /\ IF blob = Nothing THEN ready' = TRUE /\ calls' = [calls EXCEPT ![s] = [calls[s] EXCEPT !.pc = "acting"]]
         ELSE ready' = ready /\ calls' = [calls EXCEPT ![s] = [calls[s] EXCEPT !.pc = "importing"]]
  BY DEF Prepare, Update
<1>2. PICK c, d : /\ d = calls[s] /\ calls' = [calls EXCEPT ![s] = c]
                  /\ c = [d EXCEPT !.pc = IF blob = Nothing THEN "acting" ELSE "importing"]
  BY <1>1
<1>3. DOMAIN d = Fields /\ dek # Nothing /\ CallTyped(d) /\ Recovered(d) /\ (~raced => Paced(d)) /\ (Lone(s) => Undisturbed(d))
  BY <1>1, <1>2, UnderWay
<1>4. d.pc = "preparing" /\ d.wrote = Nothing
  BY <1>1, <1>2, <1>3 DEF CallTyped
<1>5. /\ DOMAIN c = Fields /\ c.op = d.op /\ c.from = d.from /\ c.overlap = d.overlap /\ c.wrote = Nothing
      /\ c.pc = IF blob = Nothing THEN "acting" ELSE "importing"
  BY <1>2, <1>3, <1>4 DEF Fields
<1>6. Moves(s, c)
  BY <1>1, <1>2, <1>4, <1>5 DEF Moves
<1>7. CallTyped(c) /\ Recovered(c)
  BY <1>3, <1>4, <1>5 DEF CallTyped, Recovered
<1>8. MediumInv'
  BY <1>6, MediumKept DEF StorageInv
<1>9. CallsInv'
  BY <1>6, <1>7, CallsKept DEF StorageInv
<1>10. AckedKept'
  BY <1>1 DEF StorageInv, AckedKept
<1>11. Snapshot' = Snapshot /\ sequence \in Nat
  BY <1>1 DEF Snapshot, StorageInv, ReadyInv, IsSnapshot
<1>12. ReadyInv'
  <2>1. IsSnapshot(Snapshot)'
    BY <1>11 DEF StorageInv, ReadyInv, IsSnapshot
  <2>2. calls' = [t \in Slot |-> IF t = s THEN c ELSE calls[t]]
    BY <1>2 DEF StorageInv, CallsInv
  <2>3. CASE blob = Nothing
    <3>1. \A t \in Slot : ~Pending(t)'
      <4> SUFFICES ASSUME NEW t \in Slot, Pending(t)' PROVE FALSE
        OBVIOUS
      <4>1. t # s /\ calls[t].pc = "importing"
        BY <1>1, <1>5, <2>2, <2>3 DEF Pending
      <4>2. CallTyped(calls[t])
        BY DEF StorageInv, CallsInv
      <4> QED
        BY <2>3, <4>1, <4>2 DEF CallTyped
    <3>2. ready' = TRUE
      BY <1>1, <2>3
    <3> QED
      BY <1>1, <2>1, <3>1, <3>2 DEF StorageInv, ReadyInv
  <2>4. CASE blob # Nothing
    <3>1. \A t \in Slot : Pending(t)' => Pending(t)
      BY <1>1, <2>2, <2>4 DEF Pending
    <3>2. ready' = ready
      BY <1>1, <2>4
    <3>3. ~ready => \A t \in Slot : Waiting(calls[t])'
      BY <1>4, <1>5, <2>2, <2>4 DEF StorageInv, ReadyInv, Waiting, Outside
    <3>4. ~raced' => \A t \in Slot : Pending(t)' => ~ready' /\ \A u \in Slot : Pending(u)' => t = u
      BY <1>1, <3>1, <3>2 DEF StorageInv, ReadyInv
    <3> QED
      BY <1>1, <2>1, <3>2, <3>3, <3>4 DEF StorageInv, ReadyInv
  <2> QED
    BY <2>3, <2>4
<1>13. ~raced => Paced(c)' /\ sequence \in Nat /\ sequence' \in Nat /\ sequence <= sequence'
  BY <1>1, <1>3, <1>4, <1>5, <1>11 DEF Paced
<1>14. (Lone(s) => Undisturbed(c)') /\ Current(c)'
  BY <1>1, <1>3, <1>4, <1>5 DEF Undisturbed, Current
<1>15. CommitInv'
  BY <1>6, <1>13, <1>14, CommitKept DEF StorageInv
<1> QED
  BY <1>8, <1>9, <1>10, <1>12, <1>15 DEF StorageInv

\* The import puts the blob in the place of the database: with no other call on
\* its way to one, that is empty and nobody has been told of it.
LEMMA ImportStep ==
  ASSUME StorageInv, NEW s \in Slot, Import(s)
  PROVE  StorageInv'
<1>1. PICK plaintext : plaintext = importEncrypted(dek, Nothing, blob)
  OBVIOUS
<1>2. /\ calls[s].pc = "importing"
      /\ IF Fails(plaintext)
         THEN Fail(s, plaintext) /\ UNCHANGED <<dek, blob, medium, disk, memory, rounds, restarted>>
         ELSE Adopt(s, plaintext, TRUE)
  BY <1>1 DEF Import
<1>3. PICK d : d = calls[s]
  OBVIOUS
<1>4. DOMAIN d = Fields /\ dek # Nothing /\ CallTyped(d) /\ Recovered(d) /\ (~raced => Paced(d)) /\ (Lone(s) => Undisturbed(d))
  BY <1>2, <1>3, UnderWay
<1>5. d.pc = "importing" /\ d.wrote = Nothing /\ blob # Nothing
  BY <1>2, <1>3, <1>4 DEF CallTyped
<1>6. CASE Fails(plaintext)
  <2>1. PICK c : c = [d EXCEPT !.pc = "failed", !.result = plaintext, !.held = Nothing] /\ calls' = [calls EXCEPT ![s] = c]
    BY <1>2, <1>3, <1>6 DEF Fail, Update
  <2>2. UNCHANGED <<dek, blob, medium, disk, memory, rounds, restarted>>
    BY <1>2, <1>6
  <2>3. DOMAIN c = Fields /\ c.op = d.op /\ c.from = d.from /\ c.overlap = d.overlap /\ c.wrote = Nothing /\ c.pc = "failed"
    BY <1>4, <1>5, <2>1 DEF Fields
  <2>4. Moves(s, c)
    BY <1>3, <1>5, <2>1, <2>2, <2>3 DEF Moves, memory
  <2>5. CallTyped(c)
    BY <1>4, <1>5, <2>3 DEF CallTyped
  <2>6. Recovered(c)
    <3>1. ~IsBundle(blob)
      BY <1>1, <1>4, <1>6, BundleOpens
    <3> QED
      BY <1>5, <3>1 DEF Recovered, StorageInv, MediumInv
  <2>7. (~raced => Paced(c)) /\ (Lone(s) => Undisturbed(c)') /\ Current(c) /\ Waiting(c)
    BY <1>4, <1>5, <2>2, <2>3 DEF Paced, Undisturbed, Current, Waiting, Outside
  <2> QED
    BY <2>2, <2>3, <2>4, <2>5, <2>6, <2>7, MovesQuietly
<1>7. CASE ~Fails(plaintext)
  <2>1. PICK c : c = [d EXCEPT !.pc = "acting"] /\ calls' = [calls EXCEPT ![s] = c]
    BY <1>2, <1>3, <1>7 DEF Adopt, Update
  <2>2. /\ rows' = plaintext.rows /\ sequence' = plaintext.sequence /\ ready' = TRUE
        /\ UNCHANGED <<dek, blob, medium, disk, acked, raced, rounds, restarted>>
    BY <1>2, <1>7 DEF Adopt
  <2>3. DOMAIN c = Fields /\ c.op = d.op /\ c.from = d.from /\ c.overlap = d.overlap /\ c.wrote = Nothing /\ c.pc = "acting"
    BY <1>4, <1>5, <2>1 DEF Fields
  <2>4. Moves(s, c)
    BY <1>3, <1>5, <2>1, <2>2, <2>3 DEF Moves
  <2>5. CallTyped(c) /\ Recovered(c)
    BY <1>4, <1>5, <2>3 DEF CallTyped, Recovered
  <2>6. IsSnapshot(plaintext)
    BY <1>1, <1>4, <1>5, <1>7, Imported DEF StorageInv
  <2>7. IsSnapshot(Snapshot)' /\ sequence' \in Nat
    BY <2>2, <2>6 DEF IsSnapshot, Snapshot
  <2>8. ~raced => ~ready /\ \A t \in Slot : Pending(t) => s = t
    BY <1>2 DEF Pending, StorageInv, ReadyInv
  <2>9. ~raced => acked = Empty /\ sequence = 0
    BY <2>8 DEF StorageInv, ReadyInv
  <2>10. MediumInv'
    BY <2>4, MediumKept DEF StorageInv
  <2>11. CallsInv'
    BY <2>4, <2>5, CallsKept DEF StorageInv
  <2>12. AckedKept'
    BY <2>2, <2>9 DEF AckedKept, Empty
  <2>13. ReadyInv'
    <3>1. calls' = [t \in Slot |-> IF t = s THEN c ELSE calls[t]]
      BY <2>1 DEF StorageInv, CallsInv
    <3>2. ~raced => \A t \in Slot : ~Pending(t)'
      <4> SUFFICES ASSUME ~raced, NEW t \in Slot, Pending(t)' PROVE FALSE
        OBVIOUS
      <4>1. t # s /\ Pending(t)
        BY <2>2, <2>3, <3>1 DEF Pending
      <4> QED
        BY <2>8, <4>1
    <3> QED
      BY <2>2, <2>7, <3>2 DEF StorageInv, ReadyInv
  <2>14. ~raced => Paced(c)' /\ sequence \in Nat /\ sequence' \in Nat /\ sequence <= sequence'
    <3>1. d.from \in Nat
      BY <1>4, <1>5, Counters
    <3> QED
      BY <1>4, <1>5, <2>3, <2>7, <2>9, <3>1 DEF Paced
  <2>15. (Lone(s) => Undisturbed(c)') /\ Current(c)'
    BY <1>4, <1>5, <2>2, <2>3 DEF Undisturbed, Current
  <2>16. CommitInv'
    BY <2>4, <2>14, <2>15, CommitKept DEF StorageInv
  <2> QED
    BY <2>10, <2>11, <2>12, <2>13, <2>16 DEF StorageInv
<1> QED
  BY <1>6, <1>7

---------------------------------------------------------------------------
(* Rounds and processes *)

\* A set with no two members has one at most.
LEMMA OneAtMost ==
  ASSUME NEW S, IsFiniteSet(S), ~(Cardinality(S) > 1), NEW t \in S, NEW u \in S
  PROVE  t = u
<1> SUFFICES ASSUME t # u PROVE FALSE
  OBVIOUS
<1>1. IsFiniteSet({t}) /\ Cardinality({t}) = 1
  BY FS_Singleton
<1>2. Cardinality({t} \union {u}) = Cardinality({t}) + 1
  BY <1>1, FS_AddElement
<1>3. {t} \union {u} \subseteq S
  OBVIOUS
<1>4. Cardinality({t} \union {u}) <= Cardinality(S) /\ Cardinality(S) \in Nat
  BY <1>3, FS_Subset, FS_CardinalityType
<1> QED
  BY <1>1, <1>2, <1>4

\* How a call begins.
LEMMA Begins ==
  ASSUME NEW r \in Requests, NEW c, c = Begun(r)
  PROVE  /\ DOMAIN c = Fields /\ c.op = r.op /\ c.from = sequence /\ c.wrote = Nothing /\ c.overlap = FALSE
         /\ \/ NeedsDb(r) /\ c.pc = IF ready THEN "acting" ELSE "preparing"
            \/ c.op = "save" /\ c.pc = "sealing"
            \/ c.op \in Outside /\ c.pc \in {"failed", "done"}
<1>1. r.op \in {"insert", "get", "update", "delete", "commit"} \union Outside
  BY StorageAssumption
<1>2. \A pc : LET d == Call(r, pc)
              IN  /\ DOMAIN d = Fields /\ d.op = r.op /\ d.from = sequence /\ d.wrote = Nothing
                  /\ d.overlap = FALSE /\ d.pc = pc
  BY DEF Call, Fields
<1>3. CASE NeedsDb(r)
  <2>1. c = Call(r, IF ready THEN "acting" ELSE "preparing")
    BY <1>3 DEF Begun, NeedsDb, Throwing
  <2> QED
    BY <1>2, <1>3, <2>1
<1>4. CASE r.op = "save" /\ ~Throwing(r)
  <2>1. PICK d : d = Call(r, "sealing")
    OBVIOUS
  <2>2. c = [d EXCEPT !.held = <<"output", r.content>>]
    BY <1>4, <2>1 DEF Begun, NeedsDb
  <2>3. /\ DOMAIN d = Fields /\ d.op = r.op /\ d.from = sequence /\ d.wrote = Nothing /\ d.overlap = FALSE
        /\ d.pc = "sealing"
    BY <1>2, <2>1
  <2>4. DOMAIN c = Fields /\ c.op = r.op /\ c.from = sequence /\ c.wrote = Nothing /\ c.overlap = FALSE /\ c.pc = "sealing"
    BY <2>2, <2>3 DEF Fields
  <2> QED
    BY <1>4, <2>4
<1>5. CASE Throwing(r)
  <2>1. PICK d : d = Call(r, "failed")
    OBVIOUS
  <2>2. c = [d EXCEPT !.result = OtherError]
    BY <1>5, <2>1 DEF Begun, NeedsDb, Throwing
  <2>3. /\ DOMAIN d = Fields /\ d.op = r.op /\ d.from = sequence /\ d.wrote = Nothing /\ d.overlap = FALSE
        /\ d.pc = "failed"
    BY <1>2, <2>1
  <2>4. DOMAIN c = Fields /\ c.op = r.op /\ c.from = sequence /\ c.wrote = Nothing /\ c.overlap = FALSE /\ c.pc = "failed"
    BY <2>2, <2>3 DEF Fields
  <2>5. r.op \in Outside
    BY <1>5 DEF Throwing, Outside
  <2> QED
    BY <2>4, <2>5
<1>6. CASE r.op \in {"cacheGet", "cacheDelete"}
  <2>1. PICK d : d = Call(r, "done")
    OBVIOUS
  <2>2. PICK v : v = IF r.op = "cacheGet" THEN Nothing ELSE FALSE
    OBVIOUS
  <2>3. c = [d EXCEPT !.result = v]
    BY <1>6, <2>1, <2>2 DEF Begun, NeedsDb, Throwing
  <2>4. /\ DOMAIN d = Fields /\ d.op = r.op /\ d.from = sequence /\ d.wrote = Nothing /\ d.overlap = FALSE
        /\ d.pc = "done"
    BY <1>2, <2>1
  <2>5. DOMAIN c = Fields /\ c.op = r.op /\ c.from = sequence /\ c.wrote = Nothing /\ c.overlap = FALSE /\ c.pc = "done"
    BY <2>3, <2>4 DEF Fields
  <2> QED
    BY <1>6, <2>5 DEF Outside
<1>7. NeedsDb(r) \/ (r.op = "save" /\ ~Throwing(r)) \/ Throwing(r) \/ r.op \in {"cacheGet", "cacheDelete"}
  BY <1>1 DEF NeedsDb, Throwing, Outside
<1> QED
  BY <1>3, <1>4, <1>5, <1>6, <1>7

\* A round of calls begins: each starts at its first stage.
LEMMA RoundStep ==
  ASSUME StorageInv, NEW used \in SUBSET Slot, NEW asked \in [used -> Requests], StartRound(asked)
  PROVE  StorageInv'
<1> DEFINE needing == {s \in DOMAIN asked : NeedsDb(asked[s])}
<1>1. /\ dek # Nothing /\ rounds < MaxRounds /\ rounds' = rounds + 1
      /\ UNCHANGED <<dek, blob, medium, disk, rows, sequence, ready, acked, restarted>>
      /\ raced' = (raced \/ (~ready /\ blob # Nothing /\ Cardinality(needing) > 1))
  BY DEF StartRound
<1>2. calls' = [s \in Slot |-> IF s \in DOMAIN asked THEN Begun(asked[s]) ELSE Idle]
  BY DEF StartRound
<1>3. IsFiniteSet(needing)
  BY StorageAssumption, FS_Subset
<1>4. sequence \in Nat /\ IsSnapshot(Snapshot)
  BY DEF StorageInv, ReadyInv, IsSnapshot, Snapshot
\* A call that has begun, or has not.
<1>5. ASSUME NEW t \in Slot
      PROVE  \/ calls'[t].pc = "idle"
             \/ /\ DOMAIN calls'[t] = Fields /\ calls'[t].from = sequence
                /\ calls'[t].wrote = Nothing /\ calls'[t].overlap = FALSE
                /\ \/ t \in needing /\ calls'[t].pc = IF ready THEN "acting" ELSE "preparing"
                   \/ calls'[t].op = "save" /\ calls'[t].pc = "sealing"
                   \/ calls'[t].op \in Outside /\ calls'[t].pc \in {"failed", "done"}
  <2>1. CASE t \in DOMAIN asked
    <3>1. PICK r : r = asked[t] /\ r \in Requests
      BY <2>1
    <3>2. PICK c : c = Begun(r) /\ calls'[t] = c
      BY <1>2, <2>1, <3>1
    <3>3. /\ DOMAIN c = Fields /\ c.op = r.op /\ c.from = sequence /\ c.wrote = Nothing /\ c.overlap = FALSE
          /\ \/ NeedsDb(r) /\ c.pc = IF ready THEN "acting" ELSE "preparing"
             \/ c.op = "save" /\ c.pc = "sealing"
             \/ c.op \in Outside /\ c.pc \in {"failed", "done"}
      BY <3>1, <3>2, Begins
    <3> QED
      BY <2>1, <3>1, <3>2, <3>3
  <2>2. CASE t \notin DOMAIN asked
    BY <1>2, <2>2 DEF Idle
  <2> QED
    BY <2>1, <2>2
<1> HIDE DEF needing
<1>6. MediumInv'
  BY <1>1 DEF StorageInv, MediumInv, IsBundle
<1>7. ASSUME NEW t \in Slot
      PROVE  /\ CallTyped(calls[t])' /\ Recovered(calls[t])'
             /\ Paced(calls[t])' /\ Undisturbed(calls[t])' /\ Current(calls[t])'
             /\ ~ready => Waiting(calls[t])'
             /\ Pending(t)' => ~ready /\ blob # Nothing /\ t \in needing
  <2>1. PICK c : c = calls'[t]
    OBVIOUS
  <2>2. \/ c.pc = "idle"
        \/ /\ DOMAIN c = Fields /\ c.from = sequence /\ c.wrote = Nothing /\ c.overlap = FALSE
           /\ \/ t \in needing /\ c.pc = IF ready THEN "acting" ELSE "preparing"
              \/ c.op = "save" /\ c.pc = "sealing"
              \/ c.op \in Outside /\ c.pc \in {"failed", "done"}
    BY <1>5, <2>1
  <2>3. CallTyped(c)' /\ Recovered(c)'
    BY <1>1, <1>4, <2>2 DEF CallTyped, Recovered, Outside
  <2>4. Paced(c)' /\ Undisturbed(c)' /\ Current(c)'
    BY <1>1, <1>4, <2>2 DEF Paced, Undisturbed, Current, Outside
  <2>5. (~ready => Waiting(c)) /\ (c.pc = "preparing" => ~ready /\ t \in needing) /\ c.pc # "importing"
    BY <2>2 DEF Waiting, Outside
  <2>6. CallTyped(calls[t])' /\ Recovered(calls[t])'
    BY <2>1, <2>3 DEF CallTyped, Recovered, IsBundle
  <2>7. Paced(calls[t])' /\ Undisturbed(calls[t])' /\ Current(calls[t])'
    BY <2>1, <2>4 DEF Paced, Undisturbed, Current, Snapshot
  <2> QED
    BY <1>1, <2>1, <2>5, <2>6, <2>7 DEF Waiting, Outside, Pending
<1>8. CallsInv'
  <2>1. calls' = [t \in Slot |-> calls'[t]]
    BY <1>2
  <2> QED
    BY <1>7, <2>1 DEF CallsInv
<1>9. ReadyInv'
  <2>1. IsSnapshot(Snapshot)'
    BY <1>1, <1>4 DEF IsSnapshot, Snapshot
  <2>2. rounds' \in 0 .. MaxRounds /\ raced' \in BOOLEAN
    BY <1>1, StorageAssumption DEF StorageInv, ReadyInv
  <2>3. ~ready' => acked' = Empty /\ sequence' = 0 /\ \A t \in Slot : Waiting(calls[t])'
    BY <1>1, <1>7 DEF StorageInv, ReadyInv
  <2>4. ASSUME ~raced', NEW t \in Slot, Pending(t)'
        PROVE  ~ready' /\ \A u \in Slot : Pending(u)' => t = u
    <3>1. ~ready /\ blob # Nothing /\ t \in needing
      BY <1>7, <2>4
    <3>2. ~(Cardinality(needing) > 1)
      BY <1>1, <2>4, <3>1
    <3>3. ASSUME NEW u \in Slot, Pending(u)' PROVE t = u
      <4>1. u \in needing
        BY <1>7, <3>3
      <4> QED
        BY <1>3, <3>1, <3>2, <4>1, OneAtMost
    <3> QED
      BY <1>1, <3>1, <3>3
  <2> QED
    BY <1>1, <2>1, <2>2, <2>3, <2>4 DEF StorageInv, ReadyInv
<1>10. AckedKept'
  BY <1>1 DEF StorageInv, AckedKept
<1>11. CommitInv'
  BY <1>7 DEF CommitInv
<1> QED
  BY <1>6, <1>8, <1>9, <1>10, <1>11 DEF StorageInv

\* A process that has just started has done nothing yet.
LEMMA Anew ==
  ASSUME StorageInv, NEW key, NEW given, Fresh(key, given), MediumInv', restarted' \in BOOLEAN, rounds' = rounds
  PROVE  StorageInv'
<1>1. /\ rows' = Empty /\ sequence' = 0 /\ ready' = FALSE /\ acked' = Empty /\ raced' = FALSE
      /\ calls' = [s \in Slot |-> Idle]
  BY DEF Fresh
<1>2. \A s \in Slot : calls'[s].pc = "idle"
  BY <1>1 DEF Idle
<1>3. CallsInv'
  BY <1>1, <1>2 DEF CallsInv, CallTyped, Recovered
<1>4. IsSnapshot(Snapshot)'
  BY <1>1 DEF IsSnapshot, Snapshot, Empty
<1>5. ReadyInv'
  BY <1>1, <1>2, <1>4 DEF StorageInv, ReadyInv, Waiting, Outside, Pending
<1>6. AckedKept'
  BY <1>1 DEF AckedKept, Empty
<1>7. CommitInv'
  BY <1>2 DEF CommitInv, Paced, Undisturbed, Current
<1> QED
  BY <1>3, <1>5, <1>6, <1>7 DEF StorageInv

\* A restart forgets the memory and takes the medium as the bundle to import.
LEMMA RestartStep ==
  ASSUME StorageInv, Restart
  PROVE  StorageInv'
<1>1. Fresh(dek, disk) /\ restarted' = TRUE /\ UNCHANGED <<medium, disk, rounds>>
  BY DEF Restart
<1>2. dek' = dek /\ blob' = disk
  BY <1>1 DEF Fresh
<1>3. MediumInv'
  BY <1>1, <1>2 DEF StorageInv, MediumInv, IsBundle
<1>4. PICK key, given : key = dek /\ given = disk
  OBVIOUS
<1>5. Fresh(key, given)
  BY <1>1, <1>4
<1> QED
  BY <1>1, <1>3, <1>5, Anew

\* Every step of a call keeps the storage's invariant.
LEMMA CallStep ==
  ASSUME StorageInv, NEW s \in Slot, Step(s)
  PROVE  StorageInv'
BY PrepareStep, ImportStep, InsertStep, GetStep, UpdateStep, DeleteStep, CommitStep, EncryptedStep, TruncateStep,
   WriteEndsStep, WriteFailsStep, SealedStep DEF Step

---------------------------------------------------------------------------
(* The run *)

\* A run that has not loaded holds nothing.
LEMMA InitIInv == Init => IInv
<1> SUFFICES ASSUME Init PROVE IInv
  OBVIOUS
<1>1. /\ stage = "asked" /\ request \in Asked /\ dek = Nothing /\ blob = Nothing
      /\ medium \in Media /\ disk = Nothing /\ rows = Empty /\ sequence = 0 /\ ready = FALSE
      /\ acked = Empty /\ raced = FALSE /\ restarted = FALSE /\ calls = [s \in Slot |-> Idle] /\ rounds = 0
  BY DEF Init, StorageInit, Asked
<1>2. \A s \in Slot : calls[s].pc = "idle"
  BY <1>1 DEF Idle
<1>3. RunInv /\ MediumInv
  BY <1>1 DEF RunInv, MediumInv
<1>4. CallsInv
  BY <1>1, <1>2 DEF CallsInv, CallTyped, Recovered
<1>5. IsSnapshot(Snapshot)
  BY <1>1 DEF IsSnapshot, Snapshot, Empty
<1>6. ReadyInv
  <2>1. \A s \in Slot : Waiting(calls[s]) /\ ~Pending(s)
    BY <1>2 DEF Waiting, Outside, Pending
  <2>2. 0 \in 0 .. MaxRounds
    BY StorageAssumption
  <2> QED
    BY <1>1, <1>5, <2>1, <2>2 DEF ReadyInv
<1>7. AckedKept /\ CommitInv
  BY <1>1, <1>2 DEF AckedKept, Empty, CommitInv, Paced, Undisturbed, Current
<1>8. OwnGrantsOpen /\ LoadsWhatWasSealed
  BY <1>1 DEF OwnGrantsOpen, OwnerTurnedAway, LoadsWhatWasSealed
<1> QED
  BY <1>3, <1>4, <1>6, <1>7, <1>8 DEF IInv

\* A step that leaves the storage alone keeps what is known of it.
LEMMA StorageStays ==
  ASSUME StorageInv, UNCHANGED storageVars
  PROVE  StorageInv'
<1>1. UNCHANGED <<dek, blob, medium, disk, rows, sequence, ready, acked, raced, calls, rounds, restarted>>
  BY DEF storageVars, memory
<1>2. MediumInv'
  BY <1>1 DEF StorageInv, MediumInv, IsBundle
<1>3. CallsInv'
  BY <1>1 DEF StorageInv, CallsInv, CallTyped, Recovered, IsBundle
<1>4. ReadyInv'
  BY <1>1 DEF StorageInv, ReadyInv, IsSnapshot, Snapshot, Waiting, Outside, Pending
<1>5. AckedKept'
  BY <1>1 DEF StorageInv, AckedKept
<1>6. CommitInv'
  BY <1>1 DEF StorageInv, CommitInv, Paced, Undisturbed, Current, Snapshot, Lone, Alone
<1> QED
  BY <1>2, <1>3, <1>4, <1>5, <1>6 DEF StorageInv

\* What loading promises stays once the run is past it.
LEMMA PastLoading ==
  ASSUME RunInv, OwnGrantsOpen, LoadsWhatWasSealed, stage \notin {"asked", "loaded"},
         stage' = stage, UNCHANGED <<request, loaded>>
  PROVE  RunInv' /\ OwnGrantsOpen' /\ LoadsWhatWasSealed'
BY DEF RunInv, OwnGrantsOpen, OwnerTurnedAway, LoadsWhatWasSealed, Sound, Matches

\* Every step of the run keeps the invariant.
LEMMA NextIInv == IInv /\ [Next]_vars => IInv'
<1> SUFFICES ASSUME IInv, [Next]_vars PROVE IInv'
  OBVIOUS
<1>1. RunInv /\ OwnGrantsOpen /\ LoadsWhatWasSealed /\ StorageInv
  BY DEF IInv, StorageInv
<1>2. SUFFICES RunInv' /\ OwnGrantsOpen' /\ LoadsWhatWasSealed' /\ StorageInv'
  BY DEF IInv, StorageInv
<1>3. CASE Load
  BY <1>1, <1>3, LoadStep, StorageStays DEF Load
<1>4. CASE RunInterpreter
  <2>1. stage' = "returned" /\ UNCHANGED storageVars
    BY <1>4 DEF RunInterpreter
  <2> QED
    BY <1>1, <2>1, StorageStays DEF RunInv, OwnGrantsOpen, OwnerTurnedAway, LoadsWhatWasSealed
<1>5. CASE GoLive
  <2>1. /\ stage = "loaded" /\ stage' = "live" /\ request' = Nothing /\ UNCHANGED <<medium, disk, rounds, restarted>>
        /\ Fresh(loaded.dek, loaded.db)
    BY <1>5 DEF GoLive
  <2>2. disk = Nothing /\ ~restarted /\ loaded.db \in {Nothing} \union Body(Bundles) /\ restarted \in BOOLEAN
    BY <1>1, <2>1 DEF RunInv, StorageInv, ReadyInv
  <2>3. MediumInv'
    BY <1>1, <2>1, <2>2 DEF MediumInv, StorageInv, Fresh
  <2>4. PICK key, given : key = loaded.dek /\ given = loaded.db
    OBVIOUS
  <2>5. Fresh(key, given)
    BY <2>1, <2>4
  <2>6. restarted' \in BOOLEAN /\ rounds' = rounds
    BY <2>1, <2>2
  <2>7. StorageInv'
    BY <1>1, <2>3, <2>5, <2>6, Anew
  <2> QED
    BY <2>1, <2>7 DEF RunInv, OwnGrantsOpen, OwnerTurnedAway, LoadsWhatWasSealed
<1>6. CASE LiveFails
  <2>1. stage = "live" /\ stage' \in {"failed", "threw"} /\ request' = request /\ UNCHANGED storageVars
    BY <1>6 DEF LiveFails, Outcome
  <2>2. request' = Nothing
    BY <1>1, <2>1 DEF RunInv
  <2> QED
    BY <1>1, <2>1, <2>2, StorageStays DEF RunInv, OwnGrantsOpen, OwnerTurnedAway, LoadsWhatWasSealed
<1>7. CASE LiveReturns
  <2>1. stage = "live" /\ stage' \in {"returned", "threw"} /\ request' = request /\ UNCHANGED storageVars
    BY <1>7 DEF LiveReturns
  <2>2. request' = Nothing
    BY <1>1, <2>1 DEF RunInv
  <2> QED
    BY <1>1, <2>1, <2>2, StorageStays DEF RunInv, OwnGrantsOpen, OwnerTurnedAway, LoadsWhatWasSealed
<1>8. CASE Live
  <2>1. stage = "live" /\ UNCHANGED <<request, loaded, stage>> /\ (Round \/ Restart)
    BY <1>8 DEF Live
  <2>2. RunInv' /\ OwnGrantsOpen' /\ LoadsWhatWasSealed'
    BY <1>1, <2>1, PastLoading
  <2>3. CASE Round
    <3>1. PICK used \in SUBSET Slot \ {{}} : \E asked \in [used -> Requests] : StartRound(asked)
      BY <2>3 DEF Round
    <3>2. PICK asked \in [used -> Requests] : StartRound(asked)
      BY <3>1
    <3> QED
      BY <1>1, <2>2, <3>2, RoundStep
  <2>4. CASE Restart
    BY <1>1, <2>2, <2>4, RestartStep
  <2> QED
    BY <2>1, <2>3, <2>4
<1>9. CASE \E s \in Slot : CallGoesOn(s)
  <2>1. PICK s \in Slot : stage \in {"live", "failed", "threw"} /\ Step(s) /\ UNCHANGED <<request, loaded, stage>>
    BY <1>9 DEF CallGoesOn
  <2> QED
    BY <1>1, <2>1, PastLoading, CallStep
<1>10. CASE UNCHANGED vars
  <2>1. UNCHANGED <<request, loaded, stage, storageVars>>
    BY <1>10 DEF vars
  <2>2. UNCHANGED <<dek, disk, restarted, calls>>
    BY <2>1 DEF storageVars
  <2>3. RunInv'
    BY <1>1, <2>1, <2>2 DEF RunInv
  <2> QED
    BY <1>1, <2>1, <2>3, StorageStays DEF OwnGrantsOpen, OwnerTurnedAway, LoadsWhatWasSealed, Sound, Matches
<1> QED
  BY <1>3, <1>4, <1>5, <1>6, <1>7, <1>8, <1>9, <1>10 DEF Next

\* The invariant holds throughout.
LEMMA AlwaysIInv == Spec => []IInv
BY InitIInv, NextIInv, PTL DEF Spec

---------------------------------------------------------------------------
(* Theorems *)

\* A run is at one of its stages, and its storage holds a snapshot and calls
\* that are at one of theirs (runSealedProgram, EncryptedStorage).
THEOREM TypeCorrect == Spec => []TypeOK
<1>1. IInv => TypeOK
  <2>1. \A s \in Slot : CallTyped(calls[s]) =>
          calls[s].pc \in {"idle", "preparing", "importing", "acting", "encrypting", "writing",
                           "flushing", "sealing", "done", "failed"}
    BY DEF CallTyped
  <2> QED
    BY <2>1 DEF IInv, RunInv, MediumInv, CallsInv, ReadyInv, TypeOK, StorageTypeOK
<1> QED
  BY <1>1, AlwaysIInv, PTL

\* Whatever the interleaving of any number of calls, and however often the
\* process ends, what a caller was told is stored stays stored until a caller
\* changes it, unless first calls raced to import the blob (ensureReady).
THEOREM StoredStays == Spec => []AckedKept
BY AlwaysIInv, PTL DEF IInv

\* A commit that was alone among commits and whose write did not fail leaves a
\* bundle at rest that opens, and returns a blob that opens, each no older than
\* it should be (commit, exportEncrypted, importEncrypted).
THEOREM CommitsOpen == Spec => []CommitKeeps
<1>1. IInv => CommitKeeps
  <2> SUFFICES ASSUME IInv, NEW s \in Slot,
                      calls[s].op = "commit", calls[s].pc = "done", calls[s].wrote # Nothing, Lone(s)
               PROVE  LET atRest   == importEncrypted(dek, Nothing, disk)
                          returned == importEncrypted(dek, Nothing, calls[s].result)
                      IN  /\ disk = calls[s].wrote /\ ~Fails(atRest) /\ ~Fails(returned)
                          /\ ~raced => calls[s].from <= atRest.sequence /\ atRest.sequence <= returned.sequence
                          /\ (\A t \in Slot \ {s} : calls[t].pc = "idle") => atRest = Snapshot
    BY DEF CommitKeeps
  <2>1. PICK c : c = calls[s]
    OBVIOUS
  <2>2. /\ CallTyped(c) /\ dek # Nothing /\ (~raced => Paced(c)) /\ Undisturbed(c) /\ (Alone(s) => Current(c))
    BY <2>1, UnderWay DEF IInv, StorageInv
  <2>3. IsBundle(c.wrote) /\ IsBundle(c.result)
    BY <2>1, <2>2 DEF CallTyped
  <2>4. disk = c.wrote
    BY <2>1, <2>2 DEF Undisturbed
  <2>5. /\ importEncrypted(dek, Nothing, disk) = c.wrote.ct.content /\ ~Fails(importEncrypted(dek, Nothing, disk))
        /\ importEncrypted(dek, Nothing, c.result) = c.result.ct.content
        /\ ~Fails(importEncrypted(dek, Nothing, c.result))
    BY <2>2, <2>3, <2>4, BundleOpens
  <2>6. ~raced => /\ c.from <= c.wrote.ct.content.sequence
                  /\ c.wrote.ct.content.sequence <= c.result.ct.content.sequence
    BY <2>1, <2>2 DEF Paced
  <2>7. Alone(s) => c.wrote.ct.content = Snapshot
    BY <2>1, <2>2 DEF Current
  <2> QED
    BY <2>1, <2>4, <2>5, <2>6, <2>7 DEF Alone
<1> QED
  BY <1>1, AlwaysIInv, PTL

\* A process that starts from what a transactional store has at rest imports it,
\* wherever the one before it ended (commit, Restart).
THEOREM RestartsImport == Spec => []RestartImports
<1>1. IInv => RestartImports
  BY DEF IInv, CallsInv, Recovered, RestartImports
<1> QED
  BY <1>1, AlwaysIInv, PTL

\* For every grant of a wallet, of PBKDF2 with any parameters, or of Argon2id with
\* any parameters but a length of the key other than 32, a provider with its secret
\* and kind of key, on a host with the same Argon2id, loads what was sealed under
\* its DEK, and one of Argon2id with another length opens for nobody
\* (createPassphraseGrant beside deriveKEK, createWalletGrant beside
\* unwrapDek, sealArtifacts beside loadSecure).
THEOREM GrantsOpen == Spec => []OwnGrantsOpen
BY AlwaysIInv, PTL DEF IInv

\* Whatever the grant and the artifacts, the DEK a run loads with is the
\* grant's, and its program is given in the clear or is what the box of its
\* envelope holds, a box made under that DEK for "program" (unwrapDek,
\* decryptEnvelope).
THEOREM LoadsSealedProgram == Spec => []LoadsWhatWasSealed
BY AlwaysIInv, PTL DEF IInv

=============================================================================
