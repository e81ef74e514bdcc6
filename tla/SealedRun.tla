----------------------------- MODULE SealedRun -----------------------------
(***************************************************************************)
(* A sealed program from its artifacts to its outcome: runSealedProgram      *)
(* opens what it was given, merges the inputs, decodes, and either runs the   *)
(* interpreter or goes live, on the encrypted storage of EncryptedStorage.    *)
(*                                                                          *)
(* A program is [code, values]; an artifact is Nothing or [as, body], a body  *)
(* given as a string or as an object.                                        *)
(***************************************************************************)
EXTENDS EncryptedStorage

CONSTANTS
  Grants,    \* the grants there may be, with how they came to be: [grant, dek, kdf, hasArgon2, secret]
  Providers, \* the key providers
  Programs, Inputs, Bundles,  \* the artifacts that may come with them
  Decodable  \* the codes the decoder takes

\* How a grant came to be: no other way wraps a key so that it opens again.
Made(g) ==
  \/ g.kdf = "wallet" /\ g.secret # Nothing /\ g.grant = createWalletGrant(g.secret, g.dek)
  \/ /\ g.kdf \in {"argon2id", "pbkdf2"}
     /\ g.grant = createPassphraseGrant(g.hasArgon2, g.secret, g.dek, g.kdf, g.grant.kdfParams)
     /\ g.grant.kdfParams.iterations \in Int \union {Nothing} /\ g.grant.ct.key # Nothing
  \/ g.kdf \notin {"wallet", "argon2id", "pbkdf2"} /\ g.grant.wrap \notin Wraps

\* A grant with a parameter below its floor is never made.
ASSUME GrantsAssumption == \A g \in Grants : Made(g) /\ ~Fails(g.grant) /\ ~Fails(g.dek)

Body(artifacts) == {a.body : a \in artifacts \ {Nothing}}

\* What may be in an artifact is no error; a sealed program is a program, and what
\* is offered as a database holds the snapshot of one, if it opens at all.
ASSUME ArtifactsAssumption ==
  /\ \A b \in Body(Programs) \union Body(Inputs) :
       /\ isFencEnvelope(b) => ~Fails(b.ct.content)
       /\ ~isFencEnvelope(b) /\ b # Garbage => ~Fails(b.content)
  /\ \A b \in Body(Programs) :
       isFencEnvelope(b) => b.ct.content = [code |-> b.ct.content.code, values |-> b.ct.content.values]
  /\ \A b \in Body(Bundles) :
       /\ b.kind \in {"garbage", "fenc", "v2", "document", "unsupported"}
       /\ isFencEnvelope(b) /\ b.ct.aad = "db" => IsSnapshot(b.ct.content)
       /\ b.kind = "document" => IsSnapshot(b.content)

VARIABLES
  request,  \* what runSealedProgram was given, until it goes live
  loaded,   \* what loadSecure returned
  stage     \* "asked", "loaded", "live", or the outcome

vars == <<request, loaded, stage, storageVars>>

---------------------------------------------------------------------------
(* loadSecure *)

NotLoaded == [kind |-> "nothing"]

Text(body) == body.content

\* Slip: it opens an envelope whatever its target.
LoadAnyEnvelope(artifact, key) ==
  IF artifact = Nothing THEN DecryptionFailed
  ELSE IF artifact.as = "string" /\ artifact.body = Garbage THEN OtherError
  ELSE IF isFencEnvelope(artifact.body) THEN decryptEnvelope(key, artifact.body)
  ELSE Text(artifact.body)

\* A string that is no JSON fails to parse, and not as a DecryptionFailed.
LoadProgram(artifact, key) ==
  IF artifact = Nothing THEN DecryptionFailed
  ELSE IF artifact.as = "string" /\ artifact.body = Garbage THEN OtherError
  ELSE IF IsFor(artifact.body, "program") THEN decryptEnvelope(key, artifact.body)
  ELSE IF isFencEnvelope(artifact.body) THEN DecryptionFailed
  ELSE Text(artifact.body)

\* Inputs given as a string are left out; an envelope for another target is
\* taken for the values themselves.
LoadInputs(artifact, key) ==
  IF artifact = Nothing \/ artifact.as = "string" THEN Nothing
  ELSE IF IsFor(artifact.body, "inputs") THEN decryptEnvelope(key, artifact.body)
  ELSE IF isFencEnvelope(artifact.body) THEN artifact.body
  ELSE Text(artifact.body)

\* The bundle is only looked at by the first handler that needs it.
LoadBundle(artifact) == IF artifact = Nothing THEN Nothing ELSE artifact.body

loadSecure(r) ==
  LET key == IF r.given = Nothing THEN DecryptionFailed ELSE unwrapDek(r.hasArgon2, r.given.grant, r.provider)
      program == LoadProgram(r.program, key)
      inputs == LoadInputs(r.inputs, key)
  IN  IF Fails(key) THEN DecryptionFailed
      ELSE IF Fails(program) THEN program
      ELSE IF inputs # Nothing /\ Fails(inputs) THEN inputs
      ELSE [kind |-> "loaded", program |-> program, inputs |-> inputs, db |-> LoadBundle(r.db), dek |-> key]

---------------------------------------------------------------------------
(* runSealedProgram *)

mergeProgramWithInputs(program, inputs) ==
  IF inputs = Nothing THEN program ELSE [program EXCEPT !.values = inputs]

\* Slip: the decoder's refusal goes unnoticed.
DecodedBlindly(code) == "loaded"

Decoded(code) == IF code \in Decodable THEN "loaded" ELSE "failed"

\* A DecryptionFailed is the outcome "failed"; any other error is thrown.
Outcome(failure) == IF failure = DecryptionFailed THEN "failed" ELSE "threw"

Load ==
  /\ stage = "asked"
  /\ LET result == loadSecure(request)
     IN  IF Fails(result) THEN stage' = Outcome(result) /\ UNCHANGED loaded
         ELSE LET merged == mergeProgramWithInputs(result.program, result.inputs)
              IN  /\ stage' = Decoded(merged.code)
                  /\ loaded' = [result EXCEPT !.program = merged]
  /\ UNCHANGED <<request, storageVars>>

\* The interpreter alone; the driver has no part in it.
RunInterpreter ==
  /\ stage = "loaded" /\ ~request.live /\ loaded.db = Nothing
  /\ stage' = "returned"
  /\ UNCHANGED <<request, loaded, storageVars>>

GoLive ==
  /\ stage = "loaded" /\ (request.live \/ loaded.db # Nothing)
  /\ stage' = "live"
  /\ request' = Nothing /\ loaded' = NotLoaded
  /\ Fresh(loaded.dek, loaded.db)
  /\ UNCHANGED <<medium, disk, rounds, restarted>>

\* A handler that fails ends the run, whatever the others are doing.
LiveFails ==
  /\ stage = "live"
  /\ \E s \in Slot : calls[s].pc = "failed" /\ stage' = Outcome(calls[s].result)
  /\ UNCHANGED <<request, loaded, storageVars>>

\* The program completes when its last round is delivered. What it returns and its
\* state are sealed for the caller: a BigInt in them, which JSON cannot hold, throws.
LiveReturns ==
  /\ stage = "live" /\ \A s \in Slot : calls[s].pc \in {"idle", "done"}
  /\ stage' \in {"returned", "threw"}
  /\ UNCHANGED <<request, loaded, storageVars>>

\* The calls of a run that failed go on.
CallGoesOn(s) == stage \in {"live", "failed", "threw"} /\ Step(s) /\ UNCHANGED <<request, loaded, stage>>

\* A host may start a process again from the disk.
Live == stage = "live" /\ (Round \/ Restart) /\ UNCHANGED <<request, loaded, stage>>

Init ==
  /\ request \in [given : Grants \union {Nothing}, provider : Providers, hasArgon2 : BOOLEAN,
                  program : Programs, inputs : Inputs, db : Bundles, live : BOOLEAN]
  /\ stage = "asked" /\ loaded = NotLoaded
  /\ dek = Nothing /\ blob = Nothing
  /\ StorageInit

Next == Load \/ RunInterpreter \/ GoLive \/ LiveFails \/ LiveReturns \/ Live \/ \E s \in Slot : CallGoesOn(s)

\* Each call comes back from its awaits.
Spec == Init /\ [][Next]_vars /\ \A s \in Slot : WF_vars(CallGoesOn(s))

---------------------------------------------------------------------------
(* Properties *)

TypeOK ==
  /\ StorageTypeOK
  /\ stage \in {"asked", "loaded", "live", "returned", "failed", "threw"}
  /\ stage = "loaded" => loaded.kind = "loaded" /\ loaded.program.code \in Decodable

\* The provider holds the secret of the grant, for the same kind of key.
Matches(r) ==
  r.given # Nothing /\
    IF r.provider.type = "wallet" THEN r.given.kdf = "wallet" /\ r.provider.privateKey = r.given.secret
    ELSE /\ r.given.kdf \in {"argon2id", "pbkdf2"} /\ r.provider.passphrase = r.given.secret
         /\ r.given.kdf = "argon2id" => r.hasArgon2 = r.given.hasArgon2
         /\ r.given.kdf # "argon2id" => r.provider.kdf # "argon2id"

\* Sealed under the DEK of the grant for its place, or in the clear.
Sound(r, artifact, target) ==
  IF isFencEnvelope(artifact.body) THEN artifact.body = encryptEnvelope(r.given.dek, target, artifact.body.ct.content)
  ELSE artifact.body # Garbage

\* An owner with the secret and the kind of key of a grant, on a host with the
\* same Argon2id, whose artifacts are sound, whom the loader turned away.
OwnerTurnedAway ==
  /\ stage \in {"failed", "threw"} /\ loaded.kind # "loaded"
  /\ request # Nothing /\ Matches(request)
  /\ request.program # Nothing /\ Sound(request, request.program, "program")
  /\ request.inputs # Nothing => Sound(request, request.inputs, "inputs")

\* The grant asks for a key of the length its provider derives.
UsualLength(g) == g.kdf = "argon2id" => g.grant.kdfParams.hashLength \in {Nothing, 32}

\* A grant for a key of the usual length opens for a provider with its secret and
\* kind of key, on a host with the same Argon2id, whatever its other parameters,
\* and what was sealed under its DEK then loads; only the decoder may refuse the
\* program. One for a key of another length may be made but opens for nobody: the
\* provider takes no notice of the length (createPassphraseGrant beside deriveKEK,
\* createWalletGrant beside unwrapDek, sealArtifacts beside loadSecure).
OwnGrantsOpen ==
  /\ OwnerTurnedAway => ~UsualLength(request.given)
  /\ stage = "loaded" => UsualLength(request.given)

\* Nothing is loaded with a DEK that is not the grant's, and the program that
\* is, is given in the clear or is what a box made for "program" under that DEK
\* holds; no inputs and no database is ever taken for it (unwrapDek,
\* decryptEnvelope).
LoadsWhatWasSealed ==
  stage = "loaded" =>
    /\ loaded.dek = request.given.dek
    /\ isFencEnvelope(request.program.body) =>
         /\ request.program.body.ct.key = request.given.dek /\ request.program.body.ct.aad = "program"
         /\ loaded.program.code = request.program.body.ct.content.code
=============================================================================
