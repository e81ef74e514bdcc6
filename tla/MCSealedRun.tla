---------------------------- MODULE MCSealedRun ----------------------------
(* A small instance of SealedRun: grants of each kind, for the right and the   *)
(* wrong secret and host, artifacts sealed, in the clear or mixed up, and      *)
(* rounds of up to two calls.                                                 *)
EXTENDS SealedRun

Ask(op, id, content) == [op |-> op, id |-> id, content |-> content]
Dek(n) == [dek |-> n]
Snap(rs, n) == [rows |-> rs, sequence |-> n]

Params(mem, iterations) ==
  [memorySize |-> mem, iterations |-> iterations, parallelism |-> Nothing, hashLength |-> Nothing]
Default == Params(Nothing, Nothing)
Long(n) == [Default EXCEPT !.hashLength = n]

Passphrase(kdf, hasArgon2, params) ==
  [grant |-> createPassphraseGrant(hasArgon2, "pass", Dek(1), kdf, params), dek |-> Dek(1), kdf |-> kdf,
   hasArgon2 |-> hasArgon2, secret |-> "pass"]
Wallet == [grant |-> createWalletGrant("wallet", Dek(1)), dek |-> Dek(1), kdf |-> "wallet", hasArgon2 |-> TRUE, secret |-> "wallet"]

MCGrants ==
  {Wallet, [Wallet EXCEPT !.grant.wrap = "unknown", !.kdf = "unknown"]} \union
  {g \in {Passphrase("argon2id", hasArgon2, params) : hasArgon2 \in BOOLEAN, params \in {Default, Params(Nothing, 4), Params(65535, 4), Long(16), Long(20)}}
           \union {Passphrase("pbkdf2", TRUE, params) : params \in {Default, Params(Nothing, 300000), Params(Nothing, 1000)}} :
     ~Fails(g.grant)}

MCProviders ==
  {PassphraseKeyProvider(p, kdf) : p \in {"pass", "other"}, kdf \in {"argon2id", "pbkdf2"}}
    \union {WalletKeyProvider(p) : p \in {"wallet", "other"}}

Given(as, body) == [as |-> as, body |-> body]
Code(c) == [code |-> c, values |-> "own"]

MCPrograms ==
  {Nothing, Given("string", Garbage), Given("object", Document(Code("good"))),
   Given("object", encryptEnvelope(Dek(1), "program", Code("good"))),
   Given("string", encryptEnvelope(Dek(1), "program", Code("bad"))),
   Given("object", encryptEnvelope(Dek(2), "program", Code("good"))),
   Given("object", encryptEnvelope(Dek(1), "output", Code("good")))}

MCInputs ==
  {Nothing, Given("object", encryptEnvelope(Dek(1), "inputs", [values |-> "sealed"])), Given("object", encryptEnvelope(Dek(2), "inputs", [values |-> "sealed"])),
   Given("string", Document([values |-> "clear"]))}

MCBundles ==
  {Nothing, Given("object", encryptEnvelope(Dek(1), "db", Snap([i \in {0} |-> "c"], 1))),
   Given("string", encryptEnvelope(Dek(2), "db", Snap(Empty, 0))), Given("object", [kind |-> "unsupported"])}

MCRequests ==
  {Ask("insert", 0, "c"), Ask("insert", 0, "big"), Ask("update", 0, "d"), Ask("get", 0, Nothing),
   Ask("delete", 0, Nothing), Ask("commit", 0, Nothing), Ask("save", 0, "c"), Ask("save", 0, "big"),
   Ask("cacheSet", 0, "c"), Ask("cacheGet", 0, Nothing), Ask("cacheDelete", 0, Nothing)}

\* A sealed database with one record, for the storage alone.
OneGrant == {Wallet}
OneProvider == {WalletKeyProvider("wallet")}
OneProgram == {Given("object", Document(Code("good")))}
OneBundle == {Given("object", encryptEnvelope(Dek(1), "db", Snap([i \in {0} |-> "c"], 1)))}
NoInputs == {Nothing}
Inserts == {Ask("insert", 0, "c")}
=============================================================================
