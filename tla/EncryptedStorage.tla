-------------------------- MODULE EncryptedStorage --------------------------
(***************************************************************************)
(* The encrypted storage behind the db handlers of a secure run: calls of    *)
(* one round interleave at every await, from the lazy import of the initial   *)
(* blob to the write of a commit to a file or a transactional store, and the  *)
(* process may end at any of them and start again from what was at rest.      *)
(*                                                                          *)
(* The database is rows and the counter; Database says how it keeps them.    *)
(***************************************************************************)
EXTENDS SealedArtifacts, Sequences, Functions

CONSTANTS
  Slot,         \* the calls there may be at once
  Requests,     \* what a program asks: [op, id, content]
  Unprintable,  \* contents JSON cannot hold: a BigInt
  Media,        \* the persistence backends: "file", "transactional"
  MaxRounds     \* bound: the rounds of calls

VARIABLES
  dek,       \* the project's DEK, Nothing while the storage is not in use
  blob,      \* initialDbBlob
  medium,    \* the persistence backend
  disk,      \* what is at rest there: a bundle, Garbage or Nothing
  rows,      \* the records of the database by id
  sequence,  \* its counter
  ready,     \* the blob has been imported
  calls,     \* the calls of the round
  rounds,    \* the rounds there were
  acked,     \* the contents this process told its callers it holds, by id
  raced,     \* two calls at once found the storage not ready
  restarted  \* the blob is what an earlier process left at rest

memory == <<rows, sequence, ready, acked, raced>>
storageVars == <<dek, blob, medium, disk, memory, calls, rounds, restarted>>

\* What does not look at the database.
Outside == {"save", "cacheSet", "cacheGet", "cacheDelete"}

ASSUME StorageAssumption ==
  /\ IsFiniteSet(Slot) /\ MaxRounds \in Nat
  /\ \A r \in Requests : r.op \in {"insert", "get", "update", "delete", "commit"} \union Outside

Empty == [i \in {} |-> Nothing]
Snapshot == [rows |-> rows, sequence |-> sequence]

\* What a database serialises: records under ids its counter has passed.
IsSnapshot(p) ==
  /\ p = [rows |-> p.rows, sequence |-> p.sequence]
  /\ p.sequence \in Nat
  /\ p.rows = [i \in DOMAIN p.rows |-> p.rows[i]] /\ DOMAIN p.rows \subseteq 0 .. p.sequence - 1

\* A call: what is asked, how far it is, what it holds between awaits, what it
\* wrote, the counter when it was made, and its result.
Call(request, pc) ==
  [op |-> request.op, id |-> request.id, content |-> request.content, pc |-> pc, held |-> Nothing,
   wrote |-> Nothing, overlap |-> FALSE, from |-> sequence, result |-> Nothing]

Idle == [op |-> Nothing, pc |-> "idle"]

Settled(c) == c.pc \in {"idle", "done", "failed"}
Update(s, c) == calls' = [calls EXCEPT ![s] = c]
Done(s, result) == Update(s, [calls[s] EXCEPT !.pc = "done", !.result = result, !.held = Nothing])
Fail(s, failure) == Update(s, [calls[s] EXCEPT !.pc = "failed", !.result = failure, !.held = Nothing])

---------------------------------------------------------------------------
(* Rounds: the driver calls the handlers of a round at once, and the next       *)
(* round when all have settled; each looks at ready before its first await.      *)

NeedsDb(request) == request.op \in {"insert", "get", "update", "delete", "commit"}

Throwing(request) ==
  \/ request.op = "cacheSet"
  \/ request.op = "save" /\ request.content \in Unprintable

\* output.save does not wait for the database. There is no cache: nothing is kept
\* in it, found in it or deleted from it.
Begun(request) ==
  CASE NeedsDb(request) -> Call(request, IF ready THEN "acting" ELSE "preparing")
    [] Throwing(request) -> [Call(request, "failed") EXCEPT !.result = OtherError]
    [] request.op = "save" /\ ~Throwing(request) ->
         [Call(request, "sealing") EXCEPT !.held = <<"output", request.content>>]
    [] request.op \in {"cacheGet", "cacheDelete"} ->
         [Call(request, "done") EXCEPT !.result = IF request.op = "cacheGet" THEN Nothing ELSE FALSE]

StartRound(asked) ==
  /\ dek # Nothing
  /\ \A s \in Slot : Settled(calls[s]) /\ calls[s].pc # "failed"
  /\ rounds < MaxRounds
  /\ calls' = [s \in Slot |-> IF s \in DOMAIN asked THEN Begun(asked[s]) ELSE Idle]
  /\ rounds' = rounds + 1
  /\ raced' = (raced \/ (~ready /\ blob # Nothing /\ Cardinality({s \in DOMAIN asked : NeedsDb(asked[s])}) > 1))
  /\ UNCHANGED <<dek, blob, medium, disk, rows, sequence, ready, acked, restarted>>

---------------------------------------------------------------------------
(* ensureReady: every call that found the storage not ready goes through it *)

\* Slip: it leaves the import to another call that is on its way too.
PrepareBehindOthers(s) ==
  /\ calls[s].pc = "preparing"
  /\ \A t \in Slot \ {s} : calls[t].pc # "preparing"
  /\ IF blob = Nothing THEN ready' = TRUE /\ Update(s, [calls[s] EXCEPT !.pc = "acting"])
     ELSE Update(s, [calls[s] EXCEPT !.pc = "importing"]) /\ UNCHANGED ready
  /\ UNCHANGED <<dek, blob, medium, disk, rows, sequence, acked, raced, rounds, restarted>>

Prepare(s) ==
  /\ calls[s].pc = "preparing"
  /\ IF blob = Nothing THEN ready' = TRUE /\ Update(s, [calls[s] EXCEPT !.pc = "acting"])
     ELSE Update(s, [calls[s] EXCEPT !.pc = "importing"]) /\ UNCHANGED ready
  /\ UNCHANGED <<dek, blob, medium, disk, rows, sequence, acked, raced, rounds, restarted>>

\* The decrypted blob takes the place of whatever the database holds.
Adopt(s, plaintext, nowReady) ==
  /\ rows' = plaintext.rows /\ sequence' = plaintext.sequence
  /\ ready' = nowReady
  /\ Update(s, [calls[s] EXCEPT !.pc = "acting"])
  /\ UNCHANGED <<dek, blob, medium, disk, acked, raced, rounds, restarted>>

\* Slip: the storage is not marked ready.
ImportEachTime(s) ==
  LET plaintext == importEncrypted(dek, Nothing, blob)
  IN  /\ calls[s].pc = "importing"
      /\ IF Fails(plaintext)
         THEN Fail(s, plaintext) /\ UNCHANGED <<dek, blob, medium, disk, memory, rounds, restarted>>
         ELSE Adopt(s, plaintext, FALSE)

Import(s) ==
  LET plaintext == importEncrypted(dek, Nothing, blob)
  IN  /\ calls[s].pc = "importing"
      /\ IF Fails(plaintext)
         THEN Fail(s, plaintext) /\ UNCHANGED <<dek, blob, medium, disk, memory, rounds, restarted>>
         ELSE Adopt(s, plaintext, TRUE)

---------------------------------------------------------------------------
(* The operations of the database are synchronous *)

Acting(s, op) == calls[s].pc = "acting" /\ calls[s].op = op

dbInsert(s) ==
  /\ Acting(s, "insert")
  /\ rows' = [i \in DOMAIN rows \union {sequence} |-> IF i = sequence THEN calls[s].content ELSE rows[i]]
  /\ acked' = [i \in DOMAIN acked \union {sequence} |-> IF i = sequence THEN calls[s].content ELSE acked[i]]
  /\ sequence' = sequence + 1
  /\ Done(s, sequence)
  /\ UNCHANGED <<dek, blob, medium, disk, ready, raced, rounds, restarted>>

dbGet(s) ==
  /\ Acting(s, "get")
  /\ Done(s, IF calls[s].id \in DOMAIN rows THEN rows[calls[s].id] ELSE Nothing)
  /\ UNCHANGED <<dek, blob, medium, disk, memory, rounds, restarted>>

dbUpdate(s) ==
  LET id == calls[s].id
  IN  /\ Acting(s, "update")
      /\ IF id \notin DOMAIN rows THEN UNCHANGED <<rows, acked, sequence>>
         ELSE /\ rows' = [rows EXCEPT ![id] = calls[s].content]
              /\ acked' = [i \in DOMAIN acked \union {id} |-> IF i = id THEN calls[s].content ELSE acked[i]]
              /\ sequence' = sequence + 1
      /\ Done(s, id \in DOMAIN rows)
      /\ UNCHANGED <<dek, blob, medium, disk, ready, raced, rounds, restarted>>

dbDelete(s) ==
  LET Without(f) == Restrict(f, DOMAIN f \ {calls[s].id})
  IN  /\ Acting(s, "delete")
      /\ rows' = Without(rows) /\ acked' = Without(acked)
      /\ Done(s, calls[s].id \in DOMAIN rows)
      /\ UNCHANGED <<dek, blob, medium, disk, sequence, ready, raced, rounds, restarted>>

---------------------------------------------------------------------------
(* commit: serialise, encrypt, write, and export once more for the caller *)

Printable == Range(rows) \intersect Unprintable = {}

\* What a call holds becomes the plaintext it serialised, for the step next.
Serialise(s, next) ==
  IF Printable THEN Update(s, [next EXCEPT !.held = Snapshot]) ELSE Fail(s, OtherError)

commit(s) ==
  /\ Acting(s, "commit")
  /\ Serialise(s, [calls[s] EXCEPT !.pc = "encrypting"])
  /\ UNCHANGED <<dek, blob, medium, disk, memory, rounds, restarted>>

\* Slip: the encrypted bundle is counted as written, and is not.
CommitUnwritten(s) ==
  /\ calls[s].pc = "encrypting"
  /\ Update(s, [calls[s] EXCEPT !.pc = "sealing", !.wrote = exportEncrypted(dek, Nothing, calls[s].held)])
  /\ UNCHANGED <<dek, blob, medium, disk, memory, rounds, restarted>>

Encrypted(s) ==
  /\ calls[s].pc = "encrypting"
  /\ Update(s, [calls[s] EXCEPT !.pc = "writing", !.held = exportEncrypted(dek, Nothing, @)])
  /\ UNCHANGED <<dek, blob, medium, disk, memory, rounds, restarted>>

\* writeFile empties the file first; two at once are on each other's bytes.
Truncate(s) ==
  LET others == {t \in Slot \ {s} : calls[t].pc = "flushing"}
  IN  /\ medium = "file" /\ calls[s].pc = "writing"
      /\ disk' = Garbage
      /\ calls' = [t \in Slot |-> IF t = s THEN [calls[t] EXCEPT !.pc = "flushing", !.overlap = others # {}]
                                  ELSE IF t \in others THEN [calls[t] EXCEPT !.overlap = TRUE] ELSE calls[t]]
      /\ UNCHANGED <<dek, blob, medium, memory, rounds, restarted>>

Writes(s) == calls[s].pc = IF medium = "file" THEN "flushing" ELSE "writing"

WriteEnds(s) ==
  /\ Writes(s)
  /\ \/ disk' = calls[s].held
     \/ calls[s].overlap /\ disk' = Garbage
  /\ Serialise(s, [calls[s] EXCEPT !.pc = "sealing", !.wrote = calls[s].held])
  /\ UNCHANGED <<dek, blob, medium, memory, rounds, restarted>>

\* The failure is logged, and the commit goes on.
WriteFails(s) ==
  /\ calls[s].pc \in {"writing", "flushing"}
  /\ Serialise(s, [calls[s] EXCEPT !.pc = "sealing"])
  /\ UNCHANGED <<dek, blob, medium, disk, memory, rounds, restarted>>

\* The ciphertext a commit or an output.save hands to the caller.
Sealed(s) ==
  /\ calls[s].pc = "sealing"
  /\ Done(s, IF calls[s].op = "save" THEN encryptEnvelope(dek, "output", calls[s].held)
             ELSE exportEncrypted(dek, Nothing, calls[s].held))
  /\ UNCHANGED <<dek, blob, medium, disk, memory, rounds, restarted>>

---------------------------------------------------------------------------

\* A process has just been given a DEK and a blob.
Fresh(newDek, newBlob) ==
  /\ dek' = newDek /\ blob' = newBlob
  /\ rows' = Empty /\ sequence' = 0 /\ ready' = FALSE
  /\ acked' = Empty /\ raced' = FALSE
  /\ calls' = [s \in Slot |-> Idle]

\* The process ends at any point; the host starts another from what is at rest.
Restart ==
  /\ dek # Nothing
  /\ Fresh(dek, disk)
  /\ restarted' = TRUE
  /\ UNCHANGED <<medium, disk, rounds>>

StorageInit ==
  /\ medium \in Media
  /\ disk = Nothing
  /\ rows = Empty /\ sequence = 0 /\ ready = FALSE
  /\ acked = Empty /\ raced = FALSE /\ restarted = FALSE
  /\ calls = [s \in Slot |-> Idle] /\ rounds = 0

\* Whatever a call that has not settled does next.
Step(s) ==
  \/ Prepare(s) \/ Import(s)
  \/ dbInsert(s) \/ dbGet(s) \/ dbUpdate(s) \/ dbDelete(s)
  \/ commit(s) \/ Encrypted(s) \/ Truncate(s) \/ WriteEnds(s) \/ WriteFails(s) \/ Sealed(s)

Round == \E used \in SUBSET Slot \ {{}} : \E asked \in [used -> Requests] : StartRound(asked)

---------------------------------------------------------------------------
(* Properties *)

StorageTypeOK ==
  /\ medium \in Media
  /\ IsSnapshot(Snapshot)
  /\ ready \in BOOLEAN /\ raced \in BOOLEAN /\ restarted \in BOOLEAN
  /\ \A s \in Slot : calls[s].pc \in {"idle", "preparing", "importing", "acting", "encrypting", "writing",
                                      "flushing", "sealing", "done", "failed"}
  /\ rounds \in 0 .. MaxRounds

\* What a caller was told is stored stays stored until a caller changes it, as
\* long as no two first calls race to import the blob: no later import wipes it,
\* and no insertion lands on it (ensureReady and the db handlers).
AckedKept ==
  ~raced => \A id \in DOMAIN acked : id \in DOMAIN rows /\ rows[id] = acked[id] /\ id < sequence

Lone(s) == \A t \in Slot \ {s} : calls[t].op # "commit"

\* When a commit that was alone among commits has returned and its write did
\* not fail, a bundle is at rest that opens, and so does the blob it returned; with
\* no other call beside it, the bundle is the database. Unless first calls raced,
\* whose imports turn the database back, the bundle is no older than the database
\* was when the commit was asked for, and the blob no older than that (commit).
CommitKeeps ==
  \A s \in Slot :
    calls[s].op = "commit" /\ calls[s].pc = "done" /\ calls[s].wrote # Nothing /\ Lone(s) =>
      LET atRest   == importEncrypted(dek, Nothing, disk)
          returned == importEncrypted(dek, Nothing, calls[s].result)
      IN  /\ disk = calls[s].wrote /\ ~Fails(atRest) /\ ~Fails(returned)
          /\ ~raced => calls[s].from <= atRest.sequence /\ atRest.sequence <= returned.sequence
          /\ (\A t \in Slot \ {s} : calls[t].pc = "idle") => atRest = Snapshot

\* A process that starts from what a transactional store has at rest can always
\* import it, wherever the one before it ended (commit, Restart).
RestartImports ==
  restarted /\ medium # "file" =>
    ~\E s \in Slot : calls[s].pc = "failed" /\ calls[s].op \in {"insert", "get", "update", "delete"}

\* Every call settles, or its process ends.
CallsSettle == \A s \in Slot : (calls[s].pc # "idle") ~> Settled(calls[s])

\* Two records never get one id: docs/DATABASE.md, "A unique Record ID".
IdsUnique ==
  \A s, t \in Slot :
    s # t /\ {calls[s].op, calls[t].op} = {"insert"} /\ {calls[s].pc, calls[t].pc} = {"done"}
      => calls[s].result # calls[t].result
=============================================================================
