# FinVM in TLA+

A model of FinVM, a deterministic virtual machine written in PureScript with a JavaScript host:
TLA+ modules, the TLC runs that check them on small instances, and TLAPS proofs. Paths below are
relative to the repository (`src/FinVM/Eval.purs`, `host/driver.mjs`, ...).

## 1. The system

A FinVM program is a set of functions, each an array of instructions over registers. It runs as a
set of Erlang-like *processes* that share nothing but messages, under a FIFO scheduler and a step
budget. Effects leave the machine through an outbox: the machine is run until nothing can move,
snapshotted, and resumed with what the host delivers.

| Component | Where | State | Operations | Makes it correct |
|---|---|---|---|---|
| Scheduler and run loop | `Eval.purs`, `Process/Scheduler.purs` | process map, ready queue, logical tick, step counter | run a slice, requeue, wake joiners, announce deaths, jump to the next tick | no wake-up lost or doubled, FIFO order, a run returns |
| Process instructions | `Interpreter.purs` 586-774 | per process: status, mailbox, monitors, links | spawn, send, (selective) receive, join, cancel, exit, link, monitor, sleep | messages kept and ordered, limits respected, nobody asleep on what already happened |
| Remote nodes | `Interpreter.purs` 776-950, `Encoding/Json.purs` 451-611 | node states, remote links and monitors | NODE_*, REMOTE_PID_*, disconnect and status deliveries | a disconnection behaves as the death of every remote process |
| Other instructions | `Interpreter.purs`, `Vec.purs`, `Frame.purs` | registers, frames, global state | arithmetic, data, control flow, events, db and cache | label cache = label scan; copies never alias |
| State machines | `StateMachine/*`, `Interpreter.purs` 950-1014, 1370-1435 | an instance's state and data | MACHINE_*, choice of the transition, its action | the highest priority wins, ambiguity is an error |
| Suspend and resume | `Encoding/Json.purs` 206-578, `Encoding/Resume.purs` | snapshot, outbox, events | start, resume with deliveries, classify | resuming a snapshot = not having stopped; every awaited effect is answered once |
| Host driver | `host/driver.mjs` | output, journal, replay position | live run, replay | a replay of the journal takes the same steps |
| Encrypted storage | `host/encryptedStorage.mjs`, `FFI/db-persistence.js` | database, `ready`, persisted bundle | insert, commit, import, load | concurrent handlers lose no write |
| Database | `FFI/Database.js` | tables, indices, sequence | insert, update, delete, query, load | an indexed query = a scan; no insertion replaces a record |
| Numbers | `Numeric/*` | none | fixed-point and rational arithmetic, rounding | rounding as the mode says |
| Sealed programs | `FFI/Secure*.js`, `FFI/KeyProvider.js`, `FFI/Crypto/*` | none; the DEK of a run | make grants and envelopes, open them, run what they hold | what opens is what was sealed; a grant opens for whoever holds its secret |
| Validation, decoding, encoding, traces, command line | `Validate.purs`, `Encoding/*`, `Debug/*`, `Proof/*`, `Main.purs` | none, or append-only | pure conversions | outside the reach of a state model |

How they interact: the run loop calls the interpreter once per step with the running process
*outside* the scheduler's map and writes it back when the slice ends; instructions reach the other
processes through the map. The resume protocol reads and writes the same scheduler between two runs
of the loop. The host driver only sees its JSON outputs; storage handlers run inside the driver's
`Promise.all`.

What is hard to test here, with the place where it bites and the property that covers it, is the
list `hazards` of `PROJECT.json`. The main ones:

- the running process's copy in the map is stale during its slice, and three instructions can name
  their own process;
- a wake-up can come before or after the block it answers, and two wake-ups can meet;
- a process can be cancelled, that is ended from outside the loop which announces deaths;
- selective receives, DOWN notices and limits all act on the same mailbox;
- the step budget is tested between slices, the slices may be of any size, zero included;
- in the host: replies in any order, partial failure, a crash between two iterations, concurrent
  first uses of the storage.

## 2. The modules

| Module | Models | Abstract specification or composition |
|---|---|---|
| `ProcessScheduler` | scheduler, `runMachine`, local process instructions | |
| `EffectRun` | `runUntilQuiescent`, EFFECT_REQUEST and EFFECT_AWAIT, the outbox, snapshots and deliveries, remote links and monitors | |
| `HostDriver` | `runLive`, `runReplay` and the journal; values and delivery hints in `HostValues` | implements `EffectJournal` |
| `Database` | records, indices, queries, the plaintext bundle | implements `RecordStore` |
| `EncryptedStorage` | the db handlers of a secure run, `ensureReady`, commit, persistence, restart | uses the envelopes and bundles of `SealedArtifacts` |
| `SealedRun` | `runSealedProgram`, `loadSecure`, `runLiveSecure` | extends `EncryptedStorage` |
| `Ordered` | visits in the order of a key, filters that keep the order | used by the scheduler, the deliveries and the database |

An `MC` module gives `ProcessScheduler`, `EffectRun`, `HostDriver`, `Database` and `SealedRun` the values
of their instances. The three layers of a run meet
at their JSON: `EffectRun` is the machine `HostDriver` drives, which chooses its outputs freely
there; the handlers `HostDriver` calls are the calls of `EncryptedStorage`, for the db effects; and
`EncryptedStorage` keeps of the database the rows and the counter that `Database` keeps in detail.

Theorems are in modules of their own (section 10): `ProcessSchedulerProofs`, `ProcessWakeupProofs` and
`ProcessMessageProofs` about `ProcessScheduler`, `DatabaseProofs`, `HostDriverProofs`, `EffectRunProofs`
and `SealedRunProofs` about the module they name, and `SequenceLemmas` about sequences, filters, counts and
sums. Every invariant and action property the passing runs check is also a theorem, and so are the two
refinements; the four liveness properties are not.

## 3. ProcessScheduler

| TLA+ | Code |
|---|---|
| `procs`, `ready`, `tick` | `scheduler.processes`, `readyQueue`, `logicalTick` |
| `running`, `cur` | the pid and the record `runSliceForProcess` works on; `procs[running]` is the stale copy |
| `left` | `remaining`, the steps the slice still has |
| `steps` | `counters.steps`; `cur.steps` is `stepsExecuted` |
| `outcome` | what `runMachine` returns: `done` or the code of the `VMError` |
| `program` | the set of instructions of the program (its menu) |
| `unread` | ghost: what has been sent to another process and not received yet |
| `cond` of a process | the argument of `ProcessWaiting`, kept after a wake-up for the three conditions whose instruction is executed again |
| `Dispatch`, `EndSlice`, `NextTick`, `RootDone`, `AllDone`, `Deadlock`, `OutOfSteps` | the branches of `runSlice` in `runMachine`, with every call they make: `updateProcess`, `yieldProcess`, `wakeProcessWaiters`, `notifyMonitorsOfDeath`, `wakeNextTick` |
| one action per instruction (`Send`, `ReceiveMatch`, ...) | the cases of `evalInstruction`, with `stepProcess` around them (`Executes`, `Retire`, `StepLimit`) |

Abstractions:

- A program is not a fixed text: at each step the running process executes *any* instruction of its
  menu with any operand. Each run has a set of menus, so that the instructions that interact are
  explored together. The one thing the text must not forget is kept: a process that blocked in
  `PROC_RECEIVE`, `PROC_RECEIVE_MATCH` or `PROC_JOIN` executes that instruction again.
- Process identifiers are numbers in order of creation; `Rank` is their order as keys of the process
  map, which decides who is queued first when several are woken at once (`"p10"` comes before
  `"p2"`). A monitor reference is the pair of the step and the target that its text contains.
  The notices of one death to one observer are put in the order of the numbers; in the code it is
  the order of the texts, which is the same while the numbers have as many digits.
- Messages are their tags, with sender and step number to tell them apart. A DOWN notice is a
  message with the tag `"DOWN"`, which programs may also send.
- Instructions that only touch registers are `LOCAL`; any instruction may raise an error of its own,
  `FAULT`. A function that a MACHINE_TRANSITION action runs to its end inside one step is left out;
  the outbox, remote processes, node deliveries and `PROC_TRAP_EXIT` are `EffectRun`'s.
- Limits are natural numbers, zero included for all but the number of processes (a limit of zero
  processes behaves as one). `decodeLimits` would accept negative numbers, which behave as zero.

## 4. EffectRun

| TLA+ | Code |
|---|---|
| `procs`, `ready`, `running`, `held`, `slice`, `steps` | as in `ProcessScheduler` (`held` is the record of the running process) |
| `outbox` | `m.outbox`, oldest first; an entry is an await with its pid and key, or a transport, as `pendingEntry` tells them apart |
| `awaited` | history: the entry, and the message that answers it, come from an EFFECT_AWAIT |
| `stage` | `"running"` inside `runUntilQuiescent`; `"suspended"`, `"deadlock"`, `"completed"` are the output's status, `"failed"` an error |
| `owed` | history: the awaits of each process whose reply it has not received |
| `Dispatch`, `EndSlice`, `Quiesce` | the branches of `runSlice` in `runUntilQuiescent` |
| `runEffectResume` | decode the snapshot (`StepsRestored`, `OutboxRestored`), `foldl applyDelivery`, run on |
| `EffectReply`, `MailboxMessage`, `Disconnected` | the deliveries, with the wake-ups each makes |
| `Hints` | what a handler of a transport may have delivered: a reply, a message or a disconnection, up to `MaxHints` of them |
| `HostFails` | a handler rejects: the driver throws and the machine is gone |

The driver answers a round whole and in order (that is `HostDriver`), so one resume is one action: an
await gets its reply, and a transport brings up to `MaxHints` deliveries of any kind that
`normalizeDeliveryCandidate` makes, to any process, there or not. `Answered` is the set of machines that may
come of it. The steps are in the snapshot and the outbox is not; of each process everything is. A process
executes any instruction at each step. Of each other node, one process is linked to; of the monitors, only
their number is kept. Left out: local joins, links and monitors and sleepers (`ProcessScheduler` has them,
and `runUntilQuiescent` differs from `runMachine` only in how it ends), `NODE_SPAWN` and the node status
table.

Not every reply answers an await. A transport's handler may return `{ pid, key, result }`, which is
delivered as one; and `pendingEntry` tells an await by its payload, so that an `EFFECT_REQUEST` whose
payload is a record with a key and a payload is answered with a reply to whatever pid it names, although
its process goes on. The mark `awaited` keeps the two apart: `RepliesAccounted` says
that marked replies and awaits match one to one, whatever unmarked ones are delivered besides. An
unmarked reply does not wake a plain receive (run `effect_hint`), and a notice of a disconnection does not
wake a selective receive of `DOWN` or `EXIT`: `NobodyForgotten` says that these
are the only ways in which a process sleeps on what it waits for, and that the reply to an await is never
the message slept on.

A disconnection in the code does more than the documents promise: a process that had completed becomes
an exited one, and a process that exits is not queued, so the run loop never tells its local joiners.

## 5. HostDriver, EffectJournal, HostValues

| TLA+ | Code |
|---|---|
| `out`, `jrnl`, `pc` | the locals `out` and `jrnl` of `runLive`, and how it ended |
| `results` | what the promises of `Promise.all` have settled to; `Settle` and `Reject` happen in any order |
| `sent`, `answers` | the batches of deliveries so far; the machine is a function of them, chosen lazily, so that a replay meets the same program |
| `Resume` | the loop over `pending`: deliveries, journal entries, `resume`, the test of `MAX_ITERS` |
| `replay`, `ReplayStart`, `ReplayRound` | `runReplay` of the whole journal, of any prefix, of one without kinds, or by another program |
| `jsToValue`, `valueToJs`, `transportDeliveriesFromResult` | the conversions, on values tagged with their JavaScript type |
| `performed` | ghost: the effects that happened |

`EffectJournal` is the promise: rounds are asked, each is answered and logged whole and in the order
asked, and there is one outcome. `ImplementsEffectJournal` is that `HostDriver` implements it. A run
that fails keeps no journal (`runLive` throws). docs/EFFECTS.md proposes that a crashed program replay
its journal and go live again; `runReplay` throws when the journal ends before the program, so that
a replay of a prefix stops there (`ReplayMatches`), and what the host does next is not in the code.

## 6. Database, RecordStore

| TLA+ | Code |
|---|---|
| `tables`, `indices`, `sequence` | the Maps and the counter of `FinVMDatabase`; a Map is a sequence in insertion order |
| `saved` | the plaintext bundle last serialised, or one of the format without a sequence |
| `origin`, `savedOrigin` | history: the tables of the old bundle that the tables, and the bundle at rest, come from |
| `insert`, `update`, `delete`, `createIndex` | the methods, each with its index upkeep |
| `query` | the set of the answers there may be: the candidates of an index when the query allows, `_match`, then the sort |
| `_serializePlaintext`, `_loadPlaintext`, `constructor` | commit, load and a new process |

A comparator that is no order makes JavaScript's sort answer what the engine chooses; `Sorted` allows
every permutation then. A query may also throw: at an id its index holds and the table does not (`Throws`),
or when it sorts records of which one has null for its content (`SortThrows`). `RecordStore` is a store of
contents under ids with a copy kept aside; `ImplementsRecordStore` shows the database changes as it does,
and `AnswersExact` that it answers as it does, whatever the indices.

For a bundle of the old format, an array of tables, the code takes the counter for 0, whatever ids the
records have (`OldBundle`). The model lets such a bundle hold any ids and any times, those the counter
gives again included: an insertion may replace a record the bundle brought, which is the finding of run
`db_old`, and leaves the entries of that record in the indices, over which a later query may trip. The
properties say how far that goes. Only ids the bundle brought are met again (`ClockAhead`, and `Insert`
of `RecordStore`); the indices miss no record, and what is stale in them is under such ids
(`IndexExact`, `AnswersExact`); only times the bundle brought are shared (`TimesDistinct`). A bundle that is
saved after an old one was loaded inherits all this, which `savedOrigin` tells.

## 7. EncryptedStorage, SealedArtifacts, SealedRun

| TLA+ | Code |
|---|---|
| `calls[s]` | one promise of the driver's round: the handler at the `await` named by `pc` |
| `ready`, `blob` | `ready` and `initialDbBlob` in `createEncryptedDbStorage` |
| `rows`, `sequence` | the database |
| `disk`, `medium` | what the persistence backend holds: a transactional store replaces it at once, a file is emptied and then written |
| `Prepare`, `Import`, `Serialise`, `Encrypted`, `WriteEnds`, `WriteFails`, `Sealed` | what happens between two awaits of `ensureReady`, `commit`, `exportEncrypted` and `output.save` |
| `Restart` | the process ends anywhere and a new one starts from what is at rest |
| `acked`, `raced`, `restarted` | ghosts: what callers were told, and what has happened |
| `stage`, `request`, `loaded` | `runSealedProgram` from its arguments to its outcome |

Encryption is symbolic: a box opens with the key and the associated data it was made with. What decides
whether an artifact opens is modelled: targets, wraps, the parameters of grants with their floors and
defaults on the side that makes them and on the side that opens them, the length of the derived key and
the lengths AES takes, and the fallback where there is no Argon2id. The two sides do not take the same
parameters: `createPassphraseGrant` passes on `hashLength`, `deriveKEK` does not (`Rebuilt`), so that a
grant for an Argon2id key of 16 or 24 bytes is made and never opens again. `OwnGrantsOpen` says both: that
grants for keys of the usual length open for their owners, whatever their other parameters, and that a run
which loaded anything had such a grant. The parameters are numbers or absent; a salt is one value per grant,
and Argon2id's own bounds on its parameters, beyond the floors of the code, are left out.

`AckedKept`, and the part of `CommitKeeps` that says how old a bundle may be, are stated for runs in
which no two first calls race: the later import turns the counter back, so that a bundle written before
it can be newer than the database after. What else happens then is the finding of `storage_race`.

The calls of a round are the five of the database, `output.save` and the three of the cache, which has
nothing behind it here: a set throws, a get finds null, a deletion answers false. JSON holds no BigInt: a
commit or an `output.save` with one throws, and so does the end of a run whose result or state has one
(`LiveReturns`). A snapshot has its ids behind its counter: what an old bundle does to a database is
`Database`'s matter (section 6).

## 8. Runs

| Run | Instance | States | Shows |
|---|---|---|---|
| `sched` | 3 processes, mailbox 2, 6 steps, slices of 2, 6 menus | 231,822 | 12 invariants, 4 action properties, and that a run returns |
| `sched_match_down` | one menu | | a process blocked in a selective receive of `DOWN` is *not* woken by a DOWN notice |
| `sched_cancel` | one menu | | cancelling a waiting process tells none of its monitors |
| `sched_zero_slice` | slices of 0 steps | | the run never returns |
| `effect` | 2 processes, 2 keys, 1 other node, 4 steps, slices of 2, 2 effects a round, 2 hints a transport | 1,105,483 | every await gets its one reply, nobody sleeps on what it waits for but in the two ways of section 4, the run ends |
| `effect_hint` | as `effect` | | a reply nobody awaited leaves a plain receive asleep on it |
| `db` | 1 table, 2 fields, 3 contents, 6 queries, 3 writes, bundles of both formats | 83,216 | indices follow the records, the counter names no record twice, indexed answers = scans, `RecordStore` |
| `db_old` | as `db`, 2 writes | | after an old bundle an insertion takes the id of a record it brought |
| `driver` | 5 outputs, 4 results, 3 rounds, replays | 67,059 | the journal in the order asked, faithful replays, `EffectJournal`, the run settles |
| `driver_replay` | one round, lossy results | | a transport result that its journal entry does not keep |
| `secure` | 2 concurrent calls, 2 rounds, 11 requests, grants of every kind and providers | 297,377 | what was acknowledged stays, a commit leaves a bundle that opens, own grants of the usual length and no others open, only what was sealed loads, calls settle |
| `storage_race` | 2 insertions, 1 round | | two first calls import twice, and two records get one id |

The runs that are expected to fail each state what a document of the repository says, and the
counterexample is what the code does (`findings` in `PROJECT.json`).

Other differences between code and documents are in the models as the code has them, and no run is
about them:

- `PROC_YIELD` sets the status that is set already, and the process goes on with its slice
  (`Interpreter.purs:691`; docs/INSTRUCTION_SET.md:67 "Voluntarily give up execution slice"): action `Yield`.
- An index hides the records that hold null from a query for null, which a scan finds
  (`Database.js:196`, `307`; docs/DATABASE.md:24): `query`, and the exception in `AnswersExact`.
- A disconnection does not wake a selective receive of `DOWN` or `EXIT` (`Json.purs:549`; docs/EFFECTS.md:91
  "woken deterministically"): `Hears`, and the exception in `NobodyForgotten`.
- A request whose payload looks like an await's is answered as one (`Json.purs:378`; the comment at 364
  says that EFFECT_AWAIT makes these entries): `EFFECT_REQUEST`, and the mark `awaited`.
- A grant for an Argon2id key of 16 or 24 bytes does not open for its owner (`KeyProvider.js:43` beside
  83): `Rebuilt`, and the exception in `OwnGrantsOpen`.

**Bounds.**

- `sched`: three processes are the smallest number in which one observes the interaction of two
  others; a mailbox of two has a middle to select from and a limit to hit; slices of two let a
  process be interrupted or end in the middle of one, and six steps are enough for spawn, monitor,
  spawn, exit, receive, and more. Naps of one and two ticks give two sleepers the same or different
  deadlines. `MaxSteps` is the limit of the code itself here and in `effect`, so that no cut of the
  model's own hides a behaviour: the run ends as the program would.
- `effect`: four steps are an await, a receive, another await and another receive over two
  suspensions; or a spawn and two processes that await at once; or a link, a monitor and a wait cut by
  a disconnection; or a request, a transport and a plain receive that replies nobody awaited reach. Two
  hints are the least that can come in two orders, or a disconnection before a reply to the process it
  ended.
- `db`: three writes let a record be inserted, updated and deleted with another beside it that shares
  a value, before and after a load; the contents share a value, lack a field, hold null or are null. The
  old bundle holds one record, under the first id the counter gives and with the first two times: an
  insertion after its load replaces it, and two later steps make a query trip.
- `driver`: two requests in a round can finish in both orders; three rounds reach `MaxIters`.
- `secure`: two calls are enough for each pair of awaits to interleave; two rounds for a second that
  finds the storage ready, and a restart for an import of what the first left.

**Fairness.** `FairSpec` of `ProcessScheduler` is weak fairness of the whole next-state relation: the
loop is one synchronous function that takes its next step whenever there is one. No fairness between
processes is assumed; the queue has to provide it. `EffectRun` has the same for `Run`, and weak fairness
of the host answering or failing (`HostSettles`), which is what `RunSettles` shows of the driver.
`HostDriver` assumes that each handler settles, for the code waits for all of them without a timeout,
and that the driver goes on. `SealedRun` assumes that each call goes on from the await it is at: the
ciphers and the writes settle. None assumes that a process ends or restarts.

**Deadlock** is checked in `sched` (after `outcome` is set only `Returned` stutters) and in `db`, where
a new process can always start. The others stop: an outcome is final.

**Slips.** Some definitions (`RequeuedAlways`, `FullOffByOne`, `WakesPlainReceive`, ...) come just before
the one they imitate. No action uses them: put in the place of the next definition, they are the
mutations by which each property is shown to depend on the code.

## 9. Properties

They are stated and commented at the end of each module. The ones that carry most:

- `QueueExact`: a process is queued at most once, every ready process but the running one is queued,
  and what is queued is ready, or was cancelled after it was queued.
- `MailboxWakeups`, `JoinWakeups`, `SleepersAhead`: nobody sleeps on what has already happened.
- `MessagesConserved`, `OldestFirst`: nothing sent to another process is lost, doubled or reordered.
  What a process sends to *itself* is lost at the end of its slice: the send goes to the copy.
- `DeathAnnounced`, `DownDropsRef`: each monitor of a process that ends by its own doing is answered,
  once, in the step in which it ends.
- `StepBudget`: at most a slice more than `maxSteps` is executed. `Halts`: the run returns.
- `RepliesAccounted` (`EffectRun`): replies owed, in mailboxes and pending agree over any number of
  suspensions, whatever replies nobody awaited come besides. `NobodyForgotten`: nobody is left waiting for
  what it has, or ready and unqueued, but for the two exceptions of section 4.
- `JournalInOrder`, `ReplaySame`, `ReplayMatches` (`HostDriver`): the journal is what the run did, and a
  replay follows it or stops.
- `IndexExact`, `AnswersExact`, `ClockAhead` (`Database`): each also says what an old bundle may spoil.
- `AckedKept`, `CommitKeeps`, `RestartImports` (`EncryptedStorage`): each names what the code does not
  promise: racing first imports, overlapping commits, the file backend.
- `OwnGrantsOpen`, `LoadsWhatWasSealed` (`SealedRun`): whose grants open, and that the box of a program
  that loads was made under the grant's DEK for a program.

## 10. Proofs

`ProcessSchedulerProofs` proves, for every value of the constants (any number of processes and
menus, any limits, any key order that tells processes apart):

- `TypeCorrect`: `Spec => []TypeOK`. The map is a function on `0 .. n-1` with `n <= MaxProcesses`,
  and the queue is a sequence of its processes.
- `QueueIsExact`: `Spec => []QueueExact`.

`QueueExact` is not inductive. A send, a cancellation or a link looks its target up in the map, which
holds a stale copy of the running process; were that copy waiting, a send would queue the running
process. `QueueInv` adds that the copy is ready or cancelled. This is kept because a process is
dispatched from the queue, and only `PROC_CANCEL` changes the status of a copy. With it, each wake-up
(a send, the joiners, the listeners of a death, the sleepers) concerns processes that wait, hence are
not in the queue, and the sets woken by one slice end are disjoint. That the wake-ups come out as
sequences without repetition is lemma `InOrderLists`: ranking a finite set by an injective key is a
bijection onto `1 .. n`.

`ProcessWakeupProofs` rests on that invariant and proves:

- `NoLostMessageWakeup` (`MailboxWakeups`), `NoLostJoinWakeup` (`JoinWakeups`) and `NoSleeperPassed`
  (`SleepersAhead`). None is inductive alone, and one strengthening, `WakeInv`, serves the three: what
  the invariants say of the map must hold of the running record as well, because a process blocks in
  its own record and the end of the slice moves it into the map. For joins this needs care: the record
  may wait for its own process (the copy is not terminal, and the end of the slice wakes it), but for
  no other that ended. `IdleInv`, that there is no running record between slices, is what lets time
  jump. The case that carries the weight is `EndSlice`: whoever still waits after it had no notice that
  would wake it, and waits for another process than the one that ended.
- `EndedStaysEnded` (`EndedForGood`) and `SleepersWokenOnTime` (`WokenOnTime`), action properties. Both
  follow from `NextKeeps`: a step leaves the status of a process that does not run alone, or cancels
  it, or wakes it from a wait that is not a nap, or is the jump to its deadline.
- `BudgetHolds` (`StepBudget`), inductive with the type invariant: a slice trades the steps it has left
  for those it counts.
- `StepsAddUp` (`StepsAccounted`): the counter of the machine is a sum over all processes, the running one
  counted by its own record. `WorkInv` says there is a function that sums them one by one (`Sums`), and
  `SumsDiffer`, an induction over numbers, what becomes of it when one process takes a step or a new one
  is added. The rest is that no wake-up, notice or write into another's record touches a count.

`ProcessMessageProofs` follows what each process holds:

- `NoMessageLost`, `MessagesInOrder`, `MailboxLimitHolds` and `AnsweredMonitorIsDropped` share the invariant
  `MessageInv`. The four properties do not say that a monitor reference and a message cannot have the same
  number, nor that all numbers are behind the step counter; without both, an appended message or notice
  need not be new. `Held` adds it. `Owed` says the same of the running record, which a receive changes
  outside the map, and the limit is kept as the number of unreceived letters, since notices lengthen a
  mailbox without a check.
- `LinksStayMutual` from `LinkInv`: the two ends of a link as they stand now, one of them possibly in the
  running record (`View`). A link of a process to itself is the delicate case.
- `DeathsAreAnnounced` and `NobodyOvertaken`, action properties. The first is a fact about the end of a
  slice, the only step in which a process ends by its own doing; the second says each step takes the head
  of the queue or nothing, and adds behind.

`DatabaseProofs` (any tables, contents, queries and old bundles, whatever their ids and times):

- The invariant `IInv` is `TypeOK` with three parts: the tables are sound for the counter and the old bundle
  they come from (`Sound`: ids of their own, each behind the counter or brought by the bundle, and so for
  times, which are apart or brought), the bundle at rest is sound for the counter and the origin saved with
  it, and each index covers its table (`Covers`). None is inductive alone: a load takes the bundle's tables
  *and* its counter *and* its origin, and a write keeps an index exact only when no other record has the
  id, or the bundle brought it. `ShapesKept`, `IndicesStayExact`, `CounterStaysAhead` and `TimesStayApart`
  follow from it.
- An insertion puts a record behind the others or in the place of one (`Put`). `PutChanges` says what the set
  of records is then, and `CoversLess` that an index which covered the old ones covers the new ones with what
  became stale among the brought ids.
- `DatabaseIsAStore`: the refinement of `RecordStore`, operation by operation.
- `QueriesAnswerExactly`: what a lookup finds is described as a set (`LookupsAre`, `HitsAre`,
  `CandidatesAre`), and each filter keeps that description; the sort is a permutation.

`HostDriverProofs` (any outputs, results and `MaxIters`):

- The invariant has a part for each thing the driver keeps: `VmInv` (outputs follow from what was sent),
  `HandlersInv` (a settled promise happened once, in this round), `LogInv` and `JournalInv` (the journal is
  the rounds' requests one after another, each with its handler's result), `ReplayInv` (a replay used up the
  entries of what it was asked) and `SameInv` (the replay of a whole journal is where the run was).
  `JournalInOrder` alone says nothing of *where* in the journal a round begins; `Upto`, the requests of the
  first n rounds, does. `DriverTyped`, `JournalStaysInOrder`, `ReplayNeverMixes` and `ReplayRepeatsTheRun`
  follow.
- `DriverKeepsAJournal`: the refinement of `EffectJournal`.

`EffectRunProofs` (any limits, keys, nodes and tags):

- `RunTyped`, `EveryAwaitIsAnsweredOnce` and `NobodyIsForgotten` share one invariant, with a part for
  the stage, one for the outbox and one for each process as it is now (`Kept`: it does not sleep on what it
  has, it is in the queue exactly when it should be, and its marked replies add up). `RepliesAccounted` is not
  inductive: it must be known that a process has at most one await pending and *waits for that very key*,
  or its reply could come to a process in a plain receive, which no reply wakes; and that the copy of the
  running process in the map does not wait. An unmarked reply may come to any process at any time: it is
  in no count, and the only receive it can leave asleep is the one `NobodyForgotten` names (`Unasked`).
- The deliveries of one resume are a fold over the outbox. The invariant is stated for an outbox whose first
  `i` intents are answered (`Owing`, `WellAt`), each delivery moves from `i - 1` to `i`
  (`DeliveredKeeps`), the hints of a transport keep it at `i` (`HintKeeps`), and `AnsweredKeeps` puts them
  together. Here, and for `FlattenSeq`, induction is over
  the set of numbers for which a statement holds (`EveryNumberIn`), which needs no theorem with an
  operator for a parameter.

`SealedRunProofs` (any grants, providers and artifacts, any finite number of concurrent calls, both media):

- `IInv` has a part for the run (`RunInv`: what was loaded and that nothing is stored before the run goes
  live), one for what is at rest (`MediumInv`: a bundle under this DEK, or, in a file only, garbage), one for
  the calls (`CallsInv`), one for the preparation (`ReadyInv`) and one for commits (`CommitInv`), beside the
  properties themselves.
- `StoredStays` (`AckedKept`). The danger is an import that comes after an acknowledged write. `ReadyInv`
  says that before the storage is ready nothing was acknowledged and every call still waits; and that, with no
  race, the call that imports is the only one on its way to do so, which `StartRound` establishes and the
  barrier between rounds keeps. A snapshot's ids are behind its counter (`IsSnapshot`), or an
  insertion could land on an imported record.
- `CommitsOpen` (`CommitKeeps`) needs the whole path of a commit: what it holds at each await is the snapshot
  it took, then a bundle of it (`CallTyped`); the counters it saw, wrote and returned are in order
  (`Paced`); no other commit has written since (`Undisturbed`); and with no other call beside it the database
  has not moved (`Current`).
- `RestartsImport` (`RestartImports`): on a transactional store what is at rest is a bundle under the same
  DEK or nothing, at every step (`MediumInv`), so the import of a restarted process cannot fail
  (`Recovered`).
- `GrantsOpen` and `LoadsSealedProgram`. Their weight is in lemmas about the symbolic operators: what was
  encrypted under a key opens under it (`Opens`), and what opens was encrypted under it, for its target
  (`Opened`); a key derived when a grant is made, with its floors and defaults, is the key derived when it is
  opened, unless the grant asked Argon2id for a key of another length than 32 (`Wrapped`, `MatchingOpens`),
  and then no provider derives it (`OddLengthStaysShut`);
  no provider unwraps anything but the grant's own DEK
  (`UnwrapsItsDek`). `TypeCorrect` follows from the parts.

Assumptions on the constants: `LimitsAssumption`, `RankAssumption` and `ProgramAssumption` of
`ProcessScheduler` and `LimitsAssumption` of `EffectRun` (limits are natural numbers, the order of keys tells
processes apart, a program consists of instructions); `DataAssumption`, `OldBundlesAssumption`,
`QueriesAssumption` and `NothingAssumption` of `Database` (old bundles are tables of records with distinct
integers for ids, nothing more); `ResultsAssumption`, `MaxItersAssumption`,
`SettledAssumption`, `NothingAssumption` and `OutputsAssumption` of `HostDriver`. Those about `Nothing`,
`Waiting` and `Failed` say that a marker is none of the values it stands beside; `OutputsAssumption` that a
transport has no key, which is how the machine writes its outbox. In the secure run, `StorageAssumption` says
that the calls at once are finitely many and ask for one of the nine operations; `GrantsAssumption` that a
grant was made by one of the two functions that make grants, and was made at all (they throw below a
floor), or is of a kind nothing opens; `ArtifactsAssumption` that what was sealed is a value and no error, that
a sealed program is a program, and that what is offered as a database was serialised by one, if it opens.
The last leaves out bundles that open but hold something else: one whose counter is behind its own ids,
and one of the format without a counter, which `Database` has (section 6). The code takes both as they are, and
what is said of storage is not said of runs that begin with them. TLC evaluates all of the assumptions in
the passing runs.

What is only model-checked: the liveness properties `Halts`, `RunEnds`, `RunSettles` and `CallsSettle`, which
need fairness and ENABLED. The violations are counterexamples of TLC's and have no theorem.

## 11. Not modelled

- Of the modelled components: the journal `runLive` may be given to continue, the in-memory storage and
  the mock handlers; `exportCiphertext`, `importCiphertext` and `load` of the encrypted storage, which
  no handler calls, and `assertCiphertextOnly`; `hashTable` and the cache of the in-memory storage; a
  host of its own that answers part of a round; redaction of errors. The status and the note of each
  component in `PROJECT.json` say more.
- Instructions that only touch registers, frames or the global state, state machines and the numeric
  library: one step of one process on data nobody else sees, decided by values the models leave out. The
  step budget is not tested inside a MACHINE_TRANSITION, which is listed under `hazards` without a property,
  as is the local side of a disconnection. A label that occurs twice in a function resolves differently
  through the label cache and through the scan (`Interpreter.purs:1443`); no program text is in the models.
- Conversions between formats, canonical encoding and hashes, traces, input schemas, entry points and
  benchmarks: no state, or logs that nothing reads.
- Ciphers, key derivation and randomness are the host's and taken as ideal.
