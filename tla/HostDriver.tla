---------------------------- MODULE HostDriver ----------------------------
(***************************************************************************)
(* The effect driver of the host: runLive performs the effects a suspended  *)
(* VM asks for, all of a round concurrently, and resumes the VM with their   *)
(* results until it completes; runReplay does the same from the journal of   *)
(* a run that returned, without performing anything.                         *)
(*                                                                          *)
(* The VM is a deterministic machine the driver knows nothing of: what it    *)
(* puts out after a history of deliveries is chosen once and kept in         *)
(* answers. Payloads and values of the program are left out, but for the     *)
(* results handlers give, which HostValues converts.                         *)
(***************************************************************************)
EXTENDS HostValues, FiniteSets

CONSTANTS
  Outputs,   \* what the VM may put out: [status, pending]
  Results,   \* what handlers may resolve to, values of Js
  Handlers,  \* the effect types there is a handler for
  MaxIters,  \* MAX_ITERS: the resumes a run may make
  Waiting,   \* a handler that has not settled
  Failed     \* a handler that rejected

ASSUME ResultsAssumption == Results \subseteq Js
ASSUME MaxItersAssumption == MaxIters \in Nat \ {0}

\* A promise that has not settled, or rejected, is not a value it resolves to; and
\* what is nothing is none of the strings it stands beside.
ASSUME SettledAssumption == Waiting # Failed /\ {Waiting, Failed} \intersect Results = {}
ASSUME NothingAssumption == Nothing \notin {"await_reply", "transport", "returned", "threw"}

VARIABLES
  answers,    \* the outputs of the VM by the history of batches it was given
  pc,         \* of runLive: "running", "returned" or "threw"
  out,        \* the last output of the VM
  results,    \* what the handlers of this round have settled to
  sent,       \* the batches of deliveries the VM was resumed with
  jrnl,       \* the journal
  performed,  \* the effects that happened: <<round, place, result>>
  replay      \* Nothing, or the replay: its journal, how far it is, what it saw

live == <<answers, pc, out, results, sent, jrnl, performed>>
vars == <<live, replay>>

---------------------------------------------------------------------------
(* The requests of an output *)

Kind(e) == IF e.kind # "" THEN e.kind ELSE IF e.key # "" THEN "await_reply" ELSE "transport"

\* What is pending is a list; a key is a string, and the VM gives no key to a
\* transport (Json.purs, pendingEntry).
ASSUME OutputsAssumption ==
  \A o \in Outputs :
    /\ o.pending \in Seq(ToSet(o.pending))
    /\ \A e \in ToSet(o.pending) : e.key # Nothing /\ (Kind(e) = "transport" => e.key = "")

Malformed(e) ==
  \/ Kind(e) \notin {"await_reply", "transport"}
  \/ Kind(e) = "await_reply" /\ e.key = ""
  \/ e.type_ = ""

normalizePending(e) ==
  [kind  |-> Kind(e),
   pid   |-> IF e.pid # "" THEN e.pid ELSE IF e.payloadPid # Nothing THEN e.payloadPid ELSE "main",
   key   |-> IF e.key = "" THEN Nothing ELSE e.key,
   type_ |-> e.type_]

Pending(o) == [k \in DOMAIN o.pending |-> normalizePending(o.pending[k])]

\* Here and below, a definition named for what it leaves out is a slip of the
\* one it precedes: a plausible bug, which the runs must notice.
VerdictUnbounded(o, n) ==
  CASE o.status = "completed" -> "returned"
    [] o.status = "suspended" /\ o.pending # <<>> -> "running"
    [] OTHER -> "threw"

\* What either loop makes of output o after n resumes. The bound comes first:
\* what the last resume puts out is never looked at.
Verdict(o, n) ==
  CASE o.status \in {"error", "failed"} \/ n = MaxIters -> "threw"
    [] OTHER ->
      CASE o.status = "completed" -> "returned"
        [] o.status = "suspended" /\ o.pending # <<>> /\ ~\E k \in DOMAIN o.pending : Malformed(o.pending[k]) -> "running"
        [] OTHER -> "threw"

---------------------------------------------------------------------------
(* runLive *)

\* All the handlers of a round are called at once; one that is missing rejects.
Called(o, n) ==
  IF Verdict(o, n) = "running"
  THEN [k \in DOMAIN o.pending |-> IF o.pending[k].type_ \in Handlers THEN Waiting ELSE Failed]
  ELSE <<>>

Turn(o, n) == IF Contains(Called(o, n), Failed) THEN "threw" ELSE Verdict(o, n)

\* The handlers that are there settle even when the run threw for another.
SettleInTurn(k, r) ==
  /\ results[k] = Waiting
  /\ LET first == CHOOSE j \in DOMAIN results : results[j] = Waiting /\ \A i \in DOMAIN results : results[i] = Waiting => j <= i
     IN  results' = [results EXCEPT ![first] = r]
  /\ performed' = performed \union {<<Len(sent) + 1, k, r>>}
  /\ UNCHANGED <<answers, pc, out, sent, jrnl, replay>>

Settle(k, r) ==
  /\ results[k] = Waiting
  /\ results' = [results EXCEPT ![k] = r]
  /\ performed' = performed \union {<<Len(sent) + 1, k, r>>}
  /\ UNCHANGED <<answers, pc, out, sent, jrnl, replay>>

\* Promise.all rejects with the first handler that does.
Reject(k) ==
  /\ results[k] = Waiting
  /\ results' = [results EXCEPT ![k] = Failed]
  /\ pc' = "threw"
  /\ UNCHANGED <<answers, out, sent, jrnl, performed, replay>>

Delivered(p, r) ==
  IF p.kind = "await_reply" THEN <<<<"reply", p.pid, p.key, jsToValue[r]>>>> ELSE transportDeliveriesFromResult(r)

Batches == [k \in DOMAIN results |-> Delivered(Pending(out)[k], results[k])]

Entry(p, v) == [kind |-> p.kind, pid |-> p.pid, key |-> p.key, type_ |-> p.type_, result |-> v]

EntriesOfReplies ==
  LET all == [k \in DOMAIN results |-> Entry(Pending(out)[k], jsToValue[results[k]])]
  IN  SelectSeq(all, LAMBDA e : e.kind = "await_reply")

Entries == [k \in DOMAIN results |-> Entry(Pending(out)[k], jsToValue[results[k]])]

SettledWithHints ==
  /\ pc = "running" /\ \A k \in DOMAIN results : results[k] # Waiting
  /\ FlattenSeq(Batches) # <<>>

AllSettled == pc = "running" /\ \A k \in DOMAIN results : results[k] # Waiting

\* Deliveries and journal entries are in the order of the requests.
Resume ==
  /\ AllSettled
  /\ \A k \in DOMAIN results : ~Contains(Batches[k], Invalid)
  /\ sent' = Append(sent, FlattenSeq(Batches))
  /\ jrnl' = jrnl \o Entries
  /\ \E o \in Outputs :
       /\ answers' = [h \in DOMAIN answers \union {sent'} |-> IF h = sent' THEN o ELSE answers[h]]
       /\ out' = o
       /\ results' = Called(o, Len(sent'))
       /\ pc' = Turn(o, Len(sent'))
  /\ UNCHANGED <<performed, replay>>

\* A transport whose result holds no valid delivery makes the run throw, with
\* the entries before it pushed.
RefuseDelivery ==
  /\ AllSettled
  /\ \E k \in DOMAIN results :
       /\ Contains(Batches[k], Invalid)
       /\ \A j \in 1 .. k - 1 : ~Contains(Batches[j], Invalid)
       /\ jrnl' = jrnl \o SubSeq(Entries, 1, k - 1)
  /\ pc' = "threw"
  /\ UNCHANGED <<answers, out, results, sent, performed, replay>>

---------------------------------------------------------------------------
(* runReplay: the journal of a run that returned, whole or cut short, with or   *)
(* without the kinds older journals lack, for the same program or another.      *)

\* The program of the replay puts out what it did live; another, anything.
PutsOut(same, history) == IF same /\ history \in DOMAIN answers THEN {answers[history]} ELSE Outputs

ReplayStart(n, withKind, same) ==
  /\ pc = "returned" /\ replay = Nothing
  /\ \E o \in PutsOut(same, <<>>) :
       replay' = [journal |-> [i \in 1 .. n |-> IF withKind THEN jrnl[i] ELSE [jrnl[i] EXCEPT !.kind = Nothing]],
                  same |-> same, pc |-> Verdict(o, 0), outs |-> <<o>>, sent |-> <<>>, taken |-> 0]
  /\ UNCHANGED live

EntryKind(e) == IF e.kind # Nothing THEN e.kind ELSE IF e.key # Nothing THEN "await_reply" ELSE "transport"

FitsByType(e, p) == e.type_ = p.type_

\* The entry was recorded for a request like p.
Fits(e, p) ==
  /\ e.pid = p.pid /\ e.type_ = p.type_
  /\ e.key = IF p.kind = "await_reply" THEN p.key ELSE Nothing
  /\ EntryKind(e) = p.kind

ReplayedRaw(p, v) == IF p.kind = "await_reply" THEN <<<<"reply", p.pid, p.key, v>>>> ELSE <<>>

Replayed(p, v) ==
  IF p.kind = "await_reply" THEN <<<<"reply", p.pid, p.key, v>>>> ELSE transportDeliveriesFromResult(valueToJs[v])

ReplayThrows(pend) ==
  \/ replay.taken + Len(pend) > Len(replay.journal)
  \/ \E k \in DOMAIN pend :
       LET e == replay.journal[replay.taken + k]
       IN  ~Fits(e, pend[k]) \/ Contains(Replayed(pend[k], e.result), Invalid)

ReplayRound ==
  /\ replay # Nothing /\ replay.pc = "running"
  /\ LET pend == Pending(Last(replay.outs))
         batch == FlattenSeq([k \in DOMAIN pend |-> Replayed(pend[k], replay.journal[replay.taken + k].result)])
         history == Append(replay.sent, batch)
     IN  IF ReplayThrows(pend) THEN replay' = [replay EXCEPT !.pc = "threw"]
         ELSE \E o \in PutsOut(replay.same, history) :
                replay' = [replay EXCEPT !.pc = Verdict(o, Len(history)), !.outs = Append(@, o),
                                         !.sent = history, !.taken = @ + Len(pend)]
  /\ UNCHANGED live

---------------------------------------------------------------------------

Init ==
  /\ \E o \in Outputs :
       /\ answers = [h \in {<<>>} |-> o]
       /\ out = o
       /\ results = Called(o, 0)
       /\ pc = Turn(o, 0)
  /\ sent = <<>> /\ jrnl = <<>> /\ performed = {}
  /\ replay = Nothing

\* What happens to a live run.
Goes == (\E k \in DOMAIN results : Reject(k) \/ \E r \in Results : Settle(k, r)) \/ Resume \/ RefuseDelivery

Next ==
  \/ Goes
  \/ \E n \in 0 .. Len(jrnl), withKind, same \in BOOLEAN : ReplayStart(n, withKind, same)
  \/ ReplayRound

\* While a run waits, the handlers it called go on to settle, and the event loop
\* comes back to it once they have.
Spec == Init /\ [][Next]_vars /\ WF_vars(pc = "running" /\ Goes)

---------------------------------------------------------------------------
(* Properties *)

EntryOK(e) ==
  /\ e.kind \in {"await_reply", "transport", Nothing}
  /\ e.result \in Value

TypeOK ==
  /\ pc \in {"running", "returned", "threw"}
  /\ out \in Outputs /\ \A h \in DOMAIN answers : answers[h] \in Outputs
  /\ \A k \in DOMAIN results : results[k] \in Results \union {Waiting, Failed}
  /\ Len(sent) <= MaxIters
  /\ \A i \in DOMAIN jrnl : EntryOK(jrnl[i])
  /\ replay # Nothing => replay.pc \in {"running", "returned", "threw"} /\ \A i \in DOMAIN replay.journal : EntryOK(replay.journal[i])

\* The places <<round, place>> of all the requests the VM was resumed for, in
\* the order it made them, and those requests.
Places == FlattenSeq([n \in DOMAIN sent |-> [k \in DOMAIN answers[SubSeq(sent, 1, n - 1)].pending |-> <<n, k>>]])
Asked(at) == Pending(answers[SubSeq(sent, 1, at[1] - 1)])[at[2]]

\* In whatever order the handlers finished, the journal holds the requests the
\* VM was resumed for in the order it made them, each with what its own handler
\* gave, and each of those effects happened exactly once (Promise.all and the
\* loop over pending in runLive).
JournalInOrder ==
  pc # "threw" =>
    /\ Len(jrnl) = Len(Places)
    /\ \A i \in DOMAIN jrnl :
         LET given == {e \in performed : <<e[1], e[2]>> = Places[i]}
         IN  Cardinality(given) = 1 /\ \A e \in given : jrnl[i] = Entry(Asked(Places[i]), jsToValue[e[3]])

WholeReplay == replay # Nothing /\ replay.same /\ Len(replay.journal) = Len(jrnl)

\* The replay of the whole journal of a run that returned, by the same program,
\* returns too, after the same deliveries and outputs, the bound on the rounds
\* included, when every result of the run keeps its deliveries in the journal
\* (runReplay beside runLive).
ReplaySame ==
  WholeReplay /\ (\A e \in performed : Faithful(e[3])) =>
    /\ replay.pc # "threw"
    /\ IsPrefix(replay.sent, sent)
    /\ replay.pc = "returned" => replay.sent = sent /\ Last(replay.outs) = out

ReplayAsked == FlattenSeq([n \in DOMAIN replay.sent |-> Pending(replay.outs[n])])

\* A replay never feeds a request the result of another: whatever journal it
\* has and whatever program it runs, each entry it used was recorded for the
\* request of the same place, kind, process, key and type (the checks of
\* runReplay against the journal).
ReplayMatches ==
  replay # Nothing =>
    /\ replay.taken = Len(ReplayAsked) /\ replay.taken <= Len(jrnl)
    /\ \A i \in 1 .. replay.taken : Entry(ReplayAsked[i], jrnl[i].result) = jrnl[i]

\* Every run comes to an end: it returns or throws once its handlers settle.
RunSettles == <>(pc # "running")

Journal == INSTANCE EffectJournal
             WITH asked <- IF pc = "running" THEN Pending(out) ELSE <<>>,
                  log <- IF pc = "threw" THEN <<>> ELSE jrnl,
                  outcome <- IF pc = "running" THEN Nothing ELSE pc,
                  Request <- UNION {{Pending(o)[k] : k \in DOMAIN o.pending} : o \in Outputs},
                  Answer <- {jsToValue[r] : r \in Results}

\* However the handlers interleave, the run is one that answers each round whole
\* and in order, and then asks, returns or fails (runLive).
ImplementsEffectJournal == Journal!Spec

\* A replay delivers what the run delivered: docs/EFFECTS.md, "replay
\* reconstructs the same deliveries from journaled transport results".
ReplayReconstructs == WholeReplay => IsPrefix(replay.sent, sent)
=============================================================================
