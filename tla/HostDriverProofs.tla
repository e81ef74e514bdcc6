-------------------------- MODULE HostDriverProofs --------------------------
(***************************************************************************)
(* The journal of a live run is what the run did, in order, and a replay of *)
(* it is the run again: proofs about HostDriver.                            *)
(***************************************************************************)
EXTENDS HostDriver, SequenceLemmas

---------------------------------------------------------------------------
(* What the proofs follow *)

\* The requests there may be in a round, and the entries they may leave.
WellFormed(p) == p.kind \in {"await_reply", "transport"} /\ (p.kind = "transport" <=> p.key = Nothing)
Sought == UNION {ToSet(Pending(o)) : o \in Outputs}
Asks == {p \in Sought : WellFormed(p)}
Logs == {Entry(p, v) : p \in Asks, v \in Value}

\* The output that asked for round n, the requests of it and of the first n.
OutOf(n)    == answers[SubSeq(sent, 1, n - 1)]
AskedIn(n)  == Pending(OutOf(n))
PlacesIn(n) == [k \in DOMAIN OutOf(n).pending |-> <<n, k>>]
Upto(n)     == FlattenSeq([m \in 1 .. n |-> AskedIn(m)])
Located(n)  == FlattenSeq([m \in 1 .. n |-> PlacesIn(m)])

\* The run goes from output to output, by what it was sent.
VmInv ==
  /\ pc \in {"running", "returned", "threw"}
  /\ sent \in Seq(ToSet(sent)) /\ Len(sent) <= MaxIters
  /\ out = answers[sent]
  /\ \A h \in DOMAIN answers : answers[h] \in Outputs
  /\ \A n \in 1 .. Len(sent) + 1 : SubSeq(sent, 1, n - 1) \in DOMAIN answers
  /\ \A n \in 1 .. Len(sent) : Verdict(OutOf(n), n - 1) = "running"
  /\ pc # "threw" => Verdict(out, Len(sent)) = pc

\* What has happened in this round is what its handlers gave, and once each.
HandlersInv ==
  /\ \A k \in DOMAIN results : results[k] \in Results \union {Waiting, Failed}
  /\ pc = "running" => DOMAIN results = DOMAIN out.pending /\ \A k \in DOMAIN results : results[k] # Failed
  /\ pc = "returned" => DOMAIN results = {}
  /\ \A e \in performed : e = <<e[1], e[2], e[3]>> /\ e[1] \in 1 .. Len(sent) + 1 /\ e[3] \in Results
  /\ \A e, f \in performed : e[1] = f[1] /\ e[2] = f[2] => e = f
  /\ \A e \in performed : e[1] = Len(sent) + 1 => e[2] \in DOMAIN results /\ results[e[2]] = e[3]
  /\ \A k \in DOMAIN results : results[k] \in Results => <<Len(sent) + 1, k, results[k]>> \in performed

\* Round n: its handlers gave rs, which was delivered and logged.
Logged(n, rs) ==
  /\ sent[n] = FlattenSeq([k \in DOMAIN rs |-> Delivered(AskedIn(n)[k], rs[k])])
  /\ \A k \in DOMAIN rs :
       /\ <<n, k, rs[k]>> \in performed
       /\ ~Contains(Delivered(AskedIn(n)[k], rs[k]), Invalid)
       /\ Len(Upto(n - 1)) + k \in DOMAIN jrnl
       /\ jrnl[Len(Upto(n - 1)) + k] = Entry(AskedIn(n)[k], jsToValue[rs[k]])

LogInv == jrnl \in Seq(Logs)

JournalInv ==
  pc # "threw" =>
    /\ jrnl \in Seq(Logs)
    /\ Len(jrnl) = Len(Upto(Len(sent))) /\ Len(jrnl) = Len(Places)
    /\ \A n \in 1 .. Len(sent) : \E rs \in [DOMAIN AskedIn(n) -> Results] : Logged(n, rs)
    /\ \A i \in DOMAIN jrnl :
         \E n \in 1 .. Len(sent) : \E k \in DOMAIN AskedIn(n) : i = Len(Upto(n - 1)) + k /\ Places[i] = <<n, k>>

Recorded(e, j) == e \in {j, [j EXCEPT !.kind = Nothing]}

\* A replay reads a copy of the journal of a run that returned, and used up the
\* entries of what it was asked for.
ReplayInv ==
  replay # Nothing =>
    /\ pc = "returned"
    /\ DOMAIN replay = {"journal", "same", "pc", "outs", "sent", "taken"}
    /\ replay.pc \in {"running", "returned", "threw"}
    /\ replay.journal \in Seq(ToSet(replay.journal)) /\ Len(replay.journal) <= Len(jrnl)
    /\ \A i \in 1 .. Len(replay.journal) : Recorded(replay.journal[i], jrnl[i])
    /\ replay.sent \in Seq(ToSet(replay.sent))
    /\ replay.outs \in Seq(Outputs) /\ Len(replay.outs) = Len(replay.sent) + 1
    /\ replay.pc # "threw" => Verdict(Last(replay.outs), Len(replay.sent)) = replay.pc
    /\ \A n \in 1 .. Len(replay.sent) : Pending(replay.outs[n]) \in Seq(Asks)
    /\ replay.taken = Len(ReplayAsked) /\ replay.taken <= Len(replay.journal)
    /\ \A i \in 1 .. replay.taken : Entry(ReplayAsked[i], jrnl[i].result) = jrnl[i]

\* The replay of the whole journal is where the run was after as many rounds.
SameInv ==
  WholeReplay /\ (\A e \in performed : Faithful(e[3])) =>
    /\ Len(replay.sent) <= Len(sent)
    /\ replay.sent = SubSeq(sent, 1, Len(replay.sent))
    /\ \A n \in 1 .. Len(replay.sent) + 1 : replay.outs[n] = OutOf(n)
    /\ replay.pc = Verdict(Last(replay.outs), Len(replay.sent))

IInv == VmInv /\ HandlersInv /\ LogInv /\ JournalInv /\ ReplayInv /\ SameInv

---------------------------------------------------------------------------
(* Outputs and calls *)

\* A verdict is one of three, and a round that goes on asks for something.
LEMMA Verdicts ==
  ASSUME NEW o \in Outputs, NEW n
  PROVE  /\ Verdict(o, n) \in {"running", "returned", "threw"}
         /\ DOMAIN Pending(o) = DOMAIN o.pending /\ DOMAIN o.pending = 1 .. Len(o.pending) /\ Len(o.pending) \in Nat
         /\ Pending(o) \in Seq(Sought)
         /\ Verdict(o, n) = "running" => n # MaxIters /\ Pending(o) \in Seq(Asks) /\ Pending(o) # <<>> /\ o.pending # <<>>
<1> DEFINE P == o.pending
<1>1. P \in Seq(ToSet(P)) /\ \A e \in ToSet(P) : e.key # Nothing /\ (Kind(e) = "transport" => e.key = "")
  BY OutputsAssumption
<1>2. DOMAIN P = 1 .. Len(P) /\ Len(P) \in Nat
  BY <1>1, LenProperties
<1>3. Verdict(o, n) \in {"running", "returned", "threw"}
  BY DEF Verdict
<1>4. DOMAIN Pending(o) = DOMAIN P
  BY DEF Pending
<1>6. Pending(o) \in Seq(Sought)
  <2>1. \A k \in 1 .. Len(P) : Pending(o)[k] \in Sought
    BY <1>2, <1>4 DEF Sought, ToSet
  <2>2. Pending(o) = [k \in 1 .. Len(P) |-> Pending(o)[k]]
    BY <1>2, Zenon DEF Pending
  <2>3. Pending(o) \in [1 .. Len(P) -> Sought]
    BY <2>1, <2>2, Zenon
  <2> QED
    BY <1>2, <2>3, FunctionIsSeq
<1>5. ASSUME Verdict(o, n) = "running"
      PROVE  n # MaxIters /\ Pending(o) \in Seq(Asks) /\ Pending(o) # <<>> /\ P # <<>>
  <2>1. n # MaxIters /\ P # <<>> /\ \A k \in DOMAIN P : ~Malformed(P[k])
    BY <1>5 DEF Verdict
  <2>2. ASSUME NEW k \in DOMAIN P PROVE Pending(o)[k] \in Asks
    <3> DEFINE e == P[k]
               p == normalizePending(e)
    <3>1. Pending(o)[k] = p
      BY DEF Pending
    <3>2. e \in ToSet(P) /\ ~Malformed(e)
      BY <2>1 DEF ToSet
    <3> HIDE DEF e
    <3>3. e.key # Nothing /\ (Kind(e) = "transport" => e.key = "")
      BY <1>1, <3>2
    <3>4. p.kind = Kind(e) /\ p.key = IF e.key = "" THEN Nothing ELSE e.key
      BY DEF normalizePending
    <3>5. Kind(e) \in {"await_reply", "transport"} /\ (Kind(e) = "await_reply" => e.key # "")
      BY <3>2 DEF Malformed
    <3> HIDE DEF p
    <3>6. WellFormed(p)
      <4>1. CASE Kind(e) = "transport"
        BY <3>3, <3>4, <4>1 DEF WellFormed
      <4>2. CASE Kind(e) = "await_reply"
        <5>1. e.key # "" /\ e.key # Nothing
          BY <3>3, <3>5, <4>2
        <5>2. p.kind = "await_reply" /\ p.key # Nothing
          BY <3>4, <4>2, <5>1
        <5> QED
          BY <5>2 DEF WellFormed
      <4> QED
        BY <3>5, <4>1, <4>2
    <3>7. p \in ToSet(Pending(o))
      BY <1>4, <3>1 DEF ToSet
    <3>8. p \in Sought
      BY <3>7 DEF Sought
    <3> QED
      BY <3>1, <3>6, <3>8, Zenon DEF Asks
  <2>3. Pending(o) \in [1 .. Len(P) -> Asks]
    <3>1. Pending(o) = [k \in 1 .. Len(P) |-> Pending(o)[k]]
      BY <1>2, Zenon DEF Pending
    <3> QED
      BY <1>2, <2>2, <3>1
  <2>4. Pending(o) \in Seq(Asks)
    BY <1>2, <2>3, FunctionIsSeq
  <2>5. Pending(o) # <<>>
    <3>1. Len(P) # 0
      BY <1>1, <2>1, EmptySeq
    <3>2. 1 \in DOMAIN Pending(o)
      BY <1>2, <1>4, <3>1
    <3> QED
      BY <3>2
  <2> QED
    BY <2>1, <2>4, <2>5
<1> QED
  BY <1>2, <1>3, <1>4, <1>5, <1>6

\* The handlers of a round are all called before any settles.
LEMMA Calls ==
  ASSUME NEW o \in Outputs, NEW n
  PROVE  /\ \A k \in DOMAIN Called(o, n) : Called(o, n)[k] \in {Waiting, Failed}
         /\ Turn(o, n) \in {"running", "returned", "threw"}
         /\ Turn(o, n) # "threw" => Verdict(o, n) = Turn(o, n)
         /\ Turn(o, n) = "running" => DOMAIN Called(o, n) = DOMAIN o.pending /\ \A k \in DOMAIN Called(o, n) : Called(o, n)[k] # Failed
         /\ Turn(o, n) = "returned" => DOMAIN Called(o, n) = {}
<1> DEFINE c == Called(o, n)
<1>1. Verdict(o, n) \in {"running", "returned", "threw"} /\ DOMAIN o.pending = 1 .. Len(o.pending) /\ Len(o.pending) \in Nat
  BY Verdicts
<1>2. CASE Verdict(o, n) = "running"
  <2>1. c = [k \in DOMAIN o.pending |-> IF o.pending[k].type_ \in Handlers THEN Waiting ELSE Failed]
    BY <1>2 DEF Called
  <2>2. DOMAIN c = DOMAIN o.pending /\ \A k \in DOMAIN c : c[k] \in {Waiting, Failed}
    BY <2>1
  <2>3. Len(c) = Len(o.pending)
    <3>1. c \in Seq({Waiting, Failed})
      <4>1. c = [k \in 1 .. Len(o.pending) |-> c[k]]
        BY <1>1, <2>1
      <4>2. c \in [1 .. Len(o.pending) -> {Waiting, Failed}]
        BY <1>1, <2>2, <4>1
      <4> QED
        BY <1>1, <4>2, FunctionIsSeq
    <3> QED
      BY <1>1, <2>2, <3>1, LenProperties
  <2> HIDE DEF c
  <2>4. Turn(o, n) = IF Contains(c, Failed) THEN "threw" ELSE "running"
    BY <1>2 DEF Turn, c
  <2>5. Turn(o, n) = "running" => \A k \in DOMAIN c : c[k] # Failed
    BY <1>1, <2>2, <2>3, <2>4 DEF Contains
  <2> QED
    BY <1>2, <2>2, <2>4, <2>5 DEF c
<1>3. CASE Verdict(o, n) # "running"
  <2>1. c = <<>>
    BY <1>3 DEF Called
  <2>2. DOMAIN c = {} /\ ~Contains(c, Failed)
    BY <2>1 DEF Contains
  <2> HIDE DEF c
  <2>3. Turn(o, n) = Verdict(o, n)
    BY <2>2 DEF Turn, c
  <2> QED
    BY <1>1, <1>3, <2>2, <2>3 DEF c
<1> QED
  BY <1>2, <1>3

---------------------------------------------------------------------------
(* The run and its handlers *)

\* A resume appends to what the VM was sent; the rounds before it stay as they were.
LEMMA ResumeAppends ==
  ASSUME VmInv, Resume
  PROVE  /\ Len(sent) \in Nat /\ Len(sent') = Len(sent) + 1 /\ sent' \in Seq(ToSet(sent'))
         /\ \A n \in 1 .. Len(sent) : sent'[n] = sent[n]
         /\ sent'[Len(sent) + 1] = FlattenSeq(Batches)
         /\ \A n \in 1 .. Len(sent) + 1 : SubSeq(sent', 1, n - 1) = SubSeq(sent, 1, n - 1) /\ OutOf(n)' = OutOf(n)
         /\ OutOf(Len(sent) + 1) = out
         /\ SubSeq(sent', 1, Len(sent) + 1) = sent'
         /\ DOMAIN answers' = DOMAIN answers \union {sent'}
         /\ out' \in Outputs /\ answers'[sent'] = out'
         /\ \A h \in DOMAIN answers : h # sent' => answers'[h] = answers[h]
<1> DEFINE b == FlattenSeq(Batches)
           N == Len(sent)
<1>1. sent' = Append(sent, b)
  BY DEF Resume
<1> HIDE DEF b
<1>2. /\ sent' \in Seq(ToSet(sent'))
      /\ N \in Nat /\ Len(sent') = N + 1
      /\ \A i \in 1 .. N : sent'[i] = sent[i]
      /\ sent'[N + 1] = b
      /\ \A n \in 0 .. N : SubSeq(sent', 1, n) = SubSeq(sent, 1, n) /\ Len(SubSeq(sent, 1, n)) = n
      /\ SubSeq(sent, 1, N) = sent
      /\ SubSeq(sent', 1, N + 1) = sent'
  BY <1>1, HistoryGrows DEF VmInv
<1>3. /\ DOMAIN answers' = DOMAIN answers \union {sent'}
      /\ out' \in Outputs /\ answers'[sent'] = out'
      /\ \A h \in DOMAIN answers : h # sent' => answers'[h] = answers[h]
  BY DEF Resume
<1>4. ASSUME NEW n \in 1 .. N + 1 PROVE SubSeq(sent', 1, n - 1) = SubSeq(sent, 1, n - 1) /\ OutOf(n)' = OutOf(n)
  <2>1. n - 1 \in 0 .. N
    BY <1>2
  <2>2. SubSeq(sent', 1, n - 1) = SubSeq(sent, 1, n - 1) /\ Len(SubSeq(sent, 1, n - 1)) = n - 1
    BY <1>2, <2>1
  <2>3. SubSeq(sent, 1, n - 1) # sent'
    BY <1>2, <2>1, <2>2
  <2>4. SubSeq(sent, 1, n - 1) \in DOMAIN answers
    BY DEF VmInv
  <2> QED
    BY <1>3, <2>2, <2>3, <2>4 DEF OutOf
<1>5. OutOf(N + 1) = out
  <2>1. (N + 1) - 1 = N
    BY <1>2
  <2> QED
    BY <1>2, <2>1 DEF OutOf, VmInv
<1> QED
  BY <1>2, <1>3, <1>4, <1>5 DEF b

\* The run starts with the VM's first output and nothing sent (runLive).
LEMMA VmStart ==
  ASSUME Init
  PROVE  VmInv
<1>1. PICK o \in Outputs : answers = [h \in {<<>>} |-> o] /\ out = o /\ results = Called(o, 0) /\ pc = Turn(o, 0)
  BY DEF Init
<1>2. sent = <<>> /\ Len(sent) = 0
  BY DEF Init
<1>3. sent \in Seq(ToSet(sent)) /\ Len(sent) <= MaxIters
  BY <1>2, EmptySeq, MaxItersAssumption
<1>4. SubSeq(sent, 1, 0) = <<>>
  BY SubSeqEmpty
<1>5. \A n \in 1 .. Len(sent) + 1 : SubSeq(sent, 1, n - 1) \in DOMAIN answers
  BY <1>1, <1>2, <1>4
<1>6. pc \in {"running", "returned", "threw"} /\ (pc # "threw" => Verdict(out, Len(sent)) = pc)
  BY <1>1, <1>2, Calls
<1> QED
  BY <1>1, <1>2, <1>3, <1>5, <1>6 DEF VmInv

\* Only a resume changes what the VM was sent and put out (runLive).
LEMMA VmKept ==
  ASSUME VmInv, HandlersInv, [Next]_vars
  PROVE  VmInv'
<1>1. ASSUME UNCHANGED <<answers, pc, out, sent>> PROVE VmInv'
  BY <1>1 DEF VmInv, OutOf
<1>2. ASSUME UNCHANGED <<answers, out, sent>>, pc' = "threw" PROVE VmInv'
  BY <1>2 DEF VmInv, OutOf
<1>3. CASE Resume
  <2>1. /\ Len(sent) \in Nat /\ Len(sent') = Len(sent) + 1 /\ sent' \in Seq(ToSet(sent'))
        /\ \A n \in 1 .. Len(sent) + 1 : SubSeq(sent', 1, n - 1) = SubSeq(sent, 1, n - 1) /\ OutOf(n)' = OutOf(n)
        /\ OutOf(Len(sent) + 1) = out
        /\ SubSeq(sent', 1, Len(sent) + 1) = sent'
        /\ DOMAIN answers' = DOMAIN answers \union {sent'}
        /\ out' \in Outputs /\ answers'[sent'] = out'
        /\ \A h \in DOMAIN answers : h # sent' => answers'[h] = answers[h]
    BY <1>3, ResumeAppends
  <2>2. pc = "running" /\ Verdict(out, Len(sent)) = "running"
    BY <1>3 DEF Resume, AllSettled, VmInv
  <2>3. out \in Outputs
    BY <2>1 DEF VmInv, OutOf
  <2>4. Len(sent') <= MaxIters
    <3>1. Len(sent) # MaxIters
      BY <2>2, <2>3, Verdicts
    <3> QED
      BY <2>1, <3>1, MaxItersAssumption DEF VmInv
  <2>5. \A h \in DOMAIN answers' : answers'[h] \in Outputs
    BY <2>1 DEF VmInv
  <2>6. ASSUME NEW n \in 1 .. Len(sent') + 1 PROVE SubSeq(sent', 1, n - 1) \in DOMAIN answers'
    <3>1. CASE n = Len(sent') + 1
      <4>1. n - 1 = Len(sent) + 1
        BY <2>1, <3>1
      <4> QED
        BY <2>1, <4>1
    <3>2. CASE n # Len(sent') + 1
      <4>1. n \in 1 .. Len(sent) + 1
        BY <2>1, <3>2
      <4> QED
        BY <2>1, <4>1 DEF VmInv
    <3> QED
      BY <3>1, <3>2
  <2>7. ASSUME NEW n \in 1 .. Len(sent') PROVE Verdict(OutOf(n)', n - 1) = "running"
    <3>1. OutOf(n)' = OutOf(n)
      BY <2>1
    <3>2. CASE n = Len(sent) + 1
      <4>1. n - 1 = Len(sent) /\ OutOf(n) = out
        BY <2>1, <3>2
      <4> QED
        BY <2>2, <3>1, <4>1
    <3>3. CASE n # Len(sent) + 1
      <4>1. n \in 1 .. Len(sent)
        BY <2>1, <3>3
      <4> QED
        BY <3>1, <4>1 DEF VmInv
    <3> QED
      BY <3>2, <3>3
  <2>8. pc' \in {"running", "returned", "threw"} /\ (pc' # "threw" => Verdict(out', Len(sent')) = pc')
    <3>1. pc' = Turn(out', Len(sent'))
      BY <1>3 DEF Resume
    <3> QED
      BY <2>1, <3>1, Calls
  <2> QED
    BY <2>1, <2>4, <2>5, <2>6, <2>7, <2>8 DEF VmInv
<1>4. ASSUME NEW k \in DOMAIN results, Reject(k) PROVE VmInv'
  BY <1>2, <1>4 DEF Reject
<1>5. ASSUME NEW k \in DOMAIN results, NEW r \in Results, Settle(k, r) PROVE VmInv'
  BY <1>1, <1>5 DEF Settle
<1>6. CASE RefuseDelivery
  BY <1>2, <1>6 DEF RefuseDelivery
<1>7. CASE UNCHANGED live
  BY <1>1, <1>7 DEF live
<1> QED
  BY <1>1, <1>3, <1>4, <1>5, <1>6, <1>7 DEF Next, Goes, ReplayStart, ReplayRound, vars, live

\* No handler has settled when the first round begins.
LEMMA HandlersStart ==
  ASSUME Init
  PROVE  HandlersInv
<1>1. PICK o \in Outputs : out = o /\ results = Called(o, 0) /\ pc = Turn(o, 0)
  BY DEF Init
<1>2. performed = {} /\ sent = <<>>
  BY DEF Init
<1>3. /\ \A k \in DOMAIN results : results[k] \in {Waiting, Failed}
      /\ pc = "running" => DOMAIN results = DOMAIN out.pending /\ \A k \in DOMAIN results : results[k] # Failed
      /\ pc = "returned" => DOMAIN results = {}
  BY <1>1, Calls
<1>4. \A k \in DOMAIN results : results[k] \notin Results
  BY <1>3, SettledAssumption
<1> QED
  BY <1>2, <1>3, <1>4 DEF HandlersInv

\* A handler settles once: what it gives is the first of its place in the round.
LEMMA HandlersSettle ==
  ASSUME HandlersInv, Len(sent) \in Nat, NEW k \in DOMAIN results, NEW r \in Results, Settle(k, r)
  PROVE  HandlersInv'
<1> DEFINE N == Len(sent) + 1
           new == <<N, k, r>>
<1>1. /\ results[k] = Waiting /\ results' = [results EXCEPT ![k] = r]
      /\ performed' = performed \union {new}
      /\ UNCHANGED <<pc, out, sent>>
  BY DEF Settle
<1>2. r # Waiting /\ r # Failed /\ Waiting # Failed /\ Waiting \notin Results
  BY SettledAssumption
<1>3. DOMAIN results' = DOMAIN results /\ results'[k] = r /\ \A j \in DOMAIN results : j # k => results'[j] = results[j]
  BY <1>1
<1>4. ASSUME NEW e \in performed, e[1] = N PROVE e[2] # k
  BY <1>1, <1>2, <1>4 DEF HandlersInv
<1>5. new[1] = N /\ new[2] = k /\ new[3] = r /\ N \in 1 .. Len(sent) + 1
  OBVIOUS
<1> HIDE DEF new, N
<1>6. \A e \in performed' : e = <<e[1], e[2], e[3]>> /\ e[1] \in 1 .. Len(sent) + 1 /\ e[3] \in Results
  BY <1>1, <1>5 DEF HandlersInv, new
<1>7. \A e, f \in performed' : e[1] = f[1] /\ e[2] = f[2] => e = f
  BY <1>1, <1>4, <1>5 DEF HandlersInv
<1>8. \A e \in performed' : e[1] = N => e[2] \in DOMAIN results' /\ results'[e[2]] = e[3]
  BY <1>1, <1>3, <1>4, <1>5 DEF HandlersInv, N
<1>9. \A j \in DOMAIN results' : results'[j] \in Results => <<N, j, results'[j]>> \in performed'
  BY <1>1, <1>3, <1>5 DEF HandlersInv, new, N
<1>10. \A j \in DOMAIN results' : results'[j] \in Results \union {Waiting, Failed}
  BY <1>3 DEF HandlersInv
<1>11. pc' = "running" => DOMAIN results' = DOMAIN out'.pending /\ \A j \in DOMAIN results' : results'[j] # Failed
  BY <1>1, <1>2, <1>3 DEF HandlersInv
<1>12. pc' = "returned" => DOMAIN results' = {}
  BY <1>1, <1>3 DEF HandlersInv
<1> QED
  BY <1>1, <1>6, <1>7, <1>8, <1>9, <1>10, <1>11, <1>12 DEF HandlersInv, N

\* Handlers settle once each, in any order, also after the run threw for another.
LEMMA HandlersKept ==
  ASSUME VmInv, HandlersInv, [Next]_vars
  PROVE  HandlersInv'
<1>1. Len(sent) \in Nat
  BY LenProperties DEF VmInv
<1>2. ASSUME UNCHANGED <<pc, out, results, sent, performed>> PROVE HandlersInv'
  BY <1>2 DEF HandlersInv
<1>3. ASSUME NEW k \in DOMAIN results, Reject(k) PROVE HandlersInv'
  <2>1. results[k] = Waiting /\ results' = [results EXCEPT ![k] = Failed] /\ pc' = "threw" /\ UNCHANGED <<out, sent, performed>>
    BY <1>3 DEF Reject
  <2>2. DOMAIN results' = DOMAIN results /\ results'[k] = Failed /\ \A j \in DOMAIN results : j # k => results'[j] = results[j]
    BY <2>1
  <2>3. Waiting \notin Results /\ Failed \notin Results
    BY SettledAssumption
  <2>4. \A e \in performed' : e[1] = Len(sent') + 1 => e[2] \in DOMAIN results' /\ results'[e[2]] = e[3]
    <3> SUFFICES ASSUME NEW e \in performed, e[1] = Len(sent) + 1 PROVE e[2] \in DOMAIN results' /\ results'[e[2]] = e[3]
      BY <2>1
    <3>1. e[2] \in DOMAIN results /\ results[e[2]] = e[3] /\ e[3] \in Results
      BY DEF HandlersInv
    <3>2. e[2] # k
      BY <2>1, <2>3, <3>1
    <3> QED
      BY <2>2, <3>1, <3>2
  <2>5. \A j \in DOMAIN results' : results'[j] \in Results => <<Len(sent') + 1, j, results'[j]>> \in performed'
    BY <2>1, <2>2, <2>3 DEF HandlersInv
  <2>6. \A j \in DOMAIN results' : results'[j] \in Results \union {Waiting, Failed}
    BY <2>2 DEF HandlersInv
  <2> QED
    BY <2>1, <2>4, <2>5, <2>6 DEF HandlersInv
<1>4. ASSUME NEW k \in DOMAIN results, NEW r \in Results, Settle(k, r) PROVE HandlersInv'
  BY <1>1, <1>4, HandlersSettle
<1>5. CASE Resume
  <2>1. Len(sent') = Len(sent) + 1 /\ out' \in Outputs
    BY <1>5, ResumeAppends
  <2>2. results' = Called(out', Len(sent')) /\ pc' = Turn(out', Len(sent')) /\ performed' = performed
    BY <1>5 DEF Resume
  <2>3. /\ \A k \in DOMAIN results' : results'[k] \in {Waiting, Failed}
        /\ pc' = "running" => DOMAIN results' = DOMAIN out'.pending /\ \A k \in DOMAIN results' : results'[k] # Failed
        /\ pc' = "returned" => DOMAIN results' = {}
    BY <2>1, <2>2, Calls
  <2>4. \A k \in DOMAIN results' : results'[k] \notin Results
    BY <2>3, SettledAssumption
  <2>5. \A e \in performed' : e = <<e[1], e[2], e[3]>> /\ e[1] \in 1 .. Len(sent') + 1 /\ e[1] # Len(sent') + 1 /\ e[3] \in Results
    BY <1>1, <2>1, <2>2 DEF HandlersInv
  <2>6. \A e, f \in performed' : e[1] = f[1] /\ e[2] = f[2] => e = f
    BY <2>2 DEF HandlersInv
  <2> QED
    BY <2>3, <2>4, <2>5, <2>6 DEF HandlersInv
<1>6. CASE RefuseDelivery
  <2>1. pc' = "threw" /\ UNCHANGED <<out, results, sent, performed>>
    BY <1>6 DEF RefuseDelivery
  <2> QED
    BY <2>1 DEF HandlersInv
<1>7. CASE UNCHANGED live
  BY <1>2, <1>7 DEF live
<1> QED
  BY <1>2, <1>3, <1>4, <1>5, <1>6, <1>7 DEF Next, Goes, ReplayStart, ReplayRound, vars, live

---------------------------------------------------------------------------
(* The journal *)

\* Every round that was answered asked for something, and so did this one.
LEMMA RoundsTyped ==
  ASSUME VmInv
  PROVE  /\ Len(sent) \in Nat /\ DOMAIN sent = 1 .. Len(sent)
         /\ \A n \in 1 .. Len(sent) + 1 : OutOf(n) \in Outputs
         /\ OutOf(Len(sent) + 1) = out /\ out \in Outputs
         /\ \A n \in 1 .. Len(sent) : AskedIn(n) \in Seq(Asks) /\ AskedIn(n) # <<>>
<1>1. Len(sent) \in Nat /\ DOMAIN sent = 1 .. Len(sent)
  BY LenProperties DEF VmInv
<1>2. \A n \in 1 .. Len(sent) + 1 : OutOf(n) \in Outputs
  BY DEF VmInv, OutOf
<1>3. OutOf(Len(sent) + 1) = out
  <2>1. (Len(sent) + 1) - 1 = Len(sent) /\ SubSeq(sent, 1, Len(sent)) = sent
    BY <1>1, SubSeqFull DEF VmInv
  <2> QED
    BY <2>1 DEF OutOf, VmInv
<1>4. out \in Outputs
  BY <1>1, <1>2, <1>3
<1>5. ASSUME NEW n \in 1 .. Len(sent) PROVE AskedIn(n) \in Seq(Asks) /\ AskedIn(n) # <<>>
  <2>1. OutOf(n) \in Outputs /\ Verdict(OutOf(n), n - 1) = "running"
    BY <1>1, <1>2 DEF VmInv
  <2> QED
    BY <2>1, Verdicts DEF AskedIn
<1> QED
  BY <1>1, <1>2, <1>3, <1>4, <1>5

\* The requests of the first n rounds, and their places, one round after the other.
LEMMA UptoTyped ==
  ASSUME VmInv
  PROVE  /\ \A n \in 0 .. Len(sent) + 1 : Len(Upto(n)) \in Nat /\ Located(n) \in Seq(Nat \X Nat)
         /\ \A n \in 1 .. Len(sent) + 1 :
              /\ Len(Upto(n)) = Len(Upto(n - 1)) + Len(AskedIn(n))
              /\ Located(n) = Located(n - 1) \o PlacesIn(n) /\ PlacesIn(n) \in Seq(Nat \X Nat)
         /\ Places = Located(Len(sent))
<1> DEFINE rounds(n) == [m \in 1 .. n |-> AskedIn(m)]
           places(n) == [m \in 1 .. n |-> PlacesIn(m)]
           N == Len(sent)
           U == Nat \X Nat
<1>1. N \in Nat /\ DOMAIN sent = 1 .. N /\ \A n \in 1 .. N + 1 : OutOf(n) \in Outputs
  BY RoundsTyped
<1>2. ASSUME NEW n \in 1 .. N + 1 PROVE AskedIn(n) \in Seq(Sought) /\ PlacesIn(n) \in Seq(U)
  <2>1. OutOf(n) \in Outputs
    BY <1>1
  <2>2. /\ DOMAIN OutOf(n).pending = 1 .. Len(OutOf(n).pending) /\ Len(OutOf(n).pending) \in Nat
        /\ Pending(OutOf(n)) \in Seq(Sought)
    BY <2>1, Verdicts
  <2>3. PlacesIn(n) \in [1 .. Len(OutOf(n).pending) -> U]
    BY <1>1, <2>2 DEF PlacesIn
  <2>4. PlacesIn(n) \in Seq(U)
    BY <2>2, <2>3, FunctionIsSeq
  <2> QED
    BY <2>2, <2>4 DEF AskedIn
<1>3. ASSUME NEW n \in 0 .. N + 1
      PROVE  /\ rounds(n) \in Seq(Seq(Sought)) /\ Len(rounds(n)) = n /\ \A m \in 1 .. n : rounds(n)[m] = AskedIn(m)
             /\ places(n) \in Seq(Seq(U)) /\ Len(places(n)) = n /\ \A m \in 1 .. n : places(n)[m] = PlacesIn(m)
  <2>1. n \in Nat /\ \A m \in 1 .. n : AskedIn(m) \in Seq(Sought) /\ PlacesIn(m) \in Seq(U)
    BY <1>1, <1>2
  <2>2. rounds(n) \in [1 .. n -> Seq(Sought)]
    BY <2>1
  <2>3. places(n) \in [1 .. n -> Seq(U)]
    <3> HIDE DEF U
    <3> QED
      BY <2>1
  <2>4. rounds(n) \in Seq(Seq(Sought)) /\ places(n) \in Seq(Seq(U))
    BY <2>1, <2>2, <2>3, FunctionIsSeq
  <2>5. Len(rounds(n)) = n /\ Len(places(n)) = n
    BY <2>1
  <2> QED
    BY <2>4, <2>5
<1>4. \A n \in 0 .. N + 1 : Upto(n) = FlattenSeq(rounds(n)) /\ Located(n) = FlattenSeq(places(n))
  BY DEF Upto, Located
<1>5. ASSUME NEW n \in 0 .. N + 1 PROVE Upto(n) \in Seq(Sought) /\ Len(Upto(n)) \in Nat /\ Located(n) \in Seq(U)
  <2>1. rounds(n) \in Seq(Seq(Sought)) /\ places(n) \in Seq(Seq(U))
    BY <1>3
  <2>2. Upto(n) = FlattenSeq(rounds(n)) /\ Located(n) = FlattenSeq(places(n))
    BY <1>4
  <2> HIDE DEF rounds, places, U
  <2>3. Upto(n) \in Seq(Sought) /\ Located(n) \in Seq(U)
    BY <2>1, <2>2, FlattenIsSeq
  <2> QED
    BY <2>3, LenProperties
<1>6. ASSUME NEW n \in 1 .. N + 1
      PROVE  Len(Upto(n)) = Len(Upto(n - 1)) + Len(AskedIn(n)) /\ Located(n) = Located(n - 1) \o PlacesIn(n)
  <2>1. n - 1 \in 0 .. N + 1 /\ n \in 0 .. N + 1 /\ (n - 1) + 1 = n
    BY <1>1
  <2>2. /\ rounds(n) \in Seq(Seq(Sought)) /\ rounds(n - 1) \in Seq(Seq(Sought))
        /\ Len(rounds(n)) = Len(rounds(n - 1)) + 1 /\ Len(rounds(n - 1)) = n - 1
        /\ \A m \in 1 .. Len(rounds(n - 1)) : rounds(n)[m] = rounds(n - 1)[m]
        /\ rounds(n)[n] = AskedIn(n)
    BY <1>3, <2>1
  <2>3. /\ places(n) \in Seq(Seq(U)) /\ places(n - 1) \in Seq(Seq(U))
        /\ Len(places(n)) = Len(places(n - 1)) + 1 /\ Len(places(n - 1)) = n - 1
        /\ \A m \in 1 .. Len(places(n - 1)) : places(n)[m] = places(n - 1)[m]
        /\ places(n)[n] = PlacesIn(n)
    BY <1>3, <2>1
  <2>4. /\ Upto(n) = FlattenSeq(rounds(n)) /\ Upto(n - 1) = FlattenSeq(rounds(n - 1))
        /\ Located(n) = FlattenSeq(places(n)) /\ Located(n - 1) = FlattenSeq(places(n - 1))
    BY <1>4, <2>1
  <2> HIDE DEF rounds, places, U
  <2>5. FlattenSeq(rounds(n)) = FlattenSeq(rounds(n - 1)) \o rounds(n)[Len(rounds(n - 1)) + 1]
    BY <2>2, FlattenGrows
  <2>6. FlattenSeq(places(n)) = FlattenSeq(places(n - 1)) \o places(n)[Len(places(n - 1)) + 1]
    BY <2>3, FlattenGrows
  <2>7. Upto(n) = Upto(n - 1) \o AskedIn(n)
    BY <2>1, <2>2, <2>4, <2>5
  <2>8. Located(n) = Located(n - 1) \o PlacesIn(n)
    BY <2>1, <2>3, <2>4, <2>6
  <2>9. Upto(n - 1) \in Seq(Sought) /\ AskedIn(n) \in Seq(Sought)
    BY <1>2, <1>5, <2>1
  <2> QED
    BY <2>7, <2>8, <2>9, ConcatProperties
<1>7. Places = Located(N)
  <2> DEFINE all == [n \in DOMAIN sent |-> [k \in DOMAIN answers[SubSeq(sent, 1, n - 1)].pending |-> <<n, k>>]]
  <2>1. all = places(N)
    BY <1>1 DEF PlacesIn, OutOf
  <2>2. Places = FlattenSeq(all)
    BY DEF Places
  <2>3. Located(N) = FlattenSeq(places(N))
    BY DEF Located
  <2> HIDE DEF all, places
  <2> QED
    BY <2>1, <2>2, <2>3
<1> QED
  BY <1>2, <1>5, <1>6, <1>7

\* The journal starts empty, and so do the requests answered.
LEMMA JournalStart ==
  ASSUME Init
  PROVE  JournalInv
<1>1. sent = <<>> /\ jrnl = <<>> /\ Len(sent) = 0 /\ DOMAIN sent = {} /\ DOMAIN jrnl = {}
  BY DEF Init
<1>2. Upto(0) = <<>>
  <2>1. [m \in 1 .. 0 |-> AskedIn(m)] = <<>>
    OBVIOUS
  <2> QED
    BY <2>1, FlattenEmpty DEF Upto
<1>3. Places = <<>>
  <2> DEFINE places == [n \in DOMAIN sent |-> [k \in DOMAIN answers[SubSeq(sent, 1, n - 1)].pending |-> <<n, k>>]]
  <2>1. places = <<>>
    BY <1>1
  <2> HIDE DEF places
  <2>2. FlattenSeq(places) = <<>>
    BY <2>1, FlattenEmpty
  <2> QED
    BY <2>2 DEF Places, places
<1>4. jrnl \in Seq(Logs)
  BY <1>1, EmptySeq
<1> QED
  BY <1>1, <1>2, <1>3, <1>4 DEF JournalInv

\* The entries of a round whose handlers have all settled are in the order of its requests.
LEMMA RoundLogged ==
  ASSUME VmInv, HandlersInv, AllSettled
  PROVE  /\ Pending(out) \in Seq(Asks) /\ Pending(out) # <<>>
         /\ DOMAIN results = 1 .. Len(Pending(out)) /\ DOMAIN out.pending = 1 .. Len(Pending(out))
         /\ \A k \in DOMAIN results : results[k] \in Results /\ <<Len(sent) + 1, k, results[k]>> \in performed
         /\ Entries \in Seq(Logs) /\ Len(Entries) = Len(Pending(out))
         /\ \A k \in DOMAIN results : Entries[k] = Entry(Pending(out)[k], jsToValue[results[k]])
<1>1. pc = "running" /\ \A k \in DOMAIN results : results[k] # Waiting
  BY DEF AllSettled
<1>2. out \in Outputs /\ Verdict(out, Len(sent)) = "running"
  BY <1>1, RoundsTyped DEF VmInv
<1>3. /\ Pending(out) \in Seq(Asks) /\ Pending(out) # <<>>
      /\ DOMAIN Pending(out) = DOMAIN out.pending
  BY <1>2, Verdicts
<1>4. DOMAIN Pending(out) = 1 .. Len(Pending(out)) /\ Len(Pending(out)) \in Nat
  BY <1>3, LenProperties
<1>5. DOMAIN results = 1 .. Len(Pending(out))
  BY <1>1, <1>3, <1>4 DEF HandlersInv
<1>6. \A k \in DOMAIN results : results[k] \in Results /\ <<Len(sent) + 1, k, results[k]>> \in performed
  BY <1>1 DEF HandlersInv
<1>7. Entries = [k \in DOMAIN results |-> Entry(Pending(out)[k], jsToValue[results[k]])]
  BY DEF Entries
<1>8. ASSUME NEW k \in 1 .. Len(Pending(out)) PROVE Entries[k] \in Logs
  <2>1. Pending(out)[k] \in Asks
    BY <1>3, ElementOfSeq
  <2>2. jsToValue[results[k]] \in Value
    BY <1>5, <1>6, ResultsAssumption DEF Value
  <2> QED
    BY <1>5, <1>7, <2>1, <2>2 DEF Logs
<1>9. Entries \in [1 .. Len(Pending(out)) -> Logs]
  BY <1>5, <1>7, <1>8
<1>10. Entries \in Seq(Logs)
  BY <1>4, <1>9, FunctionIsSeq
<1>11. Len(Entries) = Len(Pending(out))
  BY <1>4, <1>9, <1>10, LenProperties
<1> QED
  BY <1>3, <1>4, <1>5, <1>6, <1>7, <1>10, <1>11

\* What one more round does to the requests and their places.
LEMMA RoundPlaced ==
  ASSUME VmInv, HandlersInv, Resume
  PROVE  /\ \A n \in 0 .. Len(sent) + 1 : Upto(n)' = Upto(n)
         /\ \A n \in 1 .. Len(sent) + 1 : AskedIn(n)' = AskedIn(n)
         /\ AskedIn(Len(sent) + 1) = Pending(out)
         /\ Len(Upto(Len(sent) + 1)) = Len(Upto(Len(sent))) + Len(Pending(out))
         /\ Places' = Places \o [k \in DOMAIN out.pending |-> <<Len(sent) + 1, k>>]
         /\ [k \in DOMAIN out.pending |-> <<Len(sent) + 1, k>>] \in Seq(Nat \X Nat)
<1> DEFINE N == Len(sent)
<1>1. /\ N \in Nat /\ Len(sent') = N + 1
      /\ \A n \in 1 .. N + 1 : OutOf(n)' = OutOf(n) /\ SubSeq(sent', 1, n - 1) = SubSeq(sent, 1, n - 1)
      /\ sent' \in Seq(ToSet(sent'))
      /\ OutOf(N + 1) = out
  BY ResumeAppends
<1>2. \A n \in 1 .. N + 1 : AskedIn(n)' = AskedIn(n) /\ PlacesIn(n)' = PlacesIn(n)
  BY <1>1 DEF AskedIn, PlacesIn
<1>3. AskedIn(N + 1) = Pending(out) /\ PlacesIn(N + 1) = [k \in DOMAIN out.pending |-> <<N + 1, k>>]
  BY <1>1 DEF AskedIn, PlacesIn
<1>4. ASSUME NEW n \in 0 .. N + 1 PROVE Upto(n)' = Upto(n)
  <2>1. \A m \in 1 .. n : AskedIn(m)' = AskedIn(m)
    BY <1>1, <1>2
  <2>2. [m \in 1 .. n |-> AskedIn(m)'] = [m \in 1 .. n |-> AskedIn(m)]
    BY <2>1
  <2> QED
    BY <2>2 DEF Upto
<1>5. Places' = Located(N + 1)
  <2> DEFINE all == [n \in DOMAIN sent' |-> [k \in DOMAIN answers'[SubSeq(sent', 1, n - 1)].pending |-> <<n, k>>]]
  <2>1. DOMAIN sent' = 1 .. N + 1
    BY <1>1, LenProperties
  <2>2. \A n \in 1 .. N + 1 : [k \in DOMAIN answers'[SubSeq(sent', 1, n - 1)].pending |-> <<n, k>>] = PlacesIn(n)
    BY <1>1 DEF PlacesIn, OutOf
  <2>3. all = [m \in 1 .. N + 1 |-> PlacesIn(m)]
    BY <2>1, <2>2
  <2>4. Places' = FlattenSeq(all)
    BY DEF Places
  <2> HIDE DEF all
  <2> QED
    BY <2>3, <2>4 DEF Located
<1>6. N + 1 \in 1 .. N + 1 /\ (N + 1) - 1 = N /\ N + 1 \in 0 .. N + 1
  BY <1>1
<1>7. /\ Len(Upto(N + 1)) = Len(Upto(N)) + Len(AskedIn(N + 1))
      /\ Located(N + 1) = Located(N) \o PlacesIn(N + 1) /\ PlacesIn(N + 1) \in Seq(Nat \X Nat)
      /\ Places = Located(N)
  BY <1>6, UptoTyped
<1> QED
  BY <1>2, <1>3, <1>4, <1>5, <1>7

\* A resume logs its round after the others, whatever the order its handlers settled in.
LEMMA JournalResumes ==
  ASSUME VmInv, HandlersInv, JournalInv, Resume
  PROVE  JournalInv'
<1> DEFINE N == Len(sent)
           P == Pending(out)
           new == [k \in DOMAIN out.pending |-> <<N + 1, k>>]
<1>1. AllSettled /\ pc = "running" /\ jrnl' = jrnl \o Entries /\ performed' = performed
      /\ \A k \in DOMAIN results : ~Contains(Batches[k], Invalid)
  BY DEF Resume, AllSettled
<1>2. /\ P \in Seq(Asks) /\ DOMAIN results = 1 .. Len(P) /\ DOMAIN out.pending = 1 .. Len(P)
      /\ \A k \in DOMAIN results : results[k] \in Results /\ <<N + 1, k, results[k]>> \in performed
      /\ Entries \in Seq(Logs) /\ Len(Entries) = Len(P)
      /\ \A k \in DOMAIN results : Entries[k] = Entry(P[k], jsToValue[results[k]])
  BY <1>1, RoundLogged
<1>3. /\ N \in Nat /\ Len(sent') = N + 1
      /\ \A n \in 1 .. N : sent'[n] = sent[n]
      /\ sent'[N + 1] = FlattenSeq(Batches)
  BY ResumeAppends
<1>4. /\ \A n \in 0 .. N + 1 : Upto(n)' = Upto(n)
      /\ \A n \in 1 .. N + 1 : AskedIn(n)' = AskedIn(n)
      /\ AskedIn(N + 1) = P
      /\ Len(Upto(N + 1)) = Len(Upto(N)) + Len(P)
      /\ Places' = Places \o new /\ new \in Seq(Nat \X Nat)
  BY RoundPlaced
<1>5. /\ jrnl \in Seq(Logs) /\ Len(jrnl) = Len(Upto(N)) /\ Len(jrnl) = Len(Places)
      /\ \A n \in 1 .. N : \E rs \in [DOMAIN AskedIn(n) -> Results] : Logged(n, rs)
      /\ \A i \in DOMAIN jrnl :
           \E n \in 1 .. N : \E k \in DOMAIN AskedIn(n) : i = Len(Upto(n - 1)) + k /\ Places[i] = <<n, k>>
  BY <1>1 DEF JournalInv
<1>6. Places \in Seq(Nat \X Nat)
  <2>1. N \in 0 .. N + 1
    BY <1>3
  <2> QED
    BY <2>1, UptoTyped
<1>7. Len(new) = Len(P) /\ \A k \in 1 .. Len(P) : new[k] = <<N + 1, k>>
  BY <1>2
<1>8. Len(P) \in Nat /\ DOMAIN P = 1 .. Len(P) /\ Len(jrnl) \in Nat /\ DOMAIN jrnl = 1 .. Len(jrnl)
  BY <1>2, <1>5, LenProperties
<1> HIDE DEF P, new
<1>9. /\ jrnl' \in Seq(Logs) /\ Len(jrnl') = Len(jrnl) + Len(P) /\ DOMAIN jrnl' = 1 .. Len(jrnl) + Len(P)
      /\ \A i \in 1 .. Len(jrnl) : jrnl'[i] = jrnl[i]
      /\ \A k \in 1 .. Len(P) : jrnl'[Len(jrnl) + k] = Entries[k]
  <2>1. jrnl \in Seq(Logs) /\ Entries \in Seq(Logs) /\ jrnl' = jrnl \o Entries /\ Len(Entries) = Len(P)
    BY <1>1, <1>2, <1>5
  <2>2. /\ jrnl \o Entries \in Seq(Logs) /\ Len(jrnl \o Entries) = Len(jrnl) + Len(Entries)
        /\ DOMAIN (jrnl \o Entries) = 1 .. Len(jrnl) + Len(Entries)
        /\ \A i \in 1 .. Len(jrnl) : (jrnl \o Entries)[i] = jrnl[i]
        /\ \A k \in 1 .. Len(Entries) : (jrnl \o Entries)[Len(jrnl) + k] = Entries[k]
    <3>1. jrnl \in Seq(Logs) /\ Entries \in Seq(Logs)
      BY <2>1
    <3> HIDE DEF N
    <3> QED
      BY <3>1, Concatenation
  <2> HIDE DEF Entries, Logs
  <2> QED
    BY <2>1, <2>2
<1>10. /\ Len(Places') = Len(jrnl) + Len(P)
       /\ \A i \in 1 .. Len(jrnl) : Places'[i] = Places[i]
       /\ \A k \in 1 .. Len(P) : Places'[Len(jrnl) + k] = <<N + 1, k>>
  <2>1. /\ Places' = Places \o new /\ new \in Seq(Nat \X Nat) /\ Places \in Seq(Nat \X Nat)
        /\ Len(Places) = Len(jrnl) /\ Len(new) = Len(P)
    BY <1>4, <1>5, <1>6, <1>7
  <2> DEFINE U == Nat \X Nat
  <2> HIDE DEF U
  <2>2. Places \in Seq(U) /\ new \in Seq(U)
    BY <2>1 DEF U
  <2>3. /\ Len(Places \o new) = Len(Places) + Len(new)
        /\ \A i \in 1 .. Len(Places) : (Places \o new)[i] = Places[i]
        /\ \A k \in 1 .. Len(new) : (Places \o new)[Len(Places) + k] = new[k]
    BY <2>2, Concatenation
  <2> HIDE DEF Places
  <2> QED
    BY <1>7, <2>1, <2>3
<1>11. N \in 0 .. N + 1 /\ N + 1 \in 0 .. N + 1 /\ N + 1 \in 1 .. N + 1 /\ (N + 1) - 1 = N
  BY <1>3
<1>12. Len(jrnl') = Len(Upto(N + 1))
  BY <1>4, <1>5, <1>9
<1>13. ASSUME NEW n \in 1 .. N PROVE \E rs \in [DOMAIN AskedIn(n)' -> Results] : Logged(n, rs)'
  <2>1. PICK rs \in [DOMAIN AskedIn(n) -> Results] : Logged(n, rs)
    BY <1>5
  <2>2. AskedIn(n)' = AskedIn(n) /\ Upto(n - 1)' = Upto(n - 1) /\ sent'[n] = sent[n]
    BY <1>3, <1>4
  <2>3. sent'[n] = FlattenSeq([k \in DOMAIN rs |-> Delivered(AskedIn(n)[k], rs[k])])
    BY <2>1, <2>2, Zenon DEF Logged
  <2>4. ASSUME NEW k \in DOMAIN rs
        PROVE  /\ <<n, k, rs[k]>> \in performed
               /\ ~Contains(Delivered(AskedIn(n)[k], rs[k]), Invalid)
               /\ Len(Upto(n - 1)) + k \in DOMAIN jrnl'
               /\ jrnl'[Len(Upto(n - 1)) + k] = Entry(AskedIn(n)[k], jsToValue[rs[k]])
    <3>1. /\ <<n, k, rs[k]>> \in performed
          /\ ~Contains(Delivered(AskedIn(n)[k], rs[k]), Invalid)
          /\ Len(Upto(n - 1)) + k \in DOMAIN jrnl
          /\ jrnl[Len(Upto(n - 1)) + k] = Entry(AskedIn(n)[k], jsToValue[rs[k]])
      BY <2>1, Zenon DEF Logged
    <3> DEFINE i == Len(Upto(n - 1)) + k
    <3>2. i \in 1 .. Len(jrnl)
      BY <1>8, <3>1
    <3> HIDE DEF i
    <3>3. i \in DOMAIN jrnl' /\ jrnl'[i] = jrnl[i]
      BY <1>8, <1>9, <3>2
    <3> QED
      BY <3>1, <3>3 DEF i
  <2>5. Logged(n, rs)'
    BY <1>1, <2>2, <2>3, <2>4, Zenon DEF Logged
  <2> QED
    BY <2>1, <2>2, <2>5
<1>14. ASSUME NEW n, n = N + 1 PROVE \E rs \in [DOMAIN AskedIn(n)' -> Results] : Logged(n, rs)'
  <2> PICK rs : rs = [k \in DOMAIN results |-> results[k]]
    OBVIOUS
  <2>1. AskedIn(n)' = P /\ Upto(n - 1)' = Upto(N) /\ AskedIn(n) = P
    BY <1>4, <1>11, <1>14
  <2>2. rs \in [DOMAIN P -> Results] /\ DOMAIN rs = DOMAIN results
    BY <1>2, <1>8
  <2>3. sent'[n] = FlattenSeq([k \in DOMAIN rs |-> Delivered(P[k], rs[k])])
    <3>1. Batches = [k \in DOMAIN rs |-> Delivered(P[k], rs[k])]
      BY DEF Batches, P
    <3> QED
      BY <1>3, <1>14, <3>1
  <2>4. ASSUME NEW k \in DOMAIN rs
        PROVE  /\ <<n, k, rs[k]>> \in performed
               /\ ~Contains(Delivered(P[k], rs[k]), Invalid)
               /\ Len(Upto(N)) + k \in DOMAIN jrnl'
               /\ jrnl'[Len(Upto(N)) + k] = Entry(P[k], jsToValue[rs[k]])
    <3>1. k \in 1 .. Len(P) /\ rs[k] = results[k]
      BY <1>2, <2>2
    <3>2. <<n, k, rs[k]>> \in performed
      BY <1>2, <1>14, <3>1
    <3>3. Batches[k] = Delivered(P[k], rs[k])
      BY <1>2, <3>1 DEF Batches, P
    <3>4. ~Contains(Delivered(P[k], rs[k]), Invalid)
      BY <1>1, <1>2, <3>1, <3>3
    <3>5. Len(jrnl) + k \in DOMAIN jrnl' /\ jrnl'[Len(jrnl) + k] = Entries[k] /\ Entries[k] = Entry(P[k], jsToValue[rs[k]])
      BY <1>2, <1>8, <1>9, <3>1
    <3> QED
      BY <1>5, <3>2, <3>4, <3>5
  <2>5. Logged(n, rs)'
    BY <1>1, <2>1, <2>3, <2>4, Zenon DEF Logged
  <2> QED
    BY <2>1, <2>2, <2>5
<1>15. ASSUME NEW i \in DOMAIN jrnl'
       PROVE  \E n \in 1 .. N + 1 : \E k \in DOMAIN AskedIn(n)' : i = Len(Upto(n - 1)') + k /\ Places'[i] = <<n, k>>
  <2>1. CASE i \in 1 .. Len(jrnl)
    <3>1. PICK n \in 1 .. N : \E k \in DOMAIN AskedIn(n) : i = Len(Upto(n - 1)) + k /\ Places[i] = <<n, k>>
      BY <1>5, <1>8, <2>1
    <3>2. AskedIn(n)' = AskedIn(n) /\ Upto(n - 1)' = Upto(n - 1) /\ n \in 1 .. N + 1 /\ Places'[i] = Places[i]
      BY <1>3, <1>4, <1>10, <2>1
    <3> QED
      BY <3>1, <3>2
  <2>2. CASE i \notin 1 .. Len(jrnl)
    <3>1. PICK k \in 1 .. Len(P) : i = Len(jrnl) + k
      <4>1. i - Len(jrnl) \in 1 .. Len(P) /\ i = Len(jrnl) + (i - Len(jrnl))
        BY <1>8, <1>9, <2>2
      <4> QED
        BY <4>1
    <3>2. PICK n : n = N + 1
      OBVIOUS
    <3>3. AskedIn(n)' = P /\ Upto(n - 1)' = Upto(N) /\ n \in 1 .. N + 1
      BY <1>4, <1>11, <3>2
    <3>4. k \in DOMAIN AskedIn(n)' /\ i = Len(Upto(n - 1)') + k /\ Places'[i] = <<n, k>>
      BY <1>5, <1>8, <1>10, <3>1, <3>2, <3>3
    <3> QED
      BY <3>3, <3>4
  <2> QED
    BY <2>1, <2>2
<1>16. ASSUME NEW n \in 1 .. Len(sent') PROVE \E rs \in [DOMAIN AskedIn(n)' -> Results] : Logged(n, rs)'
  <2>1. n \in 1 .. N \/ n = N + 1
    BY <1>3
  <2> QED
    BY <1>13, <1>14, <2>1
<1>17. PICK M : M = N + 1 /\ Len(sent') = M
  BY <1>3
<1>18. Upto(Len(sent))' = Upto(N + 1)
  <2>1. Upto(M)' = Upto(M)
    BY <1>4, <1>11, <1>17
  <2> QED
    BY <1>17, <2>1
<1>19. Len(jrnl') = Len(Upto(Len(sent))') /\ Len(jrnl') = Len(Places')
  BY <1>9, <1>10, <1>12, <1>18
<1> QED
  BY <1>3, <1>9, <1>15, <1>16, <1>19 DEF JournalInv

\* Only a resume writes to the journal of a run that goes on.
LEMMA JournalKept ==
  ASSUME VmInv, HandlersInv, JournalInv, [Next]_vars
  PROVE  JournalInv'
<1>1. ASSUME UNCHANGED <<answers, sent, jrnl, pc>>, performed \subseteq performed' PROVE JournalInv'
  <2> SUFFICES ASSUME pc # "threw" PROVE JournalInv'
    BY <1>1 DEF JournalInv
  <2>1. /\ \A n : AskedIn(n)' = AskedIn(n)
        /\ \A n : Upto(n)' = Upto(n)
        /\ Places' = Places
    BY <1>1 DEF AskedIn, OutOf, Upto, Places
  <2>2. ASSUME NEW n \in 1 .. Len(sent) PROVE \E rs \in [DOMAIN AskedIn(n) -> Results] : Logged(n, rs)'
    <3>1. PICK rs \in [DOMAIN AskedIn(n) -> Results] : Logged(n, rs)
      BY DEF JournalInv
    <3>2. Logged(n, rs)'
      BY <1>1, <2>1, <3>1 DEF Logged
    <3> QED
      BY <3>2
  <2> QED
    BY <1>1, <2>1, <2>2 DEF JournalInv
<1>2. ASSUME pc' = "threw" PROVE JournalInv'
  BY <1>2 DEF JournalInv
<1>3. ASSUME NEW k \in DOMAIN results, Reject(k) PROVE JournalInv'
  BY <1>2, <1>3 DEF Reject
<1>4. ASSUME NEW k \in DOMAIN results, NEW r \in Results, Settle(k, r) PROVE JournalInv'
  BY <1>1, <1>4 DEF Settle
<1>5. CASE Resume
  BY <1>5, JournalResumes
<1>6. CASE RefuseDelivery
  BY <1>2, <1>6 DEF RefuseDelivery
<1>7. CASE UNCHANGED live
  BY <1>1, <1>7 DEF live
<1> QED
  BY <1>3, <1>4, <1>5, <1>6, <1>7 DEF Next, Goes, ReplayStart, ReplayRound, vars, live

\* What the journal holds is what the handlers did: JournalInv says where each
\* entry comes from, HandlersInv that a place settles once.
LEMMA JournalIsWhatHappened ==
  ASSUME VmInv, HandlersInv, JournalInv
  PROVE  JournalInOrder
<1> SUFFICES ASSUME pc # "threw" PROVE JournalInOrder
  BY DEF JournalInOrder
<1>1. ASSUME NEW i \in DOMAIN jrnl
      PROVE  LET given == {e \in performed : <<e[1], e[2]>> = Places[i]}
             IN  Cardinality(given) = 1 /\ \A e \in given : jrnl[i] = Entry(Asked(Places[i]), jsToValue[e[3]])
  <2>1. PICK n \in 1 .. Len(sent) : \E k \in DOMAIN AskedIn(n) : i = Len(Upto(n - 1)) + k /\ Places[i] = <<n, k>>
    BY DEF JournalInv
  <2>2. PICK k \in DOMAIN AskedIn(n) : i = Len(Upto(n - 1)) + k /\ Places[i] = <<n, k>>
    BY <2>1
  <2>3. PICK rs \in [DOMAIN AskedIn(n) -> Results] : Logged(n, rs)
    BY DEF JournalInv
  <2>4. k \in DOMAIN rs
    BY <2>3
  <2>5. <<n, k, rs[k]>> \in performed /\ jrnl[i] = Entry(AskedIn(n)[k], jsToValue[rs[k]])
    BY <2>2, <2>3, <2>4, Zenon DEF Logged
  <2> DEFINE given == {e \in performed : <<e[1], e[2]>> = Places[i]}
             only == <<n, k, rs[k]>>
  <2>6. only[1] = n /\ only[2] = k /\ only[3] = rs[k]
    OBVIOUS
  <2> HIDE DEF only
  <2>7. only \in given
    BY <2>2, <2>5, <2>6 DEF only
  <2>8. ASSUME NEW e \in given PROVE e = only
    <3>1. e[1] = n /\ e[2] = k /\ e \in performed
      BY <2>2
    <3> QED
      BY <2>5, <2>6, <3>1 DEF HandlersInv, only
  <2>9. given = {only}
    BY <2>7, <2>8
  <2>10. Cardinality(given) = 1
    BY <2>9, FS_Singleton
  <2>11. Asked(Places[i]) = AskedIn(n)[k]
    BY <2>2 DEF Asked, AskedIn, OutOf
  <2>12. \A e \in given : jrnl[i] = Entry(Asked(Places[i]), jsToValue[e[3]])
    BY <2>5, <2>6, <2>9, <2>11
  <2> QED
    BY <2>10, <2>12
<1> QED
  BY <1>1 DEF JournalInOrder, JournalInv

---------------------------------------------------------------------------
(* Replays *)

\* An entry fits the request it was recorded for, with its kind or without, and a
\* request it fits is the one it was recorded for: the checks of runReplay.
LEMMA EntriesFit ==
  ASSUME NEW p, WellFormed(p), NEW q, WellFormed(q), NEW v, NEW e, Recorded(e, Entry(q, v))
  PROVE  /\ e.result = v
         /\ Fits(e, q)
         /\ Fits(e, p) => Entry(p, v) = Entry(q, v)
<1> DEFINE j == Entry(q, v)
<1>1. j.kind = q.kind /\ j.pid = q.pid /\ j.key = q.key /\ j.type_ = q.type_ /\ j.result = v
  BY DEF Entry
<1>2. e.pid = q.pid /\ e.key = q.key /\ e.type_ = q.type_ /\ e.result = v /\ e.kind \in {q.kind, Nothing}
  BY DEF Recorded, Entry
<1>3. q.kind \in {"await_reply", "transport"} /\ (q.kind = "transport" <=> q.key = Nothing) /\ q.kind # Nothing
  BY NothingAssumption DEF WellFormed
<1>4. EntryKind(e) = q.kind
  BY <1>2, <1>3 DEF EntryKind
<1>5. Fits(e, q)
  BY <1>2, <1>3, <1>4 DEF Fits
<1>6. ASSUME Fits(e, p) PROVE Entry(p, v) = Entry(q, v)
  <2>1. q.pid = p.pid /\ q.type_ = p.type_ /\ q.kind = p.kind /\ q.key = IF p.kind = "await_reply" THEN p.key ELSE Nothing
    BY <1>2, <1>4, <1>6 DEF Fits
  <2>2. q.key = p.key
    BY <1>3, <2>1 DEF WellFormed
  <2> QED
    BY <2>1, <2>2 DEF Entry
<1> QED
  BY <1>2, <1>5, <1>6

\* What the VM asks for in this round of the replay, and what it is given.
Pend == Pending(Last(replay.outs))
Batch == FlattenSeq([k \in DOMAIN Pend |-> Replayed(Pend[k], replay.journal[replay.taken + k].result)])

\* A round of a replay that does not throw appends to what it saw.
LEMMA RoundReplayed ==
  ASSUME ReplayInv, ReplayRound, ~ReplayThrows(Pend)
  PROVE  /\ replay'.journal = replay.journal /\ replay'.same = replay.same
         /\ DOMAIN replay' = DOMAIN replay
         /\ replay'.sent = Append(replay.sent, Batch)
         /\ replay'.taken = replay.taken + Len(Pend)
         /\ \E o \in PutsOut(replay.same, Append(replay.sent, Batch)) :
              replay'.outs = Append(replay.outs, o) /\ replay'.pc = Verdict(o, Len(Append(replay.sent, Batch)))
<1> DEFINE history == Append(replay.sent, Batch)
<1>1. PICK o \in PutsOut(replay.same, history) :
        replay' = [replay EXCEPT !.pc = Verdict(o, Len(history)), !.outs = Append(@, o),
                                 !.sent = history, !.taken = @ + Len(Pend)]
  BY DEF ReplayRound, Pend, Batch
<1>2. DOMAIN replay = {"journal", "same", "pc", "outs", "sent", "taken"}
  BY DEF ReplayInv, ReplayRound
<1> HIDE DEF history
<1>3. /\ replay'.journal = replay.journal /\ replay'.same = replay.same
      /\ DOMAIN replay' = DOMAIN replay
      /\ replay'.sent = history
      /\ replay'.taken = replay.taken + Len(Pend)
      /\ replay'.outs = Append(replay.outs, o) /\ replay'.pc = Verdict(o, Len(history))
  BY <1>1, <1>2
<1> QED
  BY <1>3 DEF history

\* The requests of one more round come after those of the rounds before it.
LEMMA RoundAsked ==
  ASSUME VmInv, ReplayInv, ReplayRound, ~ReplayThrows(Pend)
  PROVE  /\ Pend \in Seq(Asks) /\ Pend # <<>>
         /\ replay'.outs \in Seq(Outputs) /\ Len(replay'.outs) = Len(replay.outs) + 1
         /\ \A n \in 1 .. Len(replay.outs) : replay'.outs[n] = replay.outs[n]
         /\ replay'.sent \in Seq(ToSet(replay'.sent)) /\ Len(replay'.sent) = Len(replay.sent) + 1
         /\ replay'.pc \in {"running", "returned", "threw"}
         /\ Verdict(Last(replay'.outs), Len(replay'.sent)) = replay'.pc
         /\ \A n \in 1 .. Len(replay'.sent) : Pending(replay'.outs[n]) \in Seq(Asks)
         /\ ReplayAsked \in Seq(Asks) /\ ReplayAsked' = ReplayAsked \o Pend
<1> DEFINE S == replay.sent
           O == replay.outs
           M == Len(replay.sent)
<1>1. /\ replay # Nothing /\ replay.pc = "running"
      /\ S \in Seq(ToSet(S)) /\ O \in Seq(Outputs) /\ Len(O) = M + 1
      /\ Verdict(Last(O), M) = "running"
      /\ \A n \in 1 .. M : Pending(O[n]) \in Seq(Asks)
  BY DEF ReplayInv, ReplayRound
<1>2. M \in Nat /\ DOMAIN S = 1 .. M /\ DOMAIN O = 1 .. M + 1
  BY <1>1, LenProperties
<1>3. PICK o \in Outputs :
        /\ replay'.outs = Append(O, o) /\ replay'.sent = Append(S, Batch)
        /\ replay'.pc = Verdict(o, Len(replay'.sent))
  <2>1. \A h : PutsOut(replay.same, h) \subseteq Outputs
    BY DEF PutsOut, VmInv
  <2> QED
    BY <2>1, RoundReplayed
<1> DEFINE O1 == replay'.outs
           S1 == replay'.sent
<1>4. O1 \in Seq(Outputs) /\ Len(O1) = M + 2 /\ (\A n \in 1 .. M + 1 : O1[n] = O[n]) /\ O1[M + 2] = o
  BY <1>1, <1>2, <1>3, AppendProperties
<1>5. S1 \in Seq(ToSet(S1)) /\ Len(S1) = M + 1
  BY <1>1, <1>3, HistoryGrows
<1>6. DOMAIN S1 = 1 .. M + 1
  BY <1>2, <1>5, LenProperties
<1>7. Last(O) = O[M + 1] /\ O[M + 1] \in Outputs /\ Last(O1) = o
  BY <1>1, <1>2, <1>3, <1>4 DEF Last
<1>8. Pend \in Seq(Asks) /\ Pend # <<>> /\ Pend = Pending(O[M + 1])
  BY <1>1, <1>7, Verdicts DEF Pend
<1>9. replay'.pc \in {"running", "returned", "threw"} /\ Verdict(Last(O1), Len(S1)) = replay'.pc
  BY <1>3, <1>7, Verdicts
<1> HIDE DEF S, O, M, O1, S1
<1>10. ASSUME NEW n \in 1 .. M + 1 PROVE Pending(O1[n]) \in Seq(Asks)
  <2>1. O1[n] = O[n]
    BY <1>4
  <2>2. n \in 1 .. M \/ n = M + 1
    BY <1>2
  <2> QED
    BY <1>1, <1>8, <2>1, <2>2
<1> DEFINE g == [n \in DOMAIN S |-> Pending(O[n])]
           f == [n \in DOMAIN S1 |-> Pending(O1[n])]
           U == Seq(Asks)
<1>11. ReplayAsked = FlattenSeq(g)
  BY DEF ReplayAsked, S, O
<1>12. ReplayAsked' = FlattenSeq(f)
  BY DEF ReplayAsked, S1, O1
<1>13. g \in Seq(U) /\ Len(g) = M
  <2>1. g \in [1 .. M -> U]
    BY <1>1, <1>2
  <2>2. g \in Seq(U)
    BY <1>2, <2>1, FunctionIsSeq
  <2> QED
    BY <1>2, <2>1, <2>2, LenProperties
<1>14. f \in Seq(U) /\ Len(f) = M + 1
  <2>1. f \in [1 .. M + 1 -> U]
    BY <1>6, <1>10
  <2>2. f \in Seq(U)
    BY <1>2, <2>1, FunctionIsSeq
  <2> QED
    BY <1>2, <2>1, <2>2, LenProperties
<1>15. f[M + 1] = Pend /\ \A n \in 1 .. M : f[n] = g[n]
  BY <1>2, <1>4, <1>6, <1>8
<1> HIDE DEF f, g
<1>16. FlattenSeq(f) = FlattenSeq(g) \o f[Len(g) + 1] /\ FlattenSeq(g) \in Seq(Asks)
  <2>1. f \in Seq(Seq(Asks)) /\ g \in Seq(Seq(Asks)) /\ Len(f) = Len(g) + 1 /\ \A n \in 1 .. Len(g) : f[n] = g[n]
    BY <1>13, <1>14, <1>15
  <2> QED
    BY <2>1, FlattenGrows, FlattenIsSeq
<1>17. ReplayAsked \in Seq(Asks) /\ ReplayAsked' = ReplayAsked \o Pend
  BY <1>11, <1>12, <1>13, <1>15, <1>16
<1> QED
  BY <1>1, <1>2, <1>4, <1>5, <1>8, <1>9, <1>10, <1>17 DEF S, O, M, O1, S1

\* A replay that has just begun has read nothing of its journal yet.
LEMMA ReplayBegins ==
  ASSUME VmInv, JournalInv, NEW n \in 0 .. Len(jrnl), NEW withKind, NEW same \in BOOLEAN, ReplayStart(n, withKind, same)
  PROVE  ReplayInv'
<1>1. PICK o \in PutsOut(same, <<>>) :
        replay' = [journal |-> [i \in 1 .. n |-> IF withKind THEN jrnl[i] ELSE [jrnl[i] EXCEPT !.kind = Nothing]],
                   same |-> same, pc |-> Verdict(o, 0), outs |-> <<o>>, sent |-> <<>>, taken |-> 0]
  BY DEF ReplayStart
<1>2. pc' = "returned" /\ pc = "returned" /\ jrnl' = jrnl
  BY DEF ReplayStart, live
<1>3. jrnl \in Seq(Logs) /\ Len(jrnl) \in Nat
  BY <1>2, LenProperties DEF JournalInv
<1>4. n \in Nat /\ n <= Len(jrnl)
  BY <1>3
<1>5. o \in Outputs
  BY <1>1 DEF PutsOut, VmInv
<1> DEFINE copy == [i \in 1 .. n |-> IF withKind THEN jrnl[i] ELSE [jrnl[i] EXCEPT !.kind = Nothing]]
<1>6. copy \in Seq(ToSet(copy)) /\ Len(copy) = n
  <2>1. copy \in [1 .. n -> ToSet(copy)]
    BY DEF ToSet
  <2>2. copy \in Seq(ToSet(copy))
    BY <1>4, <2>1, FunctionIsSeq
  <2> QED
    BY <1>4, <2>1, <2>2, LenProperties
<1>7. \A i \in 1 .. n : Recorded(copy[i], jrnl[i])
  BY DEF Recorded
<1> HIDE DEF copy
<1>8. replay' = [journal |-> copy, same |-> same, pc |-> Verdict(o, 0), outs |-> <<o>>, sent |-> <<>>, taken |-> 0]
  BY <1>1 DEF copy
<1>9. /\ DOMAIN replay' = {"journal", "same", "pc", "outs", "sent", "taken"}
      /\ replay'.journal = copy /\ replay'.same = same /\ replay'.pc = Verdict(o, 0)
      /\ replay'.outs = <<o>> /\ replay'.sent = <<>> /\ replay'.taken = 0
  BY <1>8
<1>10. replay'.pc \in {"running", "returned", "threw"}
  BY <1>5, <1>9, Verdicts
<1>11. replay'.sent \in Seq(ToSet(replay'.sent)) /\ Len(replay'.sent) = 0 /\ DOMAIN replay'.sent = {}
  BY <1>9, EmptySeq
<1>12. replay'.outs \in Seq(Outputs) /\ Len(replay'.outs) = 1 /\ Last(replay'.outs) = o
  BY <1>5, <1>9 DEF Last
<1>13. ReplayAsked' = <<>>
  <2> DEFINE all == [m \in DOMAIN replay'.sent |-> Pending(replay'.outs[m])]
  <2>1. all = <<>>
    BY <1>11
  <2>2. ReplayAsked' = FlattenSeq(all)
    BY DEF ReplayAsked
  <2> HIDE DEF all
  <2> QED
    BY <2>1, <2>2, FlattenEmpty
<1>14. replay'.taken = Len(ReplayAsked') /\ replay'.taken <= Len(replay'.journal)
  BY <1>4, <1>6, <1>9, <1>13
<1> QED
  BY <1>2, <1>4, <1>6, <1>7, <1>9, <1>10, <1>11, <1>12, <1>14 DEF ReplayInv

\* What a replay was asked for is a list of requests.
LEMMA ReplayAskedTyped ==
  ASSUME ReplayInv, replay # Nothing
  PROVE  ReplayAsked \in Seq(Asks)
<1>1. replay.sent \in Seq(ToSet(replay.sent)) /\ \A n \in 1 .. Len(replay.sent) : Pending(replay.outs[n]) \in Seq(Asks)
  BY DEF ReplayInv
<1>2. DOMAIN replay.sent = 1 .. Len(replay.sent) /\ Len(replay.sent) \in Nat
  BY <1>1, LenProperties
<1> DEFINE all == [n \in DOMAIN replay.sent |-> Pending(replay.outs[n])]
           U == Seq(Asks)
<1>3. all \in [1 .. Len(replay.sent) -> U]
  BY <1>1, <1>2
<1>4. ReplayAsked = FlattenSeq(all)
  BY DEF ReplayAsked
<1> HIDE DEF all
<1>5. all \in Seq(U)
  BY <1>2, <1>3, FunctionIsSeq
<1> QED
  BY <1>4, <1>5, FlattenIsSeq

\* The entries a round uses are those of what it asks for.
LEMMA RoundMatches ==
  ASSUME JournalInv, ReplayInv, ReplayRound, ~ReplayThrows(Pend), Pend \in Seq(Asks)
  PROVE  /\ Len(Pend) \in Nat /\ replay.taken \in Nat /\ replay.taken + Len(Pend) <= Len(replay.journal)
         /\ \A k \in 1 .. Len(Pend) : Entry(Pend[k], jrnl[replay.taken + k].result) = jrnl[replay.taken + k]
<1> DEFINE t == replay.taken
           J == replay.journal
<1>1. /\ pc = "returned" /\ replay # Nothing
      /\ J \in Seq(ToSet(J)) /\ Len(J) <= Len(jrnl)
      /\ \A i \in 1 .. Len(J) : Recorded(J[i], jrnl[i])
      /\ t = Len(ReplayAsked) /\ t <= Len(J)
  BY DEF ReplayInv, ReplayRound
<1>2. ~(t + Len(Pend) > Len(J)) /\ \A k \in DOMAIN Pend : Fits(J[t + k], Pend[k])
  BY DEF ReplayThrows
<1>3. jrnl \in Seq(Logs) /\ Len(jrnl) \in Nat
  BY <1>1, LenProperties DEF JournalInv
<1>4. Len(Pend) \in Nat /\ DOMAIN Pend = 1 .. Len(Pend) /\ Len(J) \in Nat
  BY <1>1, LenProperties
<1>5. t \in Nat
  <2>1. ReplayAsked \in Seq(Asks)
    BY <1>1, ReplayAskedTyped
  <2> QED
    BY <1>1, <2>1, LenProperties
<1> HIDE DEF t, J
<1>6. t + Len(Pend) <= Len(J)
  BY <1>2, <1>4, <1>5
<1>7. ASSUME NEW k \in 1 .. Len(Pend) PROVE Entry(Pend[k], jrnl[t + k].result) = jrnl[t + k]
  <2> DEFINE i == t + k
  <2>1. i \in 1 .. Len(J) /\ i \in 1 .. Len(jrnl)
    BY <1>1, <1>3, <1>4, <1>5, <1>6
  <2>2. Fits(J[i], Pend[k]) /\ Recorded(J[i], jrnl[i]) /\ Pend[k] \in Asks
    BY <1>1, <1>2, <1>4, <2>1, ElementOfSeq
  <2>3. jrnl[i] \in Logs
    BY <1>3, <2>1, ElementOfSeq
  <2> HIDE DEF i
  <2>4. PICK q \in Asks, v \in Value : jrnl[i] = Entry(q, v)
    BY <2>3 DEF Logs
  <2>5. WellFormed(q) /\ WellFormed(Pend[k])
    BY <2>2, <2>4 DEF Asks
  <2>6. Recorded(J[i], Entry(q, v))
    BY <2>2, <2>4
  <2>7. Entry(Pend[k], v) = Entry(q, v)
    BY <2>2, <2>5, <2>6, EntriesFit
  <2>8. jrnl[i].result = v
    BY <2>4 DEF Entry
  <2> QED
    BY <2>4, <2>7, <2>8 DEF i
<1> QED
  BY <1>4, <1>5, <1>6, <1>7 DEF t, J

\* Nothing happens to a run that is being replayed.
LEMMA ReplayedRunRests ==
  ASSUME HandlersInv, ReplayInv, [Next]_vars, replay # Nothing
  PROVE  ReplayRound \/ UNCHANGED vars
<1>1. pc = "returned" /\ DOMAIN results = {}
  BY DEF ReplayInv, HandlersInv
<1>2. ~Goes
  BY <1>1 DEF Goes, Resume, RefuseDelivery, AllSettled
<1>3. \A n, w, s : ~ReplayStart(n, w, s)
  BY DEF ReplayStart
<1> QED
  BY <1>2, <1>3 DEF Next

\* Whatever journal it reads and whatever it runs, a replay uses up entries of what it is asked for (runReplay).
LEMMA ReplayKept ==
  ASSUME VmInv, HandlersInv, JournalInv, ReplayInv, [Next]_vars
  PROVE  ReplayInv'
<1>1. CASE replay = Nothing
  <2>1. CASE replay' = replay
    BY <1>1, <2>1 DEF ReplayInv
  <2>2. CASE replay' # replay
    <3>1. PICK n \in 0 .. Len(jrnl), withKind \in BOOLEAN, same \in BOOLEAN : ReplayStart(n, withKind, same)
      <4>1. \A k, r : ~Settle(k, r) /\ ~Reject(k)
        BY <2>2 DEF Settle, Reject
      <4>2. ~Goes
        BY <2>2, <4>1 DEF Goes, Resume, RefuseDelivery
      <4>3. ~ReplayRound
        BY <1>1 DEF ReplayRound
      <4> QED
        BY <2>2, <4>2, <4>3 DEF Next, vars
    <3> QED
      BY <3>1, ReplayBegins
  <2> QED
    BY <2>1, <2>2
<1>2. CASE replay # Nothing /\ UNCHANGED vars
  BY <1>2 DEF ReplayInv, ReplayAsked, vars, live
<1>3. CASE replay # Nothing /\ ReplayRound
  <2>1. UNCHANGED <<pc, jrnl>>
    BY <1>3 DEF ReplayRound, live
  <2>2. CASE ReplayThrows(Pend)
    <3>1. replay' = [replay EXCEPT !.pc = "threw"]
      BY <1>3, <2>2 DEF ReplayRound, Pend
    <3>2. DOMAIN replay = {"journal", "same", "pc", "outs", "sent", "taken"}
      BY <1>3 DEF ReplayInv
    <3>3. /\ replay'.journal = replay.journal /\ replay'.outs = replay.outs /\ replay'.sent = replay.sent
          /\ replay'.taken = replay.taken /\ replay'.pc = "threw" /\ DOMAIN replay' = DOMAIN replay
      BY <3>1, <3>2
    <3>4. ReplayAsked' = ReplayAsked
      BY <3>3 DEF ReplayAsked
    <3> QED
      BY <1>3, <2>1, <3>3, <3>4 DEF ReplayInv
  <2>3. CASE ~ReplayThrows(Pend)
    <3>1. /\ Pend \in Seq(Asks)
          /\ replay'.outs \in Seq(Outputs) /\ Len(replay'.outs) = Len(replay.outs) + 1
          /\ replay'.sent \in Seq(ToSet(replay'.sent)) /\ Len(replay'.sent) = Len(replay.sent) + 1
          /\ replay'.pc \in {"running", "returned", "threw"}
          /\ Verdict(Last(replay'.outs), Len(replay'.sent)) = replay'.pc
          /\ \A n \in 1 .. Len(replay'.sent) : Pending(replay'.outs[n]) \in Seq(Asks)
          /\ ReplayAsked \in Seq(Asks) /\ ReplayAsked' = ReplayAsked \o Pend
      BY <1>3, <2>3, RoundAsked
    <3>2. /\ replay'.journal = replay.journal /\ DOMAIN replay' = DOMAIN replay
          /\ replay'.taken = replay.taken + Len(Pend)
      BY <1>3, <2>3, RoundReplayed
    <3>3. /\ Len(Pend) \in Nat /\ replay.taken \in Nat /\ replay.taken + Len(Pend) <= Len(replay.journal)
          /\ \A k \in 1 .. Len(Pend) : Entry(Pend[k], jrnl[replay.taken + k].result) = jrnl[replay.taken + k]
      BY <1>3, <2>3, <3>1, RoundMatches
    <3>4. /\ Len(ReplayAsked \o Pend) = Len(ReplayAsked) + Len(Pend)
          /\ \A i \in 1 .. Len(ReplayAsked) : (ReplayAsked \o Pend)[i] = ReplayAsked[i]
          /\ \A k \in 1 .. Len(Pend) : (ReplayAsked \o Pend)[Len(ReplayAsked) + k] = Pend[k]
      <4>1. ReplayAsked \in Seq(Asks) /\ Pend \in Seq(Asks)
        BY <3>1
      <4> QED
        BY <4>1, Concatenation
    <3>5. /\ replay.taken = Len(ReplayAsked) /\ Len(replay.outs) = Len(replay.sent) + 1 /\ pc = "returned"
          /\ replay.journal \in Seq(ToSet(replay.journal)) /\ Len(replay.journal) <= Len(jrnl)
          /\ \A i \in 1 .. Len(replay.journal) : Recorded(replay.journal[i], jrnl[i])
          /\ DOMAIN replay = {"journal", "same", "pc", "outs", "sent", "taken"}
          /\ \A i \in 1 .. replay.taken : Entry(ReplayAsked[i], jrnl[i].result) = jrnl[i]
      BY <1>3 DEF ReplayInv
    <3>6. replay'.taken = Len(ReplayAsked') /\ replay'.taken <= Len(replay'.journal)
      <4>1. Len(ReplayAsked') = Len(ReplayAsked) + Len(Pend)
        BY <3>1, <3>4
      <4>2. replay.taken = Len(ReplayAsked)
        BY <3>5
      <4> QED
        BY <3>2, <3>3, <4>1, <4>2
    <3>8. Len(replay'.outs) = Len(replay'.sent) + 1
      BY <3>1, <3>5
    <3>7. ASSUME NEW i \in 1 .. replay'.taken PROVE Entry(ReplayAsked'[i], jrnl'[i].result) = jrnl'[i]
      <4>1. CASE i \in 1 .. replay.taken
        <5>1. ReplayAsked'[i] = ReplayAsked[i]
          BY <3>1, <3>4, <3>5, <4>1
        <5> QED
          BY <2>1, <3>5, <4>1, <5>1
      <4>2. CASE i \notin 1 .. replay.taken
        <5>1. PICK k \in 1 .. Len(Pend) : i = replay.taken + k
          <6>1. i - replay.taken \in 1 .. Len(Pend) /\ i = replay.taken + (i - replay.taken)
            BY <3>2, <3>3, <4>2
          <6> QED
            BY <6>1
        <5>2. ReplayAsked'[i] = Pend[k]
          BY <3>1, <3>4, <3>5, <5>1
        <5> QED
          BY <2>1, <3>3, <5>1, <5>2
      <4> QED
        BY <4>1, <4>2
    <3> QED
      BY <2>1, <3>1, <3>2, <3>5, <3>6, <3>7, <3>8 DEF ReplayInv
  <2> QED
    BY <2>2, <2>3
<1> QED
  BY <1>1, <1>2, <1>3, ReplayedRunRests

\* A replay by the same program starts where the run started.
LEMMA SameBegins ==
  ASSUME VmInv, NEW n \in 0 .. Len(jrnl), NEW withKind, NEW same \in BOOLEAN, ReplayStart(n, withKind, same)
  PROVE  SameInv'
<1> SUFFICES ASSUME WholeReplay' PROVE SameInv'
  BY DEF SameInv
<1>1. PICK o \in PutsOut(same, <<>>) :
        replay' = [journal |-> [i \in 1 .. n |-> IF withKind THEN jrnl[i] ELSE [jrnl[i] EXCEPT !.kind = Nothing]],
                   same |-> same, pc |-> Verdict(o, 0), outs |-> <<o>>, sent |-> <<>>, taken |-> 0]
  BY DEF ReplayStart
<1>2. UNCHANGED live
  BY DEF ReplayStart
<1>3. /\ replay'.same = same /\ replay'.pc = Verdict(o, 0)
      /\ replay'.outs = <<o>> /\ replay'.sent = <<>>
  BY <1>1
<1>4. same
  BY <1>3 DEF WholeReplay
<1>5. Len(sent) \in Nat /\ SubSeq(sent, 1, 0) = <<>> /\ SubSeq(sent, 1, 0) \in DOMAIN answers
  <2>1. Len(sent) \in Nat
    BY LenProperties DEF VmInv
  <2>2. 1 \in 1 .. Len(sent) + 1 /\ 1 - 1 = 0
    BY <2>1
  <2>3. SubSeq(sent, 1, 0) = <<>>
    BY SubSeqEmpty
  <2> QED
    BY <2>1, <2>2, <2>3 DEF VmInv
<1>6. o = answers[SubSeq(sent, 1, 0)]
  BY <1>1, <1>4, <1>5 DEF PutsOut
<1>7. OutOf(1)' = o
  BY <1>2, <1>6 DEF OutOf, live
<1>8. Len(replay'.sent) = 0 /\ Last(replay'.outs) = o /\ replay'.outs[1] = o
  BY <1>3 DEF Last
<1>9. replay'.sent = SubSeq(sent', 1, 0)
  BY <1>2, <1>3, <1>5 DEF live
<1>10. \A m \in 1 .. Len(replay'.sent) + 1 : replay'.outs[m] = OutOf(m)'
  <2>1. \A m \in 1 .. Len(replay'.sent) + 1 : m = 1
    BY <1>8
  <2> QED
    BY <1>7, <1>8, <2>1
<1>11. Len(replay'.sent) <= Len(sent')
  BY <1>2, <1>5, <1>8 DEF live
<1> QED
  BY <1>3, <1>8, <1>9, <1>10, <1>11 DEF SameInv

\* A round of a replay of the whole journal by the same program is the round of
\* the run: the entries are the ones of its requests, and give what its handlers gave.
LEMMA RoundIsTheRuns ==
  ASSUME VmInv, HandlersInv, JournalInv, ReplayInv, SameInv, WholeReplay, \A e \in performed : Faithful(e[3]), ReplayRound
  PROVE  /\ Len(replay.sent) + 1 <= Len(sent)
         /\ Pend = AskedIn(Len(replay.sent) + 1)
         /\ ~ReplayThrows(Pend)
         /\ Batch = sent[Len(replay.sent) + 1]
<1> DEFINE M == Len(replay.sent)
           t == replay.taken
           J == replay.journal
<1>1. /\ replay # Nothing /\ replay.pc = "running" /\ pc = "returned"
      /\ replay.sent \in Seq(ToSet(replay.sent)) /\ Len(replay.outs) = M + 1
      /\ J \in Seq(ToSet(J)) /\ \A i \in 1 .. Len(J) : Recorded(J[i], jrnl[i])
      /\ t = Len(ReplayAsked)
  BY DEF ReplayInv, ReplayRound
<1>2. /\ M <= Len(sent) /\ replay.sent = SubSeq(sent, 1, M)
      /\ \A n \in 1 .. M + 1 : replay.outs[n] = OutOf(n)
      /\ replay.pc = Verdict(Last(replay.outs), M)
      /\ Len(J) = Len(jrnl)
  BY DEF SameInv, WholeReplay
<1>3. M \in Nat /\ DOMAIN replay.sent = 1 .. M /\ M + 1 \in 1 .. M + 1
  BY <1>1, LenProperties
<1>4. Last(replay.outs) = OutOf(M + 1)
  BY <1>1, <1>2, <1>3 DEF Last
<1>5. Len(sent) \in Nat /\ OutOf(Len(sent) + 1) = out
  BY RoundsTyped
<1>6. M # Len(sent)
  BY <1>1, <1>2, <1>4, <1>5 DEF VmInv
<1>7. M + 1 \in 1 .. Len(sent)
  BY <1>2, <1>3, <1>5, <1>6
<1>8. Pend = AskedIn(M + 1)
  BY <1>4 DEF Pend, AskedIn
<1>9. t = Len(Upto(M))
  <2>1. \A n \in 1 .. M : Pending(replay.outs[n]) = AskedIn(n)
    BY <1>2, <1>3 DEF AskedIn
  <2>2. [n \in DOMAIN replay.sent |-> Pending(replay.outs[n])] = [m \in 1 .. M |-> AskedIn(m)]
    BY <1>3, <2>1
  <2>3. ReplayAsked = FlattenSeq([n \in DOMAIN replay.sent |-> Pending(replay.outs[n])])
    BY DEF ReplayAsked
  <2>4. ReplayAsked = Upto(M)
    BY <2>2, <2>3 DEF Upto
  <2> QED
    BY <1>1, <2>4
<1>10. PICK rs \in [DOMAIN AskedIn(M + 1) -> Results] : Logged(M + 1, rs)
  BY <1>1, <1>7 DEF JournalInv
<1>11. AskedIn(M + 1) \in Seq(Asks) /\ AskedIn(M + 1) # <<>>
  BY <1>7, RoundsTyped
<1>12. (M + 1) - 1 = M
  BY <1>3
<1> HIDE DEF t, J, M
<1>13. Len(Pend) \in Nat \ {0} /\ DOMAIN Pend = 1 .. Len(Pend) /\ DOMAIN rs = DOMAIN Pend /\ Pend \in Seq(Asks)
  BY <1>8, <1>10, <1>11, LenProperties, EmptySeq
<1>14. ASSUME NEW k \in DOMAIN Pend
       PROVE  /\ <<M + 1, k, rs[k]>> \in performed
              /\ ~Contains(Delivered(Pend[k], rs[k]), Invalid)
              /\ t + k \in DOMAIN jrnl
              /\ jrnl[t + k] = Entry(Pend[k], jsToValue[rs[k]])
  <2>1. k \in DOMAIN rs
    BY <1>13
  <2>2. /\ <<M + 1, k, rs[k]>> \in performed
        /\ ~Contains(Delivered(AskedIn(M + 1)[k], rs[k]), Invalid)
        /\ Len(Upto((M + 1) - 1)) + k \in DOMAIN jrnl
        /\ jrnl[Len(Upto((M + 1) - 1)) + k] = Entry(AskedIn(M + 1)[k], jsToValue[rs[k]])
    BY <1>10, <2>1, Zenon DEF Logged
  <2> QED
    BY <1>8, <1>9, <1>12, <2>2
<1>15. jrnl \in Seq(Logs) /\ DOMAIN jrnl = 1 .. Len(jrnl) /\ Len(jrnl) \in Nat
  BY <1>1, LenProperties DEF JournalInv
<1>16. ASSUME NEW k \in DOMAIN Pend
       PROVE  /\ Fits(J[t + k], Pend[k])
              /\ Replayed(Pend[k], J[t + k].result) = Delivered(Pend[k], rs[k])
              /\ ~Contains(Replayed(Pend[k], J[t + k].result), Invalid)
  <2> DEFINE i == t + k
  <2>1. i \in 1 .. Len(J) /\ jrnl[i] = Entry(Pend[k], jsToValue[rs[k]])
    BY <1>2, <1>14, <1>15
  <2>2. Recorded(J[i], Entry(Pend[k], jsToValue[rs[k]]))
    BY <1>1, <2>1
  <2>3. WellFormed(Pend[k])
    BY <1>13, ElementOfSeq DEF Asks
  <2> HIDE DEF i
  <2>4. J[i].result = jsToValue[rs[k]] /\ Fits(J[i], Pend[k])
    BY <2>2, <2>3, EntriesFit
  <2>5. Faithful(rs[k])
    <3> DEFINE e == <<M + 1, k, rs[k]>>
    <3>1. e[3] = rs[k] /\ e \in performed
      BY <1>14
    <3> QED
      BY <3>1
  <2>6. Replayed(Pend[k], J[i].result) = Delivered(Pend[k], rs[k])
    BY <2>4, <2>5 DEF Replayed, Delivered, Faithful
  <2> QED
    BY <1>14, <2>4, <2>6 DEF i
<1>17. t \in Nat
  <2>1. M \in 0 .. Len(sent) + 1
    BY <1>2, <1>3, <1>5
  <2> QED
    BY <1>9, <2>1, UptoTyped
<1>18. t + Len(Pend) <= Len(J)
  <2>1. Len(Pend) \in DOMAIN Pend
    BY <1>13
  <2>2. t + Len(Pend) \in 1 .. Len(jrnl)
    BY <1>14, <1>15, <2>1
  <2>3. Len(J) = Len(jrnl)
    BY <1>2
  <2> QED
    BY <1>13, <1>15, <1>17, <2>2, <2>3
<1>19. ~ReplayThrows(Pend)
  <2>1. ~(t + Len(Pend) > Len(J))
    BY <1>2, <1>13, <1>15, <1>17, <1>18
  <2> QED
    BY <1>16, <2>1 DEF ReplayThrows, t, J
<1>20. Batch = sent[M + 1]
  <2>1. [k \in DOMAIN Pend |-> Replayed(Pend[k], J[t + k].result)] = [k \in DOMAIN Pend |-> Delivered(Pend[k], rs[k])]
    BY <1>16
  <2>2. [k \in DOMAIN Pend |-> Delivered(Pend[k], rs[k])] = [k \in DOMAIN rs |-> Delivered(AskedIn(M + 1)[k], rs[k])]
    BY <1>8, <1>13
  <2>3. Batch = FlattenSeq([k \in DOMAIN Pend |-> Replayed(Pend[k], J[t + k].result)])
    BY DEF Batch, t, J
  <2>4. sent[M + 1] = FlattenSeq([k \in DOMAIN rs |-> Delivered(AskedIn(M + 1)[k], rs[k])])
    BY <1>10, Zenon DEF Logged
  <2> QED
    BY <2>1, <2>2, <2>3, <2>4
<1> QED
  BY <1>7, <1>8, <1>19, <1>20 DEF M

\* Round after round, the replay of the whole journal by the same program is where the run was.
LEMMA SameKept ==
  ASSUME VmInv, HandlersInv, JournalInv, ReplayInv, SameInv, [Next]_vars
  PROVE  SameInv'
<1>1. CASE replay = Nothing
  <2>1. CASE replay' = replay
    BY <1>1, <2>1 DEF SameInv, WholeReplay
  <2>2. CASE replay' # replay
    <3>1. PICK n \in 0 .. Len(jrnl), withKind \in BOOLEAN, same \in BOOLEAN : ReplayStart(n, withKind, same)
      <4>1. \A k, r : ~Settle(k, r) /\ ~Reject(k)
        BY <2>2 DEF Settle, Reject
      <4>2. ~Goes
        BY <2>2, <4>1 DEF Goes, Resume, RefuseDelivery
      <4>3. ~ReplayRound
        BY <1>1 DEF ReplayRound
      <4> QED
        BY <2>2, <4>2, <4>3 DEF Next, vars
    <3> QED
      BY <3>1, SameBegins
  <2> QED
    BY <2>1, <2>2
<1>2. CASE replay # Nothing /\ UNCHANGED vars
  BY <1>2 DEF SameInv, WholeReplay, OutOf, vars, live
<1>3. CASE replay # Nothing /\ ReplayRound
  <2> SUFFICES ASSUME WholeReplay', \A e \in performed' : Faithful(e[3]) PROVE SameInv'
    BY DEF SameInv
  <2> DEFINE M == Len(replay.sent)
  <2>1. UNCHANGED live
    BY <1>3 DEF ReplayRound
  <2>2. replay'.journal = replay.journal /\ replay'.same = replay.same
    <3>1. CASE ReplayThrows(Pend)
      <4>1. replay' = [replay EXCEPT !.pc = "threw"]
        BY <1>3, <3>1 DEF ReplayRound, Pend
      <4> QED
        BY <4>1
    <3>2. CASE ~ReplayThrows(Pend)
      BY <1>3, <3>2, RoundReplayed
    <3> QED
      BY <3>1, <3>2
  <2>3. WholeReplay /\ \A e \in performed : Faithful(e[3])
    BY <1>3, <2>1, <2>2 DEF WholeReplay, live
  <2>4. M + 1 <= Len(sent) /\ ~ReplayThrows(Pend) /\ Batch = sent[M + 1]
    BY <1>3, <2>3, RoundIsTheRuns
  <2>5. /\ replay'.sent = Append(replay.sent, Batch)
        /\ \E o \in PutsOut(replay.same, Append(replay.sent, Batch)) :
             replay'.outs = Append(replay.outs, o) /\ replay'.pc = Verdict(o, Len(Append(replay.sent, Batch)))
    BY <1>3, <2>4, RoundReplayed
  <2>6. /\ Len(replay'.outs) = Len(replay.outs) + 1 /\ replay'.outs \in Seq(Outputs)
        /\ \A n \in 1 .. Len(replay.outs) : replay'.outs[n] = replay.outs[n]
        /\ Len(replay'.sent) = M + 1
    BY <1>3, <2>4, RoundAsked
  <2>7. /\ replay.sent = SubSeq(sent, 1, M) /\ Len(replay.outs) = M + 1
        /\ \A n \in 1 .. M + 1 : replay.outs[n] = OutOf(n)
    BY <1>3, <2>3 DEF SameInv, ReplayInv
  <2>8. M \in Nat /\ Len(sent) \in Nat
    <3>1. replay.sent \in Seq(ToSet(replay.sent)) /\ sent \in Seq(ToSet(sent))
      BY <1>3 DEF ReplayInv, VmInv
    <3> QED
      BY <3>1, LenProperties
  <2> HIDE DEF M
  <2>9. Append(replay.sent, Batch) = SubSeq(sent, 1, M + 1)
    <3> DEFINE h == SubSeq(sent, 1, M + 1)
    <3>1. sent \in Seq(ToSet(sent))
      BY DEF VmInv
    <3>2. h \in Seq(ToSet(sent)) /\ Len(h) = M + 1 /\ \A i \in 1 .. M + 1 : h[i] = sent[i]
      BY <2>4, <2>8, <3>1, SubSeqProperties, ElementOfSeq
    <3>3. h = Append(SubSeq(h, 1, M), h[M + 1])
      <4> HIDE DEF h
      <4> QED
        BY <2>8, <3>2, FrontAndLast
    <3>4. SubSeq(h, 1, M) = SubSeq(sent, 1, M)
      <4>1. \A i \in 1 .. M : h[i] = sent[i]
        BY <2>8, <3>2
      <4>2. SubSeq(h, 1, M) = [i \in 1 .. M |-> h[i]]
        <5> HIDE DEF h
        <5> QED
          BY <2>8, <3>2, SubSeqProperties
      <4>3. SubSeq(sent, 1, M) = [i \in 1 .. M |-> sent[i]]
        BY <2>4, <2>8, <3>1, SubSeqProperties
      <4> HIDE DEF h
      <4> QED
        BY <4>1, <4>2, <4>3
    <3>5. h[M + 1] = Batch
      BY <2>4, <2>8, <3>2
    <3> HIDE DEF h
    <3>6. h = Append(replay.sent, Batch)
      BY <2>7, <3>3, <3>4, <3>5
    <3> QED
      BY <3>6 DEF h
  <2>10. PICK o : /\ o \in PutsOut(replay.same, SubSeq(sent, 1, M + 1))
                  /\ replay'.outs = Append(replay.outs, o) /\ replay'.pc = Verdict(o, Len(replay'.sent))
    BY <2>5, <2>9
  <2>11. o = OutOf(M + 2)
    <3>1. M + 2 \in 1 .. Len(sent) + 1 /\ (M + 2) - 1 = M + 1
      BY <2>4, <2>8
    <3>2. SubSeq(sent, 1, M + 1) \in DOMAIN answers
      BY <3>1 DEF VmInv
    <3> QED
      BY <2>3, <2>10, <3>1, <3>2 DEF PutsOut, OutOf, WholeReplay
  <2>12. replay'.outs[M + 2] = o /\ Last(replay'.outs) = o
    <3>1. replay.outs \in Seq(Outputs)
      BY <1>3 DEF ReplayInv
    <3> QED
      BY <2>6, <2>7, <2>8, <2>10, <3>1, AppendProperties DEF Last
  <2>13. \A n : OutOf(n)' = OutOf(n)
    BY <2>1 DEF OutOf, live
  <2>14. ASSUME NEW n \in 1 .. Len(replay'.sent) + 1 PROVE replay'.outs[n] = OutOf(n)'
    <3>1. n \in 1 .. M + 1 \/ n = M + 2
      BY <2>6, <2>8
    <3> QED
      BY <2>6, <2>7, <2>11, <2>12, <2>13, <3>1
  <2>15. replay'.sent = SubSeq(sent', 1, Len(replay'.sent)) /\ Len(replay'.sent) <= Len(sent')
    BY <2>1, <2>4, <2>5, <2>6, <2>9 DEF live
  <2> QED
    BY <2>10, <2>12, <2>14, <2>15 DEF SameInv
<1> QED
  BY <1>1, <1>2, <1>3, ReplayedRunRests

\* Whatever a run logs, the entries a refused delivery cuts short included, is
\* an entry of a request that may be asked.
LEMMA LogKept ==
  ASSUME VmInv, HandlersInv, LogInv, [Next]_vars
  PROVE  LogInv'
<1>1. ASSUME UNCHANGED jrnl PROVE LogInv'
  BY <1>1 DEF LogInv
<1>2. CASE Resume
  <2>1. Entries \in Seq(Logs) /\ jrnl' = jrnl \o Entries
    BY <1>2, RoundLogged DEF Resume
  <2> HIDE DEF Entries
  <2>2. jrnl \o Entries \in Seq(Logs)
    BY <2>1, Concatenation DEF LogInv
  <2> QED
    BY <2>1, <2>2 DEF LogInv
<1>3. CASE RefuseDelivery
  <2>1. AllSettled
    BY <1>3 DEF RefuseDelivery
  <2>2. /\ Entries \in Seq(Logs) /\ Len(Entries) = Len(Pending(out)) /\ DOMAIN results = 1 .. Len(Pending(out))
        /\ Pending(out) \in Seq(Asks)
    BY <2>1, RoundLogged
  <2>3. Len(Pending(out)) \in Nat
    BY <2>2, LenProperties
  <2>4. PICK k \in DOMAIN results : jrnl' = jrnl \o SubSeq(Entries, 1, k - 1)
    BY <1>3 DEF RefuseDelivery
  <2> DEFINE e == Entries
  <2> HIDE DEF e
  <2>5. e \in Seq(Logs) /\ k - 1 \in 0 .. Len(e)
    BY <2>2, <2>3, <2>4 DEF e
  <2>6. SubSeq(e, 1, k - 1) \in Seq(Logs)
    BY <2>5, SubSeqProperties, ElementOfSeq
  <2>7. jrnl \o SubSeq(e, 1, k - 1) \in Seq(Logs)
    BY <2>6, Concatenation DEF LogInv
  <2> QED
    BY <2>4, <2>7 DEF LogInv, e
<1>4. ASSUME NEW k \in DOMAIN results, Reject(k) PROVE LogInv'
  BY <1>1, <1>4 DEF Reject
<1>5. ASSUME NEW k \in DOMAIN results, NEW r \in Results, Settle(k, r) PROVE LogInv'
  BY <1>1, <1>5 DEF Settle
<1>6. CASE UNCHANGED live
  BY <1>1, <1>6 DEF live
<1> QED
  BY <1>2, <1>3, <1>4, <1>5, <1>6 DEF Next, Goes, ReplayStart, ReplayRound, vars, live

---------------------------------------------------------------------------
(* Theorems *)

\* The inductive invariant of the driver.
LEMMA Inductive == Spec => []IInv
<1>1. Init => IInv
  <2> SUFFICES ASSUME Init PROVE IInv
    OBVIOUS
  <2>1. VmInv /\ HandlersInv /\ JournalInv
    BY VmStart, HandlersStart, JournalStart
  <2>2. jrnl = <<>> /\ replay = Nothing
    BY DEF Init
  <2>3. LogInv
    BY <2>2, EmptySeq DEF LogInv
  <2>4. ReplayInv /\ SameInv
    BY <2>2 DEF ReplayInv, SameInv, WholeReplay
  <2> QED
    BY <2>1, <2>3, <2>4 DEF IInv
<1>2. IInv /\ [Next]_vars => IInv'
  BY VmKept, HandlersKept, LogKept, JournalKept, ReplayKept, SameKept DEF IInv
<1> QED
  BY <1>1, <1>2, PTL DEF Spec

\* The state of the driver is well formed (runLive, runReplay).
THEOREM DriverTyped == Spec => []TypeOK
<1>1. IInv => TypeOK
  <2> SUFFICES ASSUME IInv PROVE TypeOK
    OBVIOUS
  <2> USE DEF IInv
  <2>1. ASSUME NEW j \in Logs PROVE EntryOK(j) /\ \A e : Recorded(e, j) => EntryOK(e)
    <3>1. PICK p \in Asks, v \in Value : j = Entry(p, v)
      BY <2>1 DEF Logs
    <3>2. j.kind \in {"await_reply", "transport"} /\ j.result \in Value
      BY <3>1 DEF Entry, Asks, WellFormed
    <3>3. \A e : Recorded(e, j) => e.kind \in {j.kind, Nothing} /\ e.result = j.result
      BY <3>1 DEF Recorded, Entry
    <3> QED
      BY <3>2, <3>3 DEF EntryOK
  <2>2. DOMAIN jrnl = 1 .. Len(jrnl) /\ Len(jrnl) \in Nat /\ \A i \in 1 .. Len(jrnl) : jrnl[i] \in Logs
    BY LenProperties, ElementOfSeq DEF LogInv
  <2>3. \A i \in DOMAIN jrnl : EntryOK(jrnl[i])
    BY <2>1, <2>2
  <2>4. ASSUME replay # Nothing, NEW i \in DOMAIN replay.journal PROVE EntryOK(replay.journal[i])
    <3>1. /\ replay.journal \in Seq(ToSet(replay.journal)) /\ Len(replay.journal) <= Len(jrnl)
          /\ \A n \in 1 .. Len(replay.journal) : Recorded(replay.journal[n], jrnl[n])
      BY <2>4 DEF ReplayInv
    <3>2. DOMAIN replay.journal = 1 .. Len(replay.journal) /\ Len(replay.journal) \in Nat
      BY <3>1, LenProperties
    <3>3. i \in 1 .. Len(replay.journal) /\ i \in 1 .. Len(jrnl)
      BY <2>2, <2>4, <3>1, <3>2
    <3> QED
      BY <2>1, <2>2, <3>1, <3>3
  <2>5. out \in Outputs
    BY RoundsTyped
  <2> QED
    BY <2>3, <2>4, <2>5 DEF TypeOK, VmInv, HandlersInv, ReplayInv
<1> QED
  BY <1>1, Inductive, PTL

\* In whatever order the handlers settle, the journal is in the order of the
\* requests, each entry with what its own handler gave, once (runLive's Promise.all).
THEOREM JournalStaysInOrder == Spec => []JournalInOrder
<1>1. IInv => JournalInOrder
  BY JournalIsWhatHappened DEF IInv
<1> QED
  BY <1>1, Inductive, PTL

\* A replay never gives a request the result of another (the checks of runReplay).
THEOREM ReplayNeverMixes == Spec => []ReplayMatches
<1>1. IInv => ReplayMatches
  <2> SUFFICES ASSUME IInv, replay # Nothing PROVE ReplayMatches
    BY DEF ReplayMatches
  <2>1. /\ replay.taken = Len(ReplayAsked) /\ replay.taken <= Len(replay.journal) /\ Len(replay.journal) <= Len(jrnl)
        /\ \A i \in 1 .. replay.taken : Entry(ReplayAsked[i], jrnl[i].result) = jrnl[i]
        /\ replay.journal \in Seq(ToSet(replay.journal)) /\ pc = "returned"
    BY DEF IInv, ReplayInv
  <2>2. ReplayAsked \in Seq(Asks) /\ jrnl \in Seq(Logs)
    BY ReplayAskedTyped DEF IInv, LogInv
  <2>3. Len(ReplayAsked) \in Nat /\ Len(jrnl) \in Nat /\ Len(replay.journal) \in Nat
    BY <2>1, <2>2, LenProperties
  <2> HIDE DEF ReplayAsked
  <2>4. replay.taken <= Len(jrnl)
    BY <2>1, <2>3
  <2> QED
    BY <2>1, <2>4 DEF ReplayMatches
<1> QED
  BY <1>1, Inductive, PTL

\* The replay of the whole journal of a run that returned, by the same program,
\* goes through the same rounds and returns (runReplay beside runLive).
THEOREM ReplayRepeatsTheRun == Spec => []ReplaySame
<1>1. IInv => ReplaySame
  <2> SUFFICES ASSUME IInv, WholeReplay, \A e \in performed : Faithful(e[3]) PROVE ReplaySame
    BY DEF ReplaySame
  <2> DEFINE M == Len(replay.sent)
  <2>1. /\ M <= Len(sent) /\ replay.sent = SubSeq(sent, 1, M)
        /\ \A n \in 1 .. M + 1 : replay.outs[n] = OutOf(n)
        /\ replay.pc = Verdict(Last(replay.outs), M)
    BY DEF IInv, SameInv
  <2>2. /\ replay.sent \in Seq(ToSet(replay.sent)) /\ Len(replay.outs) = M + 1 /\ pc = "returned"
    BY DEF IInv, ReplayInv, WholeReplay
  <2>3. sent \in Seq(ToSet(sent)) /\ Verdict(out, Len(sent)) = pc /\ \A n \in 1 .. Len(sent) : Verdict(OutOf(n), n - 1) = "running"
    BY <2>2 DEF IInv, VmInv
  <2>4. M \in Nat /\ Len(sent) \in Nat
    BY <2>2, <2>3, LenProperties
  <2>5. OutOf(Len(sent) + 1) = out /\ SubSeq(sent, 1, Len(sent)) = sent
    BY <2>3, RoundsTyped, SubSeqFull DEF IInv
  <2>6. IsPrefix(replay.sent, sent)
    <3>1. SubSeq(replay.sent, 1, M) = replay.sent
      BY <2>2, SubSeqFull
    <3> QED
      BY <2>1, <3>1 DEF IsPrefix
  <2> HIDE DEF M
  <2>7. Last(replay.outs) = OutOf(M + 1)
    BY <2>1, <2>2, <2>4 DEF Last
  <2>8. CASE M = Len(sent)
    <3>1. replay.pc = "returned" /\ replay.sent = sent /\ Last(replay.outs) = out
      BY <2>1, <2>2, <2>3, <2>5, <2>7, <2>8
    <3> QED
      BY <2>6, <3>1 DEF ReplaySame
  <2>9. CASE M # Len(sent)
    <3>1. M + 1 \in 1 .. Len(sent) /\ (M + 1) - 1 = M
      BY <2>1, <2>4, <2>9
    <3>2. replay.pc = "running"
      BY <2>1, <2>3, <2>7, <3>1
    <3> QED
      BY <2>6, <3>2 DEF ReplaySame
  <2> QED
    BY <2>8, <2>9
<1> QED
  BY <1>1, Inductive, PTL

---------------------------------------------------------------------------
(* The run of EffectJournal *)

Request == UNION {{Pending(o)[k] : k \in DOMAIN o.pending} : o \in Outputs}
Answer  == {jsToValue[r] : r \in Results}

\* What a verdict makes of an output is a round asked for, a return or a failure.
LEMMA Answers ==
  ASSUME NEW o \in Outputs, NEW n, Turn(o, n) = "running"
  PROVE  Pending(o) \in Seq(Request) \ {<<>>}
<1>1. Verdict(o, n) = "running"
  BY Calls
<1>2. Pending(o) \in Seq(Sought) /\ DOMAIN Pending(o) = DOMAIN o.pending /\ Pending(o) # <<>>
  BY <1>1, Verdicts
<1>3. \A p \in Outputs : {Pending(p)[k] : k \in DOMAIN p.pending} = ToSet(Pending(p))
  BY Verdicts DEF ToSet
<1>4. Sought = Request
  BY <1>3 DEF Sought, Request
<1> QED
  BY <1>2, <1>4

\* A run that fails is over for its abstract run, which forgets its log.
LEMMA Fails ==
  ASSUME pc = "running", pc' = "threw"
  PROVE  Journal!Next
<1> QED
  BY DEF Journal!Next, Journal!Fail

\* A resume answers the whole round, and the run asks for another, returns or fails.
LEMMA ResumeAnswers ==
  ASSUME IInv, Resume
  PROVE  Journal!Next
<1>1. /\ pc = "running" /\ AllSettled /\ jrnl' = jrnl \o Entries
      /\ pc' = Turn(out', Len(sent')) /\ out' \in Outputs
  BY DEF Resume, AllSettled
<1>2. pc' \in {"running", "returned", "threw"}
  BY <1>1, Calls
<1>3. CASE pc' = "threw"
  BY <1>1, <1>3, Fails
<1>4. CASE pc' # "threw"
  <2> DEFINE given == [k \in DOMAIN Pending(out) |-> jsToValue[results[k]]]
  <2>1. /\ DOMAIN results = 1 .. Len(Pending(out)) /\ Pending(out) \in Seq(Asks)
        /\ \A k \in DOMAIN results : results[k] \in Results
    BY <1>1, RoundLogged DEF IInv
  <2>2. DOMAIN Pending(out) = DOMAIN results
    BY <2>1, LenProperties
  <2>3. given \in [DOMAIN Pending(out) -> Answer]
    BY <2>1, <2>2 DEF Answer
  <2>4. Entries = [i \in DOMAIN Pending(out) |-> Entry(Pending(out)[i], given[i])]
    BY <2>2 DEF Entries
  <2> HIDE DEF given
  <2>5. Journal!Answered
    BY <1>1, <1>4, <2>3, <2>4 DEF Journal!Answered, Answer
  <2>6. CASE pc' = "running"
    <3>1. Pending(out') \in Seq(Request) \ {<<>>}
      BY <1>1, <2>6, Answers
    <3>2. Journal!Ask
      BY <2>6, <3>1 DEF Journal!Ask, Request
    <3> QED
      BY <1>1, <2>5, <3>2 DEF Journal!Next
  <2>7. CASE pc' = "returned"
    <3>1. Journal!Return
      BY <2>7 DEF Journal!Return
    <3> QED
      BY <1>1, <2>5, <3>1 DEF Journal!Next
  <2> QED
    BY <1>2, <1>4, <2>6, <2>7
<1> QED
  BY <1>3, <1>4

\* However its handlers interleave, the run answers each round whole and in
\* order, and then asks, returns or fails: each step of runLive is a step of
\* EffectJournal or leaves its state alone.
THEOREM DriverKeepsAJournal == Spec => ImplementsEffectJournal
<1>1. Init => Journal!Init
  <2> SUFFICES ASSUME Init PROVE Journal!Init
    OBVIOUS
  <2>1. PICK o \in Outputs : out = o /\ pc = Turn(o, 0)
    BY DEF Init
  <2>2. jrnl = <<>>
    BY DEF Init
  <2>3. CASE pc = "running"
    <3>1. Pending(out) \in Seq(Request) \ {<<>>}
      BY <2>1, <2>3, Answers
    <3> QED
      BY <2>2, <2>3, <3>1 DEF Journal!Init, Request
  <2>4. CASE pc # "running"
    <3>1. pc \in {"returned", "threw"}
      BY <2>1, <2>4, Calls
    <3> QED
      BY <2>2, <3>1 DEF Journal!Init
  <2> QED
    BY <2>3, <2>4
<1>2. IInv /\ [Next]_vars => [Journal!Next]_(Journal!vars)
  <2> SUFFICES ASSUME IInv, [Next]_vars PROVE [Journal!Next]_(Journal!vars)
    OBVIOUS
  <2>1. ASSUME UNCHANGED <<pc, out, jrnl>> PROVE UNCHANGED Journal!vars
    BY <2>1 DEF Journal!vars, Pending
  <2>2. ASSUME NEW k \in DOMAIN results, Reject(k) PROVE [Journal!Next]_(Journal!vars)
    <3>1. pc' = "threw" /\ UNCHANGED <<out, jrnl>>
      BY <2>2 DEF Reject
    <3>2. pc \in {"running", "threw"}
      BY DEF IInv, VmInv, HandlersInv
    <3>3. CASE pc = "running"
      BY <3>1, <3>3, Fails
    <3>4. CASE pc = "threw"
      BY <2>1, <3>1, <3>4
    <3> QED
      BY <3>2, <3>3, <3>4
  <2>3. ASSUME NEW k \in DOMAIN results, NEW r \in Results, Settle(k, r) PROVE UNCHANGED Journal!vars
    BY <2>1, <2>3 DEF Settle
  <2>4. CASE Resume
    BY <2>4, ResumeAnswers
  <2>5. CASE RefuseDelivery
    BY <2>5, Fails DEF RefuseDelivery, AllSettled
  <2>6. CASE UNCHANGED live
    BY <2>1, <2>6 DEF live
  <2> QED
    BY <2>2, <2>3, <2>4, <2>5, <2>6 DEF Next, Goes, ReplayStart, ReplayRound, vars, live
<1> QED
  BY <1>1, <1>2, Inductive, PTL DEF Spec, ImplementsEffectJournal, Journal!Spec

=============================================================================
