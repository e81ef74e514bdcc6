-------------------------- MODULE EffectRunProofs --------------------------
(***************************************************************************)
(* Over any number of suspensions every await is answered once and nobody    *)
(* sleeps on what it already has: proofs about EffectRun.                    *)
(***************************************************************************)
EXTENDS EffectRun, SequenceLemmas

---------------------------------------------------------------------------
(* What the proofs follow *)

Pids == 0 .. MaxProcesses - 1
Intents == [kind : {"transport"}, effect : BOOLEAN]
             \union [kind : {"await_reply"}, effect : {TRUE}, pid : Pid, key : Key, awaited : BOOLEAN]

\* The replies to awaits, and those nobody awaited.
ReplyMessages == [tag : Tags, awaited : {TRUE}]
Unasked(m) == m.tag = "EffectReply" /\ ~m.awaited

\* The awaits of p in outbox ob after its first i intents.
From(ob, i, p) == {j \in DOMAIN ob : j > i /\ Awaits(ob[j], p)}

\* Process q does not sleep on what its mailbox holds.
Settled(q) ==
  /\ q.status = OnMessage => \A m \in ToSet(q.mailbox) : Unasked(m)
  /\ \A t \in MatchTag \ {"DOWN", "EXIT"} : q.status = OnMatch(t) => ~mailboxHasVariantTag(t, q.mailbox)

\* Queued, unless it is the one that runs: whoever is ready, and nobody who waits.
Listed(q, p, rq, on) ==
  /\ q.status = Ready /\ p # on => p \in ToSet(rq)
  /\ p \in ToSet(rq) => p # on /\ q.status \notin Waits

\* With the first i intents of ob answered, p is owed what it has in its mailbox
\* and what is left, which is what it waits for unless it has exited or a reply
\* nobody awaited came first.
Owing(q, p, ob, ow, i) ==
  /\ ow[p] = Cardinality(Positions(q.mailbox, ReplyMessages)) + Cardinality(From(ob, i, p))
  /\ \A k \in Key : q.status = OnEffect(k) => \E j \in From(ob, i, p) : ob[j].key = k
  /\ \A j \in From(ob, i, p) : q.status \in {OnEffect(ob[j].key)} \union Terminal \union (IF i = 0 THEN {} ELSE {Ready})

Kept(q, p, rq, on, ob, ow, i) == q \in Process /\ Settled(q) /\ Listed(q, p, rq, on) /\ Owing(q, p, ob, ow, i)

Typed(ps, rq) ==
  /\ \E n \in 0 .. MaxProcesses : DOMAIN ps = 0 .. n - 1
  /\ rq \in Seq(DOMAIN ps)
  /\ IsInjective(rq)

\* The machine with processes ps, queue rq and process on running.
Well(ps, rq, on, ob, ow, i) ==
  /\ Typed(ps, rq)
  /\ \A p \in DOMAIN ps : Kept(ps[p], p, rq, on, ob, ow, i)

\* Machine m2 is well and has the processes of m.
Follows(m2, m, on, ob, ow, i) == Well(m2.procs, m2.ready, on, ob, ow, i) /\ DOMAIN m2.procs = DOMAIN m.procs

OutboxInv ==
  /\ outbox \in Seq(Intents)
  /\ \A i \in DOMAIN outbox : outbox[i].effect => i <= MaxEffectsRequested
  /\ \A i \in DOMAIN outbox : \A p : Awaits(outbox[i], p) => p \in DOMAIN procs
  /\ \A p \in DOMAIN procs : \A i, j \in From(outbox, 0, p) : i = j
  /\ owed \in [Pids -> Int] /\ \A p \in Pids \ DOMAIN procs : owed[p] = 0

StageInv ==
  /\ stage \in {"running", "suspended", "deadlock", "completed", "failed"}
  /\ stage # "running" => running = -1
  /\ stage = "deadlock" => steps >= MaxSteps \/ ready = <<>>
  /\ running # -1 => running \in DOMAIN procs /\ procs[running] \in Process /\ procs[running].status \notin Waits
  /\ held \in Process

\* The processes as they are, the running one as its slice has left it.
Present == [p \in DOMAIN procs |-> Now(p)]

IInv == StageInv /\ OutboxInv /\ Well(Present, ready, running, outbox, owed, 0)

---------------------------------------------------------------------------
(* Statuses, processes and the outbox *)

\* The statuses are told apart: what is ready does not wait, and what waits has not
\* ended.
LEMMA StatusesApart ==
  /\ Ready \notin Waits /\ Ready \notin Terminal /\ Terminal \intersect Waits = {} /\ <<"exited">> \in Terminal
  /\ OnMessage \in Waits /\ (\A t \in MatchTag : OnMatch(t) \in Waits) /\ \A k \in Key : OnEffect(k) \in Waits
  /\ \A t \in MatchTag : OnMatch(t) # OnMessage
  /\ \A k \in Key : OnEffect(k) # OnMessage /\ \A t \in MatchTag : OnEffect(k) # OnMatch(t)
  /\ \A k, l \in Key : OnEffect(k) = OnEffect(l) => k = l
  /\ \A t, u \in MatchTag : OnMatch(t) = OnMatch(u) => t = u
  /\ \A w \in Waits : w \in {OnMessage} \union {OnMatch(t) : t \in MatchTag} \union {OnEffect(k) : k \in Key}
<1>1. OnMessage[1] = "message" /\ Ready[1] = "ready" /\ \A x \in Terminal : x[1] \in {"completed", "exited"}
  BY DEF OnMessage, Ready, Terminal
<1>2. \A t : OnMatch(t)[1] = "match" /\ OnMatch(t)[2] = t
  BY DEF OnMatch
<1>3. \A k : OnEffect(k)[1] = "effect" /\ OnEffect(k)[2] = k
  BY DEF OnEffect
<1>4. \A w \in Waits : w[1] \in {"message", "match", "effect"}
  BY <1>1, <1>2, <1>3 DEF Waits
<1>5. <<"exited">> \in Terminal
  BY DEF Terminal
<1> QED
  BY <1>1, <1>2, <1>3, <1>4, <1>5 DEF Waits

\* What a process consists of.
LEMMA ProcessFields ==
  ASSUME NEW q \in Process
  PROVE  /\ q.status \in Status /\ q.mailbox \in Seq(Message) /\ q.monitors \in [Node -> Nat]
         /\ q.remoteLinks \in SUBSET Node /\ q.trapExit \in BOOLEAN
         /\ \A s \in Status : [q EXCEPT !.status = s] \in Process
         /\ \A b \in Seq(Message) : [q EXCEPT !.mailbox = b] \in Process
BY DEF Process

\* A message marked as awaited is a reply to an await.
LEMMA RepliesAre ==
  ASSUME NEW e \in Message
  PROVE  e \in ReplyMessages <=> e.awaited
BY DEF Message, ReplyMessages

\* An await in the outbox is for a key.
LEMMA AwaitKeys ==
  ASSUME NEW ob \in Seq(Intents), NEW i, NEW p, NEW j \in From(ob, i, p)
  PROVE  ob[j].key \in Key /\ j \in DOMAIN ob /\ Awaits(ob[j], p)
<1>1. j \in DOMAIN ob /\ Awaits(ob[j], p)
  BY DEF From
<1>2. ob[j] \in Intents
  BY <1>1, ElementOfSeq, LenProperties
<1> QED
  BY <1>1, <1>2 DEF Intents, Awaits

\* A message more in a mailbox.
LEMMA MailAppend ==
  ASSUME NEW b \in Seq(Message), NEW e \in Message
  PROVE  Append(b, e) \in Seq(Message) /\ ToSet(Append(b, e)) = ToSet(b) \union {e}
<1>1. /\ Append(b, e) \in Seq(Message) /\ Len(Append(b, e)) = Len(b) + 1 /\ Len(b) \in Nat
      /\ DOMAIN b = 1 .. Len(b) /\ DOMAIN Append(b, e) = 1 .. Len(b) + 1
      /\ (\A j \in 1 .. Len(b) : Append(b, e)[j] = b[j]) /\ Append(b, e)[Len(b) + 1] = e
  BY AppendProperties, LenProperties
<1> DEFINE a == Append(b, e)
           n == Len(b)
<1> HIDE DEF a, n
<1>2. /\ n \in Nat /\ DOMAIN b = 1 .. n /\ DOMAIN a = 1 .. n + 1
      /\ (\A j \in 1 .. n : a[j] = b[j]) /\ a[n + 1] = e
  BY <1>1 DEF a, n
<1>3. ToSet(a) = ToSet(b) \union {e}
  BY <1>2 DEF ToSet
<1> QED
  BY <1>1, <1>3 DEF a

\* The awaits left are finitely many positions of the outbox.
LEMMA FromFinite ==
  ASSUME NEW ob \in Seq(Intents), NEW i \in Nat, NEW p
  PROVE  IsFiniteSet(From(ob, i, p)) /\ Cardinality(From(ob, i, p)) \in Nat /\ From(ob, i, p) \subseteq 1 .. Len(ob)
<1>1. Len(ob) \in Nat /\ DOMAIN ob = 1 .. Len(ob)
  BY LenProperties
<1>2. IsFiniteSet(1 .. Len(ob))
  BY <1>1, FS_Interval
<1>3. From(ob, i, p) \in SUBSET (1 .. Len(ob))
  BY <1>1 DEF From
<1>4. IsFiniteSet(From(ob, i, p))
  BY <1>2, <1>3, FS_Subset
<1> QED
  BY <1>3, <1>4, FS_CardinalityType

\* What an intent adds to what is left to answer.
LEMMA FromAppend ==
  ASSUME NEW ob \in Seq(Intents), NEW e \in Intents, NEW p
  PROVE  /\ Append(ob, e) \in Seq(Intents) /\ Len(ob) \in Nat /\ Len(Append(ob, e)) = Len(ob) + 1
         /\ DOMAIN ob = 1 .. Len(ob) /\ DOMAIN Append(ob, e) = 1 .. Len(ob) + 1
         /\ \A j \in 1 .. Len(ob) : Append(ob, e)[j] = ob[j]
         /\ Append(ob, e)[Len(ob) + 1] = e
         /\ ~Awaits(e, p) => From(Append(ob, e), 0, p) = From(ob, 0, p)
         /\ Awaits(e, p) => From(Append(ob, e), 0, p) = From(ob, 0, p) \union {Len(ob) + 1}
<1>1. /\ Append(ob, e) \in Seq(Intents) /\ Len(Append(ob, e)) = Len(ob) + 1
      /\ \A j \in 1 .. Len(ob) : Append(ob, e)[j] = ob[j]
      /\ Append(ob, e)[Len(ob) + 1] = e
  BY AppendProperties
<1>2. Len(ob) \in Nat /\ DOMAIN ob = 1 .. Len(ob) /\ DOMAIN Append(ob, e) = 1 .. Len(ob) + 1
  BY <1>1, LenProperties
<1> DEFINE o2 == Append(ob, e)
           n == Len(ob)
<1> HIDE DEF o2, n
<1>3. /\ DOMAIN ob = 1 .. n /\ DOMAIN o2 = 1 .. n + 1 /\ n \in Nat
      /\ (\A j \in 1 .. n : o2[j] = ob[j]) /\ o2[n + 1] = e
  BY <1>1, <1>2 DEF o2, n
<1>4. ~Awaits(e, p) => From(o2, 0, p) = From(ob, 0, p)
  BY <1>3 DEF From
<1>5. Awaits(e, p) => From(o2, 0, p) = From(ob, 0, p) \union {n + 1}
  BY <1>3 DEF From
<1> QED
  BY <1>1, <1>2, <1>4, <1>5 DEF o2, n

\* What the answer to intent i takes away from it.
LEMMA FromNext ==
  ASSUME NEW ob \in Seq(Intents), NEW i \in 1 .. Len(ob), NEW p
  PROVE  /\ ~Awaits(ob[i], p) => From(ob, i, p) = From(ob, i - 1, p)
         /\ Awaits(ob[i], p) => i \in From(ob, i - 1, p) /\ From(ob, i, p) = From(ob, i - 1, p) \ {i}
<1>1. Len(ob) \in Nat /\ DOMAIN ob = 1 .. Len(ob)
  BY LenProperties
<1>2. \A j \in DOMAIN ob : j > i - 1 <=> (j > i \/ j = i)
  BY <1>1
<1> QED
  BY <1>1, <1>2 DEF From

\* None is left at its end, nor in an empty outbox.
LEMMA FromDone ==
  ASSUME NEW ob \in Seq(Intents), NEW p
  PROVE  From(ob, Len(ob), p) = {} /\ From(<<>>, 0, p) = {}
<1>1. Len(ob) \in Nat /\ DOMAIN ob = 1 .. Len(ob)
  BY LenProperties
<1> QED
  BY <1>1 DEF From

---------------------------------------------------------------------------
(* One process changes *)

\* A process that changes on its own, woken or not, leaves the machine well if it
\* is left well itself.
LEMMA OneChanges ==
  ASSUME NEW ps, NEW rq, NEW on, NEW ob, NEW ow, NEW i, Typed(ps, rq), NEW p \in DOMAIN ps, NEW q,
         NEW wakes \in BOOLEAN,
         \A r \in DOMAIN ps \ {p} : Kept(ps[r], r, rq, on, ob, ow, i),
         q \in Process, Settled(q), Owing(q, p, ob, ow, i),
         wakes => p \notin ToSet(rq) /\ p # on /\ q.status = Ready,
         ~wakes => Listed(q, p, rq, on)
  PROVE  Well([ps EXCEPT ![p] = q], IF wakes THEN Append(rq, p) ELSE rq, on, ob, ow, i)
<1> DEFINE ps2 == [ps EXCEPT ![p] = q]
           rq2 == IF wakes THEN Append(rq, p) ELSE rq
<1>1. DOMAIN ps2 = DOMAIN ps /\ ps2[p] = q /\ \A r \in DOMAIN ps \ {p} : ps2[r] = ps[r]
  OBVIOUS
<1>2. rq \in Seq(DOMAIN ps) /\ IsInjective(rq)
  BY DEF Typed
<1>3. rq2 \in Seq(DOMAIN ps) /\ IsInjective(rq2) /\ ToSet(rq2) = ToSet(rq) \union (IF wakes THEN {p} ELSE {})
  <2>1. CASE ~wakes
    BY <1>2, <2>1
  <2>2. CASE wakes
    <3>1. p \notin ToSet(rq)
      BY <2>2
    <3>2. /\ Append(rq, p) \in Seq(DOMAIN ps) /\ Len(Append(rq, p)) = Len(rq) + 1 /\ Len(rq) \in Nat
          /\ DOMAIN rq = 1 .. Len(rq) /\ DOMAIN Append(rq, p) = 1 .. Len(rq) + 1
          /\ (\A j \in 1 .. Len(rq) : Append(rq, p)[j] = rq[j]) /\ Append(rq, p)[Len(rq) + 1] = p
      BY <1>2, AppendProperties, LenProperties
    <3> DEFINE a == Append(rq, p)
               n == Len(rq)
    <3> HIDE DEF a, n
    <3>3. /\ a \in Seq(DOMAIN ps) /\ n \in Nat /\ DOMAIN rq = 1 .. n /\ DOMAIN a = 1 .. n + 1
          /\ (\A j \in 1 .. n : a[j] = rq[j]) /\ a[n + 1] = p
      BY <3>2 DEF a, n
    <3>4. ToSet(a) = ToSet(rq) \union {p}
      BY <3>3 DEF ToSet
    <3>5. IsInjective(a)
      BY <1>2, <3>1, <3>3 DEF IsInjective, ToSet
    <3> QED
      BY <2>2, <3>3, <3>4, <3>5 DEF a
  <2> QED
    BY <2>1, <2>2
<1> HIDE DEF ps2, rq2
<1>4. Typed(ps2, rq2)
  BY <1>1, <1>3 DEF Typed
<1>5. Kept(ps2[p], p, rq2, on, ob, ow, i)
  <2>1. Listed(q, p, rq2, on)
    <3>1. CASE wakes
      <4>1. p \in ToSet(rq2) /\ p # on /\ q.status = Ready /\ q.status \notin Waits
        BY <1>3, <3>1, StatusesApart
      <4> QED
        BY <4>1 DEF Listed
    <3>2. CASE ~wakes
      BY <3>2 DEF rq2
    <3> QED
      BY <3>1, <3>2
  <2> QED
    BY <1>1, <2>1 DEF Kept
<1>6. ASSUME NEW r \in DOMAIN ps \ {p} PROVE Kept(ps2[r], r, rq2, on, ob, ow, i)
  <2>1. ps2[r] = ps[r] /\ Kept(ps[r], r, rq, on, ob, ow, i)
    BY <1>1
  <2>2. r \in ToSet(rq2) <=> r \in ToSet(rq)
    BY <1>3
  <2>3. Listed(ps[r], r, rq2, on)
    BY <2>1, <2>2 DEF Kept, Listed
  <2> QED
    BY <2>1, <2>3 DEF Kept
<1> QED
  BY <1>1, <1>4, <1>5, <1>6 DEF Well, ps2, rq2

---------------------------------------------------------------------------
(* Deliveries *)

\* A process that is not running gets message e, and is woken and queued if it
\* waited for it (applyDelivery).
LEMMA MailGrows ==
  ASSUME NEW m, NEW on, NEW ob, NEW ow, NEW i, NEW j, NEW p \in DOMAIN m.procs, p # on, NEW e \in Message, NEW wakes \in BOOLEAN,
         Typed(m.procs, m.ready),
         \A r \in DOMAIN m.procs \ {p} : Kept(m.procs[r], r, m.ready, on, ob, ow, i),
         Kept(m.procs[p], p, m.ready, on, ob, ow, j),
         wakes => m.procs[p].status \in Waits,
         ~wakes => /\ m.procs[p].status = OnMessage => Unasked(e)
                   /\ \A t \in MatchTag : m.procs[p].status = OnMatch(t) => ~mailboxHasVariantTag(t, Append(m.procs[p].mailbox, e)),
         NEW q, q = [m.procs[p] EXCEPT !.mailbox = Append(@, e)],
         Owing(IF wakes THEN [q EXCEPT !.status = Ready] ELSE q, p, ob, ow, i)
  PROVE  Well(Woken(m, p, q, wakes).procs, Woken(m, p, q, wakes).ready, on, ob, ow, i)
<1> DEFINE old == m.procs[p]
           w == IF wakes THEN [q EXCEPT !.status = Ready] ELSE q
<1>1. old \in Process /\ Settled(old) /\ Listed(old, p, m.ready, on)
  BY DEF Kept
<1>2. Ready \in Status
  BY DEF Status
<1>3. Append(old.mailbox, e) \in Seq(Message) /\ ToSet(Append(old.mailbox, e)) = ToSet(old.mailbox) \union {e}
  BY <1>1, ProcessFields, MailAppend
<1>4. q \in Process /\ q.mailbox = Append(old.mailbox, e) /\ q.status = old.status
  <2>1. q = [old EXCEPT !.mailbox = Append(old.mailbox, e)]
    OBVIOUS
  <2> HIDE DEF old
  <2>2. [old EXCEPT !.mailbox = Append(old.mailbox, e)] \in Process
    BY <1>1, <1>3, ProcessFields
  <2>3. DOMAIN old = {"status", "mailbox", "monitors", "remoteLinks", "trapExit"}
    BY <1>1 DEF Process
  <2> QED
    BY <2>1, <2>2, <2>3
<1> HIDE DEF old
<1>5. w \in Process /\ (wakes => w.status = Ready) /\ (~wakes => w = q)
  <2>1. [q EXCEPT !.status = Ready] \in Process
    BY <1>2, <1>4, ProcessFields
  <2>2. DOMAIN q = {"status", "mailbox", "monitors", "remoteLinks", "trapExit"}
    BY <1>4 DEF Process
  <2> QED
    BY <1>4, <2>1, <2>2
<1> HIDE DEF w
<1>6. Settled(w)
  <2>1. CASE wakes
    <3>1. w.status # OnMessage /\ \A t \in MatchTag : w.status # OnMatch(t)
      BY <1>5, <2>1, StatusesApart
    <3> QED
      BY <3>1 DEF Settled
  <2>2. CASE ~wakes
    <3>1. w.mailbox = Append(old.mailbox, e) /\ w.status = old.status
      BY <1>4, <1>5, <2>2
    <3>2. w.status = OnMessage => \A x \in ToSet(w.mailbox) : Unasked(x)
      BY <1>1, <1>3, <2>2, <3>1 DEF Settled, old
    <3>3. \A t \in MatchTag : w.status = OnMatch(t) => ~mailboxHasVariantTag(t, w.mailbox)
      BY <2>2, <3>1 DEF old
    <3> QED
      BY <3>2, <3>3 DEF Settled
  <2> QED
    BY <2>1, <2>2
<1>7. wakes => p \notin ToSet(m.ready) /\ p # on /\ w.status = Ready
  BY <1>1, <1>5 DEF Listed, old
<1>8. ~wakes => Listed(w, p, m.ready, on)
  BY <1>1, <1>4, <1>5 DEF Listed
<1>9. Owing(w, p, ob, ow, i)
  BY DEF w
<1>10. Well([m.procs EXCEPT ![p] = w], IF wakes THEN Append(m.ready, p) ELSE m.ready, on, ob, ow, i)
  <2> DEFINE ps == m.procs
             rq == m.ready
  <2>1. Typed(ps, rq) /\ p \in DOMAIN ps /\ \A r \in DOMAIN ps \ {p} : Kept(ps[r], r, rq, on, ob, ow, i)
    OBVIOUS
  <2>2. wakes => p \notin ToSet(rq) /\ p # on /\ w.status = Ready
    BY <1>7
  <2>3. ~wakes => Listed(w, p, rq, on)
    BY <1>8
  <2> HIDE DEF ps, rq
  <2>4. Well([ps EXCEPT ![p] = w], IF wakes THEN Append(rq, p) ELSE rq, on, ob, ow, i)
    BY <1>5, <1>6, <1>9, <2>1, <2>2, <2>3, OneChanges
  <2> QED
    BY <2>4 DEF ps, rq
<1>11. /\ Woken(m, p, q, wakes).procs = [m.procs EXCEPT ![p] = w]
       /\ Woken(m, p, q, wakes).ready = IF wakes THEN Append(m.ready, p) ELSE m.ready
  BY DEF Woken, w
<1> QED
  BY <1>10, <1>11

\* A message (MailboxMessage, PROC_SEND).
LEMMA MessageDelivered ==
  ASSUME NEW m, NEW on, NEW ob \in Seq(Intents), NEW ow, NEW i \in Nat, NEW p \in DOMAIN m.procs, p # on,
         NEW t \in MessageTag, Well(m.procs, m.ready, on, ob, ow, i)
  PROVE  Follows(MailboxMessage(m, p, t), m, on, ob, ow, i)
<1> DEFINE e == Mail(t)
           old == m.procs[p]
           q == [old EXCEPT !.mailbox = Append(@, e)]
           wakes == WakesFor(q.status, q.mailbox)
           w == IF wakes THEN [q EXCEPT !.status = Ready] ELSE q
<1>1. e \in Message /\ e \notin ReplyMessages
  BY LimitsAssumption DEF Mail, Message, ReplyMessages, Tags
<1>2. Typed(m.procs, m.ready) /\ \A r \in DOMAIN m.procs : Kept(m.procs[r], r, m.ready, on, ob, ow, i)
  BY DEF Well
<1>3. old \in Process /\ Owing(old, p, ob, ow, i)
  BY <1>2 DEF Kept
<1>4. old.mailbox \in Seq(Message) /\ DOMAIN old = {"status", "mailbox", "monitors", "remoteLinks", "trapExit"}
  BY <1>3 DEF Process
<1> HIDE DEF e, old
<1>5. q.status = old.status /\ q.mailbox = Append(old.mailbox, e)
  BY <1>4
<1>6. wakes \in BOOLEAN
  BY DEF WakesFor
<1>7. wakes => /\ old.status \in Waits
               /\ \A k \in Key : old.status # OnEffect(k)
               /\ old.status \notin Terminal
  BY <1>5, StatusesApart DEF WakesFor
<1>8. ~wakes => /\ old.status # OnMessage
                /\ \A u \in MatchTag : old.status = OnMatch(u) => ~mailboxHasVariantTag(u, Append(old.mailbox, e))
  BY <1>5 DEF WakesFor
<1>9. w.mailbox = Append(old.mailbox, e) /\ w.status = IF wakes THEN Ready ELSE old.status
  BY <1>4, <1>5
<1> HIDE DEF q, wakes, w
<1>10. Cardinality(Positions(w.mailbox, ReplyMessages)) = Cardinality(Positions(old.mailbox, ReplyMessages))
  <2>1. Cardinality(Positions(old.mailbox, ReplyMessages)) \in Nat
    BY <1>4, PositionsFinite
  <2>2. Cardinality(Positions(Append(old.mailbox, e), ReplyMessages)) = Cardinality(Positions(old.mailbox, ReplyMessages)) + 0
    BY <1>1, <1>4, PositionsAppend
  <2> QED
    BY <1>9, <2>1, <2>2
<1>11. Owing(w, p, ob, ow, i)
  <2>1. ow[p] = Cardinality(Positions(w.mailbox, ReplyMessages)) + Cardinality(From(ob, i, p))
    BY <1>3, <1>10 DEF Owing
  <2>2. CASE wakes
    <3>1. \A j \in From(ob, i, p) : ob[j].key \in Key
      BY AwaitKeys
    <3>2. From(ob, i, p) = {}
      BY <1>3, <1>7, <2>2, <3>1, StatusesApart DEF Owing
    <3>3. w.status = Ready /\ \A k \in Key : w.status # OnEffect(k)
      BY <1>9, <2>2, StatusesApart
    <3> QED
      BY <2>1, <3>2, <3>3 DEF Owing
  <2>3. CASE ~wakes
    BY <1>3, <1>9, <2>1, <2>3 DEF Owing
  <2> QED
    BY <2>2, <2>3
<1>12. MailboxMessage(m, p, t) = Woken(m, p, q, wakes)
  BY DEF MailboxMessage, q, e, old, wakes
<1>13. q = [m.procs[p] EXCEPT !.mailbox = Append(@, e)]
  BY DEF q, old
<1>14. Well(Woken(m, p, q, wakes).procs, Woken(m, p, q, wakes).ready, on, ob, ow, i)
  <2>1. \A r \in DOMAIN m.procs \ {p} : Kept(m.procs[r], r, m.ready, on, ob, ow, i)
    BY <1>2
  <2>2. Kept(m.procs[p], p, m.ready, on, ob, ow, i)
    BY <1>2
  <2>3. wakes => m.procs[p].status \in Waits
    BY <1>7 DEF old
  <2>4. ~wakes => /\ m.procs[p].status = OnMessage => Unasked(e)
                  /\ \A u \in MatchTag : m.procs[p].status = OnMatch(u) => ~mailboxHasVariantTag(u, Append(m.procs[p].mailbox, e))
    BY <1>8 DEF old
  <2>5. Owing(IF wakes THEN [q EXCEPT !.status = Ready] ELSE q, p, ob, ow, i)
    BY <1>11 DEF w
  <2> QED
    BY <1>1, <1>2, <1>6, <1>13, <2>1, <2>2, <2>3, <2>4, <2>5, MailGrows
<1> QED
  BY <1>12, <1>14 DEF Woken, Follows

\* A reply for key k (EffectReply), which leaves i intents answered of which j were
\* before: whoever waits for the key goes on, and a process that has exited keeps it.
LEMMA ReplyDelivered ==
  ASSUME NEW m, NEW on, NEW ob \in Seq(Intents), NEW ow, NEW i \in Nat \ {0}, NEW j \in Nat,
         NEW p \in DOMAIN m.procs, p # on, NEW k \in Key, NEW awaited \in BOOLEAN,
         Typed(m.procs, m.ready),
         \A r \in DOMAIN m.procs \ {p} : Kept(m.procs[r], r, m.ready, on, ob, ow, i),
         Kept(m.procs[p], p, m.ready, on, ob, ow, j),
         awaited => m.procs[p].status # OnMessage,
         From(ob, i, p) \subseteq From(ob, j, p),
         Cardinality(From(ob, j, p)) = Cardinality(From(ob, i, p)) + (IF awaited THEN 1 ELSE 0),
         \A a \in From(ob, j, p) \ From(ob, i, p) : ob[a].key = k
  PROVE  Follows(EffectReply(m, p, k, awaited), m, on, ob, ow, i)
<1> DEFINE e == [tag |-> "EffectReply", awaited |-> awaited]
           old == m.procs[p]
           q == [old EXCEPT !.mailbox = Append(@, e)]
           wakes == q.status = OnEffect(k) \/ (q.status # OnMessage /\ WakesFor(q.status, q.mailbox))
           w == IF wakes THEN [q EXCEPT !.status = Ready] ELSE q
<1>1. e \in Message /\ e.awaited = awaited /\ (e \in ReplyMessages <=> awaited) /\ (~awaited => Unasked(e))
  BY DEF Message, ReplyMessages, Tags, Unasked
<1>2. old \in Process /\ Owing(old, p, ob, ow, j)
  BY DEF Kept
<1>3. old.mailbox \in Seq(Message) /\ DOMAIN old = {"status", "mailbox", "monitors", "remoteLinks", "trapExit"}
  BY <1>2 DEF Process
<1>4. /\ IsFiniteSet(From(ob, i, p)) /\ Cardinality(From(ob, i, p)) \in Nat
      /\ IsFiniteSet(From(ob, j, p)) /\ Cardinality(From(ob, j, p)) \in Nat
  BY FromFinite
<1> HIDE DEF e, old
<1>5. q.status = old.status /\ q.mailbox = Append(old.mailbox, e)
  BY <1>3
<1>6. w.mailbox = Append(old.mailbox, e) /\ w.status = IF wakes THEN Ready ELSE old.status
  BY <1>3, <1>5
<1>7. wakes \in BOOLEAN
  BY DEF WakesFor
<1>8. wakes => old.status \in Waits
  BY <1>5, StatusesApart DEF WakesFor
<1>9. ~wakes => /\ old.status # OnEffect(k)
                /\ old.status = OnMessage => Unasked(e)
                /\ \A t \in MatchTag : old.status = OnMatch(t) => ~mailboxHasVariantTag(t, Append(old.mailbox, e))
  <2>1. old.status = OnMessage => Unasked(e)
    BY <1>1 DEF old
  <2>2. \A t \in MatchTag : ~wakes /\ old.status = OnMatch(t) => ~mailboxHasVariantTag(t, Append(old.mailbox, e))
    BY <1>5, StatusesApart DEF WakesFor
  <2> QED
    BY <1>5, <2>1, <2>2
<1>10. EffectReply(m, p, k, awaited) = Woken(m, p, q, wakes)
  BY DEF EffectReply, q, e, old, wakes
<1>11. q = [m.procs[p] EXCEPT !.mailbox = Append(@, e)]
  BY DEF old
<1> HIDE DEF q, wakes, w
<1>12. Owing(w, p, ob, ow, i)
  <2>1. Cardinality(Positions(old.mailbox, ReplyMessages)) \in Nat
    BY <1>3, PositionsFinite
  <2>2. Cardinality(Positions(Append(old.mailbox, e), ReplyMessages)) = Cardinality(Positions(old.mailbox, ReplyMessages)) + IF e \in ReplyMessages THEN 1 ELSE 0
    BY <1>1, <1>3, PositionsAppend
  <2>3. ow[p] = Cardinality(Positions(old.mailbox, ReplyMessages)) + Cardinality(From(ob, j, p))
    BY <1>2 DEF Owing
  <2>4. ow[p] = Cardinality(Positions(w.mailbox, ReplyMessages)) + Cardinality(From(ob, i, p))
    BY <1>1, <1>4, <1>6, <2>1, <2>2, <2>3
  <2>5. ASSUME NEW l \in Key, w.status = OnEffect(l) PROVE \E a \in From(ob, i, p) : ob[a].key = l
    <3>1. ~wakes /\ old.status = OnEffect(l)
      BY <1>6, <2>5, StatusesApart
    <3>2. PICK a \in From(ob, j, p) : ob[a].key = l
      BY <1>2, <3>1 DEF Owing
    <3>3. l # k
      BY <1>9, <3>1
    <3> QED
      BY <3>2, <3>3
  <2>6. ASSUME NEW a \in From(ob, i, p)
        PROVE  w.status \in {OnEffect(ob[a].key)} \union Terminal \union (IF i = 0 THEN {} ELSE {Ready})
    <3>1. old.status \in {OnEffect(ob[a].key)} \union Terminal \union {Ready}
      BY <1>2 DEF Owing
    <3> QED
      BY <1>6, <3>1
  <2> QED
    BY <2>4, <2>5, <2>6 DEF Owing
<1>13. Well(Woken(m, p, q, wakes).procs, Woken(m, p, q, wakes).ready, on, ob, ow, i)
  <2>1. wakes => m.procs[p].status \in Waits
    BY <1>8 DEF old
  <2>2. ~wakes => /\ m.procs[p].status = OnMessage => Unasked(e)
                  /\ \A t \in MatchTag : m.procs[p].status = OnMatch(t) => ~mailboxHasVariantTag(t, Append(m.procs[p].mailbox, e))
    BY <1>9 DEF old
  <2>3. Owing(IF wakes THEN [q EXCEPT !.status = Ready] ELSE q, p, ob, ow, i)
    BY <1>12 DEF w
  <2> QED
    BY <1>1, <1>7, <1>11, <2>1, <2>2, <2>3, MailGrows
<1> QED
  BY <1>10, <1>13 DEF Woken, Follows

\* The notices of a disconnection are no replies, and no program waits for them by another tag.
LEMMA NoticesTyped ==
  ASSUME NEW q \in Process, NEW node \in Node
  PROVE  /\ Notices(q, node) \in Seq(Message)
         /\ \A j \in 1 .. Len(Notices(q, node)) : Notices(q, node)[j].tag \in {"DOWN", "EXIT"} /\ ~Notices(q, node)[j].awaited
<1> DEFINE n == q.monitors[node]
           T == [tag : {"DOWN", "EXIT"}, awaited : {FALSE}]
           d == [j \in 1 .. n |-> Mail("DOWN")]
           x == IF node \in q.remoteLinks /\ q.trapExit THEN <<Mail("EXIT")>> ELSE <<>>
<1>1. n \in Nat
  BY ProcessFields
<1>2. d \in Seq(T)
  <2>1. Mail("DOWN") \in T
    BY DEF Mail
  <2> HIDE DEF n, T
  <2>2. d \in [1 .. n -> T]
    BY <2>1
  <2> QED
    BY <1>1, <2>2, FunctionIsSeq
<1>3. x \in Seq(T)
  <2>1. Mail("EXIT") \in T
    BY DEF Mail
  <2> HIDE DEF T
  <2> QED
    BY <2>1, EmptySeq
<1>4. Notices(q, node) = d \o x
  BY DEF Notices
<1> HIDE DEF d, x, T
<1>5. Notices(q, node) \in Seq(T)
  BY <1>2, <1>3, <1>4, Concatenation
<1>6. T \subseteq Message
  BY DEF T, Message, Tags
<1>7. Notices(q, node) \in Seq(Message)
  BY <1>5, <1>6, SeqMonotonic
<1>8. \A j \in 1 .. Len(Notices(q, node)) : Notices(q, node)[j] \in T
  BY <1>5, ElementOfSeq
<1> QED
  BY <1>7, <1>8 DEF T

\* What a disconnection makes of one process.
LEMMA DisconnectedTyped ==
  ASSUME NEW q \in Process, NEW node \in Node
  PROVE  /\ Disconnected(q, node) \in Process
         /\ Disconnected(q, node).mailbox = q.mailbox \o Notices(q, node)
         /\ Disconnected(q, node).status = IF node \in q.remoteLinks /\ ~q.trapExit THEN <<"exited">>
                                           ELSE IF Hears(q, node) THEN Ready ELSE q.status
<1> DEFINE b == q.mailbox \o Notices(q, node)
           s == IF node \in q.remoteLinks /\ ~q.trapExit THEN <<"exited">> ELSE IF Hears(q, node) THEN Ready ELSE q.status
           q1 == [q EXCEPT !.mailbox = b]
           q2 == [q1 EXCEPT !.monitors = [q.monitors EXCEPT ![node] = 0]]
           q3 == [q2 EXCEPT !.remoteLinks = q.remoteLinks \ {node}]
           q4 == [q3 EXCEPT !.status = s]
<1>1. /\ q.status \in Status /\ q.mailbox \in Seq(Message) /\ q.monitors \in [Node -> Nat]
      /\ q.remoteLinks \in SUBSET Node /\ q.trapExit \in BOOLEAN
  BY ProcessFields
<1>2. b \in Seq(Message)
  BY <1>1, NoticesTyped, Concatenation
<1>3. s \in Status
  BY <1>1 DEF Status, Terminal
<1>4. Disconnected(q, node) = [q EXCEPT !.mailbox = b, !.monitors[node] = 0, !.remoteLinks = @ \ {node}, !.status = s]
  BY DEF Disconnected
<1> HIDE DEF b, s
<1>5. DOMAIN q = {"status", "mailbox", "monitors", "remoteLinks", "trapExit"}
  BY DEF Process
<1> DEFINE r == Disconnected(q, node)
<1>6. /\ r.status = s /\ r.mailbox = b /\ r.monitors = [q.monitors EXCEPT ![node] = 0]
      /\ r.remoteLinks = q.remoteLinks \ {node} /\ r.trapExit = q.trapExit
      /\ DOMAIN r = {"status", "mailbox", "monitors", "remoteLinks", "trapExit"}
      /\ r = [status |-> r.status, mailbox |-> r.mailbox, monitors |-> r.monitors, remoteLinks |-> r.remoteLinks, trapExit |-> r.trapExit]
  BY <1>4, <1>5 DEF Process
<1> HIDE DEF r
<1>7. r.monitors \in [Node -> Nat] /\ r.remoteLinks \in SUBSET Node
  BY <1>1, <1>6
<1>8. r \in Process
  BY <1>1, <1>2, <1>3, <1>6, <1>7 DEF Process
<1> QED
  BY <1>6, <1>8 DEF r, b, s

\* A disconnection: the notices reach every process, and those it wakes are
\* queued after the rest, in the order of their numbers (applyDisconnectDelivery).
LEMMA DisconnectDelivered ==
  ASSUME NEW m, NEW on, on = -1, NEW ob \in Seq(Intents), NEW ow, NEW i \in Nat, NEW node \in Node,
         Well(m.procs, m.ready, on, ob, ow, i)
  PROVE  Follows(applyDisconnectDelivery(m, node), m, on, ob, ow, i)
<1> DEFINE ps == m.procs
           rq == m.ready
           W == {p \in DOMAIN ps : Hears(ps[p], node)}
           key == [p \in DOMAIN ps |-> p]
           new == InOrder(W, key)
           ps2 == [p \in DOMAIN ps |-> Disconnected(ps[p], node)]
           rq2 == rq \o new
<1>1. applyDisconnectDelivery(m, node).procs = ps2 /\ applyDisconnectDelivery(m, node).ready = rq2
  BY DEF applyDisconnectDelivery
<1>2. /\ \A p \in DOMAIN ps : Kept(ps[p], p, rq, on, ob, ow, i)
      /\ \E n \in 0 .. MaxProcesses : DOMAIN ps = 0 .. n - 1
      /\ rq \in Seq(DOMAIN ps) /\ IsInjective(rq)
  BY DEF Well, Typed
<1> HIDE DEF ps, rq
<1>3. IsFiniteSet(DOMAIN ps) /\ \A p \in DOMAIN ps : p \in Nat /\ p # on
  <2>1. PICK n \in 0 .. MaxProcesses : DOMAIN ps = 0 .. n - 1
    BY <1>2
  <2>2. n \in Nat
    BY <2>1, LimitsAssumption
  <2>3. IsFiniteSet(0 .. n - 1)
    BY <2>2, FS_Interval
  <2> QED
    BY <2>1, <2>2, <2>3
<1>4. new \in Seq(W) /\ Range(new) = W /\ IsInjective(new)
  <2>1. W \in SUBSET DOMAIN ps
    OBVIOUS
  <2>2. IsFiniteSet(W)
    BY <1>3, <2>1, FS_Subset
  <2>3. (\A w \in W : key[w] \in Int) /\ \A v, w \in W : key[v] = key[w] => v = w
    BY <1>3
  <2> HIDE DEF W, key
  <2> QED
    BY <2>2, <2>3, InOrderLists
<1>5. \A p \in W : p \notin ToSet(rq)
  <2>1. \A p \in W : ps[p].status \in Waits /\ Listed(ps[p], p, rq, on)
    BY <1>2, StatusesApart DEF Hears, Kept
  <2> QED
    BY <2>1 DEF Listed
<1> HIDE DEF new
<1>6. /\ rq2 \in Seq(DOMAIN ps) /\ IsInjective(rq2)
      /\ ToSet(rq2) = ToSet(rq) \union W
  <2>1. new \in Seq(DOMAIN ps)
    <3>1. W \subseteq DOMAIN ps
      OBVIOUS
    <3> HIDE DEF W
    <3> QED
      BY <1>4, <3>1, SeqMonotonic
  <2>2. /\ rq2 \in Seq(DOMAIN ps) /\ DOMAIN rq2 = 1 .. Len(rq) + Len(new)
        /\ Len(rq) \in Nat /\ Len(new) \in Nat /\ DOMAIN rq = 1 .. Len(rq) /\ DOMAIN new = 1 .. Len(new)
        /\ \A j \in 1 .. Len(rq) : rq2[j] = rq[j]
        /\ \A j \in 1 .. Len(new) : rq2[Len(rq) + j] = new[j]
    BY <1>2, <2>1, Concatenation
  <2>3. ToSet(new) = W
    BY <1>4 DEF ToSet, Range
  <2> DEFINE a == Len(rq)
             b == Len(new)
  <2> HIDE DEF rq2, W, a, b
  <2>4. /\ DOMAIN rq2 = 1 .. a + b /\ a \in Nat /\ b \in Nat /\ DOMAIN rq = 1 .. a /\ DOMAIN new = 1 .. b
        /\ \A j \in 1 .. a : rq2[j] = rq[j]
        /\ \A j \in 1 .. b : rq2[a + j] = new[j]
    BY <2>2 DEF a, b
  <2>5. \A j \in a + 1 .. a + b : j - a \in 1 .. b /\ rq2[j] = new[j - a] /\ new[j - a] \in W
    <3>1. ASSUME NEW j \in a + 1 .. a + b PROVE j - a \in 1 .. b /\ rq2[j] = new[j - a] /\ new[j - a] \in W
      <4>1. j - a \in 1 .. b /\ a + (j - a) = j
        BY <2>4
      <4>2. new[j - a] \in ToSet(new)
        BY <2>4, <4>1 DEF ToSet
      <4>3. rq2[a + (j - a)] = new[j - a]
        BY <2>4, <4>1
      <4> QED
        BY <2>3, <4>1, <4>2, <4>3
    <3> QED
      BY <3>1
  <2>6. \A j \in 1 .. a : rq2[j] = rq[j] /\ rq[j] \in ToSet(rq)
    BY <2>4 DEF ToSet
  <2>7. \A j \in DOMAIN rq2 : j \in 1 .. a \/ j \in a + 1 .. a + b
    BY <2>4
  <2>8. ToSet(rq2) \subseteq ToSet(rq) \union W
    <3>1. ASSUME NEW x \in ToSet(rq2) PROVE x \in ToSet(rq) \union W
      <4>1. PICK j \in DOMAIN rq2 : x = rq2[j]
        BY DEF ToSet
      <4> QED
        BY <2>5, <2>6, <2>7, <4>1
    <3> QED
      BY <3>1
  <2>9. ToSet(rq) \union W \subseteq ToSet(rq2)
    <3>1. ASSUME NEW x \in ToSet(rq) PROVE x \in ToSet(rq2)
      <4>1. PICK j \in DOMAIN rq : x = rq[j]
        BY DEF ToSet
      <4>2. j \in DOMAIN rq2 /\ rq2[j] = x
        BY <2>4, <4>1
      <4> QED
        BY <4>2 DEF ToSet
    <3>2. ASSUME NEW x \in W PROVE x \in ToSet(rq2)
      <4>1. PICK j \in DOMAIN new : x = new[j]
        BY <2>3 DEF ToSet
      <4>2. a + j \in DOMAIN rq2 /\ rq2[a + j] = x
        BY <2>4, <4>1
      <4> QED
        BY <4>2 DEF ToSet
    <3> QED
      BY <3>1, <3>2
  <2>10. IsInjective(rq2)
    <3>1. ASSUME NEW j \in DOMAIN rq2, NEW l \in DOMAIN rq2, rq2[j] = rq2[l] PROVE j = l
      <4>1. CASE j \in 1 .. a /\ l \in 1 .. a
        BY <1>2, <2>4, <3>1, <4>1 DEF IsInjective
      <4>2. CASE j \in a + 1 .. a + b /\ l \in a + 1 .. a + b
        <5>1. new[j - a] = new[l - a] /\ j - a \in DOMAIN new /\ l - a \in DOMAIN new
          BY <2>4, <2>5, <3>1, <4>2
        <5>2. j - a = l - a
          BY <1>4, <5>1 DEF IsInjective
        <5> QED
          BY <2>4, <4>2, <5>2
      <4>3. CASE j \in 1 .. a /\ l \in a + 1 .. a + b
        BY <1>5, <2>5, <2>6, <3>1, <4>3
      <4>4. CASE j \in a + 1 .. a + b /\ l \in 1 .. a
        BY <1>5, <2>5, <2>6, <3>1, <4>4
      <4> QED
        BY <2>7, <4>1, <4>2, <4>3, <4>4
    <3> QED
      BY <3>1 DEF IsInjective
  <2> QED
    BY <2>2, <2>8, <2>9, <2>10
<1>7. DOMAIN ps2 = DOMAIN ps
  OBVIOUS
<1> HIDE DEF rq2
<1>8. ASSUME NEW p \in DOMAIN ps PROVE Kept(ps2[p], p, rq2, on, ob, ow, i)
  <2> DEFINE old == ps[p]
             q == ps2[p]
             N == Notices(old, node)
  <2>1. old \in Process /\ Settled(old) /\ Listed(old, p, rq, on) /\ Owing(old, p, ob, ow, i) /\ p # on
    BY <1>2, <1>3 DEF Kept
  <2>2. q = Disconnected(old, node)
    OBVIOUS
  <2>3. p \in W <=> Hears(old, node)
    OBVIOUS
  <2> HIDE DEF ps2, old, W
  <2>4. /\ q \in Process /\ q.mailbox = old.mailbox \o N
        /\ q.status = IF node \in old.remoteLinks /\ ~old.trapExit THEN <<"exited">> ELSE IF Hears(old, node) THEN Ready ELSE old.status
    BY <2>1, <2>2, DisconnectedTyped
  <2>5. N \in Seq(Message) /\ old.mailbox \in Seq(Message) /\ \A j \in 1 .. Len(N) : N[j].tag \in {"DOWN", "EXIT"} /\ ~N[j].awaited
    BY <2>1, NoticesTyped, ProcessFields
  <2> HIDE DEF q, N
  <2>6. q.status \in {<<"exited">>, Ready, old.status}
    BY <2>4
  <2>7. q.status \in Waits => q.status = old.status /\ ~Hears(old, node)
    BY <2>4, StatusesApart
  <2>8. Settled(q)
    <3>1. ASSUME q.status = OnMessage PROVE \A x \in ToSet(q.mailbox) : Unasked(x)
      <4>1. old.status = OnMessage /\ ~Hears(old, node)
        BY <2>7, <3>1, StatusesApart
      <4>2. N = <<>> /\ \A x \in ToSet(old.mailbox) : Unasked(x)
        BY <2>1, <4>1 DEF Hears, Settled, N
      <4>3. old.mailbox \o <<>> = old.mailbox
        BY <2>5
      <4> QED
        BY <2>4, <4>2, <4>3
    <3>2. ASSUME NEW t \in MatchTag \ {"DOWN", "EXIT"}, q.status = OnMatch(t) PROVE ~mailboxHasVariantTag(t, q.mailbox)
      <4>1. old.status = OnMatch(t)
        BY <2>7, <3>2, StatusesApart
      <4>2. ~mailboxHasVariantTag(t, old.mailbox)
        BY <2>1, <4>1 DEF Settled
      <4>3. ASSUME NEW x \in ToSet(q.mailbox) PROVE x \in ToSet(old.mailbox) \/ x.tag \in {"DOWN", "EXIT"}
        <5>1. PICK j \in DOMAIN q.mailbox : x = q.mailbox[j]
          BY <4>3 DEF ToSet
        <5> DEFINE a == Len(old.mailbox)
        <5>2. /\ DOMAIN q.mailbox = 1 .. a + Len(N) /\ a \in Nat /\ Len(N) \in Nat /\ DOMAIN old.mailbox = 1 .. a
              /\ \A l \in 1 .. a : q.mailbox[l] = old.mailbox[l]
              /\ \A l \in 1 .. Len(N) : q.mailbox[a + l] = N[l]
          BY <2>4, <2>5, Concatenation
        <5> HIDE DEF a
        <5>3. CASE j \in 1 .. a
          BY <5>1, <5>2, <5>3 DEF ToSet
        <5>4. CASE j \notin 1 .. a
          <6>1. j - a \in 1 .. Len(N) /\ j = a + (j - a)
            BY <5>1, <5>2, <5>4
          <6> QED
            BY <2>5, <5>1, <5>2, <6>1
        <5> QED
          BY <5>3, <5>4
      <4> QED
        BY <3>2, <4>2, <4>3 DEF mailboxHasVariantTag
    <3> QED
      BY <3>1, <3>2 DEF Settled
  <2>9. Listed(q, p, rq2, on)
    <3>1. ASSUME q.status = Ready PROVE p \in ToSet(rq2)
      <4>1. Hears(old, node) \/ old.status = Ready
        BY <2>4, <3>1, StatusesApart
      <4> QED
        BY <1>6, <2>1, <2>3, <4>1 DEF Listed
    <3>2. ASSUME p \in ToSet(rq2) PROVE q.status \notin Waits
      <4>1. CASE p \in ToSet(rq)
        BY <2>1, <2>7, <4>1 DEF Listed
      <4>2. CASE p \in W
        BY <2>3, <2>7, <4>2
      <4> QED
        BY <1>6, <3>2, <4>1, <4>2
    <3> QED
      BY <2>1, <3>1, <3>2 DEF Listed
  <2>10. Owing(q, p, ob, ow, i)
    <3>1. \A j \in 1 .. Len(N) : N[j] \notin ReplyMessages
      BY <2>5 DEF ReplyMessages
    <3>2. Positions(q.mailbox, ReplyMessages) = Positions(old.mailbox, ReplyMessages)
      <4>1. old.mailbox \in Seq(Message) /\ N \in Seq(Message)
        BY <2>5
      <4>2. Positions(old.mailbox \o N, ReplyMessages) = Positions(old.mailbox, ReplyMessages)
        BY <3>1, <4>1, PositionsJoined
      <4> QED
        BY <2>4, <4>2
    <3>3. \A k \in Key : q.status = OnEffect(k) => old.status = OnEffect(k)
      BY <2>7, StatusesApart
    <3>4. ASSUME NEW j \in From(ob, i, p)
          PROVE  q.status \in {OnEffect(ob[j].key)} \union Terminal \union (IF i = 0 THEN {} ELSE {Ready})
      <4>1. old.status \in {OnEffect(ob[j].key)} \union Terminal \union (IF i = 0 THEN {} ELSE {Ready})
        BY <2>1 DEF Owing
      <4>2. ob[j].key \in Key
        BY AwaitKeys
      <4>3. old.status # OnMessage
        BY <4>1, <4>2, StatusesApart
      <4>4. ~Hears(old, node)
        BY <4>3 DEF Hears
      <4>5. q.status \in {<<"exited">>, old.status}
        BY <2>4, <4>4
      <4> QED
        BY <4>1, <4>5, StatusesApart
    <3> QED
      BY <2>1, <3>2, <3>3, <3>4 DEF Owing
  <2> QED
    BY <2>4, <2>8, <2>9, <2>10 DEF Kept, q
<1>9. Typed(ps2, rq2)
  BY <1>2, <1>6, <1>7 DEF Typed
<1>10. Well(ps2, rq2, on, ob, ow, i)
  BY <1>7, <1>8, <1>9 DEF Well
<1> QED
  BY <1>1, <1>7, <1>10 DEF ps, Follows

---------------------------------------------------------------------------
(* Resumes *)

\* What the machine may be with the first intents answered, each prefix in its turn.
AnswersTo(f, n) ==
  f = [i \in 0 .. n |-> IF i = 0 THEN {[procs |-> procs, ready |-> ready]}
                        ELSE Delivered(outbox[i], f[i - 1])]

\* The function Answered picks is the one its equations describe.
LEMMA AnswersExist ==
  ASSUME OutboxInv
  PROVE  AnswersTo(Answered, Len(outbox))
<1> DEFINE T == {n \in Nat : \E f : AnswersTo(f, n)}
           next(s, i) == Delivered(outbox[i], s)
<1>1. 0 \in T
  <2> DEFINE f == [i \in 0 .. 0 |-> {[procs |-> procs, ready |-> ready]}]
  <2>1. AnswersTo(f, 0)
    <3>1. \A i \in 0 .. 0 : i = 0
      OBVIOUS
    <3> QED
      BY <3>1 DEF AnswersTo
  <2> QED
    BY <2>1
<1>2. ASSUME NEW n \in Nat, n \in T PROVE n + 1 \in T
  <2>1. PICK f : AnswersTo(f, n)
    BY <1>2
  <2> DEFINE g == [i \in 0 .. n + 1 |-> IF i = n + 1 THEN next(f[n], n + 1) ELSE f[i]]
  <2>2. \A i \in 0 .. n : f[i] = IF i = 0 THEN {[procs |-> procs, ready |-> ready]} ELSE next(f[i - 1], i)
    BY <2>1, Zenon DEF AnswersTo
  <2> HIDE DEF next
  <2>3. \A i \in 0 .. n : g[i] = f[i]
    OBVIOUS
  <2>4. g[n + 1] = next(f[n], n + 1)
    OBVIOUS
  <2>5. DOMAIN g = 0 .. n + 1 /\ g = [i \in 0 .. n + 1 |-> g[i]]
    OBVIOUS
  <2> HIDE DEF g
  <2>6. \A i \in 0 .. n + 1 : g[i] = IF i = 0 THEN {[procs |-> procs, ready |-> ready]} ELSE next(g[i - 1], i)
    <3>1. ASSUME NEW i \in 0 .. n + 1
          PROVE  g[i] = IF i = 0 THEN {[procs |-> procs, ready |-> ready]} ELSE next(g[i - 1], i)
      <4>1. CASE i = n + 1
        <5>1. i # 0 /\ i - 1 = n /\ n \in 0 .. n
          BY <4>1
        <5> QED
          BY <2>3, <2>4, <4>1, <5>1
      <4>2. CASE i # n + 1
        <5>1. i \in 0 .. n /\ (i # 0 => i - 1 \in 0 .. n)
          BY <4>2
        <5> QED
          BY <2>2, <2>3, <5>1
      <4> QED
        BY <4>1, <4>2
    <3> QED
      BY <3>1
  <2>7. g = [i \in 0 .. n + 1 |-> IF i = 0 THEN {[procs |-> procs, ready |-> ready]} ELSE next(g[i - 1], i)]
    BY <2>5, <2>6
  <2>8. AnswersTo(g, n + 1)
    BY <2>7, Zenon DEF AnswersTo, next
  <2> QED
    BY <2>8
<1>3. Len(outbox) \in Nat
  BY LenProperties DEF OutboxInv
<1>4. Len(outbox) \in T
  <2> HIDE DEF T
  <2> QED
    BY <1>1, <1>2, <1>3, EveryNumberIn
<1>5. PICK f : AnswersTo(f, Len(outbox))
  BY <1>4
<1>6. Answered = CHOOSE f1 : f1 = [i \in 0 .. Len(outbox) |->
         IF i = 0 THEN {[procs |-> procs, ready |-> ready]}
         ELSE Delivered(outbox[i], f1[i - 1])]
  BY Zenon DEF Answered
<1> QED
  BY <1>5, <1>6, Zenon DEF AnswersTo

\* Machine m, with every number process procs has and i intents answered.
WellAt(m, i) == Well(m.procs, m.ready, -1, outbox, owed, i) /\ DOMAIN m.procs = DOMAIN procs

\* Where nothing more is answered, nobody is owed less.
LEMMA OwingKeeps ==
  ASSUME NEW ps, NEW rq, NEW on, NEW ob, NEW o2, NEW ow, NEW i, NEW j, Well(ps, rq, on, ob, ow, i),
         \A p \in DOMAIN ps : From(o2, j, p) = From(ob, i, p),
         \A p \in DOMAIN ps : \A l \in From(ob, i, p) : o2[l] = ob[l],
         j # 0 \/ \A p \in DOMAIN ps : From(o2, j, p) = {}
  PROVE  Well(ps, rq, on, o2, ow, j)
<1>1. ASSUME NEW p \in DOMAIN ps PROVE Kept(ps[p], p, rq, on, o2, ow, j)
  <2>1. Kept(ps[p], p, rq, on, ob, ow, i)
    BY DEF Well
  <2>2. From(o2, j, p) = From(ob, i, p) /\ \A l \in From(ob, i, p) : o2[l] = ob[l]
    OBVIOUS
  <2>3. Owing(ps[p], p, o2, ow, j)
    BY <2>1, <2>2 DEF Kept, Owing
  <2> QED
    BY <2>1, <2>3 DEF Kept
<1> QED
  BY <1>1 DEF Well

\* What WellAt says of the processes there are.
LEMMA WellAtSays ==
  ASSUME NEW m, NEW i \in Nat, WellAt(m, i)
  PROVE  /\ DOMAIN m.procs = DOMAIN procs /\ \A p \in DOMAIN m.procs : p \in Pids /\ p # -1
         /\ Typed(m.procs, m.ready) /\ \A r \in DOMAIN m.procs : Kept(m.procs[r], r, m.ready, -1, outbox, owed, i)
<1>1. DOMAIN m.procs = DOMAIN procs /\ Typed(m.procs, m.ready)
  BY DEF WellAt, Well
<1>2. \A r \in DOMAIN m.procs : Kept(m.procs[r], r, m.ready, -1, outbox, owed, i)
  BY DEF WellAt, Well
<1>3. PICK n \in 0 .. MaxProcesses : DOMAIN m.procs = 0 .. n - 1
  BY <1>1 DEF Typed
<1> QED
  BY <1>1, <1>2, <1>3, LimitsAssumption DEF Pids

\* Whatever a transport has delivered, a reply that nobody awaited included
\* (applyDelivery).
LEMMA HintKeeps ==
  ASSUME OutboxInv, NEW i \in 1 .. Len(outbox), NEW m, WellAt(m, i), NEW d \in Hints
  PROVE  WellAt(applyDelivery(m, d), i)
<1>1. outbox \in Seq(Intents) /\ i \in Nat \ {0}
  BY LenProperties DEF OutboxInv
<1>2. /\ DOMAIN m.procs = DOMAIN procs /\ \A p \in DOMAIN m.procs : p \in Pids /\ p # -1
      /\ Typed(m.procs, m.ready) /\ \A r \in DOMAIN m.procs : Kept(m.procs[r], r, m.ready, -1, outbox, owed, i)
  BY <1>1, WellAtSays
<1>3. Well(m.procs, m.ready, -1, outbox, owed, i)
  BY DEF WellAt
<1>4. \/ \E p \in Pid, k \in Key : d = <<"reply", p, k, FALSE>>
      \/ \E p \in Pid, t \in MessageTag : d = <<"message", p, t>>
      \/ \E node \in Node : d = <<"disconnect", node>>
  <2>1. d \in {"reply"} \X Pid \X Key \X {FALSE} => \E p \in Pid, k \in Key : d = <<"reply", p, k, FALSE>>
    <3> DEFINE F == {FALSE}
    <3>1. d \in {"reply"} \X Pid \X Key \X F => \E p \in Pid, k \in Key, f \in F : d = <<"reply", p, k, f>>
      <4> HIDE DEF F
      <4> QED
        OBVIOUS
    <3>2. \A f \in F : f = FALSE
      OBVIOUS
    <3>3. {"reply"} \X Pid \X Key \X F = {"reply"} \X Pid \X Key \X {FALSE}
      OBVIOUS
    <3> HIDE DEF F
    <3> QED
      BY <3>1, <3>2, <3>3, Zenon
  <2>2. d \in {"message"} \X Pid \X MessageTag => \E p \in Pid, t \in MessageTag : d = <<"message", p, t>>
    OBVIOUS
  <2>3. d \in {"disconnect"} \X Node => \E node \in Node : d = <<"disconnect", node>>
    OBVIOUS
  <2> QED
    BY <2>1, <2>2, <2>3, Zenon DEF Hints
<1>5. CASE \E p \in Pid, k \in Key : d = <<"reply", p, k, FALSE>>
  <2>1. PICK p \in Pid, k \in Key : d = <<"reply", p, k, FALSE>>
    BY <1>5
  <2>2. applyDelivery(m, d) = IF p \in DOMAIN m.procs THEN EffectReply(m, p, k, FALSE) ELSE m
    BY <2>1 DEF applyDelivery
  <2>3. CASE p \in DOMAIN m.procs
    <3> DEFINE on == -1
               ob == outbox
               no == FALSE
    <3>1. /\ p # on /\ ob \in Seq(Intents) /\ no \in BOOLEAN /\ Kept(m.procs[p], p, m.ready, on, ob, owed, i)
          /\ \A r \in DOMAIN m.procs \ {p} : Kept(m.procs[r], r, m.ready, on, ob, owed, i)
      BY <1>1, <1>2, <2>3
    <3>2. IsFiniteSet(From(ob, i, p)) /\ Cardinality(From(ob, i, p)) \in Nat
      BY <1>1, FromFinite
    <3>3. /\ no => m.procs[p].status # OnMessage
          /\ Cardinality(From(ob, i, p)) = Cardinality(From(ob, i, p)) + (IF no THEN 1 ELSE 0)
      BY <3>2
    <3>4. From(ob, i, p) \subseteq From(ob, i, p) /\ \A a \in From(ob, i, p) \ From(ob, i, p) : ob[a].key = k
      OBVIOUS
    <3> HIDE DEF on, ob, no
    <3>5. Follows(EffectReply(m, p, k, no), m, on, ob, owed, i)
      BY <1>1, <1>2, <2>3, <3>1, <3>3, <3>4, ReplyDelivered, Zenon
    <3> QED
      BY <1>2, <2>2, <2>3, <3>5 DEF WellAt, Follows, on, ob, no
  <2>4. CASE p \notin DOMAIN m.procs
    BY <2>2, <2>4
  <2> QED
    BY <2>3, <2>4
<1>6. CASE \E p \in Pid, t \in MessageTag : d = <<"message", p, t>>
  <2>1. PICK p \in Pid, t \in MessageTag : d = <<"message", p, t>>
    BY <1>6
  <2>2. applyDelivery(m, d) = IF p \in DOMAIN m.procs THEN MailboxMessage(m, p, t) ELSE m
    BY <2>1 DEF applyDelivery
  <2>3. CASE p \in DOMAIN m.procs
    <3> DEFINE on == -1
               ob == outbox
    <3>1. p # on /\ ob \in Seq(Intents) /\ Well(m.procs, m.ready, on, ob, owed, i) /\ i \in Nat
      BY <1>1, <1>2, <1>3, <2>3
    <3> HIDE DEF on, ob
    <3>2. Follows(MailboxMessage(m, p, t), m, on, ob, owed, i)
      BY <2>1, <2>3, <3>1, MessageDelivered, Zenon
    <3> QED
      BY <1>2, <2>2, <2>3, <3>2 DEF WellAt, Follows, on, ob
  <2>4. CASE p \notin DOMAIN m.procs
    BY <2>2, <2>4
  <2> QED
    BY <2>3, <2>4
<1>7. CASE \E node \in Node : d = <<"disconnect", node>>
  <2>1. PICK node \in Node : d = <<"disconnect", node>>
    BY <1>7
  <2>2. applyDelivery(m, d) = applyDisconnectDelivery(m, node)
    BY <2>1 DEF applyDelivery
  <2> DEFINE on == -1
             ob == outbox
  <2>3. on = -1 /\ ob \in Seq(Intents) /\ Well(m.procs, m.ready, on, ob, owed, i) /\ i \in Nat
    BY <1>1, <1>3
  <2> HIDE DEF on, ob
  <2>4. Follows(applyDisconnectDelivery(m, node), m, on, ob, owed, i)
    BY <2>3, DisconnectDelivered, Zenon
  <2> QED
    BY <1>2, <2>2, <2>4 DEF WellAt, Follows, on, ob
<1> QED
  BY <1>4, <1>5, <1>6, <1>7

\* The reply to intent i, if its payload passes for an await: its process waited for
\* it, or nobody awaited it (applyDelivery, pendingEntry).
LEMMA ReplyKeeps ==
  ASSUME OutboxInv, NEW i \in 1 .. Len(outbox), NEW m, WellAt(m, i - 1), outbox[i].kind = "await_reply"
  PROVE  WellAt(applyDelivery(m, <<"reply", outbox[i].pid, outbox[i].key, outbox[i].awaited>>), i)
<1> DEFINE ob == outbox
           p == ob[i].pid
           k == ob[i].key
           awaited == ob[i].awaited
           h == i - 1
<1>1. ob \in Seq(Intents) /\ i \in Nat \ {0} /\ h \in Nat /\ i \in DOMAIN ob /\ ob[i] \in Intents /\ i \in 1 .. Len(ob)
  BY LenProperties, ElementOfSeq DEF OutboxInv
<1>2. /\ \A r : Awaits(ob[i], r) => r \in DOMAIN procs
      /\ \A r \in DOMAIN procs : \A a, b \in From(ob, 0, r) : a = b
  BY <1>1 DEF OutboxInv
<1>3. k \in Key /\ awaited \in BOOLEAN /\ (awaited <=> Awaits(ob[i], p)) /\ \A r : Awaits(ob[i], r) => r = p
  BY <1>1 DEF Intents, Awaits
<1>4. /\ DOMAIN m.procs = DOMAIN procs /\ \A r \in DOMAIN m.procs : r \in Pids /\ r # -1
      /\ Typed(m.procs, m.ready) /\ \A r \in DOMAIN m.procs : Kept(m.procs[r], r, m.ready, -1, ob, owed, h)
  BY <1>1, WellAtSays
<1>5. applyDelivery(m, <<"reply", p, k, awaited>>) = IF p \in DOMAIN m.procs THEN EffectReply(m, p, k, awaited) ELSE m
  BY DEF applyDelivery
<1> HIDE DEF ob, h, p, k, awaited
<1>6. ASSUME NEW r, r # p \/ ~awaited PROVE From(ob, i, r) = From(ob, h, r)
  <2>1. ~Awaits(ob[i], r)
    BY <1>3, <1>6
  <2> QED
    BY <1>1, <2>1, FromNext DEF h
<1>7. ASSUME NEW r \in DOMAIN m.procs, r # p \/ ~awaited PROVE Kept(m.procs[r], r, m.ready, -1, ob, owed, i)
  <2>1. Kept(m.procs[r], r, m.ready, -1, ob, owed, h) /\ From(ob, i, r) = From(ob, h, r) /\ i # 0
    BY <1>1, <1>4, <1>6, <1>7
  <2>2. Owing(m.procs[r], r, ob, owed, i)
    BY <2>1 DEF Kept, Owing
  <2> QED
    BY <2>1, <2>2 DEF Kept
<1>8. CASE p \notin DOMAIN m.procs
  <2>1. ~awaited
    BY <1>2, <1>3, <1>4, <1>8
  <2>2. Well(m.procs, m.ready, -1, ob, owed, i)
    BY <1>4, <1>7, <2>1 DEF Well
  <2> QED
    BY <1>4, <1>5, <1>8, <2>2 DEF WellAt, ob, p, k, awaited
<1>9. CASE p \in DOMAIN m.procs
  <2>1. Kept(m.procs[p], p, m.ready, -1, ob, owed, h)
    BY <1>4, <1>9
  <2>2. /\ IsFiniteSet(From(ob, h, p)) /\ Cardinality(From(ob, h, p)) \in Nat
        /\ IsFiniteSet(From(ob, 0, p)) /\ From(ob, h, p) \subseteq From(ob, 0, p)
    <3>1. \A j \in DOMAIN ob : j > h => j > 0
      BY <1>1, LenProperties
    <3> QED
      BY <1>1, <3>1, FromFinite DEF From
  <2>3. ASSUME awaited
        PROVE  /\ m.procs[p].status # OnMessage /\ From(ob, i, p) \subseteq From(ob, h, p)
               /\ Cardinality(From(ob, h, p)) = Cardinality(From(ob, i, p)) + (IF awaited THEN 1 ELSE 0)
               /\ \A a \in From(ob, h, p) \ From(ob, i, p) : ob[a].key = k
    <3>1. i \in From(ob, h, p) /\ From(ob, i, p) = From(ob, h, p) \ {i}
      BY <1>1, <1>3, <2>3, FromNext DEF h
    <3>2. From(ob, h, p) = {i}
      BY <1>2, <1>4, <1>9, <2>2, <3>1
    <3>3. From(ob, i, p) = {}
      BY <3>1, <3>2
    <3>4. Cardinality(From(ob, h, p)) = Cardinality(From(ob, i, p)) + (IF awaited THEN 1 ELSE 0)
      <4>1. Cardinality(From(ob, h, p)) = 1
        BY <3>2, FS_Singleton
      <4>2. Cardinality(From(ob, i, p)) = 0
        BY <3>3, FS_EmptySet
      <4> QED
        BY <2>3, <4>1, <4>2
    <3>5. \A a \in From(ob, h, p) \ From(ob, i, p) : ob[a].key = k
      BY <3>2 DEF k
    <3>6. m.procs[p].status # OnMessage
      <4>1. m.procs[p].status \in {OnEffect(k)} \union Terminal \union {Ready}
        <5>1. m.procs[p].status \in {OnEffect(ob[i].key)} \union Terminal \union (IF h = 0 THEN {} ELSE {Ready})
          BY <2>1, <3>1 DEF Kept, Owing
        <5> QED
          BY <5>1 DEF k
      <4> QED
        BY <1>3, <4>1, StatusesApart
    <3> QED
      BY <3>1, <3>4, <3>5, <3>6
  <2>4. ASSUME ~awaited
        PROVE  From(ob, i, p) = From(ob, h, p) /\ Cardinality(From(ob, h, p)) = Cardinality(From(ob, i, p)) + (IF awaited THEN 1 ELSE 0)
    <3>1. From(ob, i, p) = From(ob, h, p)
      BY <1>6, <2>4
    <3> QED
      BY <2>2, <2>4, <3>1
  <2>5. /\ awaited => m.procs[p].status # OnMessage
        /\ From(ob, i, p) \subseteq From(ob, h, p)
        /\ Cardinality(From(ob, h, p)) = Cardinality(From(ob, i, p)) + (IF awaited THEN 1 ELSE 0)
        /\ \A a \in From(ob, h, p) \ From(ob, i, p) : ob[a].key = k
    BY <2>3, <2>4
  <2> DEFINE on == -1
  <2>6. /\ p # on /\ Kept(m.procs[p], p, m.ready, on, ob, owed, h)
        /\ \A r \in DOMAIN m.procs \ {p} : Kept(m.procs[r], r, m.ready, on, ob, owed, i)
    BY <1>4, <1>7, <1>9, <2>1
  <2> HIDE DEF on
  <2>7. Follows(EffectReply(m, p, k, awaited), m, on, ob, owed, i)
    BY <1>1, <1>3, <1>4, <1>9, <2>5, <2>6, ReplyDelivered, Zenon
  <2> QED
    BY <1>4, <1>5, <1>9, <2>7 DEF WellAt, Follows, on, ob, p, k, awaited
<1> QED
  BY <1>8, <1>9

\* The machines after so many hints.
HintedTo(f, n, ms) ==
  f = [i \in 0 .. n |-> IF i = 0 THEN ms ELSE OneHint(f[i - 1])]

\* The function Hinted picks is the one its equations describe.
LEMMA HintsExist ==
  ASSUME NEW ms
  PROVE  \E f : HintedTo(f, MaxHints, ms) /\ Hinted(ms) = f[MaxHints]
<1> DEFINE T == {n \in Nat : \E f : HintedTo(f, n, ms)}
           next(s) == OneHint(s)
<1>1. 0 \in T
  <2> DEFINE f == [i \in 0 .. 0 |-> ms]
  <2>1. HintedTo(f, 0, ms)
    <3>1. \A i \in 0 .. 0 : i = 0
      OBVIOUS
    <3> QED
      BY <3>1 DEF HintedTo
  <2> QED
    BY <2>1
<1>2. ASSUME NEW n \in Nat, n \in T PROVE n + 1 \in T
  <2>1. PICK f : HintedTo(f, n, ms)
    BY <1>2
  <2> DEFINE g == [i \in 0 .. n + 1 |-> IF i = n + 1 THEN next(f[n]) ELSE f[i]]
  <2>2. \A i \in 0 .. n : f[i] = IF i = 0 THEN ms ELSE next(f[i - 1])
    BY <2>1, Zenon DEF HintedTo
  <2> HIDE DEF next
  <2>3. \A i \in 0 .. n : g[i] = f[i]
    OBVIOUS
  <2>4. g[n + 1] = next(f[n])
    OBVIOUS
  <2>5. DOMAIN g = 0 .. n + 1 /\ g = [i \in 0 .. n + 1 |-> g[i]]
    OBVIOUS
  <2> HIDE DEF g
  <2>6. \A i \in 0 .. n + 1 : g[i] = IF i = 0 THEN ms ELSE next(g[i - 1])
    <3>1. ASSUME NEW i \in 0 .. n + 1
          PROVE  g[i] = IF i = 0 THEN ms ELSE next(g[i - 1])
      <4>1. CASE i = n + 1
        <5>1. i # 0 /\ i - 1 = n /\ n \in 0 .. n
          BY <4>1
        <5> QED
          BY <2>3, <2>4, <4>1, <5>1
      <4>2. CASE i # n + 1
        <5>1. i \in 0 .. n /\ (i # 0 => i - 1 \in 0 .. n)
          BY <4>2
        <5> QED
          BY <2>2, <2>3, <5>1
      <4> QED
        BY <4>1, <4>2
    <3> QED
      BY <3>1
  <2>7. g = [i \in 0 .. n + 1 |-> IF i = 0 THEN ms ELSE next(g[i - 1])]
    BY <2>5, <2>6
  <2>8. HintedTo(g, n + 1, ms)
    BY <2>7, Zenon DEF HintedTo, next
  <2> QED
    BY <2>8
<1>3. MaxHints \in Nat
  BY LimitsAssumption
<1>4. MaxHints \in T
  <2> HIDE DEF T
  <2> QED
    BY <1>1, <1>2, <1>3, EveryNumberIn
<1>5. PICK f : HintedTo(f, MaxHints, ms)
  BY <1>4
<1> DEFINE H == CHOOSE f1 : f1 = [n \in 0 .. MaxHints |->
                  IF n = 0 THEN ms ELSE OneHint(f1[n - 1])]
<1>6. HintedTo(H, MaxHints, ms)
  BY <1>5, Zenon DEF HintedTo
<1>7. Hinted(ms) = H[MaxHints]
  BY Zenon DEF Hinted
<1> QED
  BY <1>6, <1>7

\* The answer to an intent leaves every machine well.
LEMMA DeliveredKeeps ==
  ASSUME OutboxInv, NEW i \in 1 .. Len(outbox), NEW ms, \A m \in ms : WellAt(m, i - 1)
  PROVE  \A m \in Delivered(outbox[i], ms) : WellAt(m, i)
<1>1. outbox \in Seq(Intents) /\ outbox[i] \in Intents /\ i - 1 \in Nat /\ i \in Nat \ {0} /\ i \in 1 .. Len(outbox)
  BY LenProperties, ElementOfSeq DEF OutboxInv
<1>2. CASE outbox[i].kind = "await_reply"
  BY <1>2, ReplyKeeps DEF Delivered
<1>3. CASE outbox[i].kind # "await_reply"
  <2>1. PICK f : HintedTo(f, MaxHints, ms) /\ Hinted(ms) = f[MaxHints]
    BY HintsExist
  <2>2. MaxHints \in Nat
    BY LimitsAssumption
  <2>3. \A n \in 0 .. MaxHints : f[n] = IF n = 0 THEN ms ELSE OneHint(f[n - 1])
    BY <2>1, Zenon DEF HintedTo
  <2> DEFINE T == {n \in Nat : n <= MaxHints => \A m \in f[n] : WellAt(m, i)}
  <2>4. 0 \in T
    <3>1. ASSUME NEW m \in ms PROVE WellAt(m, i)
      <4>1. \A p : From(outbox, i, p) = From(outbox, i - 1, p)
        <5>1. \A p : ~Awaits(outbox[i], p)
          BY <1>3 DEF Awaits
        <5> QED
          BY <1>1, <5>1, FromNext
      <4>2. WellAt(m, i - 1)
        BY <3>1
      <4> DEFINE h == i - 1
                 ps == m.procs
      <4>3. Well(ps, m.ready, -1, outbox, owed, h) /\ \A p \in DOMAIN ps : From(outbox, i, p) = From(outbox, h, p)
        BY <4>1, <4>2 DEF WellAt
      <4> HIDE DEF h, ps
      <4>4. Well(ps, m.ready, -1, outbox, owed, i)
        BY <1>1, <4>3, OwingKeeps
      <4> QED
        BY <4>2, <4>4 DEF WellAt, ps
    <3>2. 0 \in 0 .. MaxHints
      BY <2>2
    <3>3. f[0] = ms
      BY <2>3, <3>2
    <3> QED
      BY <3>1, <3>3
  <2>5. ASSUME NEW n \in Nat, n \in T PROVE n + 1 \in T
    <3>1. CASE n + 1 <= MaxHints
      <4>1. f[n + 1] = OneHint(f[n])
        <5>1. n + 1 \in 0 .. MaxHints /\ n + 1 # 0 /\ (n + 1) - 1 = n
          BY <2>2, <3>1
        <5> QED
          BY <2>3, <5>1
      <4>2. \A m \in f[n] : WellAt(m, i)
        BY <2>2, <2>5, <3>1
      <4>3. \A m \in f[n] : \A d \in Hints : WellAt(applyDelivery(m, d), i)
        BY <1>1, <4>2, HintKeeps
      <4> QED
        BY <4>1, <4>2, <4>3 DEF OneHint
    <3>2. CASE ~(n + 1 <= MaxHints)
      BY <3>2
    <3> QED
      BY <3>1, <3>2
  <2>6. MaxHints \in T
    <3> HIDE DEF T
    <3> QED
      BY <2>2, <2>4, <2>5, EveryNumberIn
  <2> QED
    BY <1>3, <2>1, <2>2, <2>6 DEF Delivered
<1> QED
  BY <1>2, <1>3

\* Every machine the host may answer with is well, with nothing left to answer.
LEMMA AnsweredKeeps ==
  ASSUME OutboxInv, Well(procs, ready, -1, outbox, owed, 0)
  PROVE  \A m \in Answered[Len(outbox)] : WellAt(m, Len(outbox))
<1>1. Len(outbox) \in Nat
  BY LenProperties DEF OutboxInv
<1>2. /\ Answered[0] = {[procs |-> procs, ready |-> ready]}
      /\ \A i \in 1 .. Len(outbox) : Answered[i] = Delivered(outbox[i], Answered[i - 1])
  <2>1. AnswersTo(Answered, Len(outbox))
    BY AnswersExist
  <2>2. \A i \in 0 .. Len(outbox) : Answered[i] = IF i = 0 THEN {[procs |-> procs, ready |-> ready]}
          ELSE Delivered(outbox[i], Answered[i - 1])
    BY <2>1, Zenon DEF AnswersTo
  <2>3. 0 \in 0 .. Len(outbox) /\ \A i \in 1 .. Len(outbox) : i \in 0 .. Len(outbox) /\ i # 0
    BY <1>1
  <2> QED
    BY <2>2, <2>3
<1> DEFINE T == {i \in Nat : i <= Len(outbox) => \A m \in Answered[i] : WellAt(m, i)}
<1>3. 0 \in T
  <2>1. ASSUME NEW m \in Answered[0] PROVE WellAt(m, 0)
    <3>1. m.procs = procs /\ m.ready = ready
      BY <1>2, <2>1
    <3> QED
      BY <3>1 DEF WellAt
  <2> QED
    BY <2>1
<1>4. ASSUME NEW n \in Nat, n \in T PROVE n + 1 \in T
  <2>1. ASSUME n + 1 <= Len(outbox), NEW x \in Answered[n + 1] PROVE WellAt(x, n + 1)
    <3> DEFINE i == n + 1
    <3>1. i \in 1 .. Len(outbox) /\ i - 1 = n /\ n <= Len(outbox)
      BY <1>1, <2>1
    <3> HIDE DEF i
    <3>2. x \in Delivered(outbox[i], Answered[i - 1])
      BY <1>2, <2>1, <3>1 DEF i
    <3> DEFINE ms == Answered[i - 1]
    <3>3. \A m \in ms : WellAt(m, i - 1)
      BY <1>4, <3>1
    <3>4. x \in Delivered(outbox[i], ms)
      BY <3>2
    <3> HIDE DEF ms
    <3>5. \A m \in Delivered(outbox[i], ms) : WellAt(m, i)
      BY <3>1, <3>3, DeliveredKeeps
    <3> QED
      BY <3>4, <3>5 DEF i
  <2> QED
    BY <2>1
<1>5. Len(outbox) \in T
  <2> HIDE DEF T
  <2> QED
    BY <1>1, <1>3, <1>4, EveryNumberIn
<1> QED
  BY <1>1, <1>5

---------------------------------------------------------------------------
(* What the invariant says *)

\* Only the processes, not how their map is written, count.
LEMMA WellSame ==
  ASSUME NEW ps, NEW ps2, NEW rq, NEW on, NEW ob, NEW ow, NEW i, Well(ps, rq, on, ob, ow, i),
         DOMAIN ps2 = DOMAIN ps, \A p \in DOMAIN ps : ps2[p] = ps[p]
  PROVE  Well(ps2, rq, on, ob, ow, i)
BY DEF Well, Typed

\* What the invariant says of every process.
LEMMA Everybody ==
  ASSUME IInv
  PROVE  /\ \E n \in 0 .. MaxProcesses : DOMAIN procs = 0 .. n - 1
         /\ \A p \in DOMAIN procs : p \in Pids /\ p \in Nat /\ p # -1 /\ Kept(Now(p), p, ready, running, outbox, owed, 0)
         /\ ready \in Seq(DOMAIN procs) /\ IsInjective(ready)
         /\ outbox \in Seq(Intents) /\ owed \in [Pids -> Int] /\ held \in Process
         /\ DOMAIN Present = DOMAIN procs /\ \A p \in DOMAIN procs : Present[p] = Now(p)
<1>1. DOMAIN Present = DOMAIN procs /\ \A p \in DOMAIN procs : Present[p] = Now(p)
  BY DEF Present
<1>2. Typed(Present, ready) /\ \A p \in DOMAIN Present : Kept(Present[p], p, ready, running, outbox, owed, 0)
  BY DEF IInv, Well
<1>3. PICK n \in 0 .. MaxProcesses : DOMAIN procs = 0 .. n - 1
  BY <1>1, <1>2 DEF Typed
<1>4. \A p \in DOMAIN procs : p \in Pids /\ p \in Nat /\ p # -1
  BY <1>3, LimitsAssumption DEF Pids
<1>5. \A p \in DOMAIN procs : Kept(Now(p), p, ready, running, outbox, owed, 0)
  BY <1>1, <1>2
<1>6. outbox \in Seq(Intents) /\ owed \in [Pids -> Int] /\ held \in Process
  BY DEF IInv, OutboxInv, StageInv
<1> QED
  BY <1>1, <1>2, <1>3, <1>4, <1>5, <1>6 DEF Typed

\* What it says of the process that runs: it has no await left to be answered.
LEMMA Runner ==
  ASSUME IInv, Executes
  PROVE  /\ running \in DOMAIN procs /\ running \in Pids /\ running # -1 /\ running \notin ToSet(ready)
         /\ Present[running] = held /\ held \in Process /\ held.status = Ready /\ held.mailbox \in Seq(Message)
         /\ From(outbox, 0, running) = {}
         /\ owed[running] = Cardinality(Positions(held.mailbox, ReplyMessages)) /\ owed[running] \in Nat
         /\ procs[running] \in Process /\ procs[running].status \notin Waits
<1>1. running # -1 /\ held.status = Ready
  BY DEF Executes
<1>2. running \in DOMAIN procs /\ procs[running] \in Process /\ procs[running].status \notin Waits
  BY <1>1 DEF IInv, StageInv
<1>3. Now(running) = held
  BY DEF Now
<1>4. running \in Pids /\ Kept(held, running, ready, running, outbox, owed, 0) /\ Present[running] = held /\ outbox \in Seq(Intents)
  BY <1>2, <1>3, Everybody
<1>5. held \in Process /\ Listed(held, running, ready, running) /\ Owing(held, running, outbox, owed, 0)
  BY <1>4 DEF Kept
<1>6. running \notin ToSet(ready)
  BY <1>5 DEF Listed
<1>7. From(outbox, 0, running) = {}
  <2> SUFFICES ASSUME NEW j \in From(outbox, 0, running) PROVE FALSE
    OBVIOUS
  <2>1. held.status \in {OnEffect(outbox[j].key)} \union Terminal
    BY <1>5 DEF Owing
  <2>2. outbox[j].key \in Key
    BY <1>4, AwaitKeys
  <2> QED
    BY <1>1, <2>1, <2>2, StatusesApart
<1>8. held.mailbox \in Seq(Message)
  BY <1>5, ProcessFields
<1>9. Cardinality(Positions(held.mailbox, ReplyMessages)) \in Nat
  BY <1>8, PositionsFinite
<1>10. Cardinality(From(outbox, 0, running)) = 0
  BY <1>7, FS_EmptySet
<1>11. owed[running] = Cardinality(Positions(held.mailbox, ReplyMessages)) + Cardinality(From(outbox, 0, running))
  BY <1>5 DEF Owing
<1>12. owed[running] = Cardinality(Positions(held.mailbox, ReplyMessages))
  BY <1>9, <1>10, <1>11
<1> QED
  BY <1>1, <1>2, <1>4, <1>5, <1>6, <1>7, <1>8, <1>9, <1>12

---------------------------------------------------------------------------
(* The steps of the process that runs *)

\* Of processes ps, those other than on are owed under o2 and w2 what they were under ob and ow.
OthersOwed(ps, on, ob, ow, o2, w2) ==
  \A r \in DOMAIN ps \ {on} :
    w2[r] = ow[r] /\ From(o2, 0, r) = From(ob, 0, r) /\ \A l \in From(ob, 0, r) : o2[l] = ob[l]

\* The process that runs changes, and what it is owed with it.
LEMMA RunnerSteps ==
  ASSUME NEW ps, NEW rq, NEW on \in DOMAIN ps, NEW ob, NEW ow, NEW o2, NEW w2, NEW q,
         Well(ps, rq, on, ob, ow, 0), q \in Process, Settled(q), Owing(q, on, o2, w2, 0),
         OthersOwed(ps, on, ob, ow, o2, w2)
  PROVE  Well([ps EXCEPT ![on] = q], rq, on, o2, w2, 0)
<1>1. Typed(ps, rq) /\ \A r \in DOMAIN ps : Kept(ps[r], r, rq, on, ob, ow, 0)
  BY DEF Well
<1>2. ASSUME NEW r \in DOMAIN ps \ {on} PROVE Kept(ps[r], r, rq, on, o2, w2, 0)
  <2>1. Kept(ps[r], r, rq, on, ob, ow, 0)
    BY <1>1
  <2>2. w2[r] = ow[r] /\ From(o2, 0, r) = From(ob, 0, r) /\ \A l \in From(ob, 0, r) : o2[l] = ob[l]
    BY DEF OthersOwed
  <2>3. Owing(ps[r], r, o2, w2, 0)
    BY <2>1, <2>2 DEF Kept, Owing
  <2> QED
    BY <2>1, <2>3 DEF Kept
<1>3. Listed(q, on, rq, on)
  BY <1>1 DEF Kept, Listed
<1> DEFINE wakes == FALSE
<1>4. wakes \in BOOLEAN /\ (wakes => on \notin ToSet(rq) /\ on # on /\ q.status = Ready) /\ (~wakes => Listed(q, on, rq, on))
  BY <1>3
<1>5. ~wakes
  OBVIOUS
<1> HIDE DEF wakes
<1>6. Well([ps EXCEPT ![on] = q], IF wakes THEN Append(rq, on) ELSE rq, on, o2, w2, 0)
  BY <1>1, <1>2, <1>4, OneChanges
<1> QED
  BY <1>5, <1>6

\* A step that leaves everything else alone keeps the invariant if the process is
\* settled and owed what is left.
LEMMA HeldStep ==
  ASSUME IInv, Executes, stage = "running", procs' = procs, ready' = ready, running' = running, stage' = stage,
         held' \in Process, Settled(held'), Owing(held', running, outbox', owed', 0), OutboxInv',
         \A r \in DOMAIN procs \ {running} : owed'[r] = owed[r] /\ From(outbox', 0, r) = From(outbox, 0, r),
         \A r \in DOMAIN procs \ {running} : \A l \in From(outbox, 0, r) : outbox'[l] = outbox[l]
  PROVE  IInv'
<1>1. running \in DOMAIN procs /\ DOMAIN Present = DOMAIN procs /\ \A p \in DOMAIN procs : Present[p] = Now(p)
  BY Runner, Everybody
<1> DEFINE ps == Present
<1>2. Well(ps, ready, running, outbox, owed, 0) /\ DOMAIN ps = DOMAIN procs
  BY <1>1 DEF IInv
<1>3. Present' = [ps EXCEPT ![running] = held']
  <2>1. Present' = [p \in DOMAIN procs |-> IF p = running THEN held' ELSE procs[p]]
    BY DEF Present, Now
  <2>2. ps = [p \in DOMAIN procs |-> IF p = running THEN held ELSE procs[p]]
    BY DEF Present, Now
  <2> HIDE DEF ps
  <2> QED
    BY <1>1, <2>1, <2>2
<1> HIDE DEF ps
<1>4. Well([ps EXCEPT ![running] = held'], ready, running, outbox', owed', 0)
  <2>1. PICK o2 : o2 = outbox'
    OBVIOUS
  <2>2. PICK w2 : w2 = owed'
    OBVIOUS
  <2>3. PICK q : q = held'
    OBVIOUS
  <2>4. running \in DOMAIN ps /\ q \in Process /\ Settled(q) /\ Owing(q, running, o2, w2, 0)
    BY <1>1, <1>2, <2>1, <2>2, <2>3
  <2>5. OthersOwed(ps, running, outbox, owed, o2, w2)
    BY <1>2, <2>1, <2>2 DEF OthersOwed
  <2>6. Well([ps EXCEPT ![running] = q], ready, running, o2, w2, 0)
    BY <1>2, <2>4, <2>5, RunnerSteps
  <2> QED
    BY <2>1, <2>2, <2>3, <2>6
<1>5. StageInv'
  BY DEF IInv, StageInv
<1> QED
  BY <1>3, <1>4, <1>5 DEF IInv

\* A step that touches neither the outbox nor what is owed.
LEMMA QuietStep ==
  ASSUME IInv, Executes, stage = "running", procs' = procs, ready' = ready, running' = running, stage' = stage,
         outbox' = outbox, owed' = owed, held' \in Process, Settled(held'), held'.mailbox = held.mailbox,
         \A k \in Key : held'.status # OnEffect(k)
  PROVE  IInv'
<1>1. /\ owed[running] = Cardinality(Positions(held.mailbox, ReplyMessages)) /\ owed[running] \in Nat
      /\ From(outbox, 0, running) = {}
  BY Runner
<1>2. Cardinality(From(outbox, 0, running)) = 0
  BY <1>1, FS_EmptySet
<1>3. owed'[running] = Cardinality(Positions(held'.mailbox, ReplyMessages)) + Cardinality(From(outbox', 0, running))
  BY <1>1, <1>2
<1>4. Owing(held', running, outbox', owed', 0)
  BY <1>1, <1>3 DEF Owing
<1>5. OutboxInv'
  BY DEF IInv, OutboxInv
<1> QED
  BY <1>4, <1>5, HeldStep

\* The outbox after one more intent (EFFECT_REQUEST, EFFECT_AWAIT, NODE_).
LEMMA OutboxGrows ==
  ASSUME OutboxInv, procs' = procs, NEW e \in Intents, outbox' = Append(outbox, e),
         owed' \in [Pids -> Int], \A p \in Pids \ DOMAIN procs : owed'[p] = 0,
         e.effect => Len(outbox) < MaxEffectsRequested,
         \A p : Awaits(e, p) => p \in DOMAIN procs /\ From(outbox, 0, p) = {}
  PROVE  OutboxInv'
<1>1. /\ outbox \in Seq(Intents)
      /\ \A i \in DOMAIN outbox : outbox[i].effect => i <= MaxEffectsRequested
      /\ \A i \in DOMAIN outbox : \A p : Awaits(outbox[i], p) => p \in DOMAIN procs
      /\ \A p \in DOMAIN procs : \A i, j \in From(outbox, 0, p) : i = j
  BY DEF OutboxInv
<1> DEFINE n == Len(outbox)
<1>2. /\ outbox' \in Seq(Intents) /\ n \in Nat /\ DOMAIN outbox = 1 .. n /\ DOMAIN outbox' = 1 .. n + 1
      /\ \A j \in 1 .. n : outbox'[j] = outbox[j]
      /\ outbox'[n + 1] = e
      /\ \A p : ~Awaits(e, p) => From(outbox', 0, p) = From(outbox, 0, p)
      /\ \A p : Awaits(e, p) => From(outbox', 0, p) = From(outbox, 0, p) \union {n + 1}
  <2>1. PICK ob \in Seq(Intents) : ob = outbox
    BY <1>1
  <2>2. /\ Append(ob, e) \in Seq(Intents) /\ Len(ob) \in Nat /\ DOMAIN ob = 1 .. Len(ob)
        /\ DOMAIN Append(ob, e) = 1 .. Len(ob) + 1
        /\ \A j \in 1 .. Len(ob) : Append(ob, e)[j] = ob[j]
        /\ Append(ob, e)[Len(ob) + 1] = e
    BY <2>1, FromAppend
  <2>3. ASSUME NEW p
        PROVE  ~Awaits(e, p) => From(Append(ob, e), 0, p) = From(ob, 0, p)
    BY FromAppend
  <2>4. ASSUME NEW p, Awaits(e, p)
        PROVE  From(Append(ob, e), 0, p) = From(ob, 0, p) \union {Len(ob) + 1}
    BY <2>4, FromAppend
  <2> QED
    BY <2>1, <2>2, <2>3, <2>4
<1>3. n < MaxEffectsRequested => n + 1 <= MaxEffectsRequested
  BY <1>2, LimitsAssumption
<1> HIDE DEF n
<1>4. \A i \in DOMAIN outbox' : i \in DOMAIN outbox \/ i = n + 1
  BY <1>2
<1>5. \A i \in DOMAIN outbox' : outbox'[i].effect => i <= MaxEffectsRequested
  BY <1>1, <1>2, <1>3, <1>4 DEF n
<1>6. \A i \in DOMAIN outbox' : \A p : Awaits(outbox'[i], p) => p \in DOMAIN procs
  BY <1>1, <1>2, <1>4
<1>7. \A p \in DOMAIN procs : \A i, j \in From(outbox', 0, p) : i = j
  BY <1>1, <1>2
<1> QED
  BY <1>2, <1>5, <1>6, <1>7 DEF OutboxInv

\* What an instruction changes of the process that executes it.
LEMMA ProcessChanges ==
  ASSUME NEW q \in Process
  PROVE  /\ \A s \in Status : /\ [q EXCEPT !.status = s] \in Process /\ [q EXCEPT !.status = s].status = s
                              /\ [q EXCEPT !.status = s].mailbox = q.mailbox
         /\ \A l \in SUBSET Node : /\ [q EXCEPT !.remoteLinks = l] \in Process /\ [q EXCEPT !.remoteLinks = l].status = q.status
                                   /\ [q EXCEPT !.remoteLinks = l].mailbox = q.mailbox
         /\ \A f \in [Node -> Nat] : /\ [q EXCEPT !.monitors = f] \in Process /\ [q EXCEPT !.monitors = f].status = q.status
                                     /\ [q EXCEPT !.monitors = f].mailbox = q.mailbox
         /\ \A b \in BOOLEAN : /\ [q EXCEPT !.trapExit = b] \in Process /\ [q EXCEPT !.trapExit = b].status = q.status
                               /\ [q EXCEPT !.trapExit = b].mailbox = q.mailbox
         /\ \A b \in Seq(Message) : /\ [q EXCEPT !.mailbox = b] \in Process /\ [q EXCEPT !.mailbox = b].status = q.status
                                    /\ [q EXCEPT !.mailbox = b].mailbox = b
BY DEF Process

\* Whoever neither waits for a message nor for a tag is settled.
LEMMA NobodyWaits ==
  ASSUME NEW q, q.status \notin Waits
  PROVE  Settled(q)
BY StatusesApart DEF Settled

\* An intent nobody waits for (EFFECT_REQUEST, NODE_).
LEMMA IntentStep ==
  ASSUME IInv, Executes, stage = "running", procs' = procs, ready' = ready, running' = running, stage' = stage,
         owed' = owed, held' \in Process, held'.status = Ready, held'.mailbox = held.mailbox,
         NEW e \in Intents, \A p : ~Awaits(e, p), e.effect => Len(outbox) < MaxEffectsRequested,
         outbox' = Append(outbox, e)
  PROVE  IInv'
<1>1. e \in Intents /\ \A p : ~Awaits(e, p)
  OBVIOUS
<1>2. outbox' = Append(outbox, e)
  OBVIOUS
<1>3. outbox \in Seq(Intents) /\ OutboxInv /\ owed \in [Pids -> Int] /\ \A p \in Pids \ DOMAIN procs : owed[p] = 0
  BY DEF IInv, OutboxInv
<1>4. OutboxInv'
  <2>1. owed' \in [Pids -> Int] /\ \A p \in Pids \ DOMAIN procs : owed'[p] = 0
    BY <1>3
  <2> QED
    BY <1>1, <1>2, <1>3, <2>1, OutboxGrows
<1>5. ASSUME NEW r PROVE From(outbox', 0, r) = From(outbox, 0, r)
  <2>1. From(Append(outbox, e), 0, r) = From(outbox, 0, r)
    BY <1>1, <1>3, FromAppend
  <2> QED
    BY <1>2, <2>1
<1>6. \A l \in DOMAIN outbox : outbox'[l] = outbox[l]
  BY <1>1, <1>2, <1>3, FromAppend
<1>7. \A r : \A l \in From(outbox, 0, r) : outbox'[l] = outbox[l]
  BY <1>6 DEF From
<1>8. /\ owed[running] = Cardinality(Positions(held.mailbox, ReplyMessages)) /\ owed[running] \in Nat
      /\ From(outbox, 0, running) = {}
  BY Runner
<1>9. From(outbox', 0, running) = {} /\ Cardinality(From(outbox', 0, running)) = 0
  BY <1>5, <1>8, FS_EmptySet
<1>10. \A k \in Key : held'.status # OnEffect(k)
  BY StatusesApart
<1>11. owed'[running] = Cardinality(Positions(held'.mailbox, ReplyMessages)) + Cardinality(From(outbox', 0, running))
  BY <1>8, <1>9
<1>12. Owing(held', running, outbox', owed', 0)
  BY <1>9, <1>10, <1>11 DEF Owing
<1>13. Settled(held')
  BY StatusesApart, NobodyWaits
<1> QED
  BY <1>4, <1>5, <1>7, <1>12, <1>13, HeldStep

\* An await: the process waits for the one reply it is owed now.
LEMMA AwaitStep ==
  ASSUME IInv, NEW k \in Key, EFFECT_AWAIT(k)
  PROVE  IInv'
<1>1. /\ Executes /\ stage = "running" /\ procs' = procs /\ ready' = ready /\ running' = running /\ stage' = stage
      /\ held' = [held EXCEPT !.status = OnEffect(k)]
      /\ ~(Len(outbox) >= MaxEffectsRequested)
      /\ owed' = [owed EXCEPT ![running] = @ + 1]
  BY DEF EFFECT_AWAIT, Steps, AtLimit
<1> DEFINE e == AwaitReply(running, k, TRUE)
<1>2. outbox' = Append(outbox, e)
  BY DEF EFFECT_AWAIT
<1>3. /\ running \in DOMAIN procs /\ running \in Pids /\ held \in Process
      /\ From(outbox, 0, running) = {}
      /\ owed[running] = Cardinality(Positions(held.mailbox, ReplyMessages)) /\ owed[running] \in Nat
  BY <1>1, Runner
<1>4. e \in Intents /\ e.effect /\ e.key = k /\ \A p : Awaits(e, p) <=> p = running
  BY <1>3, LimitsAssumption DEF Intents, AwaitReply, Awaits, Pid, Pids
<1> HIDE DEF e
<1>5. outbox \in Seq(Intents) /\ OutboxInv /\ owed \in [Pids -> Int] /\ \A p \in Pids \ DOMAIN procs : owed[p] = 0
  BY DEF IInv, OutboxInv
<1>6. owed' \in [Pids -> Int] /\ owed'[running] = owed[running] + 1 /\ \A r \in Pids \ {running} : owed'[r] = owed[r]
  BY <1>1, <1>3, <1>5
<1>7. Len(outbox) \in Nat /\ Len(outbox) < MaxEffectsRequested
  BY <1>1, <1>5, LenProperties, LimitsAssumption
<1>8. OutboxInv'
  <2>1. \A p \in Pids \ DOMAIN procs : owed'[p] = 0
    BY <1>3, <1>5, <1>6
  <2>2. \A p : Awaits(e, p) => p \in DOMAIN procs /\ From(outbox, 0, p) = {}
    BY <1>3, <1>4
  <2> QED
    BY <1>1, <1>2, <1>4, <1>5, <1>6, <1>7, <2>1, <2>2, OutboxGrows
<1>9. ASSUME NEW r, r # running PROVE From(outbox', 0, r) = From(outbox, 0, r)
  <2>1. From(Append(outbox, e), 0, r) = From(outbox, 0, r)
    BY <1>4, <1>5, <1>9, FromAppend
  <2> QED
    BY <1>2, <2>1
<1> DEFINE n == Len(outbox)
<1>10. From(outbox', 0, running) = {n + 1}
  <2>1. From(Append(outbox, e), 0, running) = From(outbox, 0, running) \union {n + 1}
    BY <1>4, <1>5, FromAppend
  <2> QED
    BY <1>2, <1>3, <2>1
<1>11. outbox'[n + 1] = e
  BY <1>2, <1>4, <1>5, FromAppend
<1>12. \A l \in DOMAIN outbox : outbox'[l] = outbox[l]
  BY <1>2, <1>4, <1>5, FromAppend
<1>13. \A r : \A l \in From(outbox, 0, r) : outbox'[l] = outbox[l]
  BY <1>12 DEF From
<1> HIDE DEF n
<1>14. OnEffect(k) \in Status
  BY StatusesApart DEF Status
<1>15. held' \in Process /\ held'.status = OnEffect(k) /\ held'.mailbox = held.mailbox
  BY <1>1, <1>3, <1>14, ProcessChanges
<1>16. Settled(held')
  BY <1>15, StatusesApart DEF Settled
<1>17. Owing(held', running, outbox', owed', 0)
  <2>1. Cardinality(From(outbox', 0, running)) = 1
    BY <1>10, FS_Singleton
  <2>2. owed'[running] = Cardinality(Positions(held'.mailbox, ReplyMessages)) + Cardinality(From(outbox', 0, running))
    BY <1>3, <1>6, <1>15, <2>1
  <2>3. \A j \in From(outbox', 0, running) : outbox'[j].key = k
    BY <1>4, <1>10, <1>11
  <2>4. \A l \in Key : held'.status = OnEffect(l) => \E j \in From(outbox', 0, running) : outbox'[j].key = l
    BY <1>10, <1>15, <2>3, StatusesApart
  <2> QED
    BY <1>15, <2>2, <2>3, <2>4 DEF Owing
<1>18. \A r \in DOMAIN procs \ {running} : owed'[r] = owed[r]
  BY <1>6, Everybody
<1> QED
  BY <1>1, <1>8, <1>9, <1>13, <1>15, <1>16, <1>17, <1>18, HeldStep

\* A receive of message i: if it is a reply, the process is owed one less.
LEMMA TakeStep ==
  ASSUME IInv, NEW i \in DOMAIN held.mailbox, Takes(i)
  PROVE  IInv'
<1>1. /\ Executes /\ stage = "running" /\ procs' = procs /\ ready' = ready /\ running' = running /\ stage' = stage
      /\ outbox' = outbox
      /\ held' = [held EXCEPT !.mailbox = RemoveAt(held.mailbox, i)]
      /\ owed' = IF held.mailbox[i].awaited THEN [owed EXCEPT ![running] = @ - 1] ELSE owed
  BY DEF Takes, Steps
<1>2. /\ running \in DOMAIN procs /\ running \in Pids /\ held \in Process /\ held.mailbox \in Seq(Message)
      /\ From(outbox, 0, running) = {} /\ held.status = Ready
      /\ owed[running] = Cardinality(Positions(held.mailbox, ReplyMessages)) /\ owed[running] \in Nat
  BY <1>1, Runner
<1>3. OutboxInv /\ owed \in [Pids -> Int] /\ \A p \in Pids \ DOMAIN procs : owed[p] = 0
  BY DEF IInv, OutboxInv
<1> DEFINE b == RemoveAt(held.mailbox, i)
           reply == held.mailbox[i] \in ReplyMessages
<1>4. b \in Seq(Message)
  BY <1>2, RemoveAtIsSeq
<1>5. held.mailbox[i] \in Message
  BY <1>2, ElementOfSeq, LenProperties
<1>6. reply <=> held.mailbox[i].awaited
  BY <1>5, RepliesAre
<1>7. Cardinality(Positions(b, ReplyMessages)) = Cardinality(Positions(held.mailbox, ReplyMessages)) - IF reply THEN 1 ELSE 0
  BY <1>2, PositionsRemoveAt
<1> HIDE DEF b, reply
<1>8. /\ owed' \in [Pids -> Int] /\ owed'[running] = owed[running] - (IF reply THEN 1 ELSE 0)
      /\ \A r \in Pids \ {running} : owed'[r] = owed[r]
  BY <1>1, <1>2, <1>3, <1>6
<1>9. held' \in Process /\ held'.status = Ready /\ held'.mailbox = b
  BY <1>1, <1>2, <1>4, ProcessChanges DEF b
<1>10. OutboxInv'
  BY <1>1, <1>2, <1>3, <1>8 DEF OutboxInv
<1>11. Settled(held')
  BY <1>9, StatusesApart, NobodyWaits
<1>12. Owing(held', running, outbox', owed', 0)
  <2>1. Cardinality(From(outbox', 0, running)) = 0 /\ From(outbox', 0, running) = {}
    BY <1>1, <1>2, FS_EmptySet
  <2>2. owed'[running] = Cardinality(Positions(held'.mailbox, ReplyMessages)) + Cardinality(From(outbox', 0, running))
    BY <1>2, <1>7, <1>8, <1>9, <2>1
  <2>3. \A k \in Key : held'.status # OnEffect(k)
    BY <1>9, StatusesApart
  <2> QED
    BY <2>1, <2>2, <2>3 DEF Owing
<1>13. \A r \in DOMAIN procs \ {running} : owed'[r] = owed[r]
  BY <1>8, Everybody
<1> QED
  BY <1>1, <1>9, <1>10, <1>11, <1>12, <1>13, HeldStep

\* A process that blocks, and one that halts (PROC_RECEIVE, PROC_RECEIVE_MATCH, HALT):
\* it has not blocked on a message it has.
LEMMA StatusStep ==
  ASSUME IInv, NEW s \in Status, Steps([held EXCEPT !.status = s]), UNCHANGED <<procs, ready, outbox, owed, stage>>,
         s = OnMessage => held.mailbox = <<>>,
         \A t \in MatchTag : s = OnMatch(t) => ~mailboxHasVariantTag(t, held.mailbox),
         \A k \in Key : s # OnEffect(k)
  PROVE  IInv'
<1>1. /\ Executes /\ stage = "running" /\ procs' = procs /\ ready' = ready /\ running' = running /\ stage' = stage
      /\ outbox' = outbox /\ owed' = owed /\ held' = [held EXCEPT !.status = s]
  BY DEF Steps
<1>2. held \in Process
  BY <1>1, Runner
<1>3. held' \in Process /\ held'.status = s /\ held'.mailbox = held.mailbox
  BY <1>1, <1>2, ProcessChanges
<1>4. held.mailbox = <<>> => \A x \in ToSet(held.mailbox) : Unasked(x)
  BY DEF ToSet
<1>5. Settled(held')
  BY <1>3, <1>4 DEF Settled
<1> QED
  BY <1>1, <1>3, <1>5, QuietStep

\* The instructions that change nothing of the mailboxes and the queue but what they take or ask for.
LEMMA OwnSteps ==
  ASSUME IInv,
         \/ EFFECT_REQUEST \/ \E k \in Key : EFFECT_AWAIT(k)
         \/ NODE_SEND \/ \E n \in Node : NODE_LINK(n) \/ NODE_UNLINK(n) \/ NODE_MONITOR(n) \/ NODE_DEMONITOR(n)
         \/ \E trap \in BOOLEAN : PROC_TRAP_EXIT(trap)
         \/ PROC_RECEIVE \/ \E t \in MatchTag : PROC_RECEIVE_MATCH(t)
         \/ HALT
  PROVE  IInv'
<1>1. held \in Process
  BY DEF IInv, StageInv
<1>2. CASE EFFECT_REQUEST
  <2>1. ASSUME NEW e \in Intents, \A p : ~Awaits(e, p), Request(e) PROVE IInv'
    <3>1. /\ Executes /\ stage = "running" /\ procs' = procs /\ ready' = ready /\ running' = running /\ stage' = stage
          /\ owed' = owed /\ held' = held /\ ~(Len(outbox) >= MaxEffectsRequested)
          /\ outbox' = Append(outbox, e)
      BY <2>1 DEF Request, Steps, AtLimit
    <3>2. Len(outbox) < MaxEffectsRequested
      BY <3>1, LenProperties, LimitsAssumption DEF IInv, OutboxInv
    <3>3. held' \in Process /\ held'.status = Ready /\ held'.mailbox = held.mailbox
      BY <1>1, <3>1, Runner
    <3> QED
      BY <2>1, <3>1, <3>2, <3>3, IntentStep
  <2>2. CASE Request([kind |-> "transport", effect |-> TRUE])
    <3> DEFINE e == [kind |-> "transport", effect |-> TRUE]
    <3>1. e \in Intents /\ \A p : ~Awaits(e, p)
      BY DEF Intents, Awaits
    <3> QED
      BY <2>1, <2>2, <3>1
  <2>3. ASSUME NEW p \in Pid, NEW k \in Key, Request(AwaitReply(p, k, FALSE)) PROVE IInv'
    <3> DEFINE e == AwaitReply(p, k, FALSE)
    <3>1. e \in Intents /\ \A r : ~Awaits(e, r)
      BY DEF Intents, Awaits, AwaitReply
    <3> QED
      BY <2>1, <2>3, <3>1
  <2> QED
    BY <1>2, <2>2, <2>3 DEF EFFECT_REQUEST
<1>3. CASE \E k \in Key : EFFECT_AWAIT(k)
  BY <1>3, AwaitStep
<1>4. ASSUME NEW q \in Process, q.status = held.status, q.mailbox = held.mailbox, Intent(q)
      PROVE  IInv'
  <2>1. /\ Executes /\ stage = "running" /\ procs' = procs /\ ready' = ready /\ running' = running /\ stage' = stage
        /\ owed' = owed /\ held' = q
        /\ outbox' = Append(outbox, [kind |-> "transport", effect |-> FALSE])
    BY <1>4 DEF Intent, Steps
  <2>2. held' \in Process /\ held'.status = Ready /\ held'.mailbox = held.mailbox
    BY <1>4, <2>1, Runner
  <2> DEFINE e == [kind |-> "transport", effect |-> FALSE]
  <2>3. e \in Intents /\ ~e.effect /\ (\A p : ~Awaits(e, p)) /\ outbox' = Append(outbox, e)
    BY <2>1 DEF Intents, Awaits
  <2> HIDE DEF e
  <2> QED
    BY <2>1, <2>2, <2>3, IntentStep
<1>5. CASE NODE_SEND
  BY <1>1, <1>4, <1>5 DEF NODE_SEND
<1>6. ASSUME NEW n \in Node, NODE_LINK(n) \/ NODE_UNLINK(n) PROVE IInv'
  <2>1. held.remoteLinks \in SUBSET Node
    BY <1>1, ProcessFields
  <2>2. ASSUME NEW l \in SUBSET Node, Intent([held EXCEPT !.remoteLinks = l]) PROVE IInv'
    BY <1>1, <1>4, <2>2, ProcessChanges
  <2>3. CASE NODE_LINK(n)
    <3>1. Intent([held EXCEPT !.remoteLinks = held.remoteLinks \union {n}])
      BY <2>3 DEF NODE_LINK
    <3>2. held.remoteLinks \union {n} \in SUBSET Node
      BY <2>1
    <3> QED
      BY <2>2, <3>1, <3>2
  <2>4. CASE NODE_UNLINK(n)
    <3>1. Intent([held EXCEPT !.remoteLinks = held.remoteLinks \ {n}])
      BY <2>4 DEF NODE_UNLINK
    <3>2. held.remoteLinks \ {n} \in SUBSET Node
      BY <2>1
    <3> QED
      BY <2>2, <3>1, <3>2
  <2> QED
    BY <1>6, <2>3, <2>4
<1>7. ASSUME NEW n \in Node, NODE_MONITOR(n) \/ NODE_DEMONITOR(n) PROVE IInv'
  <2>1. held.monitors \in [Node -> Nat]
    BY <1>1, ProcessFields
  <2>2. ASSUME NEW f \in [Node -> Nat], Intent([held EXCEPT !.monitors = f]) PROVE IInv'
    BY <1>1, <1>4, <2>2, ProcessChanges
  <2>3. CASE NODE_MONITOR(n)
    <3>1. Intent([held EXCEPT !.monitors = [held.monitors EXCEPT ![n] = @ + 1]])
      BY <2>3 DEF NODE_MONITOR
    <3>2. [held.monitors EXCEPT ![n] = @ + 1] \in [Node -> Nat]
      BY <2>1
    <3> QED
      BY <2>2, <3>1, <3>2
  <2>4. CASE NODE_DEMONITOR(n)
    <3>1. held.monitors[n] > 0 /\ Intent([held EXCEPT !.monitors = [held.monitors EXCEPT ![n] = @ - 1]])
      BY <2>4 DEF NODE_DEMONITOR
    <3>2. [held.monitors EXCEPT ![n] = @ - 1] \in [Node -> Nat]
      BY <2>1, <3>1
    <3> QED
      BY <2>2, <3>1, <3>2
  <2> QED
    BY <1>7, <2>3, <2>4
<1>8. ASSUME NEW trap \in BOOLEAN, PROC_TRAP_EXIT(trap) PROVE IInv'
  <2>1. /\ Executes /\ stage = "running" /\ procs' = procs /\ ready' = ready /\ running' = running /\ stage' = stage
        /\ outbox' = outbox /\ owed' = owed /\ held' = [held EXCEPT !.trapExit = trap]
    BY <1>8 DEF PROC_TRAP_EXIT, Steps
  <2>2. held' \in Process /\ held'.status = held.status /\ held'.mailbox = held.mailbox
    BY <1>1, <2>1, ProcessChanges
  <2>3. held'.status = Ready
    BY <2>1, <2>2, Runner
  <2>4. Settled(held') /\ \A k \in Key : held'.status # OnEffect(k)
    BY <2>3, StatusesApart, NobodyWaits
  <2> QED
    BY <2>1, <2>2, <2>4, QuietStep
<1>9. CASE PROC_RECEIVE
  <2>1. CASE held.mailbox = <<>>
    <3>1. Steps([held EXCEPT !.status = OnMessage]) /\ UNCHANGED <<procs, ready, outbox, owed, stage>>
      BY <1>9, <2>1 DEF PROC_RECEIVE, Blocks
    <3>2. /\ OnMessage \in Status /\ (OnMessage = OnMessage => held.mailbox = <<>>)
          /\ (\A t \in MatchTag : OnMessage = OnMatch(t) => ~mailboxHasVariantTag(t, held.mailbox))
          /\ \A k \in Key : OnMessage # OnEffect(k)
      BY <2>1, StatusesApart DEF Status
    <3> QED
      BY <3>1, <3>2, StatusStep
  <2>2. CASE held.mailbox # <<>>
    <3>1. Takes(1)
      BY <1>9, <2>2 DEF PROC_RECEIVE
    <3>2. 1 \in DOMAIN held.mailbox
      <4>1. held.mailbox \in Seq(Message)
        BY <1>1, ProcessFields
      <4> QED
        BY <2>2, <4>1, EmptySeq, LenProperties
    <3> QED
      BY <3>1, <3>2, TakeStep
  <2> QED
    BY <2>1, <2>2
<1>10. ASSUME NEW t \in MatchTag, PROC_RECEIVE_MATCH(t) PROVE IInv'
  <2> DEFINE I == {i \in 1 .. Len(held.mailbox) : held.mailbox[i].tag = t}
  <2>1. held.mailbox \in Seq(Message) /\ Len(held.mailbox) \in Nat /\ DOMAIN held.mailbox = 1 .. Len(held.mailbox)
    BY <1>1, ProcessFields, LenProperties
  <2>2. CASE mailboxHasVariantTag(t, held.mailbox)
    <3>1. I # {} /\ I \in SUBSET Nat
      BY <2>1, <2>2 DEF mailboxHasVariantTag, ToSet
    <3>2. \E n \in I : \A m \in I : n <= m
      BY <3>1, LeastExists
    <3>3. Min(I) \in I
      BY <3>2 DEF Min
    <3>4. SelectInSeq(held.mailbox, LAMBDA m : m.tag = t) = Min(I)
      BY <3>1 DEF SelectInSeq
    <3>5. Takes(Min(I))
      BY <1>10, <2>2, <3>4 DEF PROC_RECEIVE_MATCH
    <3>6. Min(I) \in DOMAIN held.mailbox
      BY <2>1, <3>3
    <3> QED
      BY <3>5, <3>6, TakeStep
  <2>3. CASE ~mailboxHasVariantTag(t, held.mailbox)
    <3>1. Steps([held EXCEPT !.status = OnMatch(t)]) /\ UNCHANGED <<procs, ready, outbox, owed, stage>>
      BY <1>10, <2>3 DEF PROC_RECEIVE_MATCH, Blocks
    <3>2. /\ OnMatch(t) \in Status /\ (OnMatch(t) = OnMessage => held.mailbox = <<>>)
          /\ (\A u \in MatchTag : OnMatch(t) = OnMatch(u) => ~mailboxHasVariantTag(u, held.mailbox))
          /\ \A k \in Key : OnMatch(t) # OnEffect(k)
      BY <2>3, StatusesApart DEF Status
    <3> QED
      BY <3>1, <3>2, StatusStep
  <2> QED
    BY <2>2, <2>3
<1>11. CASE HALT
  <2> DEFINE s == <<"completed">>
  <2>1. s \in Terminal
    BY DEF Terminal
  <2>2. Steps([held EXCEPT !.status = s]) /\ UNCHANGED <<procs, ready, outbox, owed, stage>>
    BY <1>11 DEF HALT
  <2> HIDE DEF s
  <2>3. /\ s \in Status /\ (s = OnMessage => held.mailbox = <<>>)
        /\ (\A t \in MatchTag : s = OnMatch(t) => ~mailboxHasVariantTag(t, held.mailbox))
        /\ \A k \in Key : s # OnEffect(k)
    BY <2>1, StatusesApart DEF Status
  <2> QED
    BY <2>2, <2>3, StatusStep
<1> QED
  BY <1>2, <1>3, <1>5, <1>6, <1>7, <1>8, <1>9, <1>10, <1>11

\* A send to another process may wake it; a send of a process to itself is lost
\* with what the map holds of it, and wakes nobody (PROC_SEND).
LEMMA SendStep ==
  ASSUME IInv, NEW p \in DOMAIN procs, NEW t \in MessageTag, PROC_SEND(p, t)
  PROVE  IInv'
<1> DEFINE m == [procs |-> procs, ready |-> ready]
           old == procs[p]
           q == [old EXCEPT !.mailbox = Append(@, Mail(t))]
           wakes == WakesFor(q.status, q.mailbox)
           w == IF wakes THEN [q EXCEPT !.status = Ready] ELSE q
<1>1. /\ Executes /\ stage = "running" /\ running' = running /\ stage' = stage
      /\ outbox' = outbox /\ owed' = owed /\ held' = held
      /\ procs' = MailboxMessage(m, p, t).procs /\ ready' = MailboxMessage(m, p, t).ready
  BY DEF PROC_SEND, Steps
<1>2. procs' = [procs EXCEPT ![p] = w] /\ ready' = IF wakes THEN Append(ready, p) ELSE ready
  BY <1>1 DEF MailboxMessage, Woken
<1>3. DOMAIN procs' = DOMAIN procs /\ procs'[p] = w /\ \A r \in DOMAIN procs \ {p} : procs'[r] = procs[r]
  BY <1>2
<1>4. OutboxInv'
  BY <1>1, <1>3 DEF IInv, OutboxInv
<1>5. DOMAIN Present' = DOMAIN procs /\ \A r \in DOMAIN procs : Present'[r] = IF r = running THEN held ELSE procs'[r]
  BY <1>1, <1>3 DEF Present, Now
<1>6. /\ DOMAIN Present = DOMAIN procs /\ (\A r \in DOMAIN procs : Present[r] = IF r = running THEN held ELSE procs[r])
      /\ outbox \in Seq(Intents)
  BY Everybody DEF Now
<1>7. Well(Present, ready, running, outbox, owed, 0)
  BY DEF IInv
<1>8. held \in Process /\ running \in DOMAIN procs /\ procs[running] \in Process /\ procs[running].status \notin Waits
  BY <1>1, Runner
<1> HIDE DEF wakes, w
<1>9. CASE p # running
  <2> DEFINE ps == Present
             m2 == [procs |-> ps, ready |-> ready]
  <2>1. ps[p] = old /\ DOMAIN ps = DOMAIN procs
    BY <1>6, <1>9
  <2> HIDE DEF ps
  <2>2. m2.procs = ps /\ m2.ready = ready
    OBVIOUS
  <2>3. MailboxMessage(m2, p, t).procs = [ps EXCEPT ![p] = w] /\ MailboxMessage(m2, p, t).ready = ready'
    BY <1>2, <2>1 DEF MailboxMessage, Woken, w, wakes
  <2> HIDE DEF m2
  <2>4. Follows(MailboxMessage(m2, p, t), m2, running, outbox, owed, 0)
    <3>1. Well(m2.procs, m2.ready, running, outbox, owed, 0) /\ p \in DOMAIN m2.procs /\ 0 \in Nat /\ outbox \in Seq(Intents)
      BY <1>6, <1>7, <2>1, <2>2 DEF ps
    <3> QED
      BY <1>9, <3>1, MessageDelivered
  <2>5. Well([ps EXCEPT ![p] = w], ready', running, outbox, owed, 0)
    BY <2>3, <2>4 DEF Follows
  <2>6. \A r \in DOMAIN procs : Present'[r] = [ps EXCEPT ![p] = w][r]
    BY <1>3, <1>5, <1>6, <1>9, <2>1 DEF ps
  <2>7. Well(Present', ready', running, outbox, owed, 0)
    <3> DEFINE ps1 == [ps EXCEPT ![p] = w]
    <3>1. DOMAIN ps1 = DOMAIN procs /\ \A r \in DOMAIN ps1 : Present'[r] = ps1[r]
      BY <2>1, <2>6
    <3> HIDE DEF ps1
    <3>2. DOMAIN Present' = DOMAIN ps1
      BY <1>5, <3>1
    <3>3. Well(ps1, ready', running, outbox, owed, 0)
      BY <2>5 DEF ps1
    <3> QED
      BY <3>1, <3>2, <3>3, WellSame
  <2>8. StageInv'
    BY <1>1, <1>3, <1>8, <1>9 DEF IInv, StageInv
  <2> QED
    BY <1>1, <1>4, <2>7, <2>8 DEF IInv
<1>10. CASE p = running
  <2>1. q.status = old.status /\ old \in Process /\ old.status \notin Waits
    <3>1. DOMAIN old = {"status", "mailbox", "monitors", "remoteLinks", "trapExit"}
      BY <1>8, <1>10 DEF Process
    <3> QED
      BY <1>8, <1>10, <3>1
  <2>2. ~wakes
    BY <2>1, StatusesApart DEF wakes, WakesFor
  <2>3. w = q
    BY <2>2 DEF w
  <2>4. q \in Process
    <3>1. Mail(t) \in Message
      BY LimitsAssumption DEF Mail, Message, Tags
    <3>2. Append(old.mailbox, Mail(t)) \in Seq(Message)
      BY <2>1, <3>1, ProcessFields, AppendProperties
    <3> QED
      BY <2>1, <3>2, ProcessFields
  <2>5. ready' = ready /\ procs'[running] \in Process /\ procs'[running].status \notin Waits
    BY <1>2, <1>3, <1>10, <2>1, <2>2, <2>3, <2>4
  <2>6. \A r \in DOMAIN procs : Present'[r] = Present[r]
    BY <1>3, <1>5, <1>6, <1>10
  <2>7. Well(Present', ready', running, outbox, owed, 0)
    <3> DEFINE ps1 == Present
    <3>1. DOMAIN Present' = DOMAIN ps1 /\ (\A r \in DOMAIN ps1 : Present'[r] = ps1[r]) /\ Well(ps1, ready', running, outbox, owed, 0)
      BY <1>5, <1>6, <1>7, <2>5, <2>6
    <3> HIDE DEF ps1
    <3> QED
      BY <3>1, WellSame
  <2>8. StageInv'
    BY <1>1, <1>3, <1>8, <2>5 DEF IInv, StageInv
  <2> QED
    BY <1>1, <1>4, <2>7, <2>8 DEF IInv
<1> QED
  BY <1>9, <1>10

\* A new process is queued, has nothing and is owed nothing (PROC_SPAWN).
LEMMA SpawnStep ==
  ASSUME IInv, PROC_SPAWN
  PROVE  IInv'
<1> DEFINE p == Cardinality(DOMAIN procs)
<1>1. /\ Executes /\ stage = "running" /\ running' = running /\ stage' = stage
      /\ outbox' = outbox /\ owed' = owed /\ held' = held /\ p < MaxProcesses
      /\ procs' = [q \in DOMAIN procs \union {p} |-> IF q = p THEN NewProcess ELSE procs[q]]
      /\ ready' = Append(ready, p)
  BY DEF PROC_SPAWN, Steps
<1>2. PICK n \in 0 .. MaxProcesses : DOMAIN procs = 0 .. n - 1
  BY Everybody
<1>3. n \in Nat /\ p = n
  <2>1. n \in Nat
    BY <1>2, LimitsAssumption
  <2>2. Cardinality(0 .. n - 1) = n
    BY <2>1, FS_Interval
  <2> QED
    BY <1>2, <2>1, <2>2
<1> HIDE DEF p
<1>4. p \notin DOMAIN procs /\ p \in Pids /\ p \in Nat /\ DOMAIN procs \union {p} = 0 .. (n + 1) - 1 /\ n + 1 \in 0 .. MaxProcesses
  BY <1>1, <1>2, <1>3, LimitsAssumption DEF Pids
<1>5. /\ outbox \in Seq(Intents) /\ (\A i \in DOMAIN outbox : ~Awaits(outbox[i], p))
      /\ owed[p] = 0
  BY <1>4 DEF IInv, OutboxInv
<1>6. From(outbox, 0, p) = {}
  BY <1>4, <1>5 DEF From
<1>7. running \in DOMAIN procs /\ procs[running] \in Process /\ procs[running].status \notin Waits
  BY <1>1, Runner
<1>8. DOMAIN procs' = DOMAIN procs \union {p} /\ procs'[p] = NewProcess /\ \A r \in DOMAIN procs : procs'[r] = procs[r]
  BY <1>1, <1>4
<1>9. OutboxInv'
  <2>1. \A r \in DOMAIN procs' : \A i, j \in From(outbox', 0, r) : i = j
    BY <1>1, <1>6, <1>8 DEF IInv, OutboxInv
  <2> QED
    BY <1>1, <1>8, <2>1 DEF IInv, OutboxInv
<1>10. StageInv'
  BY <1>1, <1>7, <1>8 DEF IInv, StageInv
<1>11. /\ NewProcess \in Process /\ NewProcess.status = Ready /\ NewProcess.mailbox = <<>>
  BY EmptySeq DEF NewProcess, Process, Status
<1> DEFINE q == NewProcess
<1>12. Settled(q)
  BY <1>11, StatusesApart, NobodyWaits
<1>13. Owing(q, p, outbox, owed, 0)
  <2>1. Cardinality(From(outbox, 0, p)) = 0 /\ Cardinality(Positions(q.mailbox, ReplyMessages)) = 0
    BY <1>6, <1>11, FS_EmptySet, PositionsEmpty
  <2>2. \A k \in Key : q.status # OnEffect(k)
    BY <1>11, StatusesApart
  <2> QED
    BY <1>5, <1>6, <2>1, <2>2 DEF Owing
<1> DEFINE ps == Present
           ps1 == [r \in DOMAIN procs \union {p} |-> IF r = p THEN q ELSE ps[r]]
           wakes == TRUE
<1>14. Well(ps, ready, running, outbox, owed, 0) /\ DOMAIN ps = DOMAIN procs
  BY Everybody DEF IInv
<1>15. \A r \in DOMAIN procs \union {p} : Present'[r] = ps1[r]
  <2>1. \A r \in DOMAIN procs : ps[r] = IF r = running THEN held ELSE procs[r]
    BY DEF Present, Now
  <2>2. \A r \in DOMAIN procs \union {p} : Present'[r] = IF r = running THEN held ELSE procs'[r]
    BY <1>1, <1>8 DEF Present, Now
  <2> HIDE DEF ps, q
  <2> QED
    BY <1>4, <1>7, <1>8, <2>1, <2>2 DEF q
<1>16. DOMAIN Present' = DOMAIN procs \union {p}
  BY <1>8 DEF Present
<1> HIDE DEF ps, q, wakes
<1>17. DOMAIN ps1 = DOMAIN procs \union {p} /\ ps1[p] = q /\ \A r \in DOMAIN procs : ps1[r] = ps[r]
  BY <1>4
<1>18. p \notin ToSet(ready) /\ p # running
  <2>1. ready \in Seq(DOMAIN procs)
    BY Everybody
  <2>2. ToSet(ready) \subseteq DOMAIN procs
    BY <2>1, LenProperties, ElementOfSeq DEF ToSet
  <2> QED
    BY <1>4, <1>7, <2>2
<1> HIDE DEF ps1
<1>19. Typed(ps1, ready)
  <2>1. ready \in Seq(DOMAIN procs) /\ IsInjective(ready)
    BY Everybody
  <2>2. ready \in Seq(DOMAIN ps1)
    <3>1. DOMAIN procs \subseteq DOMAIN ps1
      BY <1>17
    <3> QED
      BY <2>1, <3>1, SeqMonotonic
  <2> QED
    BY <1>4, <1>17, <2>1, <2>2 DEF Typed
<1>20. \A r \in DOMAIN ps1 \ {p} : Kept(ps1[r], r, ready, running, outbox, owed, 0)
  BY <1>14, <1>17 DEF Well
<1>21. wakes \in BOOLEAN /\ wakes
  BY DEF wakes
<1>22. Well([ps1 EXCEPT ![p] = q], IF wakes THEN Append(ready, p) ELSE ready, running, outbox, owed, 0)
  <2>1. p \in DOMAIN ps1 /\ q \in Process /\ (wakes => p \notin ToSet(ready) /\ p # running /\ q.status = Ready) /\ (~wakes => Listed(q, p, ready, running))
    BY <1>11, <1>17, <1>18, <1>21 DEF q
  <2> QED
    BY <1>12, <1>13, <1>19, <1>20, <1>21, <2>1, OneChanges
<1>23. Well(Present', ready', running, outbox, owed, 0)
  <2> DEFINE ps2 == [ps1 EXCEPT ![p] = q]
  <2>1. DOMAIN ps2 = DOMAIN procs \union {p} /\ \A r \in DOMAIN procs \union {p} : ps2[r] = ps1[r]
    BY <1>17
  <2>2. Well(ps2, ready', running, outbox, owed, 0)
    BY <1>1, <1>21, <1>22
  <2> HIDE DEF ps2
  <2>3. DOMAIN Present' = DOMAIN ps2 /\ \A r \in DOMAIN ps2 : Present'[r] = ps2[r]
    BY <1>15, <1>16, <2>1 DEF ps1
  <2> QED
    BY <2>2, <2>3, WellSame
<1> QED
  BY <1>1, <1>9, <1>10, <1>23 DEF IInv

---------------------------------------------------------------------------
(* The run loop *)

\* At the start the root is ready and queued, and nothing is owed.
LEMMA InitHolds == Init => IInv
<1> SUFFICES ASSUME Init PROVE IInv
  OBVIOUS
<1>1. /\ procs = [p \in {0} |-> NewProcess] /\ ready = <<0>> /\ running = -1 /\ held = NewProcess
      /\ outbox = <<>> /\ owed = [p \in 0 .. MaxProcesses - 1 |-> 0] /\ stage = "running"
  BY DEF Init
<1>2. NewProcess \in Process /\ NewProcess.status = Ready /\ NewProcess.mailbox = <<>>
  BY EmptySeq DEF NewProcess, Process, Status
<1>3. \A p : From(outbox, 0, p) = {}
  BY <1>1 DEF From
<1>4. StageInv
  BY <1>1, <1>2 DEF StageInv
<1>5. OutboxInv
  BY <1>1, <1>3, EmptySeq DEF OutboxInv, Pids
<1>6. DOMAIN Present = {0} /\ Present[0] = NewProcess
  BY <1>1 DEF Present, Now
<1>7. Typed(Present, ready)
  <2>1. {0} = 0 .. 1 - 1 /\ 1 \in 0 .. MaxProcesses
    BY LimitsAssumption
  <2>2. ready \in Seq({0}) /\ IsInjective(ready)
    BY <1>1 DEF IsInjective
  <2> QED
    BY <1>6, <2>1, <2>2 DEF Typed
<1>8. Kept(Present[0], 0, ready, running, outbox, owed, 0)
  <2> DEFINE q == Present[0]
  <2>1. Settled(q)
    BY <1>2, <1>6, StatusesApart, NobodyWaits
  <2>2. Listed(q, 0, ready, running)
    <3>1. 0 \in ToSet(ready) /\ 0 # running /\ q.status \notin Waits
      BY <1>1, <1>2, <1>6, StatusesApart DEF ToSet
    <3> QED
      BY <3>1 DEF Listed
  <2>3. Owing(q, 0, outbox, owed, 0)
    <3>1. Cardinality(From(outbox, 0, 0)) = 0 /\ Cardinality(Positions(q.mailbox, ReplyMessages)) = 0
      BY <1>2, <1>3, <1>6, FS_EmptySet, PositionsEmpty
    <3>2. owed[0] = 0
      BY <1>1, LimitsAssumption
    <3>3. \A k \in Key : q.status # OnEffect(k)
      BY <1>2, <1>6, StatusesApart
    <3> QED
      BY <1>3, <3>1, <3>2, <3>3 DEF Owing
  <2> QED
    BY <1>2, <1>6, <2>1, <2>2, <2>3 DEF Kept
<1> QED
  BY <1>4, <1>5, <1>6, <1>7, <1>8 DEF IInv, Well

\* A run that is lost has no process left to owe anything.
LEMMA LostStep ==
  ASSUME IInv, Lost
  PROVE  IInv'
<1>1. /\ procs' = [p \in {} |-> NewProcess] /\ ready' = <<>> /\ running' = -1 /\ held' = NewProcess
      /\ outbox' = <<>> /\ owed' = [p \in DOMAIN owed |-> 0] /\ stage' = "failed"
  BY DEF Lost
<1>2. NewProcess \in Process
  BY EmptySeq DEF NewProcess, Process, Status
<1>3. DOMAIN procs' = {} /\ DOMAIN Present' = {}
  BY <1>1 DEF Present
<1>4. StageInv'
  BY <1>1, <1>2 DEF StageInv
<1>5. owed \in [Pids -> Int]
  BY DEF IInv, OutboxInv
<1>6. OutboxInv'
  BY <1>1, <1>3, <1>5, EmptySeq DEF OutboxInv
<1>7. Typed(Present', ready')
  <2>1. {} = 0 .. 0 - 1 /\ 0 \in 0 .. MaxProcesses
    BY LimitsAssumption
  <2>2. ready' \in Seq({}) /\ IsInjective(ready')
    BY <1>1, EmptySeq DEF IsInjective
  <2> QED
    BY <1>3, <2>1, <2>2 DEF Typed
<1> QED
  BY <1>3, <1>4, <1>6, <1>7 DEF IInv, Well

\* The queue gives its first process to the slice.
LEMMA Dispatched ==
  ASSUME NEW ps, NEW rq, rq # <<>>, NEW ob, NEW ow, NEW off, Well(ps, rq, off, ob, ow, 0), off \notin DOMAIN ps
  PROVE  /\ Head(rq) \in DOMAIN ps /\ ps[Head(rq)] \in Process /\ ps[Head(rq)].status \notin Waits
         /\ Well(ps, Tail(rq), Head(rq), ob, ow, 0)
<1>1. Typed(ps, rq) /\ \A r \in DOMAIN ps : Kept(ps[r], r, rq, off, ob, ow, 0)
  BY DEF Well
<1>2. rq \in Seq(DOMAIN ps) /\ IsInjective(rq)
  BY <1>1 DEF Typed
<1> DEFINE h == Head(rq)
           t == Tail(rq)
           n == Len(rq)
<1>3. n \in Nat \ {0} /\ DOMAIN rq = 1 .. n /\ h = rq[1] /\ h \in DOMAIN ps
  BY <1>2, EmptySeq, LenProperties, HeadTailProperties, ElementOfSeq
<1>4. t \in Seq(DOMAIN ps) /\ Len(t) = n - 1 /\ \A i \in 1 .. Len(t) : t[i] = rq[i + 1]
  BY <1>2, HeadTailProperties
<1>5. DOMAIN t = 1 .. n - 1
  BY <1>4, LenProperties
<1> HIDE DEF h, t, n
<1>6. IsInjective(t)
  <2>1. ASSUME NEW i \in DOMAIN t, NEW j \in DOMAIN t, t[i] = t[j] PROVE i = j
    <3>1. i + 1 \in DOMAIN rq /\ j + 1 \in DOMAIN rq /\ rq[i + 1] = rq[j + 1]
      BY <1>3, <1>4, <1>5, <2>1
    <3>2. i + 1 = j + 1
      BY <1>2, <3>1 DEF IsInjective
    <3> QED
      BY <1>5, <3>2
  <2> QED
    BY <2>1 DEF IsInjective
<1>7. ASSUME NEW r \in DOMAIN ps, r \in ToSet(rq), r # h PROVE r \in ToSet(t)
  <2>1. PICK i \in DOMAIN rq : r = rq[i]
    BY <1>7 DEF ToSet
  <2>2. i # 1
    BY <1>3, <1>7, <2>1
  <2>3. i - 1 \in DOMAIN t /\ i - 1 \in 1 .. Len(t) /\ (i - 1) + 1 = i
    BY <1>3, <1>4, <1>5, <2>1, <2>2
  <2>4. t[i - 1] = rq[(i - 1) + 1]
    BY <1>4, <2>3
  <2> QED
    BY <2>1, <2>3, <2>4 DEF ToSet
<1>8. ASSUME NEW r \in ToSet(t) PROVE r \in ToSet(rq) /\ r # h
  <2>1. PICK i \in DOMAIN t : r = t[i]
    BY <1>8 DEF ToSet
  <2>2. i + 1 \in DOMAIN rq /\ i + 1 # 1 /\ 1 \in DOMAIN rq /\ r = rq[i + 1]
    BY <1>3, <1>4, <1>5, <2>1
  <2>3. r \in ToSet(rq)
    BY <2>2 DEF ToSet
  <2>4. rq[i + 1] # rq[1]
    BY <1>2, <2>2 DEF IsInjective
  <2> QED
    BY <1>3, <2>2, <2>3, <2>4
<1>9. ASSUME NEW r \in DOMAIN ps PROVE Kept(ps[r], r, t, h, ob, ow, 0)
  <2>1. Kept(ps[r], r, rq, off, ob, ow, 0) /\ r # off
    BY <1>1
  <2>2. Listed(ps[r], r, t, h)
    BY <1>7, <1>8, <2>1 DEF Kept, Listed
  <2> QED
    BY <2>1, <2>2 DEF Kept
<1>10. Typed(ps, t)
  BY <1>1, <1>4, <1>6 DEF Typed
<1>11. ps[h] \in Process /\ ps[h].status \notin Waits
  <2>1. h \in ToSet(rq)
    BY <1>3 DEF ToSet
  <2>2. Kept(ps[h], h, rq, off, ob, ow, 0)
    BY <1>1, <1>3
  <2> QED
    BY <2>1, <2>2 DEF Kept, Listed
<1> QED
  BY <1>3, <1>9, <1>10, <1>11 DEF Well, h, t

\* The slice gives its process back, behind the others if it can go on.
LEMMA Parked ==
  ASSUME NEW ps, NEW rq, NEW on \in DOMAIN ps, NEW ob, NEW ow, NEW off, off \notin DOMAIN ps,
         Well(ps, rq, on, ob, ow, 0), ps = [p \in DOMAIN ps |-> ps[p]]
  PROVE  Well(ps, IF ps[on].status = Ready THEN Append(rq, on) ELSE rq, off, ob, ow, 0)
<1> DEFINE wakes == ps[on].status = Ready
           q == ps[on]
<1>1. Typed(ps, rq) /\ \A r \in DOMAIN ps : Kept(ps[r], r, rq, on, ob, ow, 0)
  BY DEF Well
<1>2. \A r \in DOMAIN ps \ {on} : Kept(ps[r], r, rq, off, ob, ow, 0)
  BY <1>1 DEF Kept, Listed
<1>3. q \in Process /\ Settled(q) /\ Owing(q, on, ob, ow, 0) /\ on \notin ToSet(rq) /\ on # off
  BY <1>1 DEF Kept, Listed
<1>4. wakes => on \notin ToSet(rq) /\ on # off /\ q.status = Ready
  BY <1>3
<1>5. ~wakes => Listed(q, on, rq, off)
  BY <1>3 DEF Listed
<1>6. wakes \in BOOLEAN
  OBVIOUS
<1>7. [ps EXCEPT ![on] = q] = ps
  OBVIOUS
<1> HIDE DEF q, wakes
<1>8. Well([ps EXCEPT ![on] = q], IF wakes THEN Append(rq, on) ELSE rq, off, ob, ow, 0)
  BY <1>1, <1>2, <1>3, <1>4, <1>5, <1>6, OneChanges
<1> QED
  BY <1>7, <1>8 DEF wakes

\* The run loop takes the head of the queue,
LEMMA DispatchStep ==
  ASSUME IInv, Dispatch
  PROVE  IInv'
<1>1. /\ stage = "running" /\ running = -1 /\ ready # <<>> /\ running' = Head(ready) /\ ready' = Tail(ready)
      /\ held' = procs[Head(ready)] /\ procs' = procs /\ outbox' = outbox /\ owed' = owed /\ stage' = stage
  BY DEF Dispatch
<1> DEFINE ps == Present
           h == Head(ready)
<1>2. Well(ps, ready, running, outbox, owed, 0) /\ DOMAIN ps = DOMAIN procs
  BY Everybody DEF IInv
<1>3. \A r \in DOMAIN procs : ps[r] = procs[r]
  <2>1. \A r \in DOMAIN procs : r # running
    BY <1>1, Everybody
  <2> QED
    BY <2>1 DEF Present, Now
<1>4. running \notin DOMAIN ps
  BY <1>1, <1>2, Everybody
<1> HIDE DEF ps
<1>5. /\ h \in DOMAIN ps /\ ps[h] \in Process /\ ps[h].status \notin Waits
      /\ Well(ps, Tail(ready), h, outbox, owed, 0)
  BY <1>1, <1>2, <1>4, Dispatched
<1> HIDE DEF h
<1>6. DOMAIN Present' = DOMAIN ps /\ \A r \in DOMAIN ps : Present'[r] = ps[r]
  <2>1. DOMAIN Present' = DOMAIN procs /\ \A r \in DOMAIN procs : Present'[r] = IF r = running' THEN held' ELSE procs'[r]
    BY <1>1 DEF Present, Now
  <2> QED
    BY <1>1, <1>2, <1>3, <2>1 DEF h
<1>7. Well(Present', ready', running', outbox, owed, 0)
  <2>1. Well(ps, ready', running', outbox, owed, 0)
    BY <1>1, <1>5 DEF h
  <2> QED
    BY <1>6, <2>1, WellSame
<1>8. StageInv'
  <2>1. running' \in DOMAIN procs /\ procs[running'] \in Process /\ procs[running'].status \notin Waits /\ held' \in Process
    BY <1>1, <1>2, <1>3, <1>5 DEF h
  <2> QED
    BY <1>1, <2>1 DEF StageInv
<1>9. OutboxInv'
  BY <1>1 DEF IInv, OutboxInv
<1> QED
  BY <1>1, <1>7, <1>8, <1>9 DEF IInv

\* puts back whom it ran, queued again if it is ready,
LEMMA EndSliceStep ==
  ASSUME IInv, EndSlice
  PROVE  IInv'
<1>1. /\ stage = "running" /\ running # -1 /\ procs' = [procs EXCEPT ![running] = held]
      /\ ready' = (IF held.status = Ready THEN Append(ready, running) ELSE ready)
      /\ running' = -1 /\ held' = NewProcess /\ outbox' = outbox /\ owed' = owed /\ stage' = stage
  BY DEF EndSlice
<1>2. running \in DOMAIN procs /\ held \in Process
  BY <1>1 DEF IInv, StageInv
<1> DEFINE ps == Present
           off == -1
<1>3. /\ Well(ps, ready, running, outbox, owed, 0) /\ DOMAIN ps = DOMAIN procs /\ ps[running] = held /\ off \notin DOMAIN ps
      /\ ps = [p \in DOMAIN ps |-> ps[p]]
  BY <1>2, Everybody DEF IInv, Present, Now
<1>4. \A r \in DOMAIN procs : ps[r] = IF r = running THEN held ELSE procs[r]
  BY DEF Present, Now
<1>5. off = running'
  BY <1>1
<1> HIDE DEF ps, off
<1>6. Well(ps, ready', off, outbox, owed, 0)
  <2>1. running \in DOMAIN ps
    BY <1>2, <1>3
  <2>2. Well(ps, IF ps[running].status = Ready THEN Append(ready, running) ELSE ready, off, outbox, owed, 0)
    BY <1>3, <2>1, Parked
  <2> QED
    BY <1>1, <1>3, <2>2
<1>7. DOMAIN Present' = DOMAIN ps /\ \A r \in DOMAIN ps : Present'[r] = ps[r]
  <2>1. DOMAIN procs' = DOMAIN procs /\ \A r \in DOMAIN procs : procs'[r] = ps[r]
    BY <1>1, <1>2, <1>4
  <2>2. \A r \in DOMAIN procs : r # running'
    BY <1>1, Everybody
  <2>3. DOMAIN Present' = DOMAIN procs' /\ \A r \in DOMAIN procs' : Present'[r] = IF r = running' THEN held' ELSE procs'[r]
    BY DEF Present, Now
  <2> QED
    BY <1>3, <2>1, <2>2, <2>3
<1>8. Well(Present', ready', off, outbox, owed, 0)
  BY <1>6, <1>7, WellSame
<1>9. NewProcess \in Process
  BY EmptySeq DEF NewProcess, Process, Status
<1>10. StageInv'
  BY <1>1, <1>9 DEF StageInv
<1>11. OutboxInv'
  <2>1. DOMAIN procs' = DOMAIN procs
    BY <1>1
  <2> QED
    BY <1>1, <2>1 DEF IInv, OutboxInv
<1> QED
  BY <1>1, <1>5, <1>8, <1>10, <1>11 DEF IInv

\* and stops with everybody as he is.
LEMMA QuiesceStep ==
  ASSUME IInv, Quiesce
  PROVE  IInv'
<1>1. /\ stage = "running" /\ running = -1 /\ (steps >= MaxSteps \/ ready = <<>>) /\ stage' = quiescedOutput
      /\ UNCHANGED <<procs, ready, running, held, slice, steps, outbox, owed>>
  BY DEF Quiesce
<1>2. stage' \in {"suspended", "deadlock", "completed"}
  BY <1>1 DEF quiescedOutput
<1>3. Present' = Present
  BY <1>1 DEF Present, Now
<1>4. StageInv'
  BY <1>1, <1>2 DEF IInv, StageInv
<1>5. OutboxInv'
  BY <1>1 DEF IInv, OutboxInv
<1> QED
  BY <1>1, <1>3, <1>4, <1>5 DEF IInv

\* The machine goes on with everything answered and nothing pending.
LEMMA ResumeStep ==
  ASSUME IInv, runEffectResume
  PROVE  IInv'
<1>1. /\ stage = "suspended" /\ outbox' = <<>> /\ stage' = "running" /\ running' = running /\ held' = held /\ owed' = owed
  BY DEF runEffectResume, OutboxRestored
<1>2. PICK m \in Answered[Len(outbox)] : procs' = m.procs /\ ready' = m.ready
  BY DEF runEffectResume
<1>3. running = -1 /\ OutboxInv /\ held \in Process
  BY <1>1 DEF IInv, StageInv
<1>4. /\ DOMAIN Present = DOMAIN procs
      /\ \A r \in DOMAIN procs : r # running
  BY <1>3, Everybody
<1> DEFINE ps == Present
           qs == procs
           off == -1
<1>5. Well(qs, ready, -1, outbox, owed, 0)
  <2>1. Well(ps, ready, off, outbox, owed, 0)
    BY <1>3 DEF IInv
  <2>2. DOMAIN qs = DOMAIN ps /\ \A r \in DOMAIN ps : qs[r] = ps[r]
    BY <1>4 DEF Present, Now
  <2> HIDE DEF ps, qs, off
  <2>3. Well(qs, ready, off, outbox, owed, 0)
    BY <2>1, <2>2, WellSame
  <2> QED
    BY <2>3 DEF off
<1>6. WellAt(m, Len(outbox))
  BY <1>2, <1>3, <1>5, AnsweredKeeps
<1>7. outbox \in Seq(Intents)
  BY <1>3 DEF OutboxInv
<1>8. Well(m.procs, m.ready, off, <<>>, owed, 0) /\ DOMAIN m.procs = DOMAIN procs
  <2> DEFINE ms == m.procs
             n == Len(outbox)
             o2 == <<>>
  <2>1. Well(ms, m.ready, off, outbox, owed, n) /\ DOMAIN ms = DOMAIN procs
    BY <1>6 DEF WellAt
  <2>2. \A p : From(outbox, n, p) = {}
    BY <1>7, FromDone
  <2>3. \A p : From(o2, 0, p) = {}
    BY DEF From
  <2> HIDE DEF ms, n, o2, off
  <2>4. Well(ms, m.ready, off, o2, owed, 0)
    BY <2>1, <2>2, <2>3, OwingKeeps
  <2> QED
    BY <2>1, <2>4 DEF ms, o2
<1>9. DOMAIN procs' = DOMAIN procs
  BY <1>2, <1>8
<1>10. DOMAIN Present' = DOMAIN procs /\ \A r \in DOMAIN procs : Present'[r] = procs'[r]
  BY <1>1, <1>4, <1>9 DEF Present, Now
<1>11. Well(Present', ready', off, <<>>, owed, 0)
  <2> DEFINE ms == procs'
             o2 == <<>>
  <2>1. Well(ms, ready', off, o2, owed, 0)
    BY <1>2, <1>8
  <2>2. DOMAIN Present' = DOMAIN ms /\ \A r \in DOMAIN ms : Present'[r] = ms[r]
    BY <1>9, <1>10
  <2> HIDE DEF ms, o2, off
  <2>3. Well(Present', ready', off, o2, owed, 0)
    BY <2>1, <2>2, WellSame
  <2> QED
    BY <2>3 DEF o2
<1>12. OutboxInv'
  <2>1. \A p : From(<<>>, 0, p) = {}
    BY DEF From
  <2>2. <<>> \in Seq(Intents) /\ DOMAIN <<>> = {}
    BY EmptySeq
  <2> QED
    BY <1>1, <1>3, <1>9, <2>1, <2>2 DEF OutboxInv
<1>13. StageInv'
  BY <1>1, <1>3 DEF StageInv
<1> QED
  BY <1>1, <1>3, <1>11, <1>12, <1>13 DEF IInv

\* The invariant is kept by every step of the run and of the host.
LEMMA Inductive == IInv /\ [Next]_vars => IInv'
<1> SUFFICES ASSUME IInv, [Next]_vars PROVE IInv'
  OBVIOUS
<1>1. CASE Dispatch
  BY <1>1, DispatchStep
<1>2. CASE EndSlice
  BY <1>2, EndSliceStep
<1>3. CASE Quiesce
  BY <1>3, QuiesceStep
<1>4. CASE Instruction
  <2>1. CASE \E p \in DOMAIN procs, t \in MessageTag : PROC_SEND(p, t)
    BY <2>1, SendStep
  <2>2. CASE PROC_SPAWN
    BY <2>2, SpawnStep
  <2>3. CASE Fault
    BY <2>3, LostStep DEF Fault
  <2> QED
    BY <1>4, <2>1, <2>2, <2>3, OwnSteps DEF Instruction
<1>5. CASE runEffectResume
  BY <1>5, ResumeStep
<1>6. CASE HostFails
  BY <1>6, LostStep DEF HostFails
<1>7. CASE UNCHANGED vars
  <2>1. Present' = Present
    BY <1>7 DEF vars, Present, Now
  <2>2. StageInv' /\ OutboxInv'
    BY <1>7 DEF vars, IInv, StageInv, OutboxInv
  <2> QED
    BY <1>7, <2>1, <2>2 DEF vars, IInv
<1> QED
  BY <1>1, <1>2, <1>3, <1>4, <1>5, <1>6, <1>7 DEF Next, Run

\* Hence the invariant holds throughout.
LEMMA InvariantHolds == Spec => []IInv
BY InitHolds, Inductive, PTL DEF Spec

---------------------------------------------------------------------------
(* What follows *)

\* It bounds the machine's shape,
LEMMA TypesFollow == IInv => TypeOK
<1> SUFFICES ASSUME IInv PROVE TypeOK
  OBVIOUS
<1>1. PICK n \in 0 .. MaxProcesses : DOMAIN procs = 0 .. n - 1
  BY Everybody
<1>2. DOMAIN procs = 0 .. Cardinality(DOMAIN procs) - 1
  <2>1. n \in Nat
    BY <1>1, LimitsAssumption
  <2>2. Cardinality(0 .. n - 1) = n
    BY <2>1, FS_Interval
  <2> QED
    BY <1>1, <2>2
<1>3. running \in DOMAIN procs \union {-1} /\ held \in Process /\ stage \in {"running", "suspended", "deadlock", "completed", "failed"}
  BY DEF IInv, StageInv
<1>4. ASSUME NEW p \in DOMAIN procs PROVE procs[p] \in Process
  <2>1. CASE p = running
    BY <2>1, Everybody DEF IInv, StageInv
  <2>2. CASE p # running
    BY <2>2, Everybody DEF Kept, Now
  <2> QED
    BY <2>1, <2>2
<1>5. ToSet(ready) \subseteq DOMAIN procs
  <2>1. ready \in Seq(DOMAIN procs)
    BY Everybody
  <2> QED
    BY <2>1, LenProperties, ElementOfSeq DEF ToSet
<1>6. Cardinality({i \in DOMAIN outbox : outbox[i].effect}) <= MaxEffectsRequested
  <2> DEFINE asked == {i \in DOMAIN outbox : outbox[i].effect}
             n1 == MaxEffectsRequested
  <2>1. outbox \in Seq(Intents) /\ \A i \in DOMAIN outbox : outbox[i].effect => i <= n1
    BY DEF IInv, OutboxInv
  <2>2. Len(outbox) \in Nat /\ DOMAIN outbox = 1 .. Len(outbox) /\ n1 \in Nat
    BY <2>1, LenProperties, LimitsAssumption
  <2>3. asked \in SUBSET (1 .. n1)
    BY <2>1, <2>2
  <2> HIDE DEF asked, n1
  <2>4. IsFiniteSet(1 .. n1) /\ Cardinality(1 .. n1) = n1
    <3>1. n1 \in Int /\ 1 \in Int
      BY <2>2
    <3>2. IsFiniteSet(1 .. n1)
      BY <3>1, FS_Interval
    <3>3. Cardinality(1 .. n1) = IF 1 > n1 THEN 0 ELSE n1 - 1 + 1
      BY <3>1, FS_Interval
    <3> QED
      BY <2>2, <3>2, <3>3
  <2>5. Cardinality(asked) <= n1
    BY <2>3, <2>4, FS_Subset
  <2> QED
    BY <2>5 DEF asked, n1
<1> QED
  BY <1>2, <1>3, <1>4, <1>5, <1>6 DEF TypeOK

\* accounts for every reply,
LEMMA AccountsFollow == IInv => RepliesAccounted
<1> SUFFICES ASSUME IInv, NEW p \in DOMAIN procs
             PROVE  LET pending == {i \in DOMAIN outbox : Awaits(outbox[i], p)}
                    IN  /\ owed[p] = Count(Now(p).mailbox, LAMBDA m : m.awaited) + Cardinality(pending)
                        /\ \A i, j \in pending : i = j
                        /\ \A k \in Key : Now(p).status = OnEffect(k) => \E i \in pending : outbox[i].key = k
  BY DEF RepliesAccounted
<1> DEFINE q == Now(p)
<1>1. q \in Process /\ Owing(q, p, outbox, owed, 0) /\ outbox \in Seq(Intents)
  BY Everybody DEF Kept
<1>2. From(outbox, 0, p) = {i \in DOMAIN outbox : Awaits(outbox[i], p)} /\ \A i, j \in From(outbox, 0, p) : i = j
  <2>1. \A i \in DOMAIN outbox : i > 0
    BY <1>1, LenProperties
  <2> QED
    BY <2>1 DEF From, IInv, OutboxInv
<1>3. q.mailbox \in Seq(Message)
  BY <1>1, ProcessFields
<1> HIDE DEF q
<1>4. \A i \in DOMAIN q.mailbox : q.mailbox[i] \in ReplyMessages <=> q.mailbox[i].awaited
  <2>1. \A i \in DOMAIN q.mailbox : q.mailbox[i] \in Message
    BY <1>3, LenProperties, ElementOfSeq
  <2> QED
    BY <2>1, RepliesAre
<1>5. Positions(q.mailbox, ReplyMessages) = {i \in DOMAIN q.mailbox : q.mailbox[i].awaited}
  BY <1>4 DEF Positions
<1>6. Count(q.mailbox, LAMBDA m : m.awaited) = Cardinality(Positions(q.mailbox, ReplyMessages))
  BY <1>5 DEF Count
<1> QED
  BY <1>1, <1>2, <1>6 DEF Owing, q

\* and leaves nobody asleep or unqueued.
LEMMA NobodyFollows == IInv => NobodyForgotten
<1> SUFFICES ASSUME IInv, running = -1, NEW p \in DOMAIN procs
             PROVE  LET q == procs[p]
                    IN  /\ q.status = OnMessage => \A m \in ToSet(q.mailbox) : m.tag = "EffectReply" /\ ~m.awaited
                        /\ \A t \in MatchTag \ {"DOWN", "EXIT"} : q.status = OnMatch(t) => ~mailboxHasVariantTag(t, q.mailbox)
                        /\ Count(ready, LAMBDA r : r = p) <= 1
                        /\ q.status = Ready => p \in ToSet(ready)
                        /\ stage = "deadlock" /\ q.status = Ready => steps >= MaxSteps
  BY DEF NobodyForgotten
<1>1. p # running /\ Kept(Now(p), p, ready, running, outbox, owed, 0) /\ ready \in Seq(DOMAIN procs) /\ IsInjective(ready)
  BY Everybody
<1> DEFINE q == procs[p]
<1>2. Settled(q) /\ Listed(q, p, ready, running)
  BY <1>1 DEF Now, Kept
<1> HIDE DEF q
<1>3. q.status = Ready => p \in ToSet(ready)
  BY <1>1, <1>2 DEF Listed
<1>4. Count(ready, LAMBDA r : r = p) <= 1
  <2> DEFINE at == {i \in DOMAIN ready : ready[i] = p}
  <2>1. \A i, j \in at : i = j
    BY <1>1 DEF IsInjective
  <2>2. at = {} \/ \E i \in at : at = {i}
    BY <2>1
  <2> HIDE DEF at
  <2>3. Cardinality(at) \in {0, 1}
    BY <2>2, FS_EmptySet, FS_Singleton
  <2>4. Count(ready, LAMBDA r : r = p) = Cardinality(at)
    BY DEF Count, at
  <2> QED
    BY <2>3, <2>4
<1>5. stage = "deadlock" /\ q.status = Ready => steps >= MaxSteps
  <2>1. p \in ToSet(ready) => ready # <<>>
    BY DEF ToSet
  <2> QED
    BY <1>3, <2>1 DEF IInv, StageInv
<1> QED
  BY <1>2, <1>3, <1>4, <1>5 DEF Settled, Unasked, q

\* However often a run is suspended, its machine is one: processes numbered from
\* 0, a queue of them, and no more effects pending than maxEffectsRequested
\* allows (EFFECT_REQUEST, EFFECT_AWAIT, decodeMachineState).
THEOREM RunTyped == Spec => []TypeOK
BY InvariantHolds, TypesFollow, PTL

\* Every await gets exactly one reply, which is in its process's mailbox or still
\* pending until the process takes it, whatever replies nobody awaited the host
\* delivers besides (EFFECT_AWAIT, EFFECT_REQUEST, pendingEntry, applyDelivery,
\* decodeMachineState).
THEOREM EveryAwaitIsAnsweredOnce == Spec => []RepliesAccounted
BY InvariantHolds, AccountsFollow, PTL

\* Nobody sleeps on a message he waits for or is left out of the queue while he
\* can go on, whatever the host delivers, save that a reply nobody awaited leaves
\* a plain receive asleep, and a disconnection a receive of its notices
\* (applyDelivery, applyDisconnectDelivery, quiescedOutput).
THEOREM NobodyIsForgotten == Spec => []NobodyForgotten
BY InvariantHolds, NobodyFollows, PTL

=============================================================================
