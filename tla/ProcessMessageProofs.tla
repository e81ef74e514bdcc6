------------------------ MODULE ProcessMessageProofs ------------------------
(***************************************************************************)
(* No message is lost, doubled or reordered, no sender overfills a mailbox, *)
(* no monitor is both live and answered, links are mutual, deaths are       *)
(* announced and nobody is overtaken in the queue: proofs about             *)
(* ProcessScheduler that follow what each process holds.                    *)
(***************************************************************************)
EXTENDS ProcessSchedulerProofs

\* The messages sent to q that it has not received.
Sent(q)    == {m \in Nat : <<q, m>> \in unread}
Letters(q) == {u \in unread : u[1] = q}

\* What a record holds once the machine has counted n steps. Messages and monitor
\* references are numbered by the step that made them, and a notice takes over the
\* number of the reference it answers: no number is ever held twice.
Held(p, n) ==
  /\ \A i \in DOMAIN p.mailbox : p.mailbox[i].id <= n
  /\ \A r \in p.monitors : r.id <= n
  /\ \A i, j \in DOMAIN p.mailbox : p.mailbox[i].id = p.mailbox[j].id => i = j
  /\ \A r, s \in p.monitors : r.id = s.id => r = s
  /\ \A i \in DOMAIN p.mailbox, r \in p.monitors : p.mailbox[i].id # r.id

\* What is sent and not received waits in the mailbox, oldest first.
Owed(p, sent) ==
  /\ \A m \in sent : \E i \in DOMAIN p.mailbox : p.mailbox[i].id = m
  /\ \A i, j \in DOMAIN p.mailbox :
       i < j /\ p.mailbox[i].id \in sent /\ p.mailbox[j].id \in sent
         => p.mailbox[i].id < p.mailbox[j].id

\* MessagesConserved, OldestFirst and DownDropsRef do not say that a reference and a
\* message cannot share a number, nor that numbers lie behind the step counter: it
\* takes both to see that an appended message or notice is new.
MessageInv ==
  /\ \A q \in DOMAIN procs : Held(View(q), steps) /\ Owed(View(q), Sent(q))
  /\ \A q \in DOMAIN procs : IsFiniteSet(Letters(q)) /\ Cardinality(Letters(q)) <= MaxMailbox
  /\ \A u \in unread : u[1] \in DOMAIN procs

---------------------------------------------------------------------------
(* What an operation on a record does to what it holds *)

\* What a process holds is numbered.
LEMMA Numbers ==
  ASSUME NEW p \in Process
  PROVE  /\ p.mailbox \in Seq(Message) /\ p.monitors \subseteq Ref
         /\ Len(p.mailbox) \in Nat /\ DOMAIN p.mailbox = 1 .. Len(p.mailbox)
         /\ \A i \in DOMAIN p.mailbox : p.mailbox[i] \in Message /\ p.mailbox[i].id \in Nat
         /\ \A r \in p.monitors : r.id \in Nat
<1>1. p.mailbox \in Seq(Message) /\ p.monitors \subseteq Ref
  BY DEF Process
<1>2. Len(p.mailbox) \in Nat /\ DOMAIN p.mailbox = 1 .. Len(p.mailbox)
  BY <1>1, LenProperties
<1>3. \A i \in 1 .. Len(p.mailbox) : p.mailbox[i] \in Message
  BY <1>1, ElementOfSeq
<1>4. (\A m \in Message : m.id \in Nat) /\ \A r \in Ref : r.id \in Nat
  BY DEF Message, Ref
<1> QED
  BY <1>1, <1>2, <1>3, <1>4

\* A record that drops references and keeps its mailbox holds what it held, or less,
\* by any later step.
LEMMA HeldStays ==
  ASSUME NEW p \in Process, NEW p2 \in Process, NEW n \in Nat, NEW n2 \in Nat, n <= n2,
         p2.mailbox = p.mailbox, p2.monitors \subseteq p.monitors, Held(p, n)
  PROVE  Held(p2, n2)
<1>2. (\A i \in DOMAIN p.mailbox : p.mailbox[i].id \in Nat) /\ \A r \in p.monitors : r.id \in Nat
  BY Numbers
<1>3. \A i \in DOMAIN p2.mailbox : p2.mailbox[i].id <= n2
  BY <1>2 DEF Held
<1>4. \A r \in p2.monitors : r.id <= n2
  BY <1>2 DEF Held
<1> QED
  BY <1>3, <1>4 DEF Held

\* PROC_SEND: the new message carries a number past every other.
LEMMA HeldAppended ==
  ASSUME NEW p \in Process, NEW p2 \in Process, NEW n \in Nat, NEW message \in Message,
         NEW sent \in SUBSET Nat, message.id = n + 1, p2.mailbox = Append(p.mailbox, message),
         p2.monitors = p.monitors, Held(p, n), Owed(p, sent)
  PROVE  Held(p2, n + 1) /\ Owed(p2, sent \cup {n + 1})
<1> DEFINE box == p.mailbox
           box2 == p2.mailbox
<1>1. box \in Seq(Message) /\ p.monitors \subseteq Ref
  BY DEF Process
<1>2. /\ Len(box) \in Nat /\ DOMAIN box = 1 .. Len(box) /\ DOMAIN box2 = 1 .. Len(box) + 1
      /\ \A i \in DOMAIN box : box2[i] = box[i] /\ box[i].id \in Nat /\ box[i].id <= n
      /\ box2[Len(box) + 1] = message
  <2>1. /\ Len(box) \in Nat /\ DOMAIN box = 1 .. Len(box)
        /\ \A i \in 1 .. Len(box) : box[i] \in Message
    BY <1>1, LenProperties, ElementOfSeq
  <2>2. /\ box2 \in Seq(Message) /\ Len(box2) = Len(box) + 1 /\ box2[Len(box) + 1] = message
        /\ \A i \in 1 .. Len(box) : box2[i] = box[i]
    BY <1>1, AppendProperties
  <2>3. DOMAIN box2 = 1 .. Len(box) + 1
    BY <2>2, LenProperties
  <2> QED
    BY <2>1, <2>2, <2>3 DEF Held, Message
<1>3. \A r \in p.monitors : r.id \in Nat /\ r.id <= n
  BY <1>1 DEF Held, Ref
<1>4. \A i \in DOMAIN box2 : IF i = Len(box) + 1 THEN box2[i].id = n + 1
                             ELSE i \in DOMAIN box /\ box2[i].id = box[i].id
  BY <1>2
<1>5. \A m \in sent : \E i \in DOMAIN box : box[i].id = m
  BY DEF Owed
<1>6. \A m \in sent : m <= n
  BY <1>2, <1>5
<1>7. Held(p2, n + 1)
  <2>1. \A i, j \in DOMAIN box2 : box2[i].id = box2[j].id => i = j
    BY <1>2, <1>4 DEF Held
  <2>2. \A i \in DOMAIN box2, r \in p2.monitors : box2[i].id # r.id
    BY <1>2, <1>3, <1>4 DEF Held
  <2>3. \A i \in DOMAIN box2 : box2[i].id <= n + 1
    BY <1>2, <1>4
  <2> QED
    BY <1>3, <2>1, <2>2, <2>3 DEF Held
<1>8. \A m \in sent \cup {n + 1} : \E i \in DOMAIN box2 : box2[i].id = m
  BY <1>2, <1>4, <1>5
<1>9. ASSUME NEW i \in DOMAIN box2, NEW j \in DOMAIN box2, i < j,
             box2[i].id \in sent \cup {n + 1}, box2[j].id \in sent \cup {n + 1}
      PROVE  box2[i].id < box2[j].id
  <2>1. i \in DOMAIN box /\ box2[i].id = box[i].id /\ box[i].id \in sent
    BY <1>2, <1>4, <1>9
  <2>2. CASE j = Len(box) + 1
    BY <1>2, <1>4, <2>1, <2>2
  <2>3. CASE j # Len(box) + 1
    <3>1. j \in DOMAIN box /\ box2[j].id = box[j].id /\ box[j].id \in sent
      BY <1>2, <1>4, <1>9, <2>3
    <3> QED
      BY <1>9, <2>1, <3>1 DEF Owed
  <2> QED
    BY <2>2, <2>3
<1> QED
  BY <1>7, <1>8, <1>9 DEF Owed

\* PROC_RECEIVE and its variants: one message is gone, and only it.
LEMMA HeldTaken ==
  ASSUME NEW p \in Process, NEW p2 \in Process, NEW n \in Nat, NEW i \in DOMAIN p.mailbox,
         NEW sent \in SUBSET Nat, p2.mailbox = RemoveAt(p.mailbox, i),
         p2.monitors = p.monitors, Held(p, n), Owed(p, sent)
  PROVE  Held(p2, n + 1) /\ Owed(p2, sent \ {p.mailbox[i].id})
<1> DEFINE box == p.mailbox
           box2 == p2.mailbox
           old(k) == IF k < i THEN k ELSE k + 1
<1>1. box \in Seq(Message) /\ p.monitors \subseteq Ref
  BY DEF Process
<1>2. /\ Len(box) \in Nat \ {0} /\ i \in 1 .. Len(box) /\ DOMAIN box = 1 .. Len(box)
      /\ DOMAIN box2 = 1 .. Len(box) - 1
      /\ \A k \in 1 .. Len(box) - 1 : box2[k] = IF k < i THEN box[k] ELSE box[k + 1]
  BY <1>1, RemoveAtIndices
<1>3. \A k \in DOMAIN box : box[k].id \in Nat /\ box[k].id <= n
  BY Numbers DEF Held
<1>4. \A r \in p.monitors : r.id \in Nat /\ r.id <= n
  BY Numbers DEF Held
<1>5. \A k \in DOMAIN box2 : old(k) \in DOMAIN box \ {i} /\ box2[k] = box[old(k)]
  BY <1>2
<1>6. \A j, k \in DOMAIN box2 : (old(j) = old(k) => j = k) /\ (j < k => old(j) < old(k))
  BY <1>2
<1>7. \A j \in DOMAIN box \ {i} : \E k \in DOMAIN box2 : old(k) = j
  <2>1. ASSUME NEW j \in DOMAIN box, j # i PROVE \E k \in DOMAIN box2 : old(k) = j
    <3>1. CASE j < i
      BY <1>2, <3>1
    <3>2. CASE j > i
      <4>1. j - 1 \in DOMAIN box2 /\ old(j - 1) = j
        BY <1>2, <3>2
      <4> QED
        BY <4>1
    <3> QED
      BY <1>2, <2>1, <3>1, <3>2
  <2> QED
    BY <2>1
<1> HIDE DEF old
<1>8. Held(p2, n + 1)
  <2>1. \A j, k \in DOMAIN box2 : box2[j].id = box2[k].id => j = k
    BY <1>5, <1>6 DEF Held
  <2>2. \A j \in DOMAIN box2, r \in p2.monitors : box2[j].id # r.id
    BY <1>5 DEF Held
  <2>3. \A j \in DOMAIN box2 : box2[j].id <= n + 1
    BY <1>3, <1>5
  <2>4. \A r \in p2.monitors : r.id <= n + 1
    BY <1>4
  <2> QED
    BY <2>1, <2>2, <2>3, <2>4 DEF Held
<1>9. ASSUME NEW m \in sent, m # box[i].id PROVE \E k \in DOMAIN box2 : box2[k].id = m
  <2>1. PICK j \in DOMAIN box : box[j].id = m
    BY DEF Owed
  <2>2. PICK k \in DOMAIN box2 : old(k) = j
    BY <1>7, <1>9, <2>1
  <2> QED
    BY <1>5, <2>1, <2>2
<1>10. ASSUME NEW j \in DOMAIN box2, NEW k \in DOMAIN box2, j < k,
              box2[j].id \in sent, box2[k].id \in sent
       PROVE  box2[j].id < box2[k].id
  BY <1>5, <1>6, <1>10 DEF Owed
<1> QED
  BY <1>8, <1>9, <1>10 DEF Owed

\* PROC_MONITOR: the new reference carries a number past every other.
LEMMA HeldMonitored ==
  ASSUME NEW p \in Process, NEW p2 \in Process, NEW n \in Nat, NEW ref \in Ref, ref.id = n + 1,
         p2.mailbox = p.mailbox, p2.monitors = p.monitors \cup {ref}, Held(p, n)
  PROVE  Held(p2, n + 1)
<1>2. (\A i \in DOMAIN p.mailbox : p.mailbox[i].id \in Nat) /\ \A r \in p.monitors : r.id \in Nat
  BY Numbers
<1>3. /\ \A i \in DOMAIN p.mailbox : p.mailbox[i].id <= n
      /\ \A r \in p.monitors : r.id <= n
  BY DEF Held
<1> QED
  BY <1>2, <1>3 DEF Held

\* The notices to one observer carry the numbers of the references they answer.
LEMMA DownsAnswer ==
  ASSUME NEW p \in Process, NEW d \in Pid
  PROVE  /\ \A k \in DOMAIN Downs(p, d) : \E r \in RefsTo(p, d) :
              Downs(p, d)[k] = [tag |-> "DOWN", from |-> d, id |-> r.id]
         /\ \A r \in RefsTo(p, d) : \E k \in DOMAIN Downs(p, d) :
              Downs(p, d)[k] = [tag |-> "DOWN", from |-> d, id |-> r.id]
         /\ \A j, k \in DOMAIN Downs(p, d) : Downs(p, d)[j].id = Downs(p, d)[k].id => j = k
<1> DEFINE W == RefsTo(p, d)
           key == [r \in W |-> r.id]
           refs == InOrder(W, key)
<1>1. W \in SUBSET Ref /\ IsFiniteSet(W) /\ \A r \in W : r.pid = d
  <2>1. p.monitors \in SUBSET Ref /\ IsFiniteSet(p.monitors)
    BY DEF Process
  <2> QED
    BY <2>1, FS_Subset DEF RefsTo
<1>2. (\A r \in W : key[r] \in Int) /\ \A r, s \in W : r.id = s.id => r = s
  BY <1>1 DEF Ref
<1>3. refs \in Seq(W) /\ Range(refs) = W /\ IsInjective(refs)
  <2>1. \A r, s \in W : key[r] = key[s] => r = s
    BY <1>2
  <2> HIDE DEF W, key
  <2> QED
    BY <1>1, <1>2, <2>1, InOrderLists
<1>4. Downs(p, d) = [k \in DOMAIN refs |-> [tag |-> "DOWN", from |-> d, id |-> refs[k].id]]
  BY DEF Downs
<1> HIDE DEF refs, key
<1>5. \A k \in DOMAIN refs : refs[k] \in W
  BY <1>3 DEF Range
<1>6. \A r \in W : \E k \in DOMAIN refs : refs[k] = r
  BY <1>3 DEF Range
<1>7. \A j, k \in DOMAIN refs : refs[j] = refs[k] => j = k
  BY <1>3 DEF IsInjective
<1> QED
  BY <1>2, <1>4, <1>5, <1>6, <1>7

\* notifyMonitorsOfDeath: the references to the dead are traded for notices.
LEMMA HeldNotified ==
  ASSUME NEW p \in Process, NEW p2, NEW d \in Pid, NEW n \in Nat, NEW sent \in SUBSET Nat,
         p2.mailbox = p.mailbox \o Downs(p, d), p2.monitors = p.monitors \ RefsTo(p, d),
         Held(p, n), Owed(p, sent)
  PROVE  Held(p2, n) /\ Owed(p2, sent)
<1> DEFINE box == p.mailbox
           downs == Downs(p, d)
           box2 == p2.mailbox
           W == RefsTo(p, d)
<1>1. /\ box \in Seq(Message) /\ downs \in Seq(Message)
      /\ Len(box) \in Nat /\ DOMAIN box = 1 .. Len(box)
      /\ Len(downs) \in Nat /\ DOMAIN downs = 1 .. Len(downs)
  BY Numbers, DownsListRefs, LenProperties
<1>2. /\ DOMAIN box2 = 1 .. Len(box) + Len(downs)
      /\ \A i \in 1 .. Len(box) + Len(downs) :
           box2[i] = IF i <= Len(box) THEN box[i] ELSE downs[i - Len(box)]
  <2>1. box2 \in Seq(Message) /\ Len(box2) = Len(box) + Len(downs)
        /\ \A i \in 1 .. Len(box) + Len(downs) :
             box2[i] = IF i <= Len(box) THEN box[i] ELSE downs[i - Len(box)]
    BY <1>1, ConcatProperties
  <2> QED
    BY <2>1, LenProperties
<1>3. W \subseteq p.monitors /\ p2.monitors = p.monitors \ W
  BY DEF RefsTo
<1>4. /\ \A k \in DOMAIN downs : \E r \in W : downs[k].id = r.id
      /\ \A j, k \in DOMAIN downs : downs[j].id = downs[k].id => j = k
  <2>1. \A k \in DOMAIN downs : \E r \in W : downs[k] = [tag |-> "DOWN", from |-> d, id |-> r.id]
    BY DownsAnswer
  <2>2. \A j, k \in DOMAIN downs : downs[j].id = downs[k].id => j = k
    BY DownsAnswer
  <2> QED
    BY <2>1, <2>2
<1> HIDE DEF downs, W
<1> DEFINE new(i) == i - Len(box)
<1>5. ASSUME NEW i \in DOMAIN box2
      PROVE  \/ i \in DOMAIN box /\ box2[i] = box[i] /\ i <= Len(box)
             \/ new(i) \in DOMAIN downs /\ box2[i] = downs[new(i)] /\ i > Len(box)
  BY <1>1, <1>2
<1>6. \A i, j \in DOMAIN box2 : i \in Int /\ (new(i) = new(j) => i = j)
  BY <1>1, <1>2
<1> HIDE DEF new
<1>7. \A k \in DOMAIN downs, i \in DOMAIN box : downs[k].id # box[i].id
  BY <1>3, <1>4 DEF Held
<1>8. \A k \in DOMAIN downs : downs[k].id <= n /\ \A r \in p2.monitors : downs[k].id # r.id
  BY <1>3, <1>4 DEF Held
<1>9. Held(p2, n)
  <2>1. \A i \in DOMAIN box2 : box2[i].id <= n
    BY <1>5, <1>8 DEF Held
  <2>2. \A r \in p2.monitors : r.id <= n
    BY <1>3 DEF Held
  <2>3. ASSUME NEW i \in DOMAIN box2, NEW j \in DOMAIN box2, box2[i].id = box2[j].id PROVE i = j
    <3>1. CASE i \in DOMAIN box /\ box2[i] = box[i] /\ j \in DOMAIN box /\ box2[j] = box[j]
      BY <2>3, <3>1 DEF Held
    <3>2. CASE new(i) \in DOMAIN downs /\ box2[i] = downs[new(i)]
               /\ new(j) \in DOMAIN downs /\ box2[j] = downs[new(j)]
      BY <1>4, <1>6, <2>3, <3>2
    <3> QED
      BY <1>5, <1>7, <2>3, <3>1, <3>2
  <2>4. \A i \in DOMAIN box2, r \in p2.monitors : box2[i].id # r.id
    BY <1>3, <1>5, <1>8 DEF Held
  <2>5. \A r, s \in p2.monitors : r.id = s.id => r = s
    BY <1>3 DEF Held
  <2> QED
    BY <2>1, <2>2, <2>3, <2>4, <2>5 DEF Held
<1>10. \A m \in sent : \E i \in DOMAIN box : box[i].id = m
  BY DEF Owed
<1>11. \A m \in sent : \E i \in DOMAIN box2 : box2[i].id = m
  <2>1. \A i \in DOMAIN box : i \in DOMAIN box2 /\ box2[i] = box[i]
    BY <1>1, <1>2
  <2> QED
    BY <1>10, <2>1
<1>12. \A k \in DOMAIN downs : downs[k].id \notin sent
  BY <1>7, <1>10
<1>13. ASSUME NEW i \in DOMAIN box2, NEW j \in DOMAIN box2, i < j,
              box2[i].id \in sent, box2[j].id \in sent
       PROVE  box2[i].id < box2[j].id
  <2>1. i \in DOMAIN box /\ box2[i] = box[i] /\ j \in DOMAIN box /\ box2[j] = box[j]
    BY <1>5, <1>12, <1>13
  <2> QED
    BY <1>13, <2>1 DEF Owed
<1> QED
  BY <1>9, <1>11, <1>13 DEF Owed

---------------------------------------------------------------------------
(* The steps *)

\* Each process as it stands, the running one from its own record, is a process,
LEMMA ViewTyped ==
  ASSUME TypeOK
  PROVE  \A q \in DOMAIN procs : View(q) \in Process
BY MapTyped DEF TypeOK, View

\* and so it is after a step.
LEMMA NextViewTyped ==
  ASSUME TypeOK'
  PROVE  \A q \in DOMAIN procs' : View(q)' \in Process
<1>1. \A q \in DOMAIN procs' : procs'[q] \in Process
  BY DEF TypeOK
<1> QED
  BY <1>1 DEF TypeOK, View

\* At the start nobody holds anything.
LEMMA InitHolding == Init => MessageInv
<1> SUFFICES ASSUME Init PROVE MessageInv
  OBVIOUS
<1>1. DOMAIN procs = {Root} /\ View(Root) = NewProcess /\ unread = {}
  BY DEF Init, View, Root, NoProc
<1>2. Held(NewProcess, steps) /\ \A sent : sent = {} => Owed(NewProcess, sent)
  BY DEF Held, Owed, NewProcess
<1>3. Sent(Root) = {} /\ Letters(Root) = {}
  BY <1>1 DEF Sent, Letters
<1>4. IsFiniteSet({}) /\ Cardinality({}) <= MaxMailbox
  BY FS_EmptySet, LimitsAssumption
<1> QED
  BY <1>1, <1>2, <1>3, <1>4 DEF MessageInv

\* A step that moves no message and sets no monitor.
LEMMA SameHolding ==
  ASSUME TypeOK, TypeOK', MessageInv, UNCHANGED unread, DOMAIN procs' = DOMAIN procs, steps <= steps',
         \A q \in DOMAIN procs : /\ View(q)'.mailbox = View(q).mailbox
                                 /\ View(q)'.monitors \subseteq View(q).monitors
  PROVE  MessageInv'
<1>1. ASSUME NEW q \in DOMAIN procs PROVE Held(View(q)', steps') /\ Owed(View(q)', Sent(q)')
  <2>1. View(q) \in Process /\ View(q)' \in Process
    BY ViewTyped, NextViewTyped
  <2>2. Held(View(q), steps) /\ Owed(View(q), Sent(q)) /\ Sent(q)' = Sent(q)
    BY DEF MessageInv, Sent
  <2>3. steps \in Nat /\ steps' \in Nat
    BY DEF TypeOK
  <2>4. Held(View(q)', steps')
    BY <2>1, <2>2, <2>3, HeldStays
  <2>5. View(q)'.mailbox = View(q).mailbox
    OBVIOUS
  <2> QED
    BY <2>2, <2>4, <2>5 DEF Owed
<1>2. \A q : Letters(q)' = Letters(q)
  BY DEF Letters
<1> QED
  BY <1>1, <1>2 DEF MessageInv

\* A step of the running process on its own record alone.
LEMMA OwnHolding ==
  ASSUME TypeOK, TypeOK', MessageInv, UNCHANGED <<procs, running, unread>>, steps <= steps',
         cur'.mailbox = cur.mailbox, cur'.monitors \subseteq cur.monitors
  PROVE  MessageInv'
<1>1. \A q \in DOMAIN procs : /\ View(q)'.mailbox = View(q).mailbox
                               /\ View(q)'.monitors \subseteq View(q).monitors
  BY DEF View
<1> QED
  BY <1>1, SameHolding

\* What an instruction leaves in the running record.
LEMMA AdvanceHolding ==
  ASSUME TypeOK, NEW p \in Process, Advance(p) \/ Retire(p)
  PROVE  /\ cur'.mailbox = p.mailbox /\ cur'.monitors = p.monitors /\ cur'.links = p.links
         /\ steps' = steps + 1 /\ steps \in Nat /\ running' = running
BY DEF Advance, Retire, Process, TypeOK

\* The same of an instruction that blocks.
LEMMA BlockHolding ==
  ASSUME TypeOK, NEW c, Block(c)
  PROVE  /\ cur'.mailbox = cur.mailbox /\ cur'.monitors = cur.monitors /\ cur'.links = cur.links
         /\ steps' = steps + 1 /\ steps \in Nat /\ running' = running
BY DEF Block, Retire, Process, TypeOK

\* Instructions that leave the mailbox alone and set no reference.
LEMMA OwnInstructionsHolding ==
  ASSUME TypeOK, TypeOK', MessageInv,
         \/ Local \/ Halt \/ Abort \/ Exit \/ Yield
         \/ \E q \in DOMAIN procs : Join(q)
         \/ \E ref \in cur.monitors : Demonitor(ref)
         \/ \E n \in Naps : Sleep(n)
  PROVE  MessageInv'
<1>1. cur \in Process
  BY DEF TypeOK
<1>2. ASSUME NEW p \in Process, Advance(p) \/ Retire(p), p.mailbox = cur.mailbox,
             p.monitors \subseteq cur.monitors, UNCHANGED <<procs, unread>>
      PROVE  MessageInv'
  BY <1>2, AdvanceHolding, OwnHolding
<1>3. ASSUME NEW c, Block(c), UNCHANGED <<procs, unread>> PROVE MessageInv'
  BY <1>3, BlockHolding, OwnHolding
<1>4. CASE Local
  BY <1>1, <1>2, <1>4 DEF Local
<1>5. ASSUME NEW s \in Terminal, Retire([cur EXCEPT !.status = s]), UNCHANGED <<procs, unread>>
      PROVE  MessageInv'
  <2>1. /\ [cur EXCEPT !.status = s] \in Process /\ [cur EXCEPT !.status = s].mailbox = cur.mailbox
        /\ [cur EXCEPT !.status = s].monitors = cur.monitors
    BY <1>1 DEF Process, Status
  <2> QED
    BY <1>2, <1>5, <2>1
<1>6. CASE Halt \/ Abort \/ Exit
  BY <1>5, <1>6 DEF Halt, Abort, Exit, Finish, Terminal
<1>7. CASE Yield
  <2>1. [cur EXCEPT !.status = "ready"] = cur
    BY <1>1, <1>7 DEF Yield, Executes, Process
  <2> QED
    BY <1>1, <1>2, <1>7, <2>1 DEF Yield
<1>8. CASE \E q \in DOMAIN procs : Join(q)
  BY <1>1, <1>2, <1>3, <1>8 DEF Join
<1>9. ASSUME NEW ref \in cur.monitors, Demonitor(ref) PROVE MessageInv'
  <2>1. /\ cur'.mailbox = cur.mailbox /\ cur'.monitors \subseteq cur.monitors
        /\ steps' = steps + 1 /\ steps \in Nat /\ UNCHANGED <<procs, running, unread>>
    BY <1>1, <1>9 DEF Demonitor, Advance, Retire, Process, TypeOK
  <2> QED
    BY <2>1, OwnHolding
<1>10. CASE \E n \in Naps : Sleep(n)
  BY <1>3, <1>10 DEF Sleep
<1> QED
  BY <1>4, <1>6, <1>7, <1>8, <1>9, <1>10

\* PROC_MONITOR: the new reference has a number nobody holds.
LEMMA MonitorHolding ==
  ASSUME TypeOK, TypeOK', MessageInv, NEW q \in DOMAIN procs, Monitor(q)
  PROVE  MessageInv'
<1> DEFINE ref == [id |-> steps + 1, pid |-> q]
<1>1. /\ cur \in Process /\ cur' \in Process /\ steps \in Nat /\ ref \in Ref
      /\ running \in DOMAIN procs
  BY MapTyped DEF TypeOK, Ref, Monitor, Executes
<1>2. /\ cur'.mailbox = cur.mailbox /\ cur'.monitors = cur.monitors \cup {ref}
      /\ steps' = steps + 1 /\ UNCHANGED <<procs, running, unread>>
  BY <1>1 DEF Monitor, Advance, Retire, Process
<1> HIDE DEF ref
<1>3. Held(cur, steps) /\ Owed(cur, Sent(running))
  BY <1>1 DEF MessageInv, View
<1>4. ref.id = steps + 1
  BY DEF ref
<1>5. Held(cur', steps') /\ Owed(cur', Sent(running))
  BY <1>1, <1>2, <1>3, <1>4, HeldMonitored DEF Owed
<1>6. ASSUME NEW p \in DOMAIN procs PROVE Held(View(p)', steps') /\ Owed(View(p)', Sent(p)')
  <2>1. Sent(p)' = Sent(p)
    BY <1>2 DEF Sent
  <2>2. CASE p = running
    BY <1>2, <1>5, <2>1, <2>2 DEF View
  <2>3. CASE p # running
    <3>1. View(p)' = View(p) /\ View(p) \in Process
      BY <1>2, <2>3, ViewTyped DEF View
    <3>2. Held(View(p), steps) /\ Owed(View(p), Sent(p))
      BY DEF MessageInv
    <3> QED
      BY <1>1, <1>2, <2>1, <3>1, <3>2, HeldStays
  <2> QED
    BY <2>2, <2>3
<1>7. \A p : Letters(p)' = Letters(p)
  BY <1>2 DEF Letters
<1> QED
  BY <1>2, <1>6, <1>7 DEF MessageInv

\* A receive takes the message at i and its number with it.
LEMMA TakeHolding ==
  ASSUME TypeOK, TypeOK', MessageInv, running # NoProc, NEW i \in DOMAIN cur.mailbox,
         Take(cur.mailbox[i], RemoveAt(cur.mailbox, i))
  PROVE  MessageInv'
<1> DEFINE m == cur.mailbox[i].id
<1>1. /\ cur \in Process /\ cur' \in Process /\ steps \in Nat /\ running \in DOMAIN procs
  BY DEF TypeOK
<1>2. /\ cur'.mailbox = RemoveAt(cur.mailbox, i) /\ cur'.monitors = cur.monitors
      /\ steps' = steps + 1 /\ UNCHANGED <<procs, running>> /\ unread' = unread \ {<<running, m>>}
  BY <1>1 DEF Take, Advance, Retire, Process
<1>3. Held(cur, steps) /\ Owed(cur, Sent(running))
  BY <1>1 DEF MessageInv, View
<1>4. Held(cur', steps') /\ Owed(cur', Sent(running) \ {m})
  <2>1. Sent(running) \in SUBSET Nat
    BY DEF Sent
  <2> QED
    BY <1>1, <1>2, <1>3, <2>1, HeldTaken
<1> HIDE DEF m
<1>5. \A p : Sent(p)' = IF p = running THEN Sent(p) \ {m} ELSE Sent(p)
  BY <1>2 DEF Sent
<1>6. ASSUME NEW p \in DOMAIN procs PROVE Held(View(p)', steps') /\ Owed(View(p)', Sent(p)')
  <2>1. CASE p = running
    BY <1>2, <1>4, <1>5, <2>1 DEF View
  <2>2. CASE p # running
    <3>1. View(p)' = View(p) /\ View(p) \in Process
      BY <1>2, <2>2, ViewTyped DEF View
    <3>2. Held(View(p), steps) /\ Owed(View(p), Sent(p))
      BY DEF MessageInv
    <3> QED
      BY <1>1, <1>2, <1>5, <2>2, <3>1, <3>2, HeldStays
  <2> QED
    BY <2>1, <2>2
<1>7. ASSUME NEW p \in DOMAIN procs
      PROVE  IsFiniteSet(Letters(p)') /\ Cardinality(Letters(p)') <= MaxMailbox
  <2>1. Letters(p)' \in SUBSET Letters(p)
    BY <1>2 DEF Letters
  <2>2. IsFiniteSet(Letters(p)) /\ Cardinality(Letters(p)) <= MaxMailbox
    BY DEF MessageInv
  <2>3. IsFiniteSet(Letters(p)') /\ Cardinality(Letters(p)') <= Cardinality(Letters(p))
    BY <2>1, <2>2, FS_Subset
  <2> QED
    BY <2>2, <2>3, FS_CardinalityType, LimitsAssumption
<1>8. \A u \in unread' : u[1] \in DOMAIN procs'
  BY <1>2 DEF MessageInv
<1> QED
  BY <1>2, <1>6, <1>7, <1>8 DEF MessageInv

\* Each of the four receives blocks, finds nothing or takes one message.
LEMMA ReceiveHolding ==
  ASSUME TypeOK, TypeOK', MessageInv,
         Receive \/ ReceiveOpt \/ \E t \in Tags : ReceiveMatch(t) \/ ReceiveMatchOpt(t)
  PROVE  MessageInv'
<1>1. cur \in Process /\ cur.mailbox \in Seq(Message) /\ running # NoProc
  BY DEF TypeOK, Process, Receive, ReceiveOpt, ReceiveMatch, ReceiveMatchOpt, Executes
<1>2. ASSUME cur.mailbox # <<>>, Take(Head(cur.mailbox), Tail(cur.mailbox)) PROVE MessageInv'
  <2> DEFINE box == cur.mailbox
  <2>1. Len(box) \in Nat \ {0} /\ 1 \in DOMAIN box /\ Head(box) = box[1]
    BY <1>1, <1>2, LenProperties, EmptySeq
  <2>2. RemoveAt(box, 1) = Tail(box)
    <3>1. SubSeq(box, 1, 0) = <<>> /\ SubSeq(box, 2, Len(box)) = Tail(box) /\ Tail(box) \in Seq(Message)
      BY <1>1, <1>2, SubSeqEmpty, TailIsSubSeq, HeadTailProperties
    <3>2. <<>> \o Tail(box) = Tail(box)
      BY <3>1, ConcatEmptySeq
    <3> QED
      BY <3>1, <3>2 DEF RemoveAt
  <2> QED
    BY <1>1, <1>2, <2>1, <2>2, TakeHolding
<1>3. ASSUME NEW t \in Tags, TakeMatch(t) PROVE MessageInv'
  BY <1>1, <1>3, TakeHolding DEF TakeMatch
<1>4. ASSUME Advance(cur) \/ \E c : Block(c), UNCHANGED <<procs, unread>> PROVE MessageInv'
  BY <1>1, <1>4, AdvanceHolding, BlockHolding, OwnHolding
<1>5. CASE Receive \/ ReceiveOpt
  BY <1>2, <1>4, <1>5 DEF Receive, ReceiveOpt
<1>6. CASE \E t \in Tags : ReceiveMatch(t) \/ ReceiveMatchOpt(t)
  BY <1>3, <1>4, <1>6 DEF ReceiveMatch, ReceiveMatchOpt
<1> QED
  BY <1>5, <1>6

\* One element more is one more at most.
LEMMA OneMore ==
  ASSUME NEW S, NEW x, IsFiniteSet(S)
  PROVE  IsFiniteSet(S \cup {x}) /\ Cardinality(S \cup {x}) <= Cardinality(S) + 1
<1>1. Cardinality(S) \in Nat
  BY FS_CardinalityType
<1>2. /\ IsFiniteSet(S \cup {x})
      /\ Cardinality(S \cup {x}) = IF x \in S THEN Cardinality(S) ELSE Cardinality(S) + 1
  BY FS_AddElement
<1> QED
  BY <1>1, <1>2

\* A process has at most as many unread messages as its mailbox is long.
LEMMA LettersFit ==
  ASSUME TypeOK, MessageInv, NEW q \in DOMAIN procs
  PROVE  IsFiniteSet(Letters(q)) /\ Cardinality(Letters(q)) <= Len(View(q).mailbox)
<1> DEFINE box == View(q).mailbox
           place == [u \in Letters(q) |-> CHOOSE i \in DOMAIN box : box[i].id = u[2]]
<1>1. Len(box) \in Nat /\ DOMAIN box = 1 .. Len(box)
  BY ViewTyped, Numbers
<1>2. \A u \in Letters(q) : u = <<q, u[2]>> /\ u[2] \in Sent(q)
  <2>1. unread \subseteq Pid \X Nat
    BY DEF TypeOK
  <2>2. \A u \in Pid \X Nat : u = <<u[1], u[2]>> /\ u[2] \in Nat
    OBVIOUS
  <2>3. \A u \in Letters(q) : u \in unread /\ u[1] = q
    BY DEF Letters
  <2>4. \A u \in Letters(q) : u = <<q, u[2]>> /\ u[2] \in Nat /\ <<q, u[2]>> \in unread
    BY <2>1, <2>2, <2>3
  <2> QED
    BY <2>4 DEF Sent
<1>3. ASSUME NEW u \in Letters(q) PROVE place[u] \in 1 .. Len(box) /\ box[place[u]].id = u[2]
  <2>1. \E i \in DOMAIN box : box[i].id = u[2]
    BY <1>2 DEF MessageInv, Owed
  <2> QED
    BY <1>1, <2>1
<1> HIDE DEF box
<1>4. place \in Injection(Letters(q), 1 .. Len(box))
  <2>1. place \in [Letters(q) -> 1 .. Len(box)]
    BY <1>3
  <2>2. ASSUME NEW u \in Letters(q), NEW v \in Letters(q), place[u] = place[v] PROVE u = v
    BY <1>2, <1>3, <2>2
  <2> HIDE DEF place
  <2> QED
    BY <2>1, <2>2 DEF Injection, IsInjective
<1>5. IsFiniteSet(1 .. Len(box)) /\ Cardinality(1 .. Len(box)) = Len(box)
  BY <1>1, FS_Interval
<1> HIDE DEF place
<1>6. IsFiniteSet(Letters(q)) /\ Cardinality(Letters(q)) <= Len(box)
  BY <1>4, <1>5, FS_Injection
<1> QED
  BY <1>6 DEF box

\* PROC_SEND, unless it fails, brings one more message within the limit; what goes
\* to the sender's own copy is lost and owed to nobody.
LEMMA SendHolding ==
  ASSUME TypeOK, TypeOK', MessageInv, NEW q \in DOMAIN procs, NEW t \in Tags, Send(q, t),
         ~Raise("MailboxTooLarge")
  PROVE  MessageInv'
<1> DEFINE message == [tag |-> t, from |-> running, id |-> steps + 1]
           box == procs[q].mailbox
           mailbox == Deposit(box, message)
           filled  == [procs[q] EXCEPT !.mailbox = mailbox]
<1>1. /\ running \in DOMAIN procs /\ cur \in Process /\ steps \in Nat /\ procs[q] \in Process
      /\ box \in Seq(Message) /\ q \in Pid /\ message \in Message /\ message.id = steps + 1
  <2>1. running \in DOMAIN procs /\ cur \in Process /\ steps \in Nat
    BY DEF Send, Executes, TypeOK
  <2>2. procs[q] \in Process /\ running \in Pid /\ q \in Pid
    BY <2>1, MapTyped
  <2> QED
    BY <2>1, <2>2 DEF Message, Process
<1>2. /\ cur'.mailbox = cur.mailbox /\ cur'.monitors = cur.monitors
      /\ steps' = steps + 1 /\ running' = running
  BY <1>1, AdvanceHolding DEF Send
<1>3. /\ DOMAIN procs' = DOMAIN procs /\ \A p \in DOMAIN procs \ {q} : procs'[p] = procs[p]
      /\ procs'[q].mailbox = Append(box, message) /\ procs'[q].monitors = procs[q].monitors
  <2>1. filled \in Process /\ filled.mailbox = mailbox /\ filled.monitors = procs[q].monitors
    BY <1>1, AppendProperties DEF Process, Deposit
  <2>2. /\ Woken(filled).mailbox = mailbox /\ Woken(filled).monitors = procs[q].monitors
    BY <2>1, WokenIsProcess
  <2>3. procs' = [procs EXCEPT ![q] = IF WakesMailbox(procs[q], mailbox) THEN Woken(filled) ELSE filled]
    BY DEF Send
  <2> HIDE DEF filled, mailbox
  <2>4. mailbox = Append(box, message)
    BY DEF mailbox, Deposit
  <2> QED
    BY <2>1, <2>2, <2>3, <2>4
<1>4. Len(box) < MaxMailbox /\ unread' = IF q = running THEN unread ELSE unread \cup {<<q, steps + 1>>}
  <2>1. ~Full(box) /\ unread' = IF q = running THEN unread ELSE unread \cup {<<q, steps + 1>>}
    BY DEF Send
  <2>2. Len(box) \in Nat
    BY <1>1, LenProperties
  <2> QED
    BY <2>1, <2>2, LimitsAssumption DEF Full
<1> HIDE DEF message, box
<1>5. ASSUME NEW p \in DOMAIN procs, p = running \/ p # q
      PROVE  /\ Held(View(p)', steps') /\ Owed(View(p)', Sent(p)')
             /\ Letters(p)' = Letters(p)
  <2>1. Sent(p)' = Sent(p) /\ Letters(p)' = Letters(p)
    BY <1>4, <1>5 DEF Sent, Letters
  <2>2. View(p)'.mailbox = View(p).mailbox /\ View(p)'.monitors = View(p).monitors
    BY <1>2, <1>3, <1>5 DEF View
  <2>3. Held(View(p), steps) /\ Owed(View(p), Sent(p))
    BY DEF MessageInv
  <2>4. View(p) \in Process /\ View(p)' \in Process
    BY <1>3, ViewTyped, NextViewTyped
  <2>5. Held(View(p)', steps')
    BY <1>1, <1>2, <2>2, <2>3, <2>4, HeldStays
  <2> QED
    BY <2>1, <2>2, <2>3, <2>5 DEF Owed
<1>6. ASSUME q # running
      PROVE  /\ Held(View(q)', steps') /\ Owed(View(q)', Sent(q)')
             /\ IsFiniteSet(Letters(q)') /\ Cardinality(Letters(q)') <= MaxMailbox
  <2>1. View(q) = procs[q] /\ View(q)' = procs'[q] /\ procs'[q] \in Process
    BY <1>2, <1>3, <1>6, NextViewTyped DEF View
  <2>2. Sent(q)' = Sent(q) \cup {steps + 1} /\ Letters(q)' = Letters(q) \cup {<<q, steps + 1>>}
    BY <1>1, <1>4, <1>6 DEF Sent, Letters
  <2>3. Held(procs[q], steps) /\ Owed(procs[q], Sent(q)) /\ Sent(q) \in SUBSET Nat
    BY <2>1 DEF MessageInv, Sent
  <2>4. Held(procs'[q], steps + 1) /\ Owed(procs'[q], Sent(q) \cup {steps + 1})
    BY <1>1, <1>3, <2>1, <2>3, HeldAppended DEF box
  <2>5. IsFiniteSet(Letters(q)) /\ Cardinality(Letters(q)) <= Len(box) /\ Cardinality(Letters(q)) \in Nat
    BY <2>1, LettersFit, FS_CardinalityType DEF box
  <2>6. IsFiniteSet(Letters(q)') /\ Cardinality(Letters(q)') <= Cardinality(Letters(q)) + 1
    <3>1. /\ IsFiniteSet(Letters(q) \cup {<<q, steps + 1>>})
          /\ Cardinality(Letters(q) \cup {<<q, steps + 1>>}) <= Cardinality(Letters(q)) + 1
      BY <2>5, OneMore
    <3> QED
      BY <2>2, <3>1
  <2>7. Cardinality(Letters(q)') \in Nat /\ Len(box) \in Nat
    BY <1>1, <2>6, FS_CardinalityType, LenProperties
  <2> QED
    BY <1>2, <1>4, <2>1, <2>2, <2>4, <2>5, <2>6, <2>7, LimitsAssumption
<1>7. \A u \in unread' : u[1] \in DOMAIN procs'
  BY <1>3, <1>4 DEF MessageInv
<1>8. ASSUME NEW p \in DOMAIN procs'
      PROVE  /\ Held(View(p)', steps') /\ Owed(View(p)', Sent(p)')
             /\ IsFiniteSet(Letters(p)') /\ Cardinality(Letters(p)') <= MaxMailbox
  BY <1>3, <1>5, <1>6 DEF MessageInv
<1> QED
  BY <1>7, <1>8 DEF MessageInv

\* PROC_SPAWN, unless it fails: the child holds nothing.
LEMMA SpawnHolding ==
  ASSUME TypeOK, TypeOK', MessageInv, Spawn, ~Raise("InvalidInstruction")
  PROVE  MessageInv'
<1>0. PICK n : n = Cardinality(DOMAIN procs)
  OBVIOUS
<1>1. /\ procs' = [p \in 0 .. n |-> IF p = n THEN NewProcess ELSE procs[p]]
      /\ UNCHANGED unread
  BY <1>0 DEF Spawn
<1>2. n \in 1 .. MaxProcesses /\ DOMAIN procs = 0 .. n - 1 /\ cur \in Process
      /\ running \in DOMAIN procs
  BY <1>0, MapTyped DEF TypeOK, Spawn, Executes
<1>3. /\ cur'.mailbox = cur.mailbox /\ cur'.monitors = cur.monitors
      /\ steps' = steps + 1 /\ steps \in Nat /\ running' = running
  BY <1>2, AdvanceHolding DEF Spawn
<1>4. DOMAIN procs' = DOMAIN procs \cup {n} /\ n \notin DOMAIN procs /\ procs'[n] = NewProcess
      /\ \A p \in DOMAIN procs : procs'[p] = procs[p]
  BY <1>1, <1>2
<1>5. \A p : Sent(p)' = Sent(p) /\ Letters(p)' = Letters(p)
  BY <1>1 DEF Sent, Letters
<1>6. ASSUME NEW p \in DOMAIN procs PROVE Held(View(p)', steps') /\ Owed(View(p)', Sent(p)')
  <2>1. View(p)'.mailbox = View(p).mailbox /\ View(p)'.monitors = View(p).monitors
    BY <1>3, <1>4 DEF View
  <2>2. Held(View(p), steps) /\ Owed(View(p), Sent(p))
    BY DEF MessageInv
  <2>3. View(p) \in Process /\ View(p)' \in Process
    BY <1>4, ViewTyped, NextViewTyped
  <2>4. Held(View(p)', steps')
    BY <1>3, <2>1, <2>2, <2>3, HeldStays
  <2> QED
    BY <1>5, <2>1, <2>2, <2>4 DEF Owed
<1>7. /\ Held(View(n)', steps') /\ Owed(View(n)', Sent(n)')
      /\ IsFiniteSet(Letters(n)') /\ Cardinality(Letters(n)') <= MaxMailbox
  <2>1. View(n)' = NewProcess
    BY <1>2, <1>3, <1>4 DEF View
  <2>2. Sent(n) = {} /\ Letters(n) = {}
    BY <1>4 DEF MessageInv, Sent, Letters
  <2>3. Held(NewProcess, steps') /\ Owed(NewProcess, {})
    BY DEF Held, Owed, NewProcess
  <2> QED
    BY <1>5, <2>1, <2>2, <2>3, FS_EmptySet, LimitsAssumption
<1> QED
  BY <1>1, <1>4, <1>5, <1>6, <1>7 DEF MessageInv

\* PROC_CANCEL, PROC_LINK and PROC_UNLINK move no message and set no monitor.
LEMMA CancelLinkHolding ==
  ASSUME TypeOK, TypeOK', MessageInv, NEW q \in DOMAIN procs, Cancel(q) \/ Link(q) \/ Unlink(q)
  PROVE  MessageInv'
<1>1. cur \in Process /\ procs[q] \in Process /\ running \in DOMAIN procs
  BY MapTyped DEF TypeOK, Cancel, Link, Unlink, Executes
<1>2. /\ cur'.mailbox = cur.mailbox /\ cur'.monitors = cur.monitors
      /\ steps <= steps' /\ UNCHANGED <<running, unread>>
  <2>1. PICK S \in SUBSET Pid : Advance([cur EXCEPT !.links = S])
    <3>1. running \in Pid /\ q \in Pid /\ cur.links \in SUBSET Pid /\ [cur EXCEPT !.links = cur.links] = cur
      BY <1>1, MapTyped DEF Process
    <3> QED
      BY <3>1 DEF Cancel, Link, Unlink
  <2>2. /\ [cur EXCEPT !.links = S] \in Process /\ [cur EXCEPT !.links = S].mailbox = cur.mailbox
        /\ [cur EXCEPT !.links = S].monitors = cur.monitors
    BY <1>1 DEF Process
  <2>3. UNCHANGED unread
    BY DEF Cancel, Link, Unlink
  <2>4. /\ cur'.mailbox = cur.mailbox /\ cur'.monitors = cur.monitors
        /\ steps' = steps + 1 /\ steps \in Nat /\ running' = running
    BY <2>1, <2>2, AdvanceHolding
  <2> QED
    BY <2>3, <2>4
<1>3. /\ DOMAIN procs' = DOMAIN procs /\ \A p \in DOMAIN procs \ {q} : procs'[p] = procs[p]
      /\ procs'[q].mailbox = procs[q].mailbox /\ procs'[q].monitors = procs[q].monitors
  <2>1. CASE Cancel(q)
    BY <1>1, <2>1 DEF Cancel, Process
  <2>2. CASE Link(q) \/ Unlink(q)
    <3>1. PICK S : procs' = [procs EXCEPT ![q] = [procs[q] EXCEPT !.links = S]]
      BY <2>2 DEF Link, Unlink
    <3> QED
      BY <1>1, <3>1 DEF Process
  <2> QED
    BY <2>1, <2>2
<1>4. \A p \in DOMAIN procs : /\ View(p)'.mailbox = View(p).mailbox
                               /\ View(p)'.monitors \subseteq View(p).monitors
  BY <1>2, <1>3 DEF View
<1> QED
  BY <1>2, <1>3, <1>4, SameHolding

\* The run loop moves the running record out of the map,
LEMMA DispatchHolding ==
  ASSUME TypeOK, TypeOK', MessageInv, Dispatch
  PROVE  MessageInv'
<1>1. running = NoProc /\ NoProc \notin DOMAIN procs
  BY MapTyped DEF Dispatch
<1>2. \A p \in DOMAIN procs : View(p)' = View(p)
  BY <1>1 DEF Dispatch, View
<1> QED
  BY <1>2, SameHolding DEF Dispatch, TypeOK

\* wakes the sleepers of a tick,
LEMMA NextTickHolding ==
  ASSUME TypeOK, TypeOK', MessageInv, NextTick
  PROVE  MessageInv'
<1>1. running = NoProc /\ NoProc \notin DOMAIN procs /\ UNCHANGED <<running, cur, steps, unread>>
  BY MapTyped DEF NextTick, Idle
<1>2. procs' = [q \in DOMAIN procs |-> IF q \in Due THEN Woken(procs[q]) ELSE procs[q]]
  BY DEF NextTick
<1>3. \A p \in DOMAIN procs : procs'[p].mailbox = procs[p].mailbox /\ procs'[p].monitors = procs[p].monitors
  BY <1>2, MapTyped, WokenIsProcess
<1>4. \A p \in DOMAIN procs : /\ View(p)'.mailbox = View(p).mailbox
                               /\ View(p)'.monitors \subseteq View(p).monitors
  BY <1>1, <1>3 DEF View
<1> QED
  <2>1. steps <= steps' /\ DOMAIN procs' = DOMAIN procs
    BY <1>1, <1>2 DEF TypeOK
  <2> QED
    BY <1>1, <1>4, <2>1, SameHolding

\* What the end of a slice leaves each process.
LEMMA EndSliceView ==
  ASSUME TypeOK, EndSlice, NEW q \in DOMAIN procs
  PROVE  /\ Joined[q] \in Process /\ Joined[q].mailbox = View(q).mailbox
         /\ Joined[q].monitors = View(q).monitors /\ Joined[q].links = View(q).links
         /\ View(q)' = IF q \in Observers THEN Notified(Joined[q], running) ELSE Joined[q]
<1>1. running # NoProc /\ running' = NoProc /\ NoProc \notin DOMAIN procs
      /\ running \in DOMAIN procs
  BY JoinedTyped, MapTyped DEF EndSlice
<1>2. Stored[q] = View(q) /\ Stored[q] \in Process /\ Joined[q] \in Process
  BY <1>1, JoinedTyped, MapTyped DEF Stored, View
<1>3. Joined[q] = IF q \in Joiners THEN Woken(Stored[q]) ELSE Stored[q]
  BY DEF Joined
<1>4. View(q)' = procs'[q]
  BY <1>1 DEF View
<1>5. procs'[q] = IF q \in Observers THEN Notified(Joined[q], running) ELSE Joined[q]
  BY DEF EndSlice
<1> QED
  BY <1>2, <1>3, <1>4, <1>5, WokenIsProcess

\* and puts the record back, with the notices of a death.
LEMMA EndSliceHolding ==
  ASSUME TypeOK, TypeOK', MessageInv, EndSlice
  PROVE  MessageInv'
<1>1. /\ DOMAIN procs' = DOMAIN procs /\ UNCHANGED <<steps, unread>> /\ steps \in Nat
      /\ running \in Pid
  BY JoinedTyped DEF EndSlice, TypeOK
<1>2. \A q : Sent(q)' = Sent(q) /\ Letters(q)' = Letters(q)
  BY <1>1 DEF Sent, Letters
<1>3. ASSUME NEW q \in DOMAIN procs PROVE Held(View(q)', steps') /\ Owed(View(q)', Sent(q)')
  <2>1. Held(View(q), steps) /\ Owed(View(q), Sent(q)) /\ Sent(q) \in SUBSET Nat
    BY DEF MessageInv, Sent
  <2>2. Held(Joined[q], steps) /\ Owed(Joined[q], Sent(q)) /\ Joined[q] \in Process
    BY <2>1, EndSliceView DEF Held, Owed
  <2>3. CASE q \in Observers
    <3> DEFINE told == Notified(Joined[q], running)
    <3>1. /\ told.mailbox = Joined[q].mailbox \o Downs(Joined[q], running)
          /\ told.monitors = Joined[q].monitors \ RefsTo(Joined[q], running)
      BY <1>1, <2>2, NotifiedIsProcess
    <3>2. View(q)' = told
      BY <2>3, EndSliceView
    <3> HIDE DEF told
    <3>3. Held(told, steps) /\ Owed(told, Sent(q))
      BY <1>1, <2>1, <2>2, <3>1, HeldNotified
    <3> QED
      BY <1>1, <1>2, <3>2, <3>3
  <2>4. CASE q \notin Observers
    BY <1>1, <1>2, <2>2, <2>4, EndSliceView
  <2> QED
    BY <2>3, <2>4
<1> QED
  BY <1>1, <1>2, <1>3 DEF MessageInv

\* Every step keeps what is held and owed.
LEMMA NextHolding == TypeOK /\ MessageInv /\ [Next]_vars => MessageInv'
<1> SUFFICES ASSUME TypeOK, MessageInv, [Next]_vars PROVE MessageInv'
  OBVIOUS
<1>1. TypeOK'
  BY NextTyped
<1>2. ASSUME UNCHANGED <<procs, running, cur, steps, unread>> PROVE MessageInv'
  BY <1>1, <1>2, OwnHolding DEF TypeOK
<1>3. CASE Fault \/ StepLimit \/ RootDone \/ AllDone \/ Deadlock \/ OutOfSteps
  BY <1>2, <1>3 DEF Fault, StepLimit, Raise, RootDone, AllDone, Deadlock, OutOfSteps, Stop
<1>4. CASE Spawn
  BY <1>1, <1>2, <1>4, SpawnHolding DEF Raise, Stop
<1>5. ASSUME NEW q \in DOMAIN procs, NEW t \in Tags, Send(q, t) PROVE MessageInv'
  BY <1>1, <1>2, <1>5, SendHolding DEF Raise, Stop
<1>6. CASE UNCHANGED vars
  BY <1>2, <1>6 DEF vars
<1> QED
  BY <1>1, <1>3, <1>4, <1>5, <1>6, OwnInstructionsHolding, MonitorHolding, ReceiveHolding,
     CancelLinkHolding, DispatchHolding, NextTickHolding, EndSliceHolding
     DEF Next, Instruction, Loop, Returned

\* Hence it holds throughout.
LEMMA AlwaysHolding == Spec => [](TypeOK /\ MessageInv)
<1>1. Init => TypeOK /\ MessageInv
  BY InitTyped, InitHolding
<1>2. TypeOK /\ MessageInv /\ [Next]_vars => (TypeOK /\ MessageInv)'
  BY NextTyped, NextHolding
<1> QED
  BY <1>1, <1>2, PTL DEF Spec

---------------------------------------------------------------------------
(* The theorems about messages and monitors *)

\* Every message sent to another process is in its mailbox until it is received, and
\* nothing is there twice, whatever receives, selections, notices and slices
\* interleave (PROC_SEND, PROC_RECEIVE_MATCH, notifyMonitorsOfDeath).
THEOREM NoMessageLost == Spec => []MessagesConserved
<1>1. TypeOK /\ MessageInv => MessagesConserved
  <2> SUFFICES ASSUME TypeOK, MessageInv, NEW q \in DOMAIN procs
               PROVE  LET box  == View(q).mailbox
                          sent == {i \in DOMAIN box : <<q, box[i].id>> \in unread}
                      IN /\ {box[i].id : i \in sent} = {m[2] : m \in {u \in unread : u[1] = q}}
                         /\ \A i, j \in DOMAIN box : box[i].id = box[j].id => i = j
    BY DEF MessagesConserved
  <2> DEFINE box  == View(q).mailbox
             sent == {i \in DOMAIN box : <<q, box[i].id>> \in unread}
  <2>1. \A i, j \in DOMAIN box : box[i].id = box[j].id => i = j
    BY DEF MessageInv, Held
  <2>2. \A u \in unread : u[1] = q => u = <<q, u[2]>> /\ u[2] \in Nat
    <3>1. unread \subseteq Pid \X Nat
      BY DEF TypeOK
    <3>2. \A u \in Pid \X Nat : u = <<u[1], u[2]>> /\ u[2] \in Nat
      OBVIOUS
    <3> QED
      BY <3>1, <3>2
  <2>3. \A u \in unread : u[1] = q => \E i \in DOMAIN box : box[i].id = u[2]
    BY <2>2 DEF MessageInv, Owed, Sent
  <2> HIDE DEF box
  <2>4. {m[2] : m \in {u \in unread : u[1] = q}} \subseteq {box[i].id : i \in sent}
    BY <2>2, <2>3
  <2>5. \A i \in sent : box[i].id \in {m[2] : m \in {u \in unread : u[1] = q}}
    <3>1. ASSUME NEW i \in sent PROVE \E u \in unread : u[1] = q /\ u[2] = box[i].id
      <4>1. <<q, box[i].id>> \in unread
        OBVIOUS
      <4> WITNESS <<q, box[i].id>> \in unread
      <4> QED
        OBVIOUS
    <3> QED
      BY <3>1
  <2> QED
    BY <2>1, <2>4, <2>5 DEF box
<1> QED
  BY <1>1, AlwaysHolding, PTL

\* Messages wait in the order they were sent, although selective receives take them
\* out of the middle and notices arrive between them (PROC_RECEIVE_MATCH, PROC_SEND).
THEOREM MessagesInOrder == Spec => []OldestFirst
<1>1. TypeOK /\ MessageInv => OldestFirst
  <2> SUFFICES ASSUME TypeOK, MessageInv, NEW q \in DOMAIN procs,
                      NEW i \in DOMAIN View(q).mailbox, NEW j \in DOMAIN View(q).mailbox, i < j,
                      <<q, View(q).mailbox[i].id>> \in unread, <<q, View(q).mailbox[j].id>> \in unread
               PROVE  View(q).mailbox[i].id < View(q).mailbox[j].id
    BY DEF OldestFirst
  <2>1. View(q).mailbox[i].id \in Nat /\ View(q).mailbox[j].id \in Nat
    BY ViewTyped, Numbers
  <2> QED
    BY <2>1 DEF MessageInv, Owed, Sent
<1> QED
  BY <1>1, AlwaysHolding, PTL

\* No sender overfills a mailbox: of the messages a process holds, no more than
\* limits.maxMailboxSize were sent by others (the check of PROC_SEND); only DOWN
\* notices can make it longer.
THEOREM MailboxLimitHolds == Spec => []SentWithinLimit
<1>1. MessageInv => SentWithinLimit
  BY DEF MessageInv, SentWithinLimit, Letters
<1> QED
  BY <1>1, AlwaysHolding, PTL

\* A monitor reference is live or answered, never both: no notice waits whose
\* reference is still set (PROC_MONITOR, PROC_DEMONITOR, notifyMonitorsOfDeath).
THEOREM AnsweredMonitorIsDropped == Spec => []DownDropsRef
<1>1. MessageInv => DownDropsRef
  BY DEF MessageInv, Held, DownDropsRef
<1> QED
  BY <1>1, AlwaysHolding, PTL

---------------------------------------------------------------------------
(* Links *)

\* LinksMutual is not inductive: a spawned process has no links, so nobody may be
\* linked to it before it exists.
LinkInv ==
  /\ LinksMutual
  /\ \A q \in DOMAIN procs : View(q).links \subseteq DOMAIN procs

\* At the start there is no link.
LEMMA InitLinked == Init => LinkInv
<1> SUFFICES ASSUME Init PROVE LinkInv
  OBVIOUS
<1>1. DOMAIN procs = {Root} /\ View(Root).links = {}
  BY DEF Init, View, Root, NoProc, NewProcess
<1> QED
  BY <1>1 DEF LinkInv, LinksMutual

\* A step that leaves every record's links alone.
LEMMA SameLinks ==
  ASSUME LinkInv, DOMAIN procs' = DOMAIN procs,
         \A q \in DOMAIN procs : View(q)'.links = View(q).links
  PROVE  LinkInv'
BY DEF LinkInv, LinksMutual

\* A step of the running process that leaves its links.
LEMMA OwnLinks ==
  ASSUME LinkInv, UNCHANGED <<procs, running>>, cur'.links = cur.links
  PROVE  LinkInv'
<1>1. \A q \in DOMAIN procs : View(q)'.links = View(q).links
  BY DEF View
<1> QED
  BY <1>1, SameLinks

\* Every instruction that neither links, spawns, sends nor cancels.
LEMMA InstructionLinks ==
  ASSUME TypeOK, LinkInv,
         \/ Local \/ Halt \/ Abort \/ Exit \/ Yield
         \/ \E q \in DOMAIN procs : Join(q) \/ Monitor(q)
         \/ \E ref \in cur.monitors : Demonitor(ref)
         \/ \E n \in Naps : Sleep(n)
         \/ Receive \/ ReceiveOpt \/ \E t \in Tags : ReceiveMatch(t) \/ ReceiveMatchOpt(t)
  PROVE  LinkInv'
<1>1. cur \in Process
  BY DEF TypeOK
<1>4. CASE Local \/ Halt \/ Abort \/ Exit \/ Yield
  <2>1. cur'.links = cur.links /\ UNCHANGED <<running, procs>>
    BY <1>1, <1>4 DEF Local, Halt, Abort, Exit, Yield, Finish, Advance, Retire, Process
  <2> QED
    BY <2>1, OwnLinks
<1>5. CASE \E q \in DOMAIN procs : Join(q) \/ Monitor(q)
  <2>1. cur'.links = cur.links /\ UNCHANGED <<running, procs>>
    BY <1>1, <1>5 DEF Join, Monitor, Advance, Block, Retire, Process
  <2> QED
    BY <2>1, OwnLinks
<1>6. CASE (\E ref \in cur.monitors : Demonitor(ref)) \/ \E n \in Naps : Sleep(n)
  <2>1. cur'.links = cur.links /\ UNCHANGED <<running, procs>>
    BY <1>1, <1>6 DEF Demonitor, Sleep, Advance, Block, Retire, Process
  <2> QED
    BY <2>1, OwnLinks
<1>7. ASSUME NEW message, NEW mailbox, Take(message, mailbox) PROVE LinkInv'
  <2>1. cur'.links = cur.links /\ UNCHANGED <<running, procs>>
    BY <1>1, <1>7 DEF Take, Advance, Retire, Process
  <2> QED
    BY <2>1, OwnLinks
<1>8. ASSUME Advance(cur) \/ \E c : Block(c), UNCHANGED procs PROVE LinkInv'
  <2>1. cur'.links = cur.links /\ UNCHANGED running
    BY <1>1, <1>8, AdvanceHolding, BlockHolding
  <2> QED
    BY <1>8, <2>1, OwnLinks
<1>9. CASE Receive \/ ReceiveOpt \/ \E t \in Tags : ReceiveMatch(t) \/ ReceiveMatchOpt(t)
  BY <1>7, <1>8, <1>9 DEF Receive, ReceiveOpt, ReceiveMatch, ReceiveMatchOpt, TakeMatch
<1> QED
  BY <1>4, <1>5, <1>6, <1>9

\* PROC_LINK and PROC_UNLINK change both ends in one step, a link to oneself included.
LEMMA LinkLinks ==
  ASSUME TypeOK, LinkInv, NEW q \in DOMAIN procs, Link(q) \/ Unlink(q)
  PROVE  LinkInv'
<1>1. cur \in Process /\ procs[q] \in Process /\ running \in DOMAIN procs
  BY MapTyped DEF TypeOK, Link, Unlink, Executes
<1>2. running' = running /\ DOMAIN procs' = DOMAIN procs
      /\ \A p \in DOMAIN procs \ {q} : procs'[p] = procs[p]
  BY DEF Link, Unlink, Advance, Retire
<1>3. CASE Link(q)
  <2>1. cur'.links = cur.links \cup {q} /\ procs'[q].links = procs[q].links \cup {running}
    <3>1. cur'.links = cur.links \cup {q}
      BY <1>1, <1>3 DEF Link, Advance, Retire, Process
    <3>2. procs' = [procs EXCEPT ![q] = [procs[q] EXCEPT !.links = @ \cup {running}]]
      BY <1>3 DEF Link
    <3> QED
      BY <1>1, <3>1, <3>2 DEF Process
  <2>2. \A p \in DOMAIN procs :
          View(p)'.links = IF p = running THEN View(p).links \cup {q}
                           ELSE IF p = q THEN View(p).links \cup {running} ELSE View(p).links
    BY <1>2, <2>1 DEF View
  <2>3. \A p, r \in DOMAIN procs : r \in View(p)'.links <=> r \in View(p).links \/ {p, r} = {running, q}
    BY <2>2
  <2>4. \A p \in DOMAIN procs : View(p)'.links \subseteq DOMAIN procs
    BY <1>1, <2>2 DEF LinkInv
  <2> QED
    BY <1>2, <2>3, <2>4 DEF LinkInv, LinksMutual
<1>4. CASE Unlink(q)
  <2>1. cur'.links = cur.links \ {q} /\ procs'[q].links = procs[q].links \ {running}
    <3>1. cur'.links = cur.links \ {q}
      BY <1>1, <1>4 DEF Unlink, Advance, Retire, Process
    <3>2. procs' = [procs EXCEPT ![q] = [procs[q] EXCEPT !.links = @ \ {running}]]
      BY <1>4 DEF Unlink
    <3> QED
      BY <1>1, <3>1, <3>2 DEF Process
  <2>2. \A p \in DOMAIN procs :
          View(p)'.links = IF p = running THEN View(p).links \ {q}
                           ELSE IF p = q THEN View(p).links \ {running} ELSE View(p).links
    BY <1>2, <2>1 DEF View
  <2>3. \A p, r \in DOMAIN procs : r \in View(p)'.links <=> r \in View(p).links /\ {p, r} # {running, q}
    BY <2>2
  <2>4. \A p \in DOMAIN procs : View(p)'.links \subseteq DOMAIN procs
    BY <1>1, <2>2 DEF LinkInv
  <2> QED
    BY <1>2, <2>3, <2>4 DEF LinkInv, LinksMutual
<1> QED
  BY <1>3, <1>4

\* Cancelling or writing to another process changes no link.
LEMMA OtherLinks ==
  ASSUME TypeOK, LinkInv, NEW q \in DOMAIN procs, Cancel(q) \/ \E t \in Tags : Send(q, t),
         ~Raise("MailboxTooLarge")
  PROVE  LinkInv'
<1>1. cur \in Process /\ procs[q] \in Process
  BY MapTyped DEF TypeOK
<1>2. cur'.links = cur.links /\ running' = running
  BY <1>1, AdvanceHolding DEF Cancel, Send
<1>3. PICK p : procs' = [procs EXCEPT ![q] = p] /\ p.links = procs[q].links
  <2>1. CASE Cancel(q)
    <3>1. [procs[q] EXCEPT !.status = "cancelled"].links = procs[q].links
      BY <1>1 DEF Process
    <3>2. procs' = [procs EXCEPT ![q] = [procs[q] EXCEPT !.status = "cancelled"]]
      BY <2>1 DEF Cancel
    <3> QED
      BY <3>1, <3>2
  <2>2. ASSUME NEW t \in Tags, Send(q, t) PROVE \E p : procs' = [procs EXCEPT ![q] = p] /\ p.links = procs[q].links
    <3> DEFINE mailbox == Deposit(procs[q].mailbox, [tag |-> t, from |-> running, id |-> steps + 1])
               filled == [procs[q] EXCEPT !.mailbox = mailbox]
    <3>1. procs' = [procs EXCEPT ![q] = IF WakesMailbox(procs[q], mailbox) THEN Woken(filled) ELSE filled]
      BY <2>2 DEF Send
    <3>2. filled.links = procs[q].links /\ Woken(filled).links = procs[q].links
      BY <1>1 DEF Woken, Process
    <3> HIDE DEF mailbox, filled
    <3> QED
      BY <3>1, <3>2
  <2> QED
    BY <2>1, <2>2
<1>4. \A r \in DOMAIN procs : View(r)'.links = View(r).links
  BY <1>2, <1>3 DEF View
<1> QED
  BY <1>3, <1>4, SameLinks

\* PROC_SPAWN: the child has no links.
LEMMA SpawnLinks ==
  ASSUME TypeOK, LinkInv, Spawn, ~Raise("InvalidInstruction")
  PROVE  LinkInv'
<1>1. PICK n : n = Cardinality(DOMAIN procs)
  OBVIOUS
<1>2. DOMAIN procs = 0 .. n - 1 /\ n \in Nat /\ cur \in Process /\ running \in DOMAIN procs
  BY <1>1, MapTyped DEF TypeOK, Spawn, Executes
<1>3. procs' = [p \in 0 .. n |-> IF p = n THEN NewProcess ELSE procs[p]]
  BY <1>1 DEF Spawn
<1>4. cur'.links = cur.links /\ running' = running
  BY <1>2, AdvanceHolding DEF Spawn
<1>5. DOMAIN procs' = DOMAIN procs \cup {n} /\ n \notin DOMAIN procs /\ procs'[n].links = {}
      /\ \A p \in DOMAIN procs : procs'[p] = procs[p]
  BY <1>2, <1>3 DEF NewProcess
<1>6. View(n)'.links = {} /\ \A p \in DOMAIN procs : View(p)'.links = View(p).links
  BY <1>2, <1>4, <1>5 DEF View
<1> QED
  BY <1>5, <1>6 DEF LinkInv, LinksMutual

\* The run loop moves records and changes no link.
LEMMA LoopLinks ==
  ASSUME TypeOK, LinkInv, Dispatch \/ EndSlice \/ NextTick
  PROVE  LinkInv'
<1>1. CASE Dispatch
  <2>1. running = NoProc /\ NoProc \notin DOMAIN procs
    BY <1>1, MapTyped DEF Dispatch
  <2>2. \A p \in DOMAIN procs : View(p)' = View(p)
    BY <1>1, <2>1 DEF Dispatch, View
  <2> QED
    BY <1>1, <2>2, SameLinks DEF Dispatch
<1>2. CASE EndSlice
  <2>1. running \in Pid /\ DOMAIN procs' = DOMAIN procs
    BY <1>2, JoinedTyped DEF EndSlice
  <2>2. \A p \in DOMAIN procs : View(p)'.links = View(p).links
    BY <1>2, <2>1, EndSliceView, NotifiedIsProcess
  <2> QED
    BY <2>1, <2>2, SameLinks
<1>3. CASE NextTick
  <2>1. running = NoProc /\ NoProc \notin DOMAIN procs /\ running' = NoProc
    BY <1>3, MapTyped DEF NextTick, Idle
  <2>2. procs' = [q \in DOMAIN procs |-> IF q \in Due THEN Woken(procs[q]) ELSE procs[q]]
    BY <1>3 DEF NextTick
  <2>3. \A p \in DOMAIN procs : procs'[p].links = procs[p].links
    BY <2>2, MapTyped, WokenIsProcess
  <2>4. \A p \in DOMAIN procs : View(p)'.links = View(p).links
    BY <2>1, <2>3 DEF View
  <2> QED
    BY <2>2, <2>4, SameLinks
<1> QED
  BY <1>1, <1>2, <1>3

\* Every step keeps links mutual.
LEMMA NextLinked == TypeOK /\ LinkInv /\ [Next]_vars => LinkInv'
<1> SUFFICES ASSUME TypeOK, LinkInv, [Next]_vars PROVE LinkInv'
  OBVIOUS
<1>1. ASSUME UNCHANGED <<procs, running, cur>> PROVE LinkInv'
  BY <1>1, OwnLinks
<1>2. CASE Fault \/ StepLimit \/ RootDone \/ AllDone \/ Deadlock \/ OutOfSteps \/ UNCHANGED vars
  BY <1>1, <1>2 DEF Fault, StepLimit, Raise, RootDone, AllDone, Deadlock, OutOfSteps, Stop, vars
<1>3. CASE Spawn
  BY <1>1, <1>3, SpawnLinks DEF Raise, Stop
<1>4. ASSUME NEW q \in DOMAIN procs, NEW t \in Tags, Send(q, t) PROVE LinkInv'
  BY <1>1, <1>4, OtherLinks DEF Raise, Stop
<1>5. ASSUME NEW q \in DOMAIN procs, Cancel(q) PROVE LinkInv'
  BY <1>1, <1>5, OtherLinks DEF Raise, Stop
<1> QED
  BY <1>2, <1>3, <1>4, <1>5, InstructionLinks, LinkLinks, LoopLinks
     DEF Next, Instruction, Loop, Returned

\* A link is mutual, although PROC_LINK and PROC_UNLINK write its two ends to different
\* records, one of which is the running process's own and lies outside the map.
THEOREM LinksStayMutual == Spec => []LinksMutual
<1>1. Init => TypeOK /\ LinkInv
  BY InitTyped, InitLinked
<1>2. TypeOK /\ LinkInv /\ [Next]_vars => (TypeOK /\ LinkInv)'
  BY NextTyped, NextLinked
<1>3. LinkInv => LinksMutual
  BY DEF LinkInv
<1> QED
  BY <1>1, <1>2, <1>3, PTL DEF Spec

---------------------------------------------------------------------------
(* Deaths *)

\* Outside the end of a slice a process ends only by being cancelled.
LEMMA StatusKept ==
  ASSUME TypeOK, [Next]_vars, ~EndSlice, NEW d \in DOMAIN procs
  PROVE  procs'[d].status \in {procs[d].status, "ready", "cancelled"}
<1>1. ASSUME UNCHANGED procs PROVE procs'[d].status = procs[d].status
  BY <1>1
<1>2. CASE Spawn
  <2>1. CASE UNCHANGED procs
    BY <2>1
  <2>2. CASE procs' = [p \in 0 .. Cardinality(DOMAIN procs) |->
                         IF p = Cardinality(DOMAIN procs) THEN NewProcess ELSE procs[p]]
    <3>1. d \in 0 .. Cardinality(DOMAIN procs) /\ d # Cardinality(DOMAIN procs)
      BY MapTyped
    <3> QED
      BY <2>2, <3>1
  <2> QED
    BY <1>2, <2>1, <2>2 DEF Spawn, Raise, Stop
<1>3. ASSUME NEW p \in DOMAIN procs, Cancel(p) \/ Link(p) \/ Unlink(p)
      PROVE  procs'[d].status \in {procs[d].status, "cancelled"}
  <2>1. procs[p] \in Process
    BY MapTyped
  <2> QED
    BY <1>3, <2>1 DEF Cancel, Link, Unlink, Process
<1>4. ASSUME NEW p \in DOMAIN procs, NEW t \in Tags, Send(p, t)
      PROVE  procs'[d].status \in {procs[d].status, "ready"}
  <2> DEFINE mailbox == Deposit(procs[p].mailbox, [tag |-> t, from |-> running, id |-> steps + 1])
             filled == [procs[p] EXCEPT !.mailbox = mailbox]
  <2>1. filled.status = procs[p].status /\ Woken(filled).status = "ready"
    BY MapTyped DEF Woken, Process
  <2>2. \/ UNCHANGED procs
        \/ procs' = [procs EXCEPT ![p] = IF WakesMailbox(procs[p], mailbox) THEN Woken(filled) ELSE filled]
    BY <1>4 DEF Send, Raise, Stop
  <2> HIDE DEF mailbox, filled
  <2> QED
    BY <2>1, <2>2
<1>5. CASE NextTick
  BY <1>5, MapTyped, WokenIsProcess DEF NextTick
<1>6. CASE Local \/ Fault \/ StepLimit \/ Halt \/ Abort \/ Exit \/ Yield \/ Receive \/ ReceiveOpt
           \/ (\E t \in Tags : ReceiveMatch(t) \/ ReceiveMatchOpt(t))
           \/ (\E p \in DOMAIN procs : Join(p) \/ Monitor(p))
           \/ (\E ref \in cur.monitors : Demonitor(ref)) \/ (\E n \in Naps : Sleep(n))
  BY <1>6 DEF Local, Fault, StepLimit, Halt, Abort, Exit, Yield, Finish, Receive, ReceiveOpt,
     ReceiveMatch, ReceiveMatchOpt, TakeMatch, Take, Join, Monitor, Demonitor, Sleep, Raise, Stop
<1>7. CASE Dispatch \/ RootDone \/ AllDone \/ Deadlock \/ OutOfSteps \/ UNCHANGED vars
  BY <1>7 DEF Dispatch, RootDone, AllDone, Deadlock, OutOfSteps, Stop, vars
<1> QED
  BY <1>2, <1>3, <1>4, <1>5, <1>6, <1>7 DEF Next, Instruction, Loop, Returned

\* The end of the slice a process ends in answers and drops each monitor on it.
LEMMA EndSliceAnnounces ==
  ASSUME TypeOK, EndSlice, NEW d \in DOMAIN procs, NEW q \in DOMAIN procs,
         procs[d].status \notin Terminal, procs'[d].status \in Terminal \ {"cancelled"},
         NEW r \in View(q).monitors, r.pid = d
  PROVE  /\ r \notin procs'[q].monitors
         /\ \E i \in DOMAIN procs'[q].mailbox :
              procs'[q].mailbox[i] = [tag |-> "DOWN", from |-> d, id |-> r.id]
<1>1. running \in DOMAIN procs /\ running \in Pid
  BY JoinedTyped DEF EndSlice
<1>2. d = running /\ cur.status \in Terminal
  <2>1. Stored[d] = IF d = running THEN cur ELSE procs[d]
    BY <1>1, MapTyped DEF Stored
  <2>2. procs'[d].status \in {"ready", Stored[d].status}
    BY EndSliceStatus
  <2> QED
    BY <2>1, <2>2 DEF Terminal
<1> DEFINE p == Joined[q]
           downs == Downs(p, running)
           box == p.mailbox
<1>3. p \in Process /\ r \in RefsTo(p, running)
  BY <1>2, EndSliceView DEF RefsTo
<1>4. procs'[q] = Notified(p, running)
  BY <1>2, <1>3 DEF EndSlice, Observers, Dies
<1> HIDE DEF p
<1>5. procs'[q].mailbox = box \o downs /\ procs'[q].monitors = p.monitors \ RefsTo(p, running)
  BY <1>1, <1>3, <1>4, NotifiedIsProcess
<1>6. PICK k \in DOMAIN downs : downs[k] = [tag |-> "DOWN", from |-> running, id |-> r.id]
  BY <1>1, <1>3, DownsAnswer
<1>7. box \in Seq(Message) /\ downs \in Seq(Message)
  BY <1>1, <1>3, DownsListRefs DEF Process
<1> HIDE DEF downs, box
<1>8. /\ Len(box) \in Nat /\ Len(downs) \in Nat /\ k \in 1 .. Len(downs)
      /\ box \o downs \in Seq(Message) /\ Len(box \o downs) = Len(box) + Len(downs)
      /\ \A i \in 1 .. Len(box) + Len(downs) :
           (box \o downs)[i] = IF i <= Len(box) THEN box[i] ELSE downs[i - Len(box)]
  BY <1>7, ConcatProperties, LenProperties
<1>9. /\ Len(box) + k \in DOMAIN (box \o downs)
      /\ (box \o downs)[Len(box) + k] = downs[k]
  <2>1. DOMAIN (box \o downs) = 1 .. Len(box) + Len(downs)
    BY <1>8, LenProperties
  <2>2. Len(box) + k \in 1 .. Len(box) + Len(downs) /\ ~(Len(box) + k <= Len(box))
        /\ (Len(box) + k) - Len(box) = k
    BY <1>8
  <2>3. (box \o downs)[Len(box) + k] = downs[(Len(box) + k) - Len(box)]
    BY <1>8, <2>2
  <2> QED
    BY <2>1, <2>2, <2>3
<1> QED
  BY <1>2, <1>3, <1>5, <1>6, <1>9

\* When a process ends by its own doing, every monitor set on it is answered by a
\* DOWN notice and dropped in that same step, whatever its watcher is doing, the
\* dying process itself included (runSlice, notifyMonitorsOfDeath).
THEOREM DeathsAreAnnounced == Spec => DeathAnnounced
<1>1. TypeOK /\ [Next]_vars =>
        [\A d, q \in DOMAIN procs :
           procs[d].status \notin Terminal /\ procs'[d].status \in Terminal \ {"cancelled"} =>
             \A r \in View(q).monitors : r.pid = d =>
               /\ r \notin procs'[q].monitors
               /\ \E i \in DOMAIN procs'[q].mailbox :
                    procs'[q].mailbox[i] = [tag |-> "DOWN", from |-> d, id |-> r.id]]_vars
  <2> SUFFICES ASSUME TypeOK, [Next]_vars, NEW d \in DOMAIN procs, NEW q \in DOMAIN procs,
                      procs[d].status \notin Terminal, procs'[d].status \in Terminal \ {"cancelled"},
                      NEW r \in View(q).monitors, r.pid = d
               PROVE  /\ r \notin procs'[q].monitors
                      /\ \E i \in DOMAIN procs'[q].mailbox :
                           procs'[q].mailbox[i] = [tag |-> "DOWN", from |-> d, id |-> r.id]
    OBVIOUS
  <2>1. EndSlice
    BY StatusKept DEF Terminal
  <2> QED
    BY <2>1, EndSliceAnnounces
<1> QED
  BY <1>1, TypeCorrect, PTL DEF Spec, DeathAnnounced

---------------------------------------------------------------------------
(* The queue *)

\* A prefix stays one when more is put behind,
LEMMA PrefixThenConcat ==
  ASSUME NEW S, NEW s \in Seq(S), NEW t \in Seq(S), NEW u \in Seq(S), IsPrefix(s, t)
  PROVE  t \o u \in Seq(S) /\ IsPrefix(s, t \o u)
<1>1. /\ Len(s) \in Nat /\ Len(t) \in Nat /\ Len(u) \in Nat /\ Len(s) <= Len(t)
      /\ t \o u \in Seq(S) /\ Len(t \o u) = Len(t) + Len(u)
  BY LenProperties, ConcatProperties DEF IsPrefix
<1>2. SubSeq(t \o u, 1, Len(s)) = SubSeq(t, 1, Len(s))
  <2>1. CASE Len(s) = 0
    BY <2>1, SubSeqEmpty
  <2>2. CASE Len(s) # 0
    <3>1. 1 \in 1 .. Len(t) /\ Len(s) \in 1 .. Len(t)
      BY <1>1, <2>2
    <3> QED
      BY <3>1, SubSeqOfConcat1
  <2> QED
    BY <2>1, <2>2
<1> QED
  BY <1>1, <1>2 DEF IsPrefix

\* a sequence is a prefix of itself,
LEMMA PrefixOfSelf ==
  ASSUME NEW S, NEW s \in Seq(S)
  PROVE  IsPrefix(s, s)
BY LenProperties DEF IsPrefix

\* and of itself with an item more.
LEMMA PrefixOfAppend ==
  ASSUME NEW S, NEW s \in Seq(S), NEW x \in S
  PROVE  IsPrefix(s, Append(s, x))
<1>1. <<x>> \in Seq(S) /\ Append(s, x) = s \o <<x>>
  BY AppendIsConcat
<1> QED
  BY <1>1, PrefixOfSelf, PrefixThenConcat

\* A step adds behind the queue, after it took the head or took nothing.
LEMMA NextFair ==
  ASSUME TypeOK, [Next]_vars
  PROVE  IsPrefix(ready, ready') \/ (ready # <<>> /\ IsPrefix(Tail(ready), ready'))
<1>1. ready \in Seq(Int) /\ DOMAIN procs \subseteq Int
  <2>1. DOMAIN procs \subseteq Int
    BY MapTyped DEF Pid
  <2> QED
    BY <2>1, SeqMonotonic DEF TypeOK
<1>2. ASSUME UNCHANGED ready PROVE IsPrefix(ready, ready')
  BY <1>1, <1>2, PrefixOfSelf
<1>3. CASE Spawn
  <2>1. Cardinality(DOMAIN procs) \in Int
    BY MapTyped
  <2>2. CASE ready' = Append(ready, Cardinality(DOMAIN procs))
    BY <1>1, <2>1, <2>2, PrefixOfAppend
  <2> QED
    BY <1>2, <1>3, <2>2 DEF Spawn, Raise, Stop
<1>4. ASSUME NEW p \in DOMAIN procs, NEW t \in Tags, Send(p, t) PROVE IsPrefix(ready, ready')
  <2>1. CASE ready' = Append(ready, p)
    BY <1>1, <2>1, PrefixOfAppend
  <2> QED
    BY <1>2, <1>4, <2>1 DEF Send, Raise, Stop
<1>5. CASE Dispatch
  <2>1. Tail(ready) \in Seq(Int)
    BY <1>1, <1>5, HeadTailProperties DEF Dispatch
  <2> QED
    BY <1>5, <2>1, PrefixOfSelf DEF Dispatch
<1>6. CASE EndSlice
  <2>1. /\ running \in DOMAIN procs /\ Joiners \in SUBSET DOMAIN procs
        /\ Listeners \in SUBSET DOMAIN procs
    BY <1>6, JoinedTyped DEF EndSlice
  <2> DEFINE joiners == InOrder(Joiners, Rank)
             listeners == InOrder(Listeners, Rank)
  <2>2. joiners \in Seq(Int) /\ listeners \in Seq(Int)
    <3>1. joiners \in Seq(DOMAIN procs) /\ listeners \in Seq(DOMAIN procs)
      BY <2>1, InRankOrder
    <3> HIDE DEF joiners, listeners
    <3> QED
      BY <1>1, <3>1, SeqMonotonic
  <2>3. Requeued \in Seq(Int) /\ IsPrefix(ready, Requeued)
    BY <1>1, <2>1, AppendProperties, PrefixOfAppend, PrefixOfSelf DEF Requeued
  <2>4. ready' = (Requeued \o joiners) \o listeners
    BY <1>6 DEF EndSlice
  <2> HIDE DEF joiners, listeners
  <2>5. Requeued \o joiners \in Seq(Int) /\ IsPrefix(ready, Requeued \o joiners)
    BY <1>1, <2>2, <2>3, PrefixThenConcat
  <2> QED
    BY <1>1, <2>2, <2>4, <2>5, PrefixThenConcat
<1>7. CASE NextTick
  <2>1. ready = <<>> /\ ready' \in Seq(DOMAIN procs)
    <3>1. Due \in SUBSET DOMAIN procs
      BY DEF Due, Sleepers
    <3> QED
      BY <1>7, <3>1, InRankOrder DEF NextTick, Idle
  <2>2. ready' \in Seq(Int) /\ Len(ready') \in Nat
    BY <1>1, <2>1, SeqMonotonic, LenProperties
  <2> QED
    BY <2>1, <2>2, SubSeqEmpty DEF IsPrefix
<1>8. CASE Local \/ Fault \/ StepLimit \/ Halt \/ Abort \/ Exit \/ Yield \/ Receive \/ ReceiveOpt
           \/ (\E t \in Tags : ReceiveMatch(t) \/ ReceiveMatchOpt(t))
           \/ (\E p \in DOMAIN procs : Join(p) \/ Cancel(p) \/ Link(p) \/ Unlink(p) \/ Monitor(p))
           \/ (\E ref \in cur.monitors : Demonitor(ref)) \/ (\E n \in Naps : Sleep(n))
  BY <1>2, <1>8 DEF Local, Fault, StepLimit, Halt, Abort, Exit, Yield, Finish, Receive, ReceiveOpt,
     ReceiveMatch, ReceiveMatchOpt, TakeMatch, Take, Join, Cancel, Link, Unlink, Monitor, Demonitor,
     Sleep, Raise, Stop
<1>9. CASE RootDone \/ AllDone \/ Deadlock \/ OutOfSteps \/ UNCHANGED vars
  BY <1>2, <1>9 DEF RootDone, AllDone, Deadlock, OutOfSteps, Stop, vars
<1> QED
  BY <1>3, <1>4, <1>5, <1>6, <1>7, <1>8, <1>9 DEF Next, Instruction, Loop, Returned

\* The queue is first in, first out: no step puts a process before another that was
\* queued already (enqueueReady, yieldProcess, wakeProcessWaiters, PROC_SEND).
THEOREM NobodyOvertaken == Spec => NoOvertaking
<1>1. TypeOK /\ [Next]_vars =>
        [IsPrefix(ready, ready') \/ (ready # <<>> /\ IsPrefix(Tail(ready), ready'))]_vars
  BY NextFair
<1> QED
  BY <1>1, TypeCorrect, PTL DEF Spec, NoOvertaking

=============================================================================
