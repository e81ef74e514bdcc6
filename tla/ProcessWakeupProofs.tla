------------------------ MODULE ProcessWakeupProofs ------------------------
(***************************************************************************)
(* Nobody sleeps on what has already happened, nobody is revived, and the   *)
(* step budget holds: proofs about ProcessScheduler that rest on its exact  *)
(* ready queue.                                                             *)
(***************************************************************************)
EXTENDS ProcessSchedulerProofs

Ended == {"completed", "failed", "exited"}

\* Between two slices there is no running record.
IdleInv == running = NoProc => cur = NewProcess

\* A blocked record has nothing in its mailbox, and no deadline behind it, that
\* should have unblocked it.
Rested(p, now) ==
  /\ Waits(p, OnMessage) => p.mailbox = <<>>
  /\ \A t \in Tags \ {"DOWN"} : Waits(p, OnMatch(t)) => ~HasTag(p.mailbox, t)
  /\ p.status = "waiting" /\ p.cond.on = "tick" => p.cond.tick > now

\* MailboxWakeups, JoinWakeups and SleepersAhead, extended to the running record,
\* which the end of the slice will put into the map.
WakeInv ==
  /\ \A q \in DOMAIN procs : Rested(procs[q], tick)
  /\ Rested(cur, tick)
  /\ JoinWakeups
  /\ running # NoProc =>
       \A d \in DOMAIN procs \ {running} : Waits(cur, OnProcess(d)) => procs[d].status \notin Ended

\* A process that does not wait is owed no wake-up.
LEMMA AwakeIsRested ==
  ASSUME NEW p, NEW now, p.status # "waiting"
  PROVE  Rested(p, now) /\ \A c : ~Waits(p, c)
BY DEF Rested, Waits

\* Distinct conditions are told apart.
LEMMA DistinctConditions ==
  /\ OnMessage.on = "message"
  /\ \A t : OnMatch(t).on = "match" /\ OnMatch(t).tag = t
  /\ \A d : OnProcess(d).on = "process" /\ OnProcess(d).pid = d
  /\ \A n : OnTick(n).on = "tick" /\ OnTick(n).tick = n
BY DEF OnMessage, OnMatch, OnProcess, OnTick

\* At the start nobody waits.
LEMMA InitWoken == Init => WakeInv
<1> SUFFICES ASSUME Init PROVE WakeInv
  OBVIOUS
<1>1. \A q \in DOMAIN procs : procs[q].status = "ready"
  BY DEF Init, NewProcess
<1>2. cur.status = "ready" /\ running = NoProc
  BY DEF Init, NewProcess
<1> QED
  BY <1>1, <1>2, AwakeIsRested DEF WakeInv, JoinWakeups

\* A step that ends with the running record awake, and blocks nobody else.
LEMMA AwakeStep ==
  ASSUME TypeOK, WakeInv, cur'.status # "waiting", tick' = tick, DOMAIN procs \subseteq DOMAIN procs',
         \A q \in DOMAIN procs' :
           \/ procs'[q].status \in {"ready", "cancelled"}
           \/ /\ q \in DOMAIN procs /\ procs'[q].status = procs[q].status
              /\ procs'[q].cond = procs[q].cond
              /\ procs[q].status = "waiting" => Rested(procs'[q], tick)
  PROVE  WakeInv'
<1>1. Rested(cur', tick') /\ \A c : ~Waits(cur', c)
  BY AwakeIsRested
<1>2. ASSUME NEW q \in DOMAIN procs' PROVE Rested(procs'[q], tick')
  BY AwakeIsRested
<1>3. ASSUME NEW q \in DOMAIN procs', NEW d \in DOMAIN procs', Waits(procs'[q], OnProcess(d))
      PROVE  procs'[d].status \notin {"completed", "failed", "exited"}
  <2>1. q \in DOMAIN procs /\ Waits(procs[q], OnProcess(d))
    BY <1>3 DEF Waits
  <2>2. CASE procs'[d].status \in {"ready", "cancelled"}
    BY <2>2
  <2>3. CASE d \in DOMAIN procs /\ procs'[d].status = procs[d].status
    BY <2>1, <2>3 DEF WakeInv, JoinWakeups
  <2> QED
    BY <2>2, <2>3
<1> QED
  BY <1>1, <1>2, <1>3 DEF WakeInv, JoinWakeups

\* The steps that leave the map alone.
LEMMA OwnStepWoken ==
  ASSUME TypeOK, WakeInv, UNCHANGED <<procs, tick>>, cur'.status # "waiting"
  PROVE  WakeInv'
<1>1. \A q \in DOMAIN procs : Rested(procs[q], tick)
  BY DEF WakeInv
<1> QED
  BY <1>1, AwakeStep, AwakeIsRested

\* What an instruction leaves in the running record.
LEMMA AdvanceAwake ==
  ASSUME TypeOK, NEW p \in Process, Advance(p)
  PROVE  cur'.status = p.status /\ tick' = tick /\ running' = running
BY DEF Advance, Retire, Process

\* A step that writes a status leaves the clock alone.
LEMMA RetireStatus ==
  ASSUME TypeOK, NEW s \in Status, Retire([cur EXCEPT !.status = s])
  PROVE  cur'.status = s /\ tick' = tick
BY DEF Retire, TypeOK, Process

\* What a step that blocks writes into the record.
LEMMA BlockRecord ==
  ASSUME TypeOK, NEW c, Block(c)
  PROVE  /\ cur'.status = "waiting" /\ cur'.cond = c /\ cur'.mailbox = cur.mailbox
         /\ tick' = tick /\ running' = running
BY DEF Block, Retire, TypeOK, Process

\* Blocking is safe when the record rests and does not wait for the ended.
LEMMA BlockStep ==
  ASSUME TypeOK, WakeInv, NEW c, Block(c), UNCHANGED procs, Rested(cur', tick),
         \A d \in DOMAIN procs \ {running} : c = OnProcess(d) => procs[d].status \notin Ended
  PROVE  WakeInv'
<1>1. /\ cur'.status = "waiting" /\ cur'.cond = c /\ tick' = tick /\ running' = running
  BY BlockRecord
<1>2. \A d \in DOMAIN procs \ {running} : Waits(cur', OnProcess(d)) => procs[d].status \notin Ended
  BY <1>1 DEF Waits
<1> QED
  BY <1>1, <1>2 DEF WakeInv, JoinWakeups

---------------------------------------------------------------------------
(* The instructions *)

\* A receive blocks only when its mailbox has nothing for it.
LEMMA ReceiveWoken ==
  ASSUME TypeOK, WakeInv,
         Receive \/ ReceiveOpt \/ \E t \in Tags : ReceiveMatch(t) \/ ReceiveMatchOpt(t)
  PROVE  WakeInv'
<1>1. cur \in Process /\ cur.status = "ready" /\ cur.mailbox \in Seq(Message)
  BY DEF TypeOK, Process, Receive, ReceiveOpt, ReceiveMatch, ReceiveMatchOpt, Executes
<1>2. ASSUME NEW message, NEW mailbox \in Seq(Message), Take(message, mailbox) PROVE WakeInv'
  <2>1. [cur EXCEPT !.mailbox = mailbox] \in Process /\ [cur EXCEPT !.mailbox = mailbox].status = "ready"
    BY <1>1 DEF Process
  <2>2. cur'.status = "ready" /\ tick' = tick
    BY <1>2, <2>1, AdvanceAwake DEF Take
  <2> QED
    BY <1>2, <2>2, OwnStepWoken DEF Take
<1>3. ASSUME cur.mailbox # <<>> PROVE Tail(cur.mailbox) \in Seq(Message)
  BY <1>1, <1>3, HeadTailProperties
<1>4. ASSUME NEW t \in Tags, TakeMatch(t) PROVE WakeInv'
  BY <1>1, <1>2, <1>4, RemoveAtIsSeq DEF TakeMatch
<1>5. ASSUME Advance(cur), UNCHANGED procs PROVE WakeInv'
  BY <1>1, <1>5, AdvanceAwake, OwnStepWoken
<1>6. ASSUME cur.mailbox = <<>>, Block(OnMessage), UNCHANGED procs PROVE WakeInv'
  <2>1. Rested(cur', tick)
    BY <1>6, BlockRecord, DistinctConditions DEF Rested, Waits
  <2> QED
    BY <1>6, <2>1, BlockStep, DistinctConditions
<1>7. ASSUME NEW t \in Tags, ~HasTag(cur.mailbox, t), Block(OnMatch(t)), UNCHANGED procs PROVE WakeInv'
  <2>1. cur'.status = "waiting" /\ cur'.cond = OnMatch(t) /\ cur'.mailbox = cur.mailbox
    BY <1>7, BlockRecord
  <2>2. \A u \in Tags : cur'.cond = OnMatch(u) => u = t
    BY <2>1 DEF OnMatch
  <2>3. cur'.cond # OnMessage /\ cur'.cond.on # "tick"
    BY <2>1, DistinctConditions
  <2>4. Rested(cur', tick)
    BY <1>7, <2>1, <2>2, <2>3 DEF Rested, Waits
  <2> QED
    BY <1>7, <2>4, BlockStep, DistinctConditions
<1>8. CASE Receive
  BY <1>2, <1>3, <1>6, <1>8 DEF Receive
<1>9. CASE ReceiveOpt
  BY <1>2, <1>3, <1>5, <1>9 DEF ReceiveOpt
<1>10. CASE \E t \in Tags : ReceiveMatch(t)
  BY <1>4, <1>7, <1>10 DEF ReceiveMatch
<1>11. CASE \E t \in Tags : ReceiveMatchOpt(t)
  BY <1>4, <1>5, <1>11 DEF ReceiveMatchOpt
<1> QED
  BY <1>8, <1>9, <1>10, <1>11

\* The instructions that write the running record only.
LEMMA OwnInstructionsWoken ==
  ASSUME TypeOK, WakeInv,
         \/ Local \/ Halt \/ Abort \/ Exit \/ Yield
         \/ \E q \in DOMAIN procs : Join(q) \/ Monitor(q)
         \/ \E ref \in cur.monitors : Demonitor(ref)
         \/ \E n \in Naps : Sleep(n)
  PROVE  WakeInv'
<1>1. cur \in Process /\ tick \in Nat /\ cur.status = "ready"
  BY DEF TypeOK, Local, Halt, Abort, Exit, Yield, Join, Monitor, Demonitor, Sleep, Finish, Executes
<1>2. ASSUME NEW p \in Process, p.status = "ready", Advance(p), UNCHANGED procs PROVE WakeInv'
  BY <1>2, AdvanceAwake, OwnStepWoken
<1>3. ASSUME NEW s \in Terminal, Retire([cur EXCEPT !.status = s]), UNCHANGED procs PROVE WakeInv'
  <2>1. cur'.status = s /\ tick' = tick
    BY <1>3, RetireStatus DEF Status
  <2> QED
    BY <1>3, <2>1, OwnStepWoken DEF Terminal
<1>4. CASE Local
  BY <1>1, <1>2, <1>4 DEF Local
<1>5. CASE Halt \/ Abort \/ Exit
  BY <1>3, <1>5 DEF Halt, Abort, Exit, Finish, Terminal
<1>6. CASE Yield
  BY <1>1, <1>2, <1>6 DEF Yield, Process
<1>7. ASSUME NEW q \in DOMAIN procs, Join(q) PROVE WakeInv'
  <2>1. CASE procs[q].status \in Terminal
    BY <1>1, <1>2, <1>7, <2>1 DEF Join
  <2>2. CASE procs[q].status \notin Terminal
    <3>1. Block(OnProcess(q)) /\ UNCHANGED procs
      BY <1>7, <2>2 DEF Join
    <3>2. Rested(cur', tick)
      BY <3>1, BlockRecord, DistinctConditions DEF Rested, Waits
    <3>3. \A d \in DOMAIN procs : OnProcess(q) = OnProcess(d) => procs[d].status \notin Ended
      BY <2>2, DistinctConditions DEF Terminal, Ended
    <3> QED
      BY <3>1, <3>2, <3>3, BlockStep
  <2> QED
    BY <2>1, <2>2
<1>8. ASSUME NEW q \in DOMAIN procs, Monitor(q) PROVE WakeInv'
  <2>1. cur'.status = "ready" /\ UNCHANGED <<procs, tick>>
    BY <1>1, <1>8 DEF Monitor, Advance, Retire, Process
  <2> QED
    BY <2>1, OwnStepWoken
<1>9. ASSUME NEW ref \in cur.monitors, Demonitor(ref) PROVE WakeInv'
  <2>1. cur'.status = "ready" /\ UNCHANGED <<procs, tick>>
    BY <1>1, <1>9 DEF Demonitor, Advance, Retire, Process
  <2> QED
    BY <2>1, OwnStepWoken
<1>10. ASSUME NEW n \in Naps, Sleep(n) PROVE WakeInv'
  <2>1. Block(OnTick(tick + n)) /\ UNCHANGED procs
    BY <1>10 DEF Sleep
  <2>2. cur'.cond.on = "tick" /\ cur'.cond.tick = tick + n
    BY <2>1, BlockRecord, DistinctConditions
  <2>3. cur'.cond.tick > tick
    BY <1>1, <2>2, ProgramAssumption
  <2>4. Rested(cur', tick)
    BY <2>2, <2>3, DistinctConditions DEF Rested, Waits
  <2> QED
    BY <2>1, <2>4, BlockStep, DistinctConditions
<1> QED
  BY <1>4, <1>5, <1>6, <1>7, <1>8, <1>9, <1>10

\* A message that ends a wait wakes the waiting process.
LEMMA SendWoken ==
  ASSUME TypeOK, WakeInv, NEW q \in DOMAIN procs, NEW t \in Tags, Send(q, t),
         ~Raise("MailboxTooLarge")
  PROVE  WakeInv'
<1> DEFINE mailbox == Deposit(procs[q].mailbox, [tag |-> t, from |-> running, id |-> steps + 1])
           filled == [procs[q] EXCEPT !.mailbox = mailbox]
<1>1. cur'.status = "ready" /\ tick' = tick
  BY DEF Send, Executes, Advance, Retire, TypeOK, Process
<1>2. procs[q] \in Process
  BY MapTyped
<1> HIDE DEF mailbox
<1>3. filled.status = procs[q].status /\ filled.cond = procs[q].cond /\ filled.mailbox = mailbox
  BY <1>2 DEF Process
<1>4. Woken(filled).status = "ready"
  BY <1>2, <1>3 DEF Woken, Process
<1>5. procs' = [procs EXCEPT ![q] = IF WakesMailbox(procs[q], mailbox) THEN Woken(filled) ELSE filled]
  BY DEF Send, mailbox
<1>6. ASSUME ~WakesMailbox(procs[q], mailbox) PROVE Rested(filled, tick)
  <2>1. ~Waits(filled, OnMessage)
    BY <1>3, <1>6 DEF WakesMailbox, Waits
  <2>2. \A u \in Tags : Waits(filled, OnMatch(u)) => ~HasTag(filled.mailbox, u)
    BY <1>3, <1>6 DEF WakesMailbox, Waits
  <2>3. filled.status = "waiting" /\ filled.cond.on = "tick" => filled.cond.tick > tick
    BY <1>3 DEF WakeInv, Rested
  <2> QED
    BY <2>1, <2>2, <2>3 DEF Rested
<1> HIDE DEF filled
<1>7. ASSUME NEW p \in DOMAIN procs'
      PROVE  \/ procs'[p].status \in {"ready", "cancelled"}
             \/ /\ p \in DOMAIN procs /\ procs'[p].status = procs[p].status
                /\ procs'[p].cond = procs[p].cond
                /\ procs[p].status = "waiting" => Rested(procs'[p], tick)
  <2>1. CASE p = q
    BY <1>3, <1>4, <1>5, <1>6, <2>1
  <2>2. CASE p # q
    BY <1>5, <2>2 DEF WakeInv
  <2> QED
    BY <2>1, <2>2
<1> QED
  BY <1>1, <1>5, <1>7, AwakeStep

\* A new process waits for nothing.
LEMMA SpawnWoken ==
  ASSUME TypeOK, WakeInv, Spawn, ~Raise("InvalidInstruction")
  PROVE  WakeInv'
<1> DEFINE n == Cardinality(DOMAIN procs)
<1>1. cur'.status = "ready" /\ tick' = tick
  BY DEF Spawn, Executes, Advance, Retire, TypeOK, Process
<1>2. procs' = [p \in 0 .. n |-> IF p = n THEN NewProcess ELSE procs[p]]
  BY DEF Spawn
<1>3. n \in 1 .. MaxProcesses /\ DOMAIN procs = 0 .. n - 1
  BY MapTyped
<1> HIDE DEF n
<1>4. DOMAIN procs \subseteq DOMAIN procs' /\ procs'[n].status = "ready"
      /\ \A p \in DOMAIN procs' \ {n} : p \in DOMAIN procs /\ procs'[p] = procs[p]
  BY <1>2, <1>3 DEF NewProcess
<1> QED
  BY <1>1, <1>4, AwakeStep DEF WakeInv

\* PROC_CANCEL, PROC_LINK and PROC_UNLINK leave mailboxes and conditions alone.
LEMMA CancelLinkWoken ==
  ASSUME TypeOK, WakeInv, NEW q \in DOMAIN procs, Cancel(q) \/ Link(q) \/ Unlink(q)
  PROVE  WakeInv'
<1>1. cur'.status = "ready" /\ tick' = tick
  BY DEF Cancel, Link, Unlink, Executes, Advance, Retire, TypeOK, Process
<1>2. procs[q] \in Process
  BY MapTyped
<1>3. CASE Cancel(q)
  <2>1. procs' = [procs EXCEPT ![q].status = "cancelled"]
    BY <1>3 DEF Cancel
  <2>2. procs'[q].status = "cancelled"
    BY <1>2, <2>1 DEF Process
  <2> QED
    BY <1>1, <2>1, <2>2, AwakeStep DEF WakeInv
<1>4. CASE Link(q) \/ Unlink(q)
  <2>1. PICK S : procs' = [procs EXCEPT ![q] = [procs[q] EXCEPT !.links = S]]
    BY <1>4 DEF Link, Unlink
  <2> DEFINE linked == [procs[q] EXCEPT !.links = S]
  <2>2. linked.status = procs[q].status /\ linked.cond = procs[q].cond
        /\ linked.mailbox = procs[q].mailbox
    BY <1>2 DEF Process
  <2>3. Rested(procs[q], tick) => Rested(linked, tick)
    BY <2>2 DEF Rested, Waits
  <2> HIDE DEF linked
  <2>4. procs' = [procs EXCEPT ![q] = linked]
    BY <2>1 DEF linked
  <2> QED
    BY <1>1, <2>2, <2>3, <2>4, AwakeStep DEF WakeInv
<1> QED
  BY <1>3, <1>4

---------------------------------------------------------------------------
(* The loop *)

\* The process dispatched takes its record from the map.
LEMMA DispatchWoken ==
  ASSUME TypeOK, QueueInv, WakeInv, Dispatch
  PROVE  WakeInv'
<1>1. Head(ready) \in Range(ready)
  BY TailOnce DEF Dispatch, TypeOK, QueueInv, QueueExact
<1>2. cur'.status \in {"ready", "cancelled"} /\ UNCHANGED <<procs, tick>>
  BY <1>1 DEF Dispatch, QueueInv, QueueExact
<1> QED
  BY <1>2, OwnStepWoken

\* A jump of the clock stops at the earliest deadline, so none is left behind it.
LEMMA NextTickWoken ==
  ASSUME TypeOK, IdleInv, WakeInv, NextTick
  PROVE  WakeInv'
<1>1. DOMAIN procs' = DOMAIN procs /\ tick' = Earliest /\ cur' = cur /\ running' = NoProc /\ running = NoProc
  BY DEF NextTick, Idle
<1>2. ASSUME NEW q \in DOMAIN procs
      PROVE  \/ procs'[q].status = "ready"
             \/ procs'[q] = procs[q] /\ q \notin Due
  BY MapTyped, WokenIsProcess DEF NextTick
<1>3. ASSUME NEW q \in DOMAIN procs, q \notin Due PROVE Rested(procs[q], Earliest)
  <2>1. Rested(procs[q], tick)
    BY DEF WakeInv
  <2>2. ASSUME procs[q].status = "waiting", procs[q].cond.on = "tick" PROVE procs[q].cond.tick > Earliest
    <3>1. q \in Sleepers /\ procs[q].cond \in Cond
      BY <2>2, MapTyped DEF Sleepers, Process
    <3>2. procs[q].cond.tick \in Nat /\ Earliest \in Nat
      BY <2>2, <3>1, Deadline, EarliestIsLeast
    <3> QED
      BY <1>3, <3>1, <3>2 DEF Due
  <2> QED
    BY <2>1, <2>2 DEF Rested
<1>4. ASSUME NEW q \in DOMAIN procs PROVE Rested(procs'[q], tick')
  BY <1>1, <1>2, <1>3, AwakeIsRested
<1>5. Rested(cur, tick')
  BY <1>1, AwakeIsRested DEF IdleInv, NewProcess
<1>6. JoinWakeups'
  BY <1>1, <1>2 DEF WakeInv, JoinWakeups, Waits
<1> QED
  BY <1>1, <1>4, <1>5, <1>6 DEF WakeInv

\* The record the end of a slice leaves to a process that still waits.
LEMMA EndSliceRested ==
  ASSUME TypeOK, EndSlice, NEW q \in DOMAIN procs, procs'[q].status = "waiting",
         Rested(Stored[q], tick)
  PROVE  /\ Rested(procs'[q], tick)
         /\ Stored[q].status = "waiting" /\ procs'[q].cond = Stored[q].cond
         /\ Stored[q].cond # OnProcess(running)
<1>1. running # NoProc
  BY DEF EndSlice
<1>2. q \notin Joiners \cup Listeners /\ Stored[q].status = "waiting"
  BY EndSliceStatus
<1>3. Stored[q].cond # OnProcess(running) /\ Joined[q] = Stored[q] /\ Stored[q] \in Process
  BY <1>1, <1>2, JoinedTyped DEF Joiners, Joined, Waits
<1>4. procs'[q] = IF q \in Observers THEN Notified(Stored[q], running) ELSE Stored[q]
  BY <1>3 DEF EndSlice
<1>5. CASE q \notin Observers
  BY <1>2, <1>3, <1>4, <1>5
<1>6. CASE q \in Observers
  <2> DEFINE p == Stored[q]
             told == Notified(p, running)
  <2>1. ~Waits(p, OnMessage)
    BY <1>2, <1>3, <1>6 DEF Listeners
  <2>2. /\ told.status = "waiting" /\ told.cond = p.cond
        /\ told.mailbox = p.mailbox \o Downs(p, running)
    BY <1>1, <1>2, <1>3, <2>1, JoinedTyped, NotifiedIsProcess
  <2>3. /\ Downs(p, running) \in Seq(Message) /\ p.mailbox \in Seq(Message)
        /\ \A k \in DOMAIN Downs(p, running) : Downs(p, running)[k].tag = "DOWN"
    BY <1>1, <1>3, JoinedTyped, DownsListRefs DEF Process
  <2>4. ASSUME NEW t \in Tags \ {"DOWN"}, ~HasTag(p.mailbox, t) PROVE ~HasTag(told.mailbox, t)
    <3> DEFINE box == p.mailbox
               downs == Downs(p, running)
    <3>0. box \in Seq(Message) /\ downs \in Seq(Message)
      BY <2>3
    <3> HIDE DEF box, downs
    <3>1. /\ DOMAIN (box \o downs) = 1 .. Len(box) + Len(downs)
          /\ \A i \in 1 .. Len(box) + Len(downs) :
               (box \o downs)[i] = IF i <= Len(box) THEN box[i] ELSE downs[i - Len(box)]
          /\ Len(box) \in Nat /\ Len(downs) \in Nat
          /\ DOMAIN box = 1 .. Len(box) /\ DOMAIN downs = 1 .. Len(downs)
      <4>1. /\ Len(box) \in Nat /\ Len(downs) \in Nat
            /\ DOMAIN box = 1 .. Len(box) /\ DOMAIN downs = 1 .. Len(downs)
        BY <3>0, LenProperties
      <4>2. /\ box \o downs \in Seq(Message) /\ Len(box \o downs) = Len(box) + Len(downs)
            /\ \A i \in 1 .. Len(box) + Len(downs) :
                 (box \o downs)[i] = IF i <= Len(box) THEN box[i] ELSE downs[i - Len(box)]
        BY <3>0, ConcatProperties
      <4>3. DOMAIN (box \o downs) = 1 .. Len(box \o downs)
        BY <4>2, LenProperties
      <4> QED
        BY <4>1, <4>2, <4>3
    <3>2. \A i \in DOMAIN box : box[i].tag # t
      BY <2>4 DEF HasTag, box
    <3>3. \A i \in DOMAIN downs : downs[i].tag # t
      BY <2>3 DEF downs
    <3>4. \A i \in DOMAIN (box \o downs) : (box \o downs)[i].tag # t
      BY <3>1, <3>2, <3>3
    <3> QED
      BY <2>2, <3>4 DEF HasTag, box, downs
  <2> HIDE DEF told, p
  <2>5. Rested(p, tick)
    BY DEF p
  <2>6. Rested(told, tick)
    <3>1. p.status = "waiting" /\ told.status = "waiting" /\ told.cond = p.cond
      BY <1>2, <2>2 DEF p
    <3>2. ~Waits(told, OnMessage)
      BY <2>1, <3>1 DEF Waits
    <3>3. ASSUME NEW t \in Tags \ {"DOWN"}, Waits(told, OnMatch(t)) PROVE ~HasTag(told.mailbox, t)
      BY <2>4, <2>5, <3>1, <3>3 DEF Rested, Waits
    <3>4. told.status = "waiting" /\ told.cond.on = "tick" => told.cond.tick > tick
      BY <2>5, <3>1 DEF Rested
    <3> QED
      BY <3>2, <3>3, <3>4 DEF Rested
  <2> QED
    BY <1>2, <1>3, <1>4, <1>6, <2>2, <2>6 DEF told, p
<1> QED
  BY <1>5, <1>6

\* A process that ends wakes everyone who joins it; a notice wakes a plain receive.
LEMMA EndSliceWoken ==
  ASSUME TypeOK, QueueInv, WakeInv, EndSlice
  PROVE  WakeInv'
<1>1. running # NoProc /\ DOMAIN procs' = DOMAIN procs /\ tick' = tick /\ running' = NoProc
      /\ cur'.status = "ready" /\ running \in DOMAIN procs
  BY JoinedTyped DEF EndSlice, NewProcess
<1>2. \A q \in DOMAIN procs : Stored[q] = IF q = running THEN cur ELSE procs[q]
  BY <1>1, MapTyped DEF Stored
<1>3. \A q \in DOMAIN procs : Rested(Stored[q], tick)
  BY <1>2 DEF WakeInv
<1>4. ASSUME NEW q \in DOMAIN procs PROVE Rested(procs'[q], tick)
  BY <1>3, EndSliceRested, AwakeIsRested
<1>5. ASSUME NEW q \in DOMAIN procs, NEW d \in DOMAIN procs, Waits(procs'[q], OnProcess(d))
      PROVE  procs'[d].status \notin {"completed", "failed", "exited"}
  <2>1. /\ Stored[q].status = "waiting" /\ Stored[q].cond = OnProcess(d) /\ d # running
    BY <1>3, <1>5, EndSliceRested DEF Waits
  <2>2. procs[d].status \notin {"completed", "failed", "exited"}
    BY <1>1, <1>2, <2>1 DEF WakeInv, JoinWakeups, Waits, Ended
  <2>3. procs'[d].status \in {"ready", procs[d].status}
    BY <1>2, <2>1, EndSliceStatus
  <2> QED
    BY <2>2, <2>3
<1> QED
  BY <1>1, <1>4, <1>5, AwakeIsRested DEF WakeInv, JoinWakeups

---------------------------------------------------------------------------
(* Every step *)

\* At the start nobody runs, and the spare record is new.
LEMMA InitIdle == Init => IdleInv
BY DEF Init, IdleInv

\* Every step keeps the spare record new while nobody runs.
LEMMA NextIdle == TypeOK /\ IdleInv /\ [Next]_vars => IdleInv'
<1> SUFFICES ASSUME TypeOK, IdleInv, [Next]_vars PROVE IdleInv'
  OBVIOUS
<1>1. ASSUME UNCHANGED <<running, cur>> PROVE IdleInv'
  BY <1>1 DEF IdleInv
<1>2. ASSUME running # NoProc, UNCHANGED running PROVE IdleInv'
  BY <1>2 DEF IdleInv
<1>3. CASE Instruction
  <2>1. running # NoProc /\ UNCHANGED running
    BY <1>3 DEF Instruction, Local, Fault, StepLimit, Halt, Abort, Exit, Yield, Spawn, Send,
       Receive, ReceiveOpt, ReceiveMatch, ReceiveMatchOpt, Join, Cancel, Link, Unlink, Monitor,
       Demonitor, Sleep, Finish, Executes, TakeMatch, Take, Advance, Block, Retire, Raise, Stop
  <2> QED
    BY <1>2, <2>1
<1>4. CASE Dispatch
  <2>1. Head(ready) \in DOMAIN procs
    BY <1>4, HeadTailProperties DEF TypeOK, Dispatch
  <2> QED
    BY <1>4, <2>1, MapTyped DEF Dispatch, IdleInv
<1>5. CASE EndSlice
  BY <1>5 DEF EndSlice, IdleInv
<1>6. CASE NextTick \/ RootDone \/ AllDone \/ Deadlock \/ OutOfSteps \/ UNCHANGED vars
  BY <1>1, <1>6 DEF NextTick, RootDone, AllDone, Deadlock, OutOfSteps, Stop, vars
<1> QED
  BY <1>3, <1>4, <1>5, <1>6 DEF Next, Loop, Returned

\* A run that returns wakes nobody and blocks nobody.
LEMMA StopWoken ==
  ASSUME WakeInv, UNCHANGED <<procs, running, cur, tick>>
  PROVE  WakeInv'
BY DEF WakeInv, JoinWakeups

\* Every step keeps the wake-ups.
LEMMA NextWoken == TypeOK /\ QueueInv /\ IdleInv /\ WakeInv /\ [Next]_vars => WakeInv'
<1> SUFFICES ASSUME TypeOK, QueueInv, IdleInv, WakeInv, [Next]_vars PROVE WakeInv'
  OBVIOUS
<1>1. ASSUME NEW result, Stop(result) PROVE WakeInv'
  BY <1>1, StopWoken DEF Stop
<1>2. CASE Fault \/ StepLimit \/ RootDone \/ AllDone \/ Deadlock \/ OutOfSteps
  BY <1>1, <1>2 DEF Fault, StepLimit, Raise, RootDone, AllDone, Deadlock, OutOfSteps
<1>3. CASE Spawn
  BY <1>1, <1>3, SpawnWoken DEF Raise
<1>4. ASSUME NEW q \in DOMAIN procs, NEW t \in Tags, Send(q, t) PROVE WakeInv'
  BY <1>1, <1>4, SendWoken DEF Raise
<1>5. CASE UNCHANGED vars
  BY <1>5, StopWoken DEF vars
<1> QED
  BY <1>2, <1>3, <1>4, <1>5, OwnInstructionsWoken, ReceiveWoken, CancelLinkWoken,
     DispatchWoken, NextTickWoken, EndSliceWoken
     DEF Next, Instruction, Loop, Returned

---------------------------------------------------------------------------
(* The theorems *)

\* The strengthened invariant, which the theorems below are read off.
Woke == TypeOK /\ QueueInv /\ IdleInv /\ WakeInv

\* The invariants together.
LEMMA AlwaysWoke == Spec => []Woke
<1>1. Init => Woke
  BY InitTyped, InitQueued, InitIdle, InitWoken DEF Woke
<1>2. Woke /\ [Next]_vars => Woke'
  BY NextTyped, NextQueued, NextIdle, NextWoken DEF Woke
<1> QED
  BY <1>1, <1>2, PTL DEF Spec

\* No process sleeps on a mailbox that holds what it waits for, whoever sent it and
\* whenever (PROC_SEND, PROC_RECEIVE, PROC_RECEIVE_MATCH, notifyMonitorsOfDeath);
\* a selective receive of DOWN is the exception MailboxWakeups states.
THEOREM NoLostMessageWakeup == Spec => []MailboxWakeups
<1>1. Woke => MailboxWakeups
  BY DEF Woke, WakeInv, Rested, MailboxWakeups
<1> QED
  BY <1>1, AlwaysWoke, PTL

\* No process stays blocked on one that ended by its own doing (PROC_JOIN,
\* wakeProcessWaiters), even when it ends in the slice in which it is joined.
THEOREM NoLostJoinWakeup == Spec => []JoinWakeups
<1>1. Woke => JoinWakeups
  BY DEF Woke, WakeInv
<1> QED
  BY <1>1, AlwaysWoke, PTL

\* The clock never passes a sleeper's deadline without waking it (PROC_SLEEP_TICKS,
\* the jump of logicalTick when nothing is ready).
THEOREM NoSleeperPassed == Spec => []SleepersAhead
<1>1. Woke => SleepersAhead
  BY DEF Woke, WakeInv, Rested, SleepersAhead, Sleepers
<1> QED
  BY <1>1, AlwaysWoke, PTL

---------------------------------------------------------------------------
(* Nobody is revived, and nobody is woken early *)

\* What every step but a spawn's new entry does to the record of another process.
Kept(q) ==
  \/ procs'[q].status \in {procs[q].status, "cancelled"}
  \/ procs[q].status = "waiting" /\ procs[q].cond.on # "tick"
  \/ procs[q].status = "waiting" /\ tick' = procs[q].cond.tick

\* A send wakes no ended process and no sleeper.
LEMMA SendKeeps ==
  ASSUME TypeOK, NEW q \in DOMAIN procs, NEW p \in DOMAIN procs, NEW t \in Tags, Send(p, t)
  PROVE  Kept(q)
<1> DEFINE mailbox == Deposit(procs[p].mailbox, [tag |-> t, from |-> running, id |-> steps + 1])
           filled == [procs[p] EXCEPT !.mailbox = mailbox]
<1>1. procs[p] \in Process /\ filled.status = procs[p].status
  BY MapTyped DEF Process
<1>2. CASE Stop("MailboxTooLarge")
  BY <1>2 DEF Stop, Kept
<1>3. CASE procs' = [procs EXCEPT ![p] = IF WakesMailbox(procs[p], mailbox) THEN Woken(filled) ELSE filled]
  <2>1. CASE WakesMailbox(procs[p], mailbox)
    <3>1. procs[p].status = "waiting" /\ procs[p].cond.on # "tick"
      BY <2>1, DistinctConditions DEF WakesMailbox, Waits
    <3> QED
      BY <1>3, <3>1 DEF Kept
  <2>2. CASE ~WakesMailbox(procs[p], mailbox)
    BY <1>1, <1>3, <2>2 DEF Kept
  <2> QED
    BY <2>1, <2>2
<1> QED
  BY <1>2, <1>3 DEF Send, Raise

\* The end of a slice wakes no ended process and no sleeper.
LEMMA EndSliceKeeps ==
  ASSUME TypeOK, EndSlice, NEW q \in DOMAIN procs \ {running}
  PROVE  Kept(q)
<1>1. Stored[q] = procs[q]
  BY MapTyped DEF Stored
<1>2. q \in Joiners \cup Listeners =>
        procs[q].status = "waiting" /\ procs[q].cond.on # "tick"
  <2>1. running # NoProc /\ Joined[q] = IF q \in Joiners THEN Woken(Stored[q]) ELSE Stored[q]
    BY DEF EndSlice, Joined
  <2>2. q \in Joiners => Waits(procs[q], OnProcess(running))
    BY <1>1 DEF Joiners
  <2>3. q \in Listeners /\ q \notin Joiners => Waits(procs[q], OnMessage)
    BY <1>1, <2>1 DEF Listeners
  <2> QED
    BY <2>2, <2>3, EndSliceStatus, DistinctConditions DEF Waits
<1> QED
  BY <1>1, <1>2, EndSliceStatus DEF Kept

\* A jump of the clock wakes the sleepers that are due, and nobody else.
LEMMA NextTickKeeps ==
  ASSUME TypeOK, NextTick, NEW q \in DOMAIN procs
  PROVE  Kept(q)
<1>1. CASE q \in Due
  <2>1. procs[q].status = "waiting" /\ procs[q].cond.on = "tick" /\ q \in Sleepers
    BY <1>1 DEF Due, Sleepers
  <2>2. procs[q].cond.tick \in Nat /\ procs[q].cond.tick <= Earliest
    BY <1>1, <2>1, MapTyped, Deadline DEF Due, Process
  <2>3. procs[q].cond.tick = Earliest
    BY <2>1, <2>2, EarliestIsLeast DEF NextTick
  <2> QED
    BY <2>1, <2>3 DEF NextTick, Kept
<1>2. CASE q \notin Due
  BY <1>2 DEF NextTick, Kept
<1> QED
  BY <1>1, <1>2

\* What no step does to an ended process or to a sleeper.
LEMMA NextKeeps ==
  ASSUME TypeOK, [Next]_vars, NEW q \in DOMAIN procs \ {running}
  PROVE  Kept(q)
<1>1. ASSUME UNCHANGED procs PROVE Kept(q)
  BY <1>1 DEF Kept
<1>2. CASE Spawn
  <2>1. CASE UNCHANGED procs
    BY <1>1, <2>1
  <2>2. CASE procs' = [p \in 0 .. Cardinality(DOMAIN procs) |->
                         IF p = Cardinality(DOMAIN procs) THEN NewProcess ELSE procs[p]]
    <3>1. q \in 0 .. Cardinality(DOMAIN procs) /\ q # Cardinality(DOMAIN procs)
      BY MapTyped
    <3>2. procs'[q] = procs[q]
      BY <2>2, <3>1
    <3> QED
      BY <3>2 DEF Kept
  <2> QED
    BY <1>2, <2>1, <2>2 DEF Spawn, Raise, Stop
<1>3. ASSUME NEW p \in DOMAIN procs, Cancel(p) \/ Link(p) \/ Unlink(p) PROVE Kept(q)
  <2>1. procs[p] \in Process
    BY MapTyped
  <2> QED
    BY <1>3, <2>1 DEF Cancel, Link, Unlink, Kept, Process
<1>4. CASE Local \/ Fault \/ StepLimit \/ Halt \/ Abort \/ Exit \/ Yield \/ Receive \/ ReceiveOpt
           \/ (\E t \in Tags : ReceiveMatch(t) \/ ReceiveMatchOpt(t))
           \/ (\E p \in DOMAIN procs : Join(p) \/ Monitor(p))
           \/ (\E ref \in cur.monitors : Demonitor(ref)) \/ (\E n \in Naps : Sleep(n))
  <2>1. UNCHANGED procs
    BY <1>4 DEF Local, Fault, StepLimit, Halt, Abort, Exit, Yield, Finish, Receive, ReceiveOpt,
       ReceiveMatch, ReceiveMatchOpt, TakeMatch, Take, Join, Monitor, Demonitor, Sleep, Raise, Stop
  <2> QED
    BY <1>1, <2>1
<1>5. CASE Dispatch \/ RootDone \/ AllDone \/ Deadlock \/ OutOfSteps \/ UNCHANGED vars
  BY <1>1, <1>5 DEF Dispatch, RootDone, AllDone, Deadlock, OutOfSteps, Stop, vars
<1> QED
  BY <1>2, <1>3, <1>4, <1>5, SendKeeps, EndSliceKeeps, NextTickKeeps
     DEF Next, Instruction, Loop, Returned

\* A process that ended is never revived: no message, notice, deadline or slice of
\* another process makes it ready again (updateProcess, wakeProcessWaiters).
THEOREM EndedStaysEnded == Spec => EndedForGood
<1>1. TypeOK /\ [Next]_vars =>
        [\A q \in DOMAIN procs \ {running} :
           procs[q].status \in Terminal => procs'[q].status \in {procs[q].status, "cancelled"}]_vars
  BY NextKeeps DEF Kept, Terminal
<1> QED
  BY <1>1, TypeCorrect, PTL DEF Spec, EndedForGood

\* A sleeper wakes at its deadline and at no other time: nothing but the clock's
\* jump to that deadline makes it ready (PROC_SLEEP_TICKS, logicalTick).
THEOREM SleepersWokenOnTime == Spec => WokenOnTime
<1>1. Woke /\ [Next]_vars =>
        [\A q \in Sleepers : procs'[q].status = "ready" => tick' = procs[q].cond.tick]_vars
  <2> SUFFICES ASSUME Woke, [Next]_vars, NEW q \in Sleepers, procs'[q].status = "ready"
               PROVE  tick' = procs[q].cond.tick
    OBVIOUS
  <2>1. q \in DOMAIN procs /\ procs[q].status = "waiting" /\ procs[q].cond.on = "tick"
    BY DEF Sleepers
  <2>2. q # running
    BY <2>1, MapTyped DEF Woke, QueueInv
  <2> QED
    BY <2>1, <2>2, NextKeeps DEF Kept, Woke
<1> QED
  BY <1>1, AlwaysWoke, PTL DEF Spec, WokenOnTime

---------------------------------------------------------------------------
(* The step budget *)

\* An instruction takes one step off the slice for every step it counts.
LEMMA InstructionBudget ==
  ASSUME TypeOK, StepBudget, Instruction
  PROVE  StepBudget'
<1>1. left \in Nat /\ steps \in Nat /\ running # NoProc /\ left > 0 /\ steps + left < MaxSteps + MaxSlice
  <2>1. ASSUME NEW op, NEW c, Executes(op, c) PROVE running # NoProc /\ left > 0
    BY <2>1 DEF Executes
  <2>2. running # NoProc /\ left > 0
    BY <2>1 DEF Instruction, Local, Fault, StepLimit, Halt, Abort, Exit, Yield, Spawn, Send,
       Receive, ReceiveOpt, ReceiveMatch, ReceiveMatchOpt, Join, Cancel, Link, Unlink, Monitor,
       Demonitor, Sleep, Finish
  <2> QED
    BY <2>2 DEF TypeOK, StepBudget
<1>2. ASSUME UNCHANGED <<running, steps, left>> PROVE StepBudget'
  BY <1>2 DEF StepBudget
<1>3. ASSUME NEW p, Retire(p) \/ Advance(p) \/ Block(p) PROVE StepBudget'
  <2>1. UNCHANGED running /\ steps' = steps + 1 /\ left' = left - 1
    BY <1>3 DEF Advance, Block, Retire
  <2> QED
    BY <1>1, <2>1, LimitsAssumption DEF StepBudget
<1>4. CASE Fault \/ StepLimit
  BY <1>2, <1>4 DEF Fault, StepLimit, Raise, Stop
<1>5. CASE Local \/ Halt \/ Abort \/ Exit \/ Yield
  BY <1>3, <1>5 DEF Local, Halt, Abort, Exit, Yield, Finish
<1>6. CASE Spawn \/ \E q \in DOMAIN procs, t \in Tags : Send(q, t)
  BY <1>2, <1>3, <1>6 DEF Spawn, Send, Raise, Stop
<1>7. CASE Receive \/ ReceiveOpt \/ \E t \in Tags : ReceiveMatch(t) \/ ReceiveMatchOpt(t)
  BY <1>3, <1>7 DEF Receive, ReceiveOpt, ReceiveMatch, ReceiveMatchOpt, TakeMatch, Take
<1>8. CASE \E q \in DOMAIN procs : Join(q) \/ Cancel(q) \/ Link(q) \/ Unlink(q) \/ Monitor(q)
  BY <1>3, <1>8 DEF Join, Cancel, Link, Unlink, Monitor
<1>9. CASE (\E ref \in cur.monitors : Demonitor(ref)) \/ \E n \in Naps : Sleep(n)
  BY <1>3, <1>9 DEF Demonitor, Sleep
<1> QED
  BY <1>4, <1>5, <1>6, <1>7, <1>8, <1>9 DEF Instruction

\* A slice is granted below the limit only.
LEMMA LoopBudget ==
  ASSUME TypeOK, StepBudget, Loop \/ UNCHANGED vars
  PROVE  StepBudget'
<1>1. left \in Nat /\ steps \in Nat
  BY DEF TypeOK
<1>2. CASE Dispatch
  BY <1>1, <1>2, LimitsAssumption DEF Dispatch, InBudget, StepBudget
<1>3. CASE EndSlice
  BY <1>1, <1>3 DEF EndSlice, StepBudget
<1>4. CASE NextTick \/ RootDone \/ AllDone \/ Deadlock \/ OutOfSteps \/ UNCHANGED vars
  BY <1>4 DEF NextTick, RootDone, AllDone, Deadlock, OutOfSteps, Stop, vars, StepBudget
<1> QED
  BY <1>2, <1>3, <1>4 DEF Loop

\* The run executes fewer than maxSteps + maxProcessStepsPerSlice instructions,
\* whatever the limits (the test of counters.steps between slices), as long as no
\* MACHINE_TRANSITION runs a function inside one step.
THEOREM BudgetHolds == Spec => []StepBudget
<1>1. Init => StepBudget
  BY LimitsAssumption DEF Init, StepBudget
<1>2. TypeOK /\ StepBudget /\ [Next]_vars => StepBudget'
  BY InstructionBudget, LoopBudget DEF Next, Returned
<1> QED
  BY <1>1, <1>2, TypeCorrect, PTL DEF Spec

---------------------------------------------------------------------------
(* The step counter *)

\* The steps each process has taken.
WorkOf == [q \in DOMAIN procs |-> View(q).steps]

\* The machine's counter is their sum: f sums them one process at a time.
WorkInv == \E f : Sums(f, WorkOf, Cardinality(DOMAIN procs)) /\ steps = f[Cardinality(DOMAIN procs)]

\* A step counts one for a process, or none; a new process has made none.
LEMMA WorkStep ==
  ASSUME TypeOK, TypeOK', WorkInv, NEW k \in Int, NEW d \in {0, 1}, d = 1 => k \in DOMAIN procs, steps' = steps + d,
         \/ DOMAIN procs' = DOMAIN procs
         \/ /\ DOMAIN procs' = 0 .. Cardinality(DOMAIN procs)
            /\ \A q \in DOMAIN procs' \ DOMAIN procs : View(q)'.steps = 0,
         \A q \in DOMAIN procs : View(q)'.steps = IF q = k THEN View(q).steps + d ELSE View(q).steps
  PROVE  WorkInv'
<1> DEFINE n == Cardinality(DOMAIN procs)
<1>1. n \in Nat /\ DOMAIN procs = 0 .. n - 1
  BY MapTyped
<1>0. \A q \in DOMAIN procs : View(q).steps \in Nat
  <2> SUFFICES ASSUME NEW q \in DOMAIN procs PROVE View(q).steps \in Nat
    OBVIOUS
  <2>1. \A p \in Process : p.steps \in Nat
    BY DEF Process
  <2>2. cur \in Process /\ procs[q] \in Process
    BY MapTyped DEF TypeOK
  <2> QED
    BY <2>1, <2>2 DEF View
<1>2. PICK m : m = n
  OBVIOUS
<1>3. PICK g : g = WorkOf
  OBVIOUS
<1>4. PICK f : Sums(f, g, m) /\ steps = f[m]
  BY <1>2, <1>3 DEF WorkInv
<1>5. PICK m2 : m2 = Cardinality(DOMAIN procs')
  OBVIOUS
<1>6. m \in Nat /\ m2 \in Nat /\ (m2 = m \/ m2 = m + 1) /\ m <= m2 /\ DOMAIN procs' = 0 .. m2 - 1 /\ DOMAIN procs = 0 .. m - 1
  <2>1. CASE DOMAIN procs' = DOMAIN procs
    BY <1>1, <1>2, <1>5, <2>1
  <2>2. CASE DOMAIN procs' = 0 .. n
    <3>1. Cardinality(0 .. n) = n + 1
      BY <1>1, FS_Interval
    <3> QED
      BY <1>1, <1>2, <1>5, <2>2, <3>1
  <2> QED
    BY <2>1, <2>2
<1>7. PICK g2 : g2 = WorkOf'
  OBVIOUS
<1>8. PICK f2 : Sums(f2, g2, m2)
  BY <1>6, SumsExist
<1>10. \A i \in 0 .. m - 1 : g[i] \in Int /\ g2[i] = IF i = k THEN g[i] + d ELSE g[i]
  <2> SUFFICES ASSUME NEW i \in 0 .. m - 1 PROVE g[i] \in Int /\ g2[i] = IF i = k THEN g[i] + d ELSE g[i]
    OBVIOUS
  <2>1. i \in DOMAIN procs /\ i \in DOMAIN procs'
    BY <1>6
  <2>2. g[i] = View(i).steps /\ g2[i] = View(i)'.steps
    BY <1>3, <1>7, <2>1 DEF WorkOf
  <2>3. View(i).steps \in Nat
    BY <1>0, <2>1
  <2> QED
    BY <2>1, <2>2, <2>3
<1>11. d \in Int /\ (d = 1 => 0 <= k /\ k < m)
  BY <1>6
<1>12. \A i \in 0 .. m : f[i] \in Int /\ f2[i] = IF 0 <= k /\ k < i THEN f[i] + d ELSE f[i]
  <2>1. m \in Nat /\ m2 \in Nat /\ m <= m2 /\ k \in Int /\ d \in Int /\ Sums(f, g, m) /\ Sums(f2, g2, m2)
    BY <1>4, <1>6, <1>8, <1>11
  <2> HIDE DEF n
  <2> QED
    BY <2>1, <1>10, SumsDiffer, SMTT(60)
<1>13. f2[m] = steps + d /\ f[m] \in Int
  <2>1. m \in 0 .. m
    BY <1>6
  <2> QED
    BY <1>4, <1>11, <1>12, <2>1
<1>14. f2[m2] = steps'
  <2>1. CASE m2 = m
    BY <1>13, <2>1
  <2>2. CASE m2 = m + 1
    <3>1. \A i \in 0 .. m2 : f2[i] = IF i = 0 THEN 0 ELSE f2[i - 1] + g2[i - 1]
      BY <1>8, Zenon DEF Sums
    <3>2. f2[m2] = f2[m] + g2[m]
      <4>1. m2 \in 0 .. m2 /\ m2 # 0 /\ m2 - 1 = m
        BY <1>6, <2>2
      <4> QED
        BY <3>1, <4>1
    <3>3. m \in DOMAIN procs' \ DOMAIN procs
      BY <1>6, <2>2
    <3>4. g2[m] = View(m)'.steps
      BY <1>7, <3>3 DEF WorkOf
    <3>5. DOMAIN procs' # DOMAIN procs
      BY <3>3, <1>6
    <3>6. View(m)'.steps = 0
      BY <3>3, <3>5
    <3> QED
      BY <1>13, <2>2, <3>2, <3>4, <3>6
  <2> QED
    BY <1>6, <2>1, <2>2
<1> QED
  BY <1>5, <1>7, <1>8, <1>14 DEF WorkInv

\* What a step of the running process counts.
LEMMA RetireCounts ==
  ASSUME TypeOK, NEW p, DOMAIN p = DOMAIN cur, p.steps = cur.steps, Retire(p) \/ Advance(p)
  PROVE  cur'.steps = cur.steps + 1 /\ running' = running /\ steps' = steps + 1
<1>1. "steps" \in DOMAIN cur
  BY DEF TypeOK, Process
<1>2. /\ DOMAIN [p EXCEPT !.cond = NoCond] = DOMAIN cur
      /\ [p EXCEPT !.cond = NoCond].steps = cur.steps
  BY <1>1
<1>3. PICK p2 : Retire(p2) /\ DOMAIN p2 = DOMAIN cur /\ p2.steps = cur.steps
  BY <1>2 DEF Advance
<1> QED
  BY <1>1, <1>3 DEF Retire

\* A step counted for the running process, which leaves the others' counts alone.
LEMMA CountedOnce ==
  ASSUME TypeOK, TypeOK', WorkInv, running # NoProc, NEW p, DOMAIN p = DOMAIN cur, p.steps = cur.steps,
         Retire(p) \/ Advance(p),
         DOMAIN procs' = DOMAIN procs, \A q \in DOMAIN procs : procs'[q].steps = procs[q].steps
  PROVE  WorkInv'
<1>1. running \in DOMAIN procs /\ cur'.steps = cur.steps + 1 /\ running' = running /\ steps' = steps + 1
  BY RetireCounts DEF TypeOK
<1>2. \A q \in DOMAIN procs : View(q)'.steps = IF q = running THEN View(q).steps + 1 ELSE View(q).steps
  BY <1>1 DEF View
<1>3. PICK k, d : k = running /\ d = 1
  OBVIOUS
<1>5. k \in Int
  BY <1>1, <1>3, MapTyped
<1>4. /\ d \in {0, 1} /\ (d = 1 => k \in DOMAIN procs) /\ steps' = steps + d
      /\ \A q \in DOMAIN procs : View(q)'.steps = IF q = k THEN View(q).steps + d ELSE View(q).steps
  BY <1>1, <1>2, <1>3
<1> QED
  BY <1>4, <1>5, WorkStep

\* A step that counts nothing.
LEMMA CountedNone ==
  ASSUME TypeOK, TypeOK', WorkInv, steps' = steps, DOMAIN procs' = DOMAIN procs,
         \A q \in DOMAIN procs : View(q)'.steps = View(q).steps
  PROVE  WorkInv'
<1>1. PICK k, d : k = 0 /\ d = 0
  OBVIOUS
<1>2. /\ d \in {0, 1} /\ (d = 1 => k \in DOMAIN procs) /\ steps' = steps + d
      /\ \A q \in DOMAIN procs : View(q)'.steps = IF q = k THEN View(q).steps + d ELSE View(q).steps
  <2>1. steps \in Nat /\ \A q \in DOMAIN procs : View(q).steps \in Nat
    BY MapTyped DEF View, TypeOK, Process
  <2> QED
    BY <1>1, <2>1
<1>3. k \in Int
  BY <1>1
<1> QED
  BY <1>2, <1>3, WorkStep

\* An instruction that keeps the process map counts one step, or stops the run.
LEMMA OwnWork ==
  ASSUME TypeOK, TypeOK', WorkInv, running # NoProc, procs' = procs,
         \/ \E p : Advance(p) /\ DOMAIN p = DOMAIN cur /\ p.steps = cur.steps
         \/ \E p : Retire(p) /\ DOMAIN p = DOMAIN cur /\ p.steps = cur.steps
         \/ \E c : Block(c)
  PROVE  WorkInv'
<1>1. ASSUME NEW c PROVE LET p == [cur EXCEPT !.status = "waiting", !.cond = c]
                         IN DOMAIN p = DOMAIN cur /\ p.steps = cur.steps
  BY DEF TypeOK, Process
<1>2. PICK p : DOMAIN p = DOMAIN cur /\ p.steps = cur.steps /\ (Retire(p) \/ Advance(p))
  BY <1>1 DEF Block
<1>3. DOMAIN procs' = DOMAIN procs /\ \A q \in DOMAIN procs : procs'[q].steps = procs[q].steps
  OBVIOUS
<1> QED
  BY <1>2, <1>3, CountedOnce

\* The run stops and nothing else changes.
LEMMA StopWork ==
  ASSUME WorkInv, UNCHANGED <<procs, running, cur, steps>>
  PROVE  WorkInv'
<1>1. WorkOf' = WorkOf
  BY DEF WorkOf, View
<1>2. PICK g, n : g = WorkOf /\ n = Cardinality(DOMAIN procs)
  OBVIOUS
<1>3. PICK f : Sums(f, g, n) /\ steps = f[n]
  BY <1>2 DEF WorkInv
<1> QED
  BY <1>1, <1>2, <1>3 DEF WorkInv

\* A new process has taken no step.
LEMMA SpawnWork ==
  ASSUME TypeOK, TypeOK', WorkInv, Spawn
  PROVE  WorkInv'
<1> DEFINE n == Cardinality(DOMAIN procs)
<1>1. CASE Raise("InvalidInstruction")
  BY <1>1, StopWork DEF Raise, Stop
<1>2. CASE /\ procs' = [q \in 0 .. n |-> IF q = n THEN NewProcess ELSE procs[q]]
           /\ Advance(cur)
  <2>1. running \in DOMAIN procs /\ cur'.steps = cur.steps + 1 /\ running' = running /\ steps' = steps + 1
    <3>1. DOMAIN cur = DOMAIN cur /\ cur.steps = cur.steps
      OBVIOUS
    <3> QED
      BY <1>2, <3>1, RetireCounts DEF TypeOK, Spawn, Executes
  <2>2. n \in Nat /\ DOMAIN procs = 0 .. n - 1 /\ DOMAIN procs' = 0 .. n /\ running \in Int
    BY <1>2, <2>1, MapTyped
  <2>3. \A q \in DOMAIN procs' \ DOMAIN procs : View(q)'.steps = 0
    BY <1>2, <2>1, <2>2 DEF View, NewProcess
  <2>4. \A q \in DOMAIN procs : View(q)'.steps = IF q = running THEN View(q).steps + 1 ELSE View(q).steps
    BY <1>2, <2>1, <2>2 DEF View
  <2>5. PICK k, d : k = running /\ d = 1
    OBVIOUS
  <2>6. /\ k \in Int /\ d \in {0, 1} /\ (d = 1 => k \in DOMAIN procs) /\ steps' = steps + d
        /\ \A q \in DOMAIN procs : View(q)'.steps = IF q = k THEN View(q).steps + d ELSE View(q).steps
    BY <2>1, <2>2, <2>4, <2>5
  <2> QED
    BY <2>2, <2>3, <2>6, WorkStep
<1> QED
  BY <1>1, <1>2 DEF Spawn

\* A message sent, or a wake-up, leaves every count alone.
LEMMA SendWork ==
  ASSUME TypeOK, TypeOK', WorkInv, NEW q \in DOMAIN procs, NEW t \in Tags, Send(q, t)
  PROVE  WorkInv'
<1> DEFINE message == [tag |-> t, from |-> running, id |-> steps + 1]
           mailbox == Deposit(procs[q].mailbox, message)
           wakes   == WakesMailbox(procs[q], mailbox)
           filled  == [procs[q] EXCEPT !.mailbox = mailbox]
<1>1. CASE Raise("MailboxTooLarge")
  BY <1>1, StopWork DEF Raise, Stop
<1>2. CASE procs' = [procs EXCEPT ![q] = IF wakes THEN Woken(filled) ELSE filled] /\ Advance(cur)
  <2>1. procs[q] \in Process
    BY MapTyped
  <2>2. filled.steps = procs[q].steps /\ Woken(filled).steps = procs[q].steps
    <3> HIDE DEF mailbox
    <3> QED
      BY <2>1 DEF Process, Woken
  <2>3. DOMAIN procs' = DOMAIN procs /\ \A r \in DOMAIN procs : procs'[r].steps = procs[r].steps
    <3> HIDE DEF filled, wakes
    <3> QED
      BY <1>2, <2>2
  <2>4. running # NoProc /\ DOMAIN cur = DOMAIN cur /\ cur.steps = cur.steps
    BY DEF Send, Executes
  <2> QED
    BY <1>2, <2>3, <2>4, CountedOnce
<1> QED
  BY <1>1, <1>2 DEF Send

\* PROC_CANCEL, PROC_LINK and PROC_UNLINK write the other's record, not its count.
LEMMA LinkWork ==
  ASSUME TypeOK, TypeOK', WorkInv, NEW q \in DOMAIN procs, Cancel(q) \/ Link(q) \/ Unlink(q)
  PROVE  WorkInv'
<1>1. procs[q] \in Process /\ cur \in Process /\ running # NoProc
  BY MapTyped DEF TypeOK, Cancel, Link, Unlink, Executes
<1>2. DOMAIN procs' = DOMAIN procs
  BY DEF Cancel, Link, Unlink
<1>3. \A r \in DOMAIN procs : procs'[r].steps = procs[r].steps
  <2>1. CASE Cancel(q)
    BY <1>1, <2>1 DEF Cancel, Process
  <2>2. CASE Link(q)
    BY <1>1, <2>2 DEF Link, Process
  <2>3. CASE Unlink(q)
    BY <1>1, <2>3 DEF Unlink, Process
  <2> QED
    BY <2>1, <2>2, <2>3
<1>4. \E p : Advance(p) /\ DOMAIN p = DOMAIN cur /\ p.steps = cur.steps
  <2>1. CASE Cancel(q)
    BY <2>1 DEF Cancel
  <2>2. CASE Link(q)
    BY <1>1, <2>2 DEF Link, Process
  <2>3. CASE Unlink(q)
    BY <1>1, <2>3 DEF Unlink, Process
  <2> QED
    BY <2>1, <2>2, <2>3
<1> QED
  BY <1>1, <1>2, <1>3, <1>4, CountedOnce

\* Every instruction counts one step for the process that runs it.
LEMMA InstructionWork ==
  ASSUME TypeOK, TypeOK', WorkInv, Instruction
  PROVE  WorkInv'
<1>1. cur \in Process
  BY DEF TypeOK
<1>2. CASE Fault \/ StepLimit
  BY <1>2, StopWork DEF Fault, StepLimit, Raise, Stop
<1>3. ASSUME running # NoProc, procs' = procs,
             \/ Advance(cur)
             \/ \E c : Block(c)
             \/ \E s : Retire([cur EXCEPT !.status = s]) \/ Advance([cur EXCEPT !.status = s])
             \/ \E m : Advance([cur EXCEPT !.mailbox = m]) \/ Advance([cur EXCEPT !.monitors = m])
      PROVE  WorkInv'
  <2>1. \A s : LET p == [cur EXCEPT !.status = s] IN DOMAIN p = DOMAIN cur /\ p.steps = cur.steps
    BY <1>1 DEF Process
  <2>2. \A m : LET p == [cur EXCEPT !.mailbox = m] IN DOMAIN p = DOMAIN cur /\ p.steps = cur.steps
    BY <1>1 DEF Process
  <2>3. \A m : LET p == [cur EXCEPT !.monitors = m] IN DOMAIN p = DOMAIN cur /\ p.steps = cur.steps
    BY <1>1 DEF Process
  <2>4. \/ \E p : Advance(p) /\ DOMAIN p = DOMAIN cur /\ p.steps = cur.steps
        \/ \E p : Retire(p) /\ DOMAIN p = DOMAIN cur /\ p.steps = cur.steps
        \/ \E c : Block(c)
    BY <1>3, <2>1, <2>2, <2>3
  <2> QED
    BY <1>3, <2>4, OwnWork
<1>4. CASE Local \/ Halt \/ Abort \/ Exit \/ Yield
  BY <1>3, <1>4 DEF Local, Halt, Abort, Exit, Yield, Finish, Executes
<1>5. CASE Spawn
  BY <1>5, SpawnWork
<1>6. CASE \E q \in DOMAIN procs, t \in Tags : Send(q, t)
  BY <1>6, SendWork
<1>7. CASE Receive \/ ReceiveOpt \/ \E t \in Tags : ReceiveMatch(t) \/ ReceiveMatchOpt(t)
  BY <1>3, <1>7 DEF Receive, ReceiveOpt, ReceiveMatch, ReceiveMatchOpt, TakeMatch, Take, Executes
<1>8. CASE \E q \in DOMAIN procs : Join(q) \/ Monitor(q)
  BY <1>3, <1>8 DEF Join, Monitor, Executes
<1>9. CASE \E q \in DOMAIN procs : Cancel(q) \/ Link(q) \/ Unlink(q)
  BY <1>9, LinkWork
<1>10. CASE (\E ref \in cur.monitors : Demonitor(ref)) \/ \E n \in Naps : Sleep(n)
  BY <1>3, <1>10 DEF Demonitor, Sleep, Executes
<1> QED
  BY <1>2, <1>4, <1>5, <1>6, <1>7, <1>8, <1>9, <1>10 DEF Instruction

\* The loop moves records in and out of the map; it counts nothing.
LEMMA LoopWork ==
  ASSUME TypeOK, TypeOK', WorkInv, Loop \/ UNCHANGED vars
  PROVE  WorkInv'
<1>1. \A p \in Process : Woken(p).steps = p.steps
  BY DEF Woken, Process
<1>2. \A q \in DOMAIN procs : procs[q] \in Process
  BY MapTyped
<1>3. CASE Dispatch
  <2>1. running = NoProc /\ procs' = procs /\ cur' = procs[running'] /\ steps' = steps
    BY <1>3 DEF Dispatch
  <2>2. \A q \in DOMAIN procs : View(q)'.steps = View(q).steps
    BY <2>1, MapTyped DEF View
  <2> QED
    BY <2>1, <2>2, CountedNone
<1>4. CASE EndSlice
  <2>1. running # NoProc /\ running' = NoProc /\ steps' = steps
    BY <1>4 DEF EndSlice
  <2>2. /\ running \in Pid /\ Stored \in [DOMAIN procs -> Process] /\ Joined \in [DOMAIN procs -> Process]
    BY <2>1, JoinedTyped
  <2>3. \A q \in DOMAIN procs : Stored[q].steps = View(q).steps
    BY DEF Stored, View
  <2>4. \A q \in DOMAIN procs : Joined[q].steps = Stored[q].steps
    <3>1. \A q \in DOMAIN procs : Stored[q] \in Process
      BY <2>2
    <3> QED
      BY <1>1, <3>1 DEF Joined
  <2>5. \A q \in DOMAIN procs : Joined[q] \in Process
    BY <2>2
  <2>6. \A q \in DOMAIN procs : Notified(Joined[q], running).steps = Joined[q].steps
    BY <2>2, <2>5, NotifiedIsProcess
  <2>7. DOMAIN procs' = DOMAIN procs /\ \A q \in DOMAIN procs : procs'[q].steps = Joined[q].steps
    BY <1>4, <2>6 DEF EndSlice
  <2>8. \A q \in DOMAIN procs : View(q)'.steps = View(q).steps
    <3> SUFFICES ASSUME NEW q \in DOMAIN procs PROVE View(q)'.steps = View(q).steps
      OBVIOUS
    <3>1. View(q)' = procs'[q]
      BY <2>1, MapTyped DEF View
    <3> QED
      BY <2>3, <2>4, <2>7, <3>1
  <2> QED
    BY <2>1, <2>7, <2>8, CountedNone
<1>5. CASE NextTick
  <2>1. running = NoProc /\ running' = running /\ steps' = steps /\ cur' = cur
    BY <1>5 DEF NextTick, Idle
  <2>2. DOMAIN procs' = DOMAIN procs /\ \A q \in DOMAIN procs : procs'[q].steps = procs[q].steps
    BY <1>1, <1>2, <1>5 DEF NextTick
  <2>3. \A q \in DOMAIN procs : View(q)'.steps = View(q).steps
    BY <2>1, <2>2 DEF View
  <2> QED
    BY <2>1, <2>2, <2>3, CountedNone
<1>6. CASE RootDone \/ AllDone \/ Deadlock \/ OutOfSteps \/ UNCHANGED vars
  BY <1>6, StopWork DEF RootDone, AllDone, Deadlock, OutOfSteps, Stop, vars
<1> QED
  BY <1>3, <1>4, <1>5, <1>6 DEF Loop

\* At the start no process has taken a step.
LEMMA InitWork == ASSUME Init PROVE WorkInv
<1>1. DOMAIN procs = {0} /\ View(0).steps = 0 /\ steps = 0
  BY DEF Init, View, NewProcess, NoProc, Root
<1>2. Cardinality(DOMAIN procs) = 1
  BY <1>1, FS_Singleton
<1>3. PICK g : g = WorkOf
  OBVIOUS
<1>4. PICK f : Sums(f, g, 1)
  BY SumsExist
<1>5. \A i \in 0 .. 1 : f[i] = IF i = 0 THEN 0 ELSE f[i - 1] + g[i - 1]
  BY <1>4, Zenon DEF Sums
<1>6. g[0] = 0
  BY <1>1, <1>3 DEF WorkOf
<1>7. f[0] = 0
  BY <1>5
<1>8. f[1] = f[0] + g[0]
  BY <1>5
<1> QED
  BY <1>1, <1>2, <1>3, <1>4, <1>6, <1>7, <1>8 DEF WorkInv

\* The sum is the one the property names.
LEMMA WorkIsCounted ==
  ASSUME TypeOK, WorkInv
  PROVE  StepsAccounted
<1>1. PICK n : n = Cardinality(DOMAIN procs)
  OBVIOUS
<1>2. PICK g : g = WorkOf
  OBVIOUS
<1>3. PICK f : Sums(f, g, n) /\ steps = f[n]
  BY <1>1, <1>2 DEF WorkInv
<1>4. n \in Nat /\ DOMAIN procs = 0 .. n - 1
  BY <1>1, MapTyped
<1>5. \A i \in 0 .. n - 1 : g[i] = View(i).steps
  BY <1>2, <1>4 DEF WorkOf
<1>6. \A i \in 0 .. n : f[i] = IF i = 0 THEN 0 ELSE f[i - 1] + g[i - 1]
  BY <1>3, Zenon DEF Sums
<1>7. \A i \in 0 .. n : f[i] = IF i = 0 THEN 0 ELSE f[i - 1] + View(i - 1).steps
  BY <1>4, <1>5, <1>6
<1> DEFINE Counts(h) == h = [i \in 0 .. n |-> IF i = 0 THEN 0 ELSE h[i - 1] + View(i - 1).steps]
           c == CHOOSE h : Counts(h)
<1>8. Counts(f)
  <2>1. f = [i \in 0 .. n |-> f[i]]
    BY <1>3, Zenon DEF Sums
  <2> QED
    BY <1>7, <2>1
<1>9. Counts(c)
  <2> HIDE DEF Counts
  <2> QED
    BY <1>8
<1>10. Sums(c, g, n)
  <2> HIDE DEF c
  <2>1. c = [i \in 0 .. n |-> IF i = 0 THEN 0 ELSE c[i - 1] + View(i - 1).steps]
    BY <1>9
  <2>2. \A i \in 0 .. n : i # 0 => View(i - 1).steps = g[i - 1]
    BY <1>4, <1>5
  <2>3. \A i \in 0 .. n : (IF i = 0 THEN 0 ELSE c[i - 1] + View(i - 1).steps) = (IF i = 0 THEN 0 ELSE c[i - 1] + g[i - 1])
    BY <2>2
  <2> QED
    BY <2>1, <2>3 DEF Sums
<1>11. \A i \in 0 .. n - 1 : g[i] \in Int /\ g[i] = IF i = 0 - 1 THEN g[i] + 0 ELSE g[i]
  <2>1. \A p \in Process : p.steps \in Int
    BY DEF Process
  <2>2. cur \in Process /\ \A q \in DOMAIN procs : procs[q] \in Process
    BY MapTyped DEF TypeOK
  <2> QED
    BY <1>4, <1>5, <2>1, <2>2 DEF View
<1>12. c[n] = f[n]
  <2> HIDE DEF c
  <2>1. PICK k, d : k = 0 - 1 /\ d = 0
    OBVIOUS
  <2>2. /\ k \in Int /\ d \in Int /\ n <= n
        /\ \A i \in 0 .. n - 1 : g[i] \in Int /\ g[i] = IF i = k THEN g[i] + d ELSE g[i]
    BY <1>4, <1>11, <2>1
  <2>3. \A i \in 0 .. n : f[i] \in Int /\ c[i] = IF 0 <= k /\ k < i THEN f[i] + d ELSE f[i]
    BY <1>3, <1>4, <1>10, <2>2, SumsDiffer, SMTT(60)
  <2>4. n \in 0 .. n /\ ~(0 <= k)
    BY <1>4, <2>1
  <2> QED
    BY <2>3, <2>4
<1> QED
  BY <1>1, <1>3, <1>12 DEF StepsAccounted

\* The machine's step counter is the sum of the processes' counters: no step is
\* charged to two processes, or to none, and no wake-up, notice or write into
\* another's record resets a count (stepProcess, Interpreter.purs).
THEOREM StepsAddUp == Spec => []StepsAccounted
<1>1. Init => WorkInv
  BY InitWork
<1>2. TypeOK /\ TypeOK' /\ WorkInv /\ [Next]_vars => WorkInv'
  BY InstructionWork, LoopWork DEF Next, Returned
<1>3. TypeOK /\ WorkInv => StepsAccounted
  BY WorkIsCounted
<1> QED
  BY <1>1, <1>2, <1>3, TypeCorrect, PTL DEF Spec

=============================================================================
