----------------------- MODULE ProcessSchedulerProofs -----------------------
(***************************************************************************)
(* Proofs about ProcessScheduler, for any number of processes, mailbox and  *)
(* step limits, slices, programs and key order.                             *)
(***************************************************************************)
EXTENDS ProcessScheduler, SequenceLemmas

---------------------------------------------------------------------------
(* What the helpers return *)

\* The conditions an instruction blocks on are conditions.
LEMMA Conditions ==
  /\ NoCond \in Cond /\ OnMessage \in Cond
  /\ \A t \in Tags : OnMatch(t) \in Cond
  /\ \A q \in Pid : OnProcess(q) \in Cond
  /\ \A n \in Nat : OnTick(n) \in Cond
BY DEF NoCond, OnMessage, OnMatch, OnProcess, OnTick, Cond, Retried

\* Only a sleeper's condition has a deadline, which is a number.
LEMMA Deadline ==
  ASSUME NEW c \in Cond, c.on = "tick"
  PROVE  c.tick \in Nat
BY DEF Cond, NoCond, OnMessage, Retried

\* Waking a process makes it ready and changes nothing else it holds.
LEMMA WokenIsProcess ==
  ASSUME NEW p \in Process
  PROVE  /\ Woken(p) \in Process
         /\ Woken(p).status = "ready"
         /\ Woken(p).mailbox = p.mailbox
         /\ Woken(p).monitors = p.monitors
         /\ Woken(p).links = p.links
         /\ Woken(p).steps = p.steps
BY Conditions DEF Woken, Process, Status

\* A spawned process starts with a record of the right shape.
LEMMA NewProcessIsProcess == NewProcess \in Process
<1>1. {} \in {m \in SUBSET Ref : IsFiniteSet(m)}
  BY FS_EmptySet
<1> QED
  BY <1>1, Conditions DEF NewProcess, Process, Status

\* The DOWN notices to one observer: one message for each reference.
LEMMA DownsListRefs ==
  ASSUME NEW p \in Process, NEW d \in Pid
  PROVE  /\ Downs(p, d) \in Seq(Message)
         /\ \A k \in DOMAIN Downs(p, d) : Downs(p, d)[k].tag = "DOWN"
<1> DEFINE W == RefsTo(p, d)
           key == [r \in W |-> r.id]
           refs == InOrder(W, key)
<1>1. p.monitors \in SUBSET Ref /\ IsFiniteSet(p.monitors)
  BY DEF Process
<1>2. W \in SUBSET Ref /\ IsFiniteSet(W) /\ \A r \in W : r.pid = d
  BY <1>1, FS_Subset DEF RefsTo
<1>3. \A r \in W : key[r] \in Int
  BY <1>2 DEF Ref
<1>4. \A r, s \in W : key[r] = key[s] => r = s
  BY <1>2 DEF Ref
<1>5. refs \in Seq(W)
  <2> HIDE DEF W, key
  <2> QED
    BY <1>2, <1>3, <1>4, InOrderLists
<1> HIDE DEF refs, key
<1>6. refs \in Seq(Ref)
  BY <1>2, <1>5, SeqMonotonic
<1>7. Len(refs) \in Nat /\ DOMAIN refs = 1 .. Len(refs)
  BY <1>6, LenProperties
<1>8. \A k \in 1 .. Len(refs) : refs[k] \in Ref
  BY <1>6, ElementOfSeq
<1> DEFINE notice(k) == [tag |-> "DOWN", from |-> d, id |-> refs[k].id]
<1>9. \A k \in 1 .. Len(refs) : notice(k) \in Message
  BY <1>8, ProgramAssumption DEF Ref, Message
<1>10. Downs(p, d) = [k \in 1 .. Len(refs) |-> notice(k)]
  BY <1>7 DEF Downs, refs, key
<1>11. Downs(p, d) \in [1 .. Len(refs) -> Message]
  BY <1>9, <1>10
<1>12. Downs(p, d) \in Seq(Message)
  BY <1>7, <1>11, FunctionIsSeq
<1> QED
  BY <1>10, <1>12

\* Telling an observer leaves it a process, ready or as it was.
LEMMA NotifiedIsProcess ==
  ASSUME NEW p \in Process, NEW d \in Pid
  PROVE  /\ Notified(p, d) \in Process
         /\ Notified(p, d).status = IF Waits(p, OnMessage) THEN "ready" ELSE p.status
         /\ ~Waits(p, OnMessage) => Notified(p, d).cond = p.cond
         /\ Notified(p, d).mailbox = p.mailbox \o Downs(p, d)
         /\ Notified(p, d).monitors = p.monitors \ RefsTo(p, d)
         /\ Notified(p, d).links = p.links
         /\ Notified(p, d).steps = p.steps
<1> DEFINE told == [p EXCEPT !.mailbox = @ \o Downs(p, d), !.monitors = @ \ RefsTo(p, d)]
<1>1. p.mailbox \o Downs(p, d) \in Seq(Message)
  BY DownsListRefs, ConcatProperties DEF Process
<1>2. p.monitors \ RefsTo(p, d) \in {m \in SUBSET Ref : IsFiniteSet(m)}
  <2>1. p.monitors \in SUBSET Ref /\ IsFiniteSet(p.monitors)
    BY DEF Process
  <2>2. p.monitors \ RefsTo(p, d) \in SUBSET p.monitors
    OBVIOUS
  <2> QED
    BY <2>1, <2>2, FS_Subset
<1>3. /\ told \in Process /\ told.status = p.status /\ told.cond = p.cond /\ told.links = p.links /\ told.steps = p.steps
      /\ told.mailbox = p.mailbox \o Downs(p, d) /\ told.monitors = p.monitors \ RefsTo(p, d)
  BY <1>1, <1>2 DEF Process
<1>4. Notified(p, d) = IF Waits(p, OnMessage) THEN Woken(told) ELSE told
  BY DEF Notified
<1> HIDE DEF told
<1> QED
  BY <1>3, <1>4, WokenIsProcess

---------------------------------------------------------------------------
(* Type correctness *)

\* A step of the running process keeps everything but the map and the queue well typed.
LEMMA RetireTyped ==
  ASSUME TypeOK, NEW p \in Process, Retire(p), left > 0
  PROVE  /\ program' \in SUBSET Instructions /\ outcome' = outcome
         /\ running' = running /\ tick' \in Nat /\ steps' \in Nat
         /\ left' \in 0 .. MaxSlice /\ cur' \in Process
<1>1. cur' = [p EXCEPT !.steps = @ + 1] /\ cur' \in Process
  BY DEF Retire, Process
<1>2. left \in 0 .. MaxSlice /\ steps \in Nat /\ left' = left - 1 /\ steps' = steps + 1
  BY DEF TypeOK, Retire
<1>3. left' \in 0 .. MaxSlice /\ steps' \in Nat
  BY <1>2, LimitsAssumption
<1> QED
  BY <1>1, <1>3 DEF TypeOK, Retire

\* The same of a step that also moves the program counter on.
LEMMA AdvanceTyped ==
  ASSUME TypeOK, NEW p \in Process, Advance(p), left > 0
  PROVE  /\ program' \in SUBSET Instructions /\ outcome' = outcome
         /\ running' = running /\ tick' \in Nat /\ steps' \in Nat
         /\ left' \in 0 .. MaxSlice /\ cur' \in Process
<1>1. [p EXCEPT !.cond = NoCond] \in Process
  BY Conditions DEF Process
<1> QED
  BY <1>1, RetireTyped DEF Advance

\* The same of a step that leaves the process waiting.
LEMMA BlockTyped ==
  ASSUME TypeOK, NEW c \in Cond, Block(c), left > 0
  PROVE  /\ program' \in SUBSET Instructions /\ outcome' = outcome
         /\ running' = running /\ tick' \in Nat /\ steps' \in Nat
         /\ left' \in 0 .. MaxSlice /\ cur' \in Process
<1>1. [cur EXCEPT !.status = "waiting", !.cond = c] \in Process
  BY DEF TypeOK, Process, Status
<1> QED
  BY <1>1, RetireTyped DEF Block

\* What the loop and the instructions do to the map keeps its domain or adds one process.
LEMMA MapTyped ==
  ASSUME TypeOK
  PROVE  /\ IsFiniteSet(DOMAIN procs) /\ DOMAIN procs \subseteq Pid
         /\ \A q \in DOMAIN procs : procs[q] \in Process
         /\ Root \in DOMAIN procs
         /\ NoProc \notin DOMAIN procs
         /\ Cardinality(DOMAIN procs) \in 1 .. MaxProcesses
         /\ DOMAIN procs = 0 .. Cardinality(DOMAIN procs) - 1
         /\ procs \in [DOMAIN procs -> Process]
<1>1. PICK n \in 1 .. MaxProcesses : procs \in [0 .. n - 1 -> Process]
  BY DEF TypeOK
<1>2. IsFiniteSet(0 .. n - 1) /\ Cardinality(0 .. n - 1) = n
  BY FS_Interval
<1> QED
  BY <1>1, <1>2, LimitsAssumption DEF Pid, Root, NoProc

\* A map on the same processes is a process map.
LEMMA SameDomain ==
  ASSUME TypeOK, NEW f \in [DOMAIN procs -> Process]
  PROVE  \E n \in 1 .. MaxProcesses : f \in [0 .. n - 1 -> Process]
<1>1. PICK n \in 1 .. MaxProcesses : procs \in [0 .. n - 1 -> Process]
  BY DEF TypeOK
<1> QED
  BY <1>1

\* The first process alone, queued.
LEMMA InitTyped == Init => TypeOK
<1> SUFFICES ASSUME Init PROVE TypeOK
  OBVIOUS
<1>1. program \in SUBSET Instructions
  BY ProgramAssumption DEF Init
<1>2. procs \in [0 .. 1 - 1 -> Process] /\ DOMAIN procs = {Root}
  BY NewProcessIsProcess DEF Init, Root
<1>3. 1 \in 1 .. MaxProcesses
  BY LimitsAssumption
<1>4. ready \in Seq(DOMAIN procs)
  BY <1>2 DEF Init
<1>5. left \in 0 .. MaxSlice /\ unread \subseteq Pid \X Nat
  BY LimitsAssumption DEF Init
<1> QED
  BY <1>1, <1>2, <1>3, <1>4, <1>5, NewProcessIsProcess DEF Init, TypeOK

\* The actions of one process that touch neither the map, nor the queue, nor the ghost.
LEMMA OwnStepTyped ==
  ASSUME TypeOK, UNCHANGED <<procs, ready>>, unread' \subseteq unread, left > 0,
         \/ \E p \in Process : Retire(p) \/ Advance(p)
         \/ \E c \in Cond : Block(c)
  PROVE  TypeOK'
<1>1. /\ program' \in SUBSET Instructions /\ outcome' = outcome
      /\ running' = running /\ tick' \in Nat /\ steps' \in Nat
      /\ left' \in 0 .. MaxSlice /\ cur' \in Process
  BY RetireTyped, AdvanceTyped, BlockTyped
<1> QED
  BY <1>1 DEF TypeOK

\* Those that also write the map, the queue and the ghost.
LEMMA SharedStepTyped ==
  ASSUME TypeOK, NEW p \in Process, Advance(p), left > 0,
         procs' \in [DOMAIN procs -> Process], ready' \in Seq(DOMAIN procs),
         unread' \subseteq Pid \X Nat
  PROVE  TypeOK'
<1>1. /\ program' \in SUBSET Instructions /\ outcome' = outcome
      /\ running' = running /\ tick' \in Nat /\ steps' \in Nat
      /\ left' \in 0 .. MaxSlice /\ cur' \in Process
  BY AdvanceTyped
<1>2. (\E n \in 1 .. MaxProcesses : procs \in [0 .. n - 1 -> Process])'
  BY SameDomain
<1>3. DOMAIN procs' = DOMAIN procs
  OBVIOUS
<1> QED
  BY <1>1, <1>2, <1>3 DEF TypeOK

\* A run that returns, with a result or an error, changes nothing else.
LEMMA StopTyped ==
  ASSUME TypeOK, NEW result \in {"done", "fault", "StepLimitExceeded", "InvalidInstruction",
                                 "MailboxTooLarge", "ProcessDeadlock"}, Stop(result)
  PROVE  TypeOK'
BY DEF TypeOK, Stop

\* The four receives: what they take out of the mailbox leaves a mailbox.
LEMMA ReceiveTyped ==
  ASSUME TypeOK, Receive \/ ReceiveOpt \/ \E t \in Tags : ReceiveMatch(t) \/ ReceiveMatchOpt(t)
  PROVE  TypeOK'
<1>1. left > 0 /\ cur \in Process /\ cur.mailbox \in Seq(Message)
  BY DEF TypeOK, Process, Receive, ReceiveOpt, ReceiveMatch, ReceiveMatchOpt, Executes
<1>2. ASSUME NEW message, NEW mailbox \in Seq(Message), Take(message, mailbox) PROVE TypeOK'
  <2>1. [cur EXCEPT !.mailbox = mailbox] \in Process
    BY <1>1 DEF Process
  <2> QED
    BY <1>1, <1>2, <2>1, OwnStepTyped DEF Take
<1>3. ASSUME cur.mailbox # <<>> PROVE Tail(cur.mailbox) \in Seq(Message)
  BY <1>1, <1>3, HeadTailProperties
<1>4. ASSUME NEW t \in Tags, TakeMatch(t) PROVE TypeOK'
  BY <1>1, <1>2, <1>4, RemoveAtIsSeq DEF TakeMatch
<1>5. ASSUME NEW c \in Cond, Block(c), UNCHANGED <<procs, ready, unread>> PROVE TypeOK'
  BY <1>1, <1>5, OwnStepTyped
<1>6. ASSUME Advance(cur), UNCHANGED <<procs, ready, unread>> PROVE TypeOK'
  BY <1>1, <1>6, OwnStepTyped
<1>7. CASE Receive
  BY <1>2, <1>3, <1>5, <1>7, Conditions DEF Receive
<1>8. CASE ReceiveOpt
  BY <1>2, <1>3, <1>6, <1>8 DEF ReceiveOpt
<1>9. CASE \E t \in Tags : ReceiveMatch(t)
  BY <1>4, <1>5, <1>9, Conditions DEF ReceiveMatch
<1>10. CASE \E t \in Tags : ReceiveMatchOpt(t)
  BY <1>4, <1>6, <1>10 DEF ReceiveMatchOpt
<1> QED
  BY <1>7, <1>8, <1>9, <1>10

\* PROC_SEND: the target's mailbox, its wake-up and the queue.
LEMMA SendTyped ==
  ASSUME TypeOK, NEW q \in DOMAIN procs, NEW t \in Tags, Send(q, t)
  PROVE  TypeOK'
<1> DEFINE target  == procs[q]
           message == [tag |-> t, from |-> running, id |-> steps + 1]
           mailbox == Deposit(target.mailbox, message)
           filled  == [target EXCEPT !.mailbox = mailbox]
<1>1. left > 0 /\ cur \in Process /\ running \in Pid /\ steps \in Nat /\ q \in Pid
  BY MapTyped DEF TypeOK, Send, Executes
<1>2. target \in Process /\ target.mailbox \in Seq(Message)
  BY MapTyped DEF Process
<1>3. message \in Message
  BY <1>1 DEF Message
<1>4. mailbox \in Seq(Message)
  BY <1>2, <1>3, AppendProperties DEF Deposit
<1>5. filled \in Process
  <2> HIDE DEF target, mailbox
  <2> QED
    BY <1>2, <1>4 DEF Process
<1>5a. Woken(filled) \in Process
  BY <1>5, WokenIsProcess
<1> HIDE DEF filled, mailbox, message, target
<1>6. CASE Raise("MailboxTooLarge")
  BY <1>6, StopTyped DEF Raise
<1>7. CASE ~Raise("MailboxTooLarge")
  <2>1. Advance(cur) /\ \E x \in {filled, Woken(filled)} : procs' = [procs EXCEPT ![q] = x]
    BY <1>7 DEF Send, filled, mailbox, message, target
  <2>2. procs' \in [DOMAIN procs -> Process]
    BY <1>5, <1>5a, <2>1, MapTyped
  <2>3. ready' \in Seq(DOMAIN procs)
    <3>1. ready' \in {ready, Append(ready, q)}
      BY <1>7 DEF Send
    <3> QED
      BY <3>1, AppendProperties DEF TypeOK
  <2>4. unread' \subseteq Pid \X Nat
    <3>1. unread' \subseteq unread \cup {<<q, steps + 1>>}
      BY <1>7 DEF Send
    <3> QED
      BY <1>1, <3>1 DEF TypeOK
  <2> QED
    BY <1>1, <2>1, <2>2, <2>3, <2>4, SharedStepTyped
<1> QED
  BY <1>6, <1>7

\* PROC_SPAWN: the new pid is the next number, within the limit.
LEMMA SpawnTyped ==
  ASSUME TypeOK, Spawn
  PROVE  TypeOK'
<1> DEFINE n == Cardinality(DOMAIN procs)
<1>1. left > 0 /\ cur \in Process
  BY DEF TypeOK, Spawn, Executes
<1>2. CASE Raise("InvalidInstruction")
  BY <1>2, StopTyped DEF Raise
<1>3. CASE ~Raise("InvalidInstruction")
  <2>1. /\ n < MaxProcesses /\ Advance(cur) /\ unread' = unread /\ ready' = Append(ready, n)
        /\ procs' = [q \in 0 .. n |-> IF q = n THEN NewProcess ELSE procs[q]]
    <3>1. n \in Nat
      BY MapTyped
    <3> QED
      BY <1>3, <3>1, LimitsAssumption DEF Spawn, TooMany
  <2>2. n \in 1 .. MaxProcesses /\ DOMAIN procs = 0 .. n - 1
    BY MapTyped
  <2>3. procs' \in [0 .. (n + 1) - 1 -> Process] /\ n + 1 \in 1 .. MaxProcesses
    <3>1. \A q \in 0 .. n : (IF q = n THEN NewProcess ELSE procs[q]) \in Process
      BY <2>2, MapTyped, NewProcessIsProcess
    <3>2. procs' \in [0 .. n -> Process]
      BY <2>1, <3>1
    <3>3. (n + 1) - 1 = n /\ n + 1 \in 1 .. MaxProcesses
      BY <2>1, <2>2, LimitsAssumption
    <3> QED
      BY <3>2, <3>3
  <2>4. ready' \in Seq(DOMAIN procs')
    <3>1. DOMAIN procs' = 0 .. n
      BY <2>1
    <3>2. ready \in Seq(0 .. n)
      BY <2>2, SeqMonotonic DEF TypeOK
    <3> QED
      BY <2>1, <2>2, <3>1, <3>2, AppendProperties
  <2>5. /\ program' \in SUBSET Instructions /\ outcome' = outcome
        /\ running' = running /\ tick' \in Nat /\ steps' \in Nat
        /\ left' \in 0 .. MaxSlice /\ cur' \in Process
    BY <1>1, <2>1, AdvanceTyped
  <2>6. running' \in DOMAIN procs' \cup {NoProc}
    BY <2>1, <2>2, <2>5 DEF TypeOK
  <2>7. (\E m \in 1 .. MaxProcesses : procs \in [0 .. m - 1 -> Process])'
    BY <2>3
  <2> QED
    BY <2>1, <2>4, <2>5, <2>6, <2>7 DEF TypeOK
<1> QED
  BY <1>2, <1>3

\* The instructions that write the running record only.
LEMMA OwnInstructionsTyped ==
  ASSUME TypeOK,
         \/ Local \/ Fault \/ StepLimit \/ Halt \/ Abort \/ Exit \/ Yield
         \/ \E q \in DOMAIN procs : Join(q) \/ Monitor(q)
         \/ \E ref \in cur.monitors : Demonitor(ref)
         \/ \E n \in Naps : Sleep(n)
  PROVE  TypeOK'
<1>1. cur \in Process /\ DOMAIN procs \subseteq Pid /\ steps \in Nat /\ tick \in Nat
  BY MapTyped DEF TypeOK
<1>2. CASE Local
  BY <1>1, <1>2, OwnStepTyped DEF Local, Executes
<1>3. CASE Fault \/ StepLimit
  BY <1>3, StopTyped DEF Fault, StepLimit, Raise
<1>4. CASE Halt \/ Abort \/ Exit
  <2>1. PICK s \in Status : Retire([cur EXCEPT !.status = s]) /\ UNCHANGED <<procs, ready, unread>> /\ left > 0
    BY <1>4 DEF Halt, Abort, Exit, Finish, Executes, Status, Terminal
  <2>2. [cur EXCEPT !.status = s] \in Process
    BY <1>1 DEF Process
  <2> QED
    BY <2>1, <2>2, OwnStepTyped
<1>5. CASE Yield
  <2>1. [cur EXCEPT !.status = "ready"] \in Process
    BY <1>1 DEF Process, Status
  <2> QED
    BY <1>5, <2>1, OwnStepTyped DEF Yield, Executes
<1>6. ASSUME NEW q \in DOMAIN procs, Join(q) PROVE TypeOK'
  BY <1>1, <1>6, Conditions, OwnStepTyped DEF Join, Executes
<1>7. ASSUME NEW q \in DOMAIN procs, Monitor(q) PROVE TypeOK'
  <2>1. [id |-> steps + 1, pid |-> q] \in Ref
    BY <1>1 DEF Ref
  <2>2. cur.monitors \cup {[id |-> steps + 1, pid |-> q]} \in {m \in SUBSET Ref : IsFiniteSet(m)}
    BY <1>1, <2>1, FS_AddElement DEF Process
  <2>3. [cur EXCEPT !.monitors = @ \cup {[id |-> steps + 1, pid |-> q]}] \in Process
    BY <1>1, <2>2 DEF Process
  <2> QED
    BY <1>7, <2>3, OwnStepTyped DEF Monitor, Executes
<1>8. ASSUME NEW ref \in cur.monitors, Demonitor(ref) PROVE TypeOK'
  <2>1. cur.monitors \ {ref} \in {m \in SUBSET Ref : IsFiniteSet(m)}
    BY <1>1, FS_RemoveElement DEF Process
  <2>2. [cur EXCEPT !.monitors = @ \ {ref}] \in Process
    BY <1>1, <2>1 DEF Process
  <2> QED
    BY <1>8, <2>2, OwnStepTyped DEF Demonitor, Executes
<1>9. ASSUME NEW n \in Naps, Sleep(n) PROVE TypeOK'
  <2>1. OnTick(tick + n) \in Cond
    BY <1>1, Conditions, ProgramAssumption
  <2> QED
    BY <1>9, <2>1, OwnStepTyped DEF Sleep, Executes
<1> QED
  BY <1>2, <1>3, <1>4, <1>5, <1>6, <1>7, <1>8, <1>9

\* PROC_CANCEL, PROC_LINK and PROC_UNLINK, which write another's record in the map.
LEMMA LinkTyped ==
  ASSUME TypeOK, NEW q \in DOMAIN procs, Cancel(q) \/ Link(q) \/ Unlink(q)
  PROVE  TypeOK'
<1>1. /\ cur \in Process /\ procs[q] \in Process /\ q \in Pid /\ left > 0 /\ running \in Pid
      /\ ready \in Seq(DOMAIN procs) /\ unread \subseteq Pid \X Nat
  BY MapTyped DEF TypeOK, Cancel, Link, Unlink, Executes
<1>2. ASSUME NEW p \in Process, NEW o \in Process,
             Advance(p), procs' = [procs EXCEPT ![q] = o], UNCHANGED <<ready, unread>>
      PROVE  TypeOK'
  <2>1. procs' \in [DOMAIN procs -> Process]
    BY <1>2, MapTyped
  <2> QED
    BY <1>1, <1>2, <2>1, SharedStepTyped
<1>3. CASE Cancel(q)
  <2>1. [procs[q] EXCEPT !.status = "cancelled"] \in Process
    BY <1>1 DEF Process, Status, Terminal
  <2>2. procs' = [procs EXCEPT ![q] = [procs[q] EXCEPT !.status = "cancelled"]]
    BY <1>3 DEF Cancel
  <2> QED
    BY <1>1, <1>2, <1>3, <2>1, <2>2 DEF Cancel
<1>4. CASE Link(q)
  <2>1. /\ [procs[q] EXCEPT !.links = @ \cup {running}] \in Process
        /\ [cur EXCEPT !.links = @ \cup {q}] \in Process
    BY <1>1 DEF Process
  <2>2. procs' = [procs EXCEPT ![q] = [procs[q] EXCEPT !.links = @ \cup {running}]]
    BY <1>4 DEF Link
  <2> QED
    BY <1>2, <1>4, <2>1, <2>2 DEF Link
<1>5. CASE Unlink(q)
  <2>1. /\ [procs[q] EXCEPT !.links = @ \ {running}] \in Process
        /\ [cur EXCEPT !.links = @ \ {q}] \in Process
    BY <1>1 DEF Process
  <2>2. procs' = [procs EXCEPT ![q] = [procs[q] EXCEPT !.links = @ \ {running}]]
    BY <1>5 DEF Unlink
  <2> QED
    BY <1>2, <1>5, <2>1, <2>2 DEF Unlink
<1> QED
  BY <1>3, <1>4, <1>5

\* Any set of processes is listed in key order without repetition.
LEMMA InRankOrder ==
  ASSUME TypeOK, NEW W \in SUBSET DOMAIN procs
  PROVE  /\ InOrder(W, Rank) \in Seq(DOMAIN procs)
         /\ Range(InOrder(W, Rank)) = W
         /\ IsInjective(InOrder(W, Rank))
<1>1. IsFiniteSet(W) /\ W \subseteq Pid
  BY MapTyped, FS_Subset
<1>2. /\ \A w \in W : Rank[w] \in Int
      /\ \A v, w \in W : Rank[v] = Rank[w] => v = w
  BY <1>1, RankAssumption
<1>3. /\ InOrder(W, Rank) \in Seq(W)
      /\ Range(InOrder(W, Rank)) = W
      /\ IsInjective(InOrder(W, Rank))
  BY <1>1, <1>2, InOrderLists
<1> QED
  BY <1>3, SeqMonotonic

\* The records the end of a slice leaves, before and after the notices.
LEMMA JoinedTyped ==
  ASSUME TypeOK, running # NoProc
  PROVE  /\ running \in DOMAIN procs /\ running \in Pid
         /\ Stored \in [DOMAIN procs -> Process]
         /\ Joined \in [DOMAIN procs -> Process]
         /\ \A q \in DOMAIN procs : Notified(Joined[q], running) \in Process
         /\ Joiners \in SUBSET DOMAIN procs
         /\ Listeners \in SUBSET DOMAIN procs
<1>1. running \in DOMAIN procs /\ running \in Pid /\ cur \in Process
  BY MapTyped DEF TypeOK
<1>2. Stored \in [DOMAIN procs -> Process]
  BY <1>1, MapTyped DEF Stored
<1>3. \A q \in DOMAIN procs : Woken(Stored[q]) \in Process
  BY <1>2, WokenIsProcess
<1>4. Joined \in [DOMAIN procs -> Process]
  BY <1>2, <1>3 DEF Joined
<1>5. \A q \in DOMAIN procs : Notified(Joined[q], running) \in Process
  BY <1>1, <1>4, NotifiedIsProcess
<1> QED
  BY <1>1, <1>2, <1>4, <1>5 DEF Joiners, Listeners, Observers

\* The end of a slice: the record stored, joiners woken, monitors told.
LEMMA EndSliceTyped ==
  ASSUME TypeOK, EndSlice
  PROVE  TypeOK'
<1>1. running # NoProc
  BY DEF EndSlice
<1>2. procs' \in [DOMAIN procs -> Process]
  BY <1>1, JoinedTyped DEF EndSlice
<1>3. ready' \in Seq(DOMAIN procs)
  <2>1. Requeued \in Seq(DOMAIN procs)
    BY <1>1, JoinedTyped, AppendProperties DEF Requeued, TypeOK
  <2>2. InOrder(Joiners, Rank) \in Seq(DOMAIN procs) /\ InOrder(Listeners, Rank) \in Seq(DOMAIN procs)
    BY <1>1, JoinedTyped, InRankOrder
  <2> QED
    BY <2>1, <2>2, ConcatProperties DEF EndSlice
<1>4. (\E n \in 1 .. MaxProcesses : procs \in [0 .. n - 1 -> Process])' /\ DOMAIN procs' = DOMAIN procs
  BY <1>2, SameDomain
<1>5. left' \in 0 .. MaxSlice /\ cur' \in Process /\ running' = NoProc
  BY NewProcessIsProcess, LimitsAssumption DEF EndSlice
<1> QED
  BY <1>3, <1>4, <1>5 DEF EndSlice, TypeOK

\* There is an earliest deadline as soon as there is a sleeper.
LEMMA EarliestIsLeast ==
  ASSUME TypeOK, Sleepers # {}
  PROVE  /\ Earliest \in Nat
         /\ \E q \in Sleepers : procs[q].cond.tick = Earliest
         /\ \A q \in Sleepers : Earliest <= procs[q].cond.tick
<1> DEFINE T == {procs[q].cond.tick : q \in Sleepers}
<1>1. \A q \in Sleepers : procs[q].cond \in Cond /\ procs[q].cond.on = "tick"
  BY MapTyped DEF Sleepers, Process
<1>2. T \subseteq Nat /\ T # {}
  BY <1>1, Deadline
<1> DEFINE less == {pair \in Nat \X Nat : pair[1] < pair[2]}
<1>3. IsWellFoundedOn(less, Nat)
  BY NatLessThanWellFounded, Zenon DEF OpToRel
<1>4. \E n \in T : \A m \in T : n <= m
  <2> HIDE DEF T, less
  <2>1. PICK x \in T : \A y \in T : ~(<<y, x>> \in less)
    BY <1>2, <1>3, WFMin
  <2>2. ASSUME NEW y \in T, y < x PROVE FALSE
    <3>1. <<y, x>> \in less
      BY <1>2, <2>2 DEF less
    <3> QED
      BY <2>1, <3>1
  <2>3. \A y \in T : x <= y
    BY <1>2, <2>2
  <2> QED
    BY <2>3
<1>5. \E k \in T : \A q \in Sleepers : k <= procs[q].cond.tick
  BY <1>4
<1>6. Earliest \in T /\ \A q \in Sleepers : Earliest <= procs[q].cond.tick
  BY <1>5 DEF Earliest
<1> QED
  BY <1>2, <1>6

\* A jump of the clock wakes sleepers only.
LEMMA NextTickTyped ==
  ASSUME TypeOK, NextTick
  PROVE  TypeOK'
<1>1. Due \in SUBSET DOMAIN procs
  BY DEF Due, Sleepers
<1>2. procs' \in [DOMAIN procs -> Process]
  BY MapTyped, WokenIsProcess DEF NextTick
<1>3. ready' \in Seq(DOMAIN procs) /\ tick' \in Nat
  BY <1>1, InRankOrder, EarliestIsLeast DEF NextTick
<1>4. (\E n \in 1 .. MaxProcesses : procs \in [0 .. n - 1 -> Process])' /\ DOMAIN procs' = DOMAIN procs
  BY <1>2, SameDomain
<1> QED
  BY <1>3, <1>4 DEF NextTick, TypeOK

\* The head of the queue becomes the running process.
LEMMA DispatchTyped ==
  ASSUME TypeOK, Dispatch
  PROVE  TypeOK'
<1>1. Head(ready) \in DOMAIN procs /\ Tail(ready) \in Seq(DOMAIN procs)
  BY HeadTailProperties DEF TypeOK, Dispatch
<1>2. cur' \in Process /\ left' \in 0 .. MaxSlice
  BY <1>1, MapTyped, LimitsAssumption DEF Dispatch
<1> QED
  BY <1>1, <1>2 DEF Dispatch, TypeOK

\* Every step keeps the types.
LEMMA NextTyped == TypeOK /\ [Next]_vars => TypeOK'
<1> SUFFICES ASSUME TypeOK, [Next]_vars PROVE TypeOK'
  OBVIOUS
<1>1. CASE Instruction
  BY <1>1, OwnInstructionsTyped, SpawnTyped, SendTyped, ReceiveTyped, LinkTyped DEF Instruction
<1>2. CASE Loop
  BY <1>2, DispatchTyped, EndSliceTyped, NextTickTyped, StopTyped
     DEF Loop, RootDone, AllDone, Deadlock, OutOfSteps
<1>3. CASE UNCHANGED vars
  BY <1>3 DEF vars, TypeOK
<1> QED
  BY <1>1, <1>2, <1>3 DEF Next, Returned

\* Type correctness: whatever the program, the process map has no gaps, never more
\* than MaxProcesses entries, and the ready queue holds processes of the map.
THEOREM TypeCorrect == Spec => []TypeOK
<1>1. Init => TypeOK
  BY InitTyped
<1>2. TypeOK /\ [Next]_vars => TypeOK'
  BY NextTyped
<1> QED
  BY <1>1, <1>2, PTL DEF Spec

---------------------------------------------------------------------------
(* Sequences without repetition *)

\* A process that is not queued can be queued at the end.
LEMMA AppendOnce ==
  ASSUME NEW S, NEW s \in Seq(S), NEW x \in S, IsInjective(s), x \notin Range(s)
  PROVE  IsInjective(Append(s, x)) /\ Range(Append(s, x)) = Range(s) \cup {x}
<1>1. /\ Len(s) \in Nat /\ DOMAIN s = 1 .. Len(s)
      /\ DOMAIN Append(s, x) = 1 .. Len(s) + 1
      /\ \A i \in 1 .. Len(s) : Append(s, x)[i] = s[i]
      /\ Append(s, x)[Len(s) + 1] = x
  BY AppendProperties, LenProperties
<1>2. \A i \in 1 .. Len(s) : s[i] # x
  BY <1>1 DEF Range
<1> QED
  BY <1>1, <1>2 DEF IsInjective, Range

\* Two queues with no process in common.
LEMMA ConcatOnce ==
  ASSUME NEW S, NEW s \in Seq(S), NEW t \in Seq(S), IsInjective(s), IsInjective(t),
         Range(s) \cap Range(t) = {}
  PROVE  IsInjective(s \o t) /\ Range(s \o t) = Range(s) \cup Range(t)
<1>1. /\ Len(s) \in Nat /\ DOMAIN s = 1 .. Len(s) /\ Len(t) \in Nat /\ DOMAIN t = 1 .. Len(t)
      /\ DOMAIN (s \o t) = 1 .. Len(s) + Len(t)
      /\ \A i \in 1 .. Len(s) + Len(t) : (s \o t)[i] = IF i <= Len(s) THEN s[i] ELSE t[i - Len(s)]
  BY ConcatProperties, LenProperties
<1>2. \A i \in 1 .. Len(s), j \in 1 .. Len(t) : s[i] # t[j]
  BY <1>1 DEF Range
<1>3. IsInjective(s \o t)
  BY <1>1, <1>2 DEF IsInjective
<1> QED
  BY <1>3, RangeConcatenation

\* The head of a queue is not in its tail.
LEMMA TailOnce ==
  ASSUME NEW S, NEW s \in Seq(S), s # <<>>, IsInjective(s)
  PROVE  /\ Head(s) \in Range(s) /\ IsInjective(Tail(s))
         /\ Range(Tail(s)) = Range(s) \ {Head(s)}
<1>1. /\ Len(s) \in Nat \ {0} /\ DOMAIN s = 1 .. Len(s) /\ Head(s) = s[1]
      /\ DOMAIN Tail(s) = 1 .. Len(s) - 1
      /\ \A i \in 1 .. Len(s) - 1 : Tail(s)[i] = s[i + 1]
  BY HeadTailProperties, LenProperties, EmptySeq
<1>2. IsInjective(Tail(s))
  BY <1>1 DEF IsInjective
<1>3. \A i \in 2 .. Len(s) : s[i] # s[1] /\ s[i] = Tail(s)[i - 1] /\ i - 1 \in DOMAIN Tail(s)
  BY <1>1 DEF IsInjective
<1>4. Range(Tail(s)) \subseteq Range(s) \ {Head(s)}
  BY <1>1, <1>3 DEF Range
<1>5. Range(s) \ {Head(s)} \subseteq Range(Tail(s))
  <2>1. ASSUME NEW i \in DOMAIN s, s[i] # s[1] PROVE s[i] \in Range(Tail(s))
    <3>1. i \in 2 .. Len(s)
      BY <1>1, <2>1
    <3> QED
      BY <1>3, <3>1 DEF Range
  <2> QED
    BY <1>1, <2>1 DEF Range
<1>6. Head(s) \in Range(s)
  BY <1>1 DEF Range
<1> QED
  BY <1>2, <1>4, <1>5, <1>6

---------------------------------------------------------------------------
(* The ready queue *)

\* QueueExact is not inductive: PROC_SEND and PROC_CANCEL look the running process
\* up in the map, where its copy must not seem to be waiting.
QueueInv ==
  /\ QueueExact
  /\ running # NoProc => procs[running].status \in {"ready", "cancelled"}

\* The first process is queued once.
LEMMA InitQueued == Init => QueueInv
<1> SUFFICES ASSUME Init PROVE QueueInv
  OBVIOUS
<1>1. ready = <<Root>> /\ DOMAIN procs = {Root} /\ procs[Root].status = "ready" /\ running = NoProc
  BY DEF Init, NewProcess
<1>2. IsInjective(<<Root>>) /\ Range(<<Root>>) = {Root}
  BY DEF IsInjective, Range
<1> QED
  BY <1>1, <1>2 DEF QueueInv, QueueExact, Root, NoProc

\* A step that leaves every status, the queue and the running process alone.
LEMMA SameQueue ==
  ASSUME QueueInv, UNCHANGED <<ready, running>>, DOMAIN procs' = DOMAIN procs,
         \A q \in DOMAIN procs : procs'[q].status = procs[q].status,
         Range(ready) \subseteq DOMAIN procs, running \in DOMAIN procs \cup {NoProc}
  PROVE  QueueInv'
BY DEF QueueInv, QueueExact

\* A send queues its target only if it wakes it, and a waiting process is not queued.
LEMMA SendQueued ==
  ASSUME TypeOK, QueueInv, NEW q \in DOMAIN procs, NEW t \in Tags, Send(q, t),
         ~Raise("MailboxTooLarge")
  PROVE  QueueInv'
<1> DEFINE message == [tag |-> t, from |-> running, id |-> steps + 1]
           mailbox == Deposit(procs[q].mailbox, message)
           filled  == [procs[q] EXCEPT !.mailbox = mailbox]
<1>1. running' = running /\ running \in DOMAIN procs /\ running # NoProc /\ ready \in Seq(DOMAIN procs)
  BY DEF Send, Executes, Advance, Retire, TypeOK
<1>2. procs[q] \in Process
  BY MapTyped
<1>3. filled.status = procs[q].status /\ Woken(filled).status = "ready"
  BY <1>2 DEF Woken, Process
<1>4. CASE WakesMailbox(procs[q], mailbox)
  <2>1. procs[q].status = "waiting"
    BY <1>4 DEF WakesMailbox, Waits
  <2>2. procs' = [procs EXCEPT ![q] = Woken(filled)] /\ ready' = Append(ready, q)
    BY <1>4 DEF Send
  <2>3. q # running /\ q \notin Range(ready)
    BY <1>1, <2>1 DEF QueueInv, QueueExact
  <2>4. IsInjective(ready') /\ Range(ready') = Range(ready) \cup {q}
    BY <1>1, <2>2, <2>3, AppendOnce DEF QueueInv, QueueExact
  <2>5. \A p \in DOMAIN procs : procs'[p].status = IF p = q THEN "ready" ELSE procs[p].status
    BY <1>3, <2>2
  <2>6. DOMAIN procs' = DOMAIN procs /\ Range(ready) \subseteq DOMAIN procs
    BY <1>1, <2>2, RangeOfSeq
  <2> HIDE DEF filled, mailbox, message
  <2> QED
    BY <1>1, <2>3, <2>4, <2>5, <2>6 DEF QueueInv, QueueExact
<1>5. CASE ~WakesMailbox(procs[q], mailbox)
  <2>1. procs' = [procs EXCEPT ![q] = filled] /\ ready' = ready
    BY <1>5 DEF Send
  <2>2. \A p \in DOMAIN procs : procs'[p].status = procs[p].status
    BY <1>3, <2>1
  <2>3. DOMAIN procs' = DOMAIN procs /\ Range(ready) \subseteq DOMAIN procs
    BY <1>1, <2>1, RangeOfSeq
  <2> QED
    BY <1>1, <2>1, <2>2, <2>3, SameQueue
<1> QED
  BY <1>4, <1>5

\* A new process is queued once, at its birth.
LEMMA SpawnQueued ==
  ASSUME TypeOK, QueueInv, Spawn, ~Raise("InvalidInstruction")
  PROVE  QueueInv'
<1> DEFINE n == Cardinality(DOMAIN procs)
<1>1. /\ running' = running /\ ready' = Append(ready, n)
      /\ procs' = [q \in 0 .. n |-> IF q = n THEN NewProcess ELSE procs[q]]
  BY DEF Spawn, Advance, Retire
<1>2. n \in 1 .. MaxProcesses /\ DOMAIN procs = 0 .. n - 1
  BY MapTyped
<1> HIDE DEF n
<1>3. DOMAIN procs' = DOMAIN procs \cup {n} /\ n \notin DOMAIN procs
  BY <1>1, <1>2
<1>4. ready \in Seq(DOMAIN procs') /\ Range(ready) \subseteq DOMAIN procs
  BY <1>3, RangeOfSeq, SeqMonotonic DEF TypeOK
<1>5. IsInjective(ready') /\ Range(ready') = Range(ready) \cup {n}
  BY <1>1, <1>3, <1>4, AppendOnce DEF QueueInv, QueueExact
<1>6. procs'[n].status = "ready" /\ \A q \in DOMAIN procs : procs'[q] = procs[q]
  BY <1>1, <1>2 DEF NewProcess
<1>7. running \in DOMAIN procs \/ running = NoProc
  BY DEF TypeOK
<1>8. n # NoProc
  BY <1>2, LimitsAssumption DEF NoProc
<1> QED
  BY <1>1, <1>3, <1>4, <1>5, <1>6, <1>7, <1>8 DEF QueueInv, QueueExact

\* The process dispatched leaves the queue.
LEMMA DispatchQueued ==
  ASSUME TypeOK, QueueInv, Dispatch
  PROVE  QueueInv'
<1>1. ready \in Seq(DOMAIN procs) /\ ready # <<>> /\ running = NoProc
  BY DEF Dispatch, TypeOK
<1>2. /\ Head(ready) \in Range(ready) /\ IsInjective(Tail(ready))
      /\ Range(Tail(ready)) = Range(ready) \ {Head(ready)}
  BY <1>1, TailOnce DEF QueueInv, QueueExact
<1>3. NoProc \notin DOMAIN procs
  BY MapTyped
<1> QED
  BY <1>1, <1>2, <1>3 DEF QueueInv, QueueExact, Dispatch

\* The sleepers woken were not queued, the queue being empty.
LEMMA NextTickQueued ==
  ASSUME TypeOK, QueueInv, NextTick
  PROVE  QueueInv'
<1>1. ready = <<>> /\ running = NoProc /\ running' = NoProc
  BY DEF NextTick, Idle
<1>2. NoProc \notin DOMAIN procs /\ Range(<<>>) = {}
  BY MapTyped DEF Range
<1>3. \A q \in DOMAIN procs : procs[q].status # "ready"
  BY <1>1, <1>2 DEF QueueInv, QueueExact
<1>4. Due \in SUBSET DOMAIN procs
  BY DEF Due, Sleepers
<1>5. IsInjective(ready') /\ Range(ready') = Due
  BY <1>4, InRankOrder DEF NextTick
<1>6. \A q \in DOMAIN procs : procs'[q].status = IF q \in Due THEN "ready" ELSE procs[q].status
  BY MapTyped, WokenIsProcess DEF NextTick
<1>7. DOMAIN procs' = DOMAIN procs
  BY DEF NextTick
<1> QED
  BY <1>1, <1>2, <1>3, <1>4, <1>5, <1>6, <1>7 DEF QueueInv, QueueExact

\* The status the end of a slice leaves a process with.
LEMMA EndSliceStatus ==
  ASSUME TypeOK, EndSlice, NEW q \in DOMAIN procs
  PROVE  /\ q \in Joiners \cup Listeners =>
              Stored[q].status = "waiting" /\ procs'[q].status = "ready"
         /\ q \notin Joiners \cup Listeners => procs'[q].status = Stored[q].status
         /\ q \in Joiners => q \notin Listeners
<1>1. running # NoProc
  BY DEF EndSlice
<1>2. Stored[q] \in Process /\ Joined[q] \in Process /\ running \in Pid
  BY <1>1, JoinedTyped
<1>3. procs'[q] = IF q \in Observers THEN Notified(Joined[q], running) ELSE Joined[q]
  BY DEF EndSlice
<1>4. Joined[q] = IF q \in Joiners THEN Woken(Stored[q]) ELSE Stored[q]
  BY DEF Joined
<1>5. Woken(Stored[q]).status = "ready"
  BY <1>2, WokenIsProcess
<1>6. Notified(Joined[q], running).status = IF Waits(Joined[q], OnMessage) THEN "ready" ELSE Joined[q].status
  BY <1>2, NotifiedIsProcess
<1>7. CASE q \in Joiners
  <2>1. Stored[q].status = "waiting" /\ Joined[q].status = "ready"
    BY <1>4, <1>5, <1>7 DEF Joiners, Waits
  <2> QED
    BY <1>3, <1>6, <1>7, <2>1 DEF Listeners, Waits
<1>8. CASE q \notin Joiners
  BY <1>3, <1>4, <1>6, <1>8 DEF Listeners, Waits
<1> QED
  BY <1>7, <1>8

\* The processes queued when a slice ends: itself, its joiners, its listeners.
LEMMA EndSliceQueued ==
  ASSUME TypeOK, QueueInv, EndSlice
  PROVE  QueueInv'
<1>1. running # NoProc /\ running' = NoProc /\ DOMAIN procs' = DOMAIN procs
  BY DEF EndSlice
<1>2. /\ running \in DOMAIN procs /\ Joiners \in SUBSET DOMAIN procs
      /\ Listeners \in SUBSET DOMAIN procs /\ ready \in Seq(DOMAIN procs)
      /\ NoProc \notin DOMAIN procs
  BY <1>1, JoinedTyped, MapTyped DEF TypeOK
<1>3. \A q \in DOMAIN procs : Stored[q] = IF q = running THEN cur ELSE procs[q]
  BY <1>2, MapTyped DEF Stored
<1> DEFINE joiners == InOrder(Joiners, Rank)
           listeners == InOrder(Listeners, Rank)
           back == IF cur.status = "ready" THEN {running} ELSE {}
<1>4. /\ joiners \in Seq(DOMAIN procs) /\ Range(joiners) = Joiners /\ IsInjective(joiners)
      /\ listeners \in Seq(DOMAIN procs) /\ Range(listeners) = Listeners /\ IsInjective(listeners)
  BY <1>2, InRankOrder
<1>5. running \notin Range(ready) /\ IsInjective(ready)
  BY DEF QueueInv, QueueExact
<1>6. /\ Requeued \in Seq(DOMAIN procs) /\ IsInjective(Requeued)
      /\ Range(Requeued) = Range(ready) \cup back
  BY <1>2, <1>5, AppendOnce, AppendProperties DEF Requeued
<1>7. \A q \in Range(Requeued) : Stored[q].status \in {"ready", "cancelled"}
  <2>1. Range(ready) \subseteq DOMAIN procs
    BY <1>2, RangeOfSeq
  <2> QED
    BY <1>2, <1>3, <1>5, <1>6, <2>1 DEF QueueInv, QueueExact
<1>8. /\ \A q \in Joiners \cup Listeners : Stored[q].status = "waiting" /\ procs'[q].status = "ready"
      /\ \A q \in DOMAIN procs \ (Joiners \cup Listeners) : procs'[q].status = Stored[q].status
      /\ Joiners \cap Listeners = {}
  BY <1>2, EndSliceStatus
<1> DEFINE first == Requeued \o joiners
<1> HIDE DEF joiners, listeners, back
<1>9. /\ first \in Seq(DOMAIN procs) /\ IsInjective(first)
      /\ Range(first) = Range(Requeued) \cup Joiners
  <2>1. Range(Requeued) \cap Range(joiners) = {}
    BY <1>4, <1>7, <1>8
  <2> QED
    BY <1>4, <1>6, <2>1, ConcatOnce, ConcatProperties
<1>10. ready' = first \o listeners
  BY DEF EndSlice, joiners, listeners
<1> HIDE DEF first
<1>11. IsInjective(ready') /\ Range(ready') = Range(Requeued) \cup Joiners \cup Listeners
  <2>1. Range(first) \cap Range(listeners) = {}
    BY <1>4, <1>7, <1>8, <1>9
  <2> QED
    BY <1>4, <1>9, <1>10, <2>1, ConcatOnce
<1>12. ASSUME NEW q \in Range(ready') PROVE q # running' /\ procs'[q].status \in {"ready", "cancelled"}
  <2>1. q \in DOMAIN procs
    BY <1>2, <1>6, <1>11, RangeOfSeq
  <2> QED
    BY <1>1, <1>2, <1>7, <1>8, <1>11, <2>1
<1>13. ASSUME NEW q \in DOMAIN procs, procs'[q].status = "ready" PROVE q \in Range(ready')
  <2>1. CASE q \in Joiners \cup Listeners
    BY <1>11, <2>1
  <2>2. CASE q \notin Joiners \cup Listeners
    <3>1. Stored[q].status = "ready"
      BY <1>8, <1>13, <2>2
    <3>2. q \in Range(ready) \cup back
      BY <1>3, <3>1 DEF QueueInv, QueueExact, back
    <3> QED
      BY <1>6, <1>11, <3>2
  <2> QED
    BY <2>1, <2>2
<1> QED
  BY <1>1, <1>11, <1>12, <1>13 DEF QueueInv, QueueExact

\* Every step keeps the queue exact.
LEMMA NextQueued == TypeOK /\ QueueInv /\ [Next]_vars => QueueInv'
<1> SUFFICES ASSUME TypeOK, QueueInv, [Next]_vars PROVE QueueInv'
  OBVIOUS
<1>1. Range(ready) \subseteq DOMAIN procs /\ running \in DOMAIN procs \cup {NoProc}
  BY RangeOfSeq DEF TypeOK
<1>2. ASSUME UNCHANGED <<procs, ready, running>> PROVE QueueInv'
  BY <1>2 DEF QueueInv, QueueExact
<1>3. ASSUME NEW result, Stop(result) PROVE QueueInv'
  BY <1>2, <1>3 DEF Stop
<1>4. CASE Fault \/ StepLimit \/ RootDone \/ AllDone \/ Deadlock \/ OutOfSteps
  BY <1>3, <1>4 DEF Fault, StepLimit, Raise, RootDone, AllDone, Deadlock, OutOfSteps
<1>5. CASE Local \/ Halt \/ Abort \/ Exit \/ Yield
  BY <1>2, <1>5 DEF Local, Halt, Abort, Exit, Yield, Finish, Advance, Retire
<1>6. CASE Receive \/ ReceiveOpt \/ \E t \in Tags : ReceiveMatch(t) \/ ReceiveMatchOpt(t)
  BY <1>2, <1>6 DEF Receive, ReceiveOpt, ReceiveMatch, ReceiveMatchOpt, TakeMatch, Take,
                    Block, Advance, Retire
<1>7. CASE (\E q \in DOMAIN procs : Join(q) \/ Monitor(q)) \/ (\E ref \in cur.monitors : Demonitor(ref))
           \/ \E n \in Naps : Sleep(n)
  BY <1>2, <1>7 DEF Join, Monitor, Demonitor, Sleep, Block, Advance, Retire
<1>8. ASSUME NEW q \in DOMAIN procs, Link(q) \/ Unlink(q) PROVE QueueInv'
  <2>1. UNCHANGED <<ready, running>>
    BY <1>8 DEF Link, Unlink, Advance, Retire
  <2>2. procs[q] \in Process
    BY MapTyped
  <2>3. \E S \in SUBSET Pid : procs' = [procs EXCEPT ![q] = [procs[q] EXCEPT !.links = S]]
    <3>1. running \in Pid
      BY <1>8, MapTyped DEF TypeOK, Link, Unlink, Executes
    <3> QED
      BY <1>8, <2>2, <3>1 DEF Link, Unlink, Process
  <2>4. DOMAIN procs' = DOMAIN procs /\ \A p \in DOMAIN procs : procs'[p].status = procs[p].status
    BY <2>2, <2>3 DEF Process
  <2> QED
    BY <1>1, <2>1, <2>4, SameQueue
<1>9. ASSUME NEW q \in DOMAIN procs, Cancel(q) PROVE QueueInv'
  <2>1. UNCHANGED <<ready, running>> /\ procs' = [procs EXCEPT ![q].status = "cancelled"]
    BY <1>9 DEF Cancel, Advance, Retire
  <2>2. DOMAIN procs' = DOMAIN procs /\ procs'[q].status = "cancelled"
        /\ \A p \in DOMAIN procs \ {q} : procs'[p] = procs[p]
    <3>1. procs[q] \in Process
      BY MapTyped
    <3> QED
      BY <2>1, <3>1 DEF Process
  <2> QED
    BY <1>1, <2>1, <2>2 DEF QueueInv, QueueExact
<1>10. CASE Spawn
  BY <1>3, <1>10, SpawnQueued DEF Raise
<1>11. ASSUME NEW q \in DOMAIN procs, NEW t \in Tags, Send(q, t) PROVE QueueInv'
  BY <1>3, <1>11, SendQueued DEF Raise
<1>12. CASE UNCHANGED vars
  BY <1>2, <1>12 DEF vars
<1> QED
  BY <1>4, <1>5, <1>6, <1>7, <1>8, <1>9, <1>10, <1>11, <1>12,
     DispatchQueued, EndSliceQueued, NextTickQueued
     DEF Next, Instruction, Loop, Returned

\* The ready queue is exact: no wake-up is lost or doubled, whatever the interleaving
\* of slices, sends, joins, naps and cancellations (runMachine, PROC_SEND, PROC_SPAWN).
THEOREM QueueIsExact == Spec => []QueueExact
<1>1. Init => TypeOK /\ QueueInv
  BY InitTyped, InitQueued
<1>2. TypeOK /\ QueueInv /\ [Next]_vars => (TypeOK /\ QueueInv)'
  BY NextTyped, NextQueued
<1>3. TypeOK /\ QueueInv => QueueExact
  BY DEF QueueInv
<1> QED
  BY <1>1, <1>2, <1>3, PTL DEF Spec

=============================================================================
