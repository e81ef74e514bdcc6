------------------------- MODULE ProcessScheduler -------------------------
(***************************************************************************)
(* FinVM's process layer: the FIFO scheduler, the run loop that gives each  *)
(* ready process a slice, and every PROC_* instruction a slice may execute. *)
(*                                                                          *)
(* A program is abstracted to the instructions it may execute next: any     *)
(* instruction of its menu with any operand, except that a blocked process  *)
(* re-executes the instruction it blocked on, because PROC_RECEIVE,         *)
(* PROC_RECEIVE_MATCH and PROC_JOIN leave the program counter in place.     *)
(*                                                                          *)
(* The process whose slice runs lives in cur, outside the scheduler's map.  *)
(* procs[running] is then a stale copy, which the end of the slice          *)
(* overwrites; the instructions look targets up in the map, so those that   *)
(* name their own process work on that copy.                                *)
(***************************************************************************)
EXTENDS Integers, Sequences, FiniteSets, SequencesExt, Ordered

CONSTANTS
  MaxProcesses,  \* limits.maxProcesses
  MaxMailbox,    \* limits.maxMailboxSize
  MaxSteps,      \* limits.maxSteps
  MaxSlice,      \* limits.maxProcessStepsPerSlice
  Rank,          \* Rank[p]: the place of p's pid in the key order of the process map
  Tags,          \* the variant tags programs send and select messages by
  Naps,          \* the operands of PROC_SLEEP_TICKS
  Menus          \* the programs considered: for each the set of instructions it contains

Pid  == 0 .. MaxProcesses - 1   \* 0 is "main", k + 1 is the pid "p<k>"
Root == 0

\* The instructions; LOCAL stands for those that only touch registers, FAULT for
\* any that raises an error of its own. The functions MACHINE_TRANSITION runs to
\* their end inside one step are left out.
Instructions ==
  {"LOCAL", "FAULT", "HALT", "ABORT", "PROC_EXIT", "PROC_YIELD", "PROC_SPAWN", "PROC_SEND",
   "PROC_RECEIVE", "PROC_RECEIVE_OPT", "PROC_RECEIVE_MATCH", "PROC_RECEIVE_MATCH_OPT",
   "PROC_JOIN", "PROC_CANCEL", "PROC_LINK", "PROC_UNLINK", "PROC_MONITOR", "PROC_DEMONITOR",
   "PROC_SLEEP_TICKS"}

\* A limit of 0 processes behaves as 1: "main" exists and every spawn is refused.
ASSUME LimitsAssumption ==
  /\ MaxProcesses \in Nat \ {0}
  /\ MaxMailbox \in Nat
  /\ MaxSteps \in Nat
  /\ MaxSlice \in Nat

ASSUME RankAssumption ==
  /\ Rank \in [Pid -> Nat]
  /\ \A p, q \in Pid : Rank[p] = Rank[q] => p = q

ASSUME ProgramAssumption ==
  /\ Naps \subseteq Nat \ {0}
  /\ "DOWN" \in Tags
  /\ \A menu \in Menus : menu \subseteq Instructions

VARIABLES
  program,  \* the menu of the program that runs: never changes
  procs,    \* scheduler.processes: a function on 0 .. n-1 once n processes were created
  ready,    \* scheduler.readyQueue
  running,  \* the process whose slice runs, or NoProc
  cur,      \* the record of that process, as its own instructions see and change it
  left,     \* the steps its slice still has
  tick,     \* scheduler.logicalTick
  steps,    \* counters.steps
  outcome,  \* how the run ended, or "none"
  unread    \* ghost: <<target, id>> of the messages sent to another process, not received yet

vars == <<program, procs, ready, running, cur, left, tick, steps, outcome, unread>>

NoProc == -1

---------------------------------------------------------------------------
(* Processes, wait conditions and messages *)

\* A message is a variant. A DOWN's from is the dead process, its id the step
\* at which the monitor was set, so that <<id, from>> is the monitor reference.
Message == [tag : Tags, from : Pid, id : Nat]
Ref     == [id : Nat, pid : Pid]

NoCond       == [on |-> "nothing"]
OnMessage    == [on |-> "message"]
OnMatch(t)   == [on |-> "match", tag |-> t]
OnProcess(q) == [on |-> "process", pid |-> q]
OnTick(n)    == [on |-> "tick", tick |-> n]

\* The condition of a waiting process. A process woken from one of the first
\* three keeps it: its program counter still stands on that instruction.
Retried == {OnMessage} \cup [on : {"match"}, tag : Tags] \cup [on : {"process"}, pid : Pid]
Cond    == {NoCond} \cup Retried \cup [on : {"tick"}, tick : Nat]

Terminal == {"completed", "failed", "cancelled", "exited"}
Status   == {"ready", "waiting"} \cup Terminal

Process == [status : Status, cond : Cond, mailbox : Seq(Message),
            monitors : {m \in SUBSET Ref : IsFiniteSet(m)}, links : SUBSET Pid, steps : Nat]

NewProcess == [status |-> "ready", cond |-> NoCond, mailbox |-> <<>>,
               monitors |-> {}, links |-> {}, steps |-> 0]

Waits(p, c) == p.status = "waiting" /\ p.cond = c

HasTag(mailbox, t) == \E i \in DOMAIN mailbox : mailbox[i].tag = t

\* A tick is over once it wakes the process: the program counter has moved on.
Woken(p) == [p EXCEPT !.status = "ready",
                      !.cond = IF @ \in Retried THEN @ ELSE NoCond]

\* Here and below, a definition named for what it forgets or confuses is a slip
\* the code does not make: put in the place of the definition that follows it, it
\* breaks one of the properties. No action uses it.
WakesPlainReceiveOnly(p, mailbox) == Waits(p, OnMessage)

\* Does a message just appended, which made the mailbox what it is, wake p?
WakesMailbox(p, mailbox) ==
  \/ Waits(p, OnMessage)
  \/ \E t \in Tags : Waits(p, OnMatch(t)) /\ HasTag(mailbox, t)

---------------------------------------------------------------------------
(* Executing one instruction of the current slice *)

\* op is executed: the program allows it, and if the process blocked on c it is
\* the instruction that blocks on c.
Executes(op, c) ==
  /\ outcome = "none" /\ running # NoProc
  /\ left > 0 /\ cur.status = "ready" /\ cur.steps < MaxSteps
  /\ op \in program
  /\ cur.cond \in {NoCond, c}

RetireMachineOnly(p) ==
  /\ cur' = p
  /\ steps' = steps + 1
  /\ left' = left - 1
  /\ UNCHANGED <<program, running, tick, outcome>>

RetireUncounted(p) ==
  /\ cur' = p
  /\ left' = left - 1
  /\ UNCHANGED <<program, running, tick, steps, outcome>>

\* The running process becomes p and the step is counted.
Retire(p) ==
  /\ cur' = [p EXCEPT !.steps = @ + 1]
  /\ steps' = steps + 1
  /\ left' = left - 1
  /\ UNCHANGED <<program, running, tick, outcome>>

Advance(p) == Retire([p EXCEPT !.cond = NoCond])
Block(c)   == Retire([cur EXCEPT !.status = "waiting", !.cond = c])

\* The run returns: nothing else changes.
Stop(result) ==
  /\ outcome' = result
  /\ UNCHANGED <<program, procs, ready, running, cur, left, tick, steps, unread>>

\* A VMError unwinds the whole run.
Raise(error) == Stop(error)

\* NOOP, arithmetic, PROC_SELF, PROC_STATUS, PROC_JOIN_RESULT, ...: registers only.
Local == Executes("LOCAL", NoCond) /\ Advance(cur) /\ UNCHANGED <<procs, ready, unread>>

\* Any instruction may raise an error of its own (a type mismatch, an unknown function, ...).
Fault == Executes("FAULT", NoCond) /\ Raise("fault")

StepLimit ==
  /\ outcome = "none" /\ running # NoProc
  /\ left > 0 /\ cur.status = "ready" /\ cur.steps >= MaxSteps
  /\ Raise("StepLimitExceeded")

Finish(op, status) ==
  /\ Executes(op, NoCond)
  /\ Retire([cur EXCEPT !.status = status])
  /\ UNCHANGED <<procs, ready, unread>>

Halt  == Finish("HALT", "completed")    \* and RETURN from the entry function
Abort == Finish("ABORT", "failed")
Exit  == Finish("PROC_EXIT", "exited")

Yield ==
  /\ Executes("PROC_YIELD", NoCond)
  /\ Advance([cur EXCEPT !.status = "ready"])
  /\ UNCHANGED <<procs, ready, unread>>

TooManyOffByOne(n) == n > MaxProcesses

\* Processes are never removed from the map, so the ended ones count too.
TooMany(n) == n >= MaxProcesses

Spawn ==
  LET n == Cardinality(DOMAIN procs) IN
  /\ Executes("PROC_SPAWN", NoCond)
  /\ \/ TooMany(n) /\ Raise("InvalidInstruction")
     \/ /\ ~TooMany(n)
        /\ procs' = [q \in 0 .. n |-> IF q = n THEN NewProcess ELSE procs[q]]
        /\ ready' = Append(ready, n)
        /\ Advance(cur)
        /\ UNCHANGED unread

FullOffByOne(mailbox) == Len(mailbox) > MaxMailbox
Full(mailbox) == Len(mailbox) >= MaxMailbox

DepositInFront(mailbox, message) == <<message>> \o mailbox
Deposit(mailbox, message) == Append(mailbox, message)

Send(q, t) ==
  LET target  == procs[q]
      message == [tag |-> t, from |-> running, id |-> steps + 1]
      mailbox == Deposit(target.mailbox, message)
      wakes   == WakesMailbox(target, mailbox)
      filled  == [target EXCEPT !.mailbox = mailbox]
  IN
  /\ Executes("PROC_SEND", NoCond)
  /\ \/ Full(target.mailbox) /\ Raise("MailboxTooLarge")
     \/ /\ ~Full(target.mailbox)
        /\ procs' = [procs EXCEPT ![q] = IF wakes THEN Woken(filled) ELSE filled]
        /\ ready' = IF wakes THEN Append(ready, q) ELSE ready
        /\ unread' = IF q = running THEN unread ELSE unread \cup {<<q, steps + 1>>}
        /\ Advance(cur)

\* What the running process reads, and the mailbox it keeps.
Take(message, mailbox) ==
  /\ Advance([cur EXCEPT !.mailbox = mailbox])
  /\ unread' = unread \ {<<running, message.id>>}
  /\ UNCHANGED <<procs, ready>>

Receive ==
  /\ Executes("PROC_RECEIVE", OnMessage)
  /\ \/ /\ cur.mailbox = <<>>
        /\ Block(OnMessage)
        /\ UNCHANGED <<procs, ready, unread>>
     \/ /\ cur.mailbox # <<>>
        /\ Take(Head(cur.mailbox), Tail(cur.mailbox))

ReceiveOpt ==
  /\ Executes("PROC_RECEIVE_OPT", NoCond)
  /\ \/ /\ cur.mailbox = <<>>
        /\ Advance(cur)
        /\ UNCHANGED <<procs, ready, unread>>
     \/ /\ cur.mailbox # <<>>
        /\ Take(Head(cur.mailbox), Tail(cur.mailbox))

IsFirst(i, mailbox, t) == mailbox[i].tag = t /\ \A j \in 1 .. i - 1 : mailbox[j].tag # t

TakeMatchDropsHead(t) ==
  \E i \in DOMAIN cur.mailbox :
    IsFirst(i, cur.mailbox, t) /\ Take(cur.mailbox[i], Tail(cur.mailbox))

\* The first message tagged t is taken out; the others keep their places.
TakeMatch(t) ==
  \E i \in DOMAIN cur.mailbox :
    IsFirst(i, cur.mailbox, t) /\ Take(cur.mailbox[i], RemoveAt(cur.mailbox, i))

ReceiveMatch(t) ==
  /\ Executes("PROC_RECEIVE_MATCH", OnMatch(t))
  /\ \/ TakeMatch(t)
     \/ /\ ~HasTag(cur.mailbox, t)
        /\ Block(OnMatch(t))
        /\ UNCHANGED <<procs, ready, unread>>

ReceiveMatchOpt(t) ==
  /\ Executes("PROC_RECEIVE_MATCH_OPT", NoCond)
  /\ \/ TakeMatch(t)
     \/ /\ ~HasTag(cur.mailbox, t)
        /\ Advance(cur)
        /\ UNCHANGED <<procs, ready, unread>>

\* A process that joins itself looks at the map's copy, which is not terminal.
Join(q) ==
  /\ Executes("PROC_JOIN", OnProcess(q))
  /\ IF procs[q].status \in Terminal THEN Advance(cur) ELSE Block(OnProcess(q))
  /\ UNCHANGED <<procs, ready, unread>>

\* Neither a status check nor a wake-up: q keeps its place in the ready queue, if any.
Cancel(q) ==
  /\ Executes("PROC_CANCEL", NoCond)
  /\ procs' = [procs EXCEPT ![q].status = "cancelled"]
  /\ Advance(cur)
  /\ UNCHANGED <<ready, unread>>

Link(q) ==
  /\ Executes("PROC_LINK", NoCond)
  /\ procs' = [procs EXCEPT ![q].links = @ \cup {running}]
  /\ Advance([cur EXCEPT !.links = @ \cup {q}])
  /\ UNCHANGED <<ready, unread>>

UnlinkOneEnd(q) ==
  /\ Executes("PROC_UNLINK", NoCond)
  /\ Advance([cur EXCEPT !.links = @ \ {q}])
  /\ UNCHANGED <<procs, ready, unread>>

Unlink(q) ==
  /\ Executes("PROC_UNLINK", NoCond)
  /\ procs' = [procs EXCEPT ![q].links = @ \ {running}]
  /\ Advance([cur EXCEPT !.links = @ \ {q}])
  /\ UNCHANGED <<ready, unread>>

\* The reference holds the step counter, which this very step has incremented.
Monitor(q) ==
  /\ Executes("PROC_MONITOR", NoCond)
  /\ Advance([cur EXCEPT !.monitors = @ \cup {[id |-> steps + 1, pid |-> q]}])
  /\ UNCHANGED <<procs, ready, unread>>

Demonitor(ref) ==
  /\ Executes("PROC_DEMONITOR", NoCond)
  /\ Advance([cur EXCEPT !.monitors = @ \ {ref}])
  /\ UNCHANGED <<procs, ready, unread>>

Sleep(n) ==
  /\ Executes("PROC_SLEEP_TICKS", NoCond)
  /\ Block(OnTick(tick + n))
  /\ UNCHANGED <<procs, ready, unread>>

---------------------------------------------------------------------------
(* The run loop *)

InBudgetOffByOne == steps <= MaxSteps
InBudget == steps < MaxSteps

Dispatch ==
  /\ outcome = "none" /\ running = NoProc
  /\ InBudget /\ ready # <<>>
  /\ running' = Head(ready)
  /\ ready' = Tail(ready)
  /\ cur' = procs[Head(ready)]
  /\ left' = MaxSlice
  /\ UNCHANGED <<program, procs, tick, steps, outcome, unread>>

RequeuedAlways   == Append(ready, running)
RequeuedInFront  == IF cur.status = "ready" THEN <<running>> \o ready ELSE ready

\* A process whose slice ran out goes to the end of the queue.
Requeued == IF cur.status = "ready" THEN Append(ready, running) ELSE ready

\* The map once the record of the slice is stored.
Stored == [procs EXCEPT ![running] = cur]

JoinersOfCompleted ==
  {q \in DOMAIN procs : cur.status = "completed" /\ Waits(Stored[q], OnProcess(running))}

\* Who is woken by the end of the slice, whether the process terminated or not.
Joiners == {q \in DOMAIN procs : Waits(Stored[q], OnProcess(running))}

Joined == [q \in DOMAIN procs |-> IF q \in Joiners THEN Woken(Stored[q]) ELSE Stored[q]]

DiesUnlessExited == cur.status \in Terminal \ {"exited"}
Dies == cur.status \in Terminal

\* The references p holds to d, and the notices that answer them.
RefsTo(p, d)  == {r \in p.monitors : r.pid = d}
Downs(p, d) ==
  LET refs == InOrder(RefsTo(p, d), [r \in RefsTo(p, d) |-> r.id])
  IN [k \in DOMAIN refs |-> [tag |-> "DOWN", from |-> d, id |-> refs[k].id]]

NotifiedKeepsRefs(p, d) ==
  LET told == [p EXCEPT !.mailbox = @ \o Downs(p, d)]
  IN IF Waits(p, OnMessage) THEN Woken(told) ELSE told

\* An observer p of the dead d: told, its references dropped; a plain receive is woken.
Notified(p, d) ==
  LET told == [p EXCEPT !.mailbox = @ \o Downs(p, d), !.monitors = @ \ RefsTo(p, d)]
  IN IF Waits(p, OnMessage) THEN Woken(told) ELSE told

\* The processes that monitor the one that ends, and those of them a notice wakes.
Observers == {q \in DOMAIN procs : Dies /\ RefsTo(Joined[q], running) # {}}
Listeners == {q \in Observers : Waits(Joined[q], OnMessage)}

\* The slice is over: the record goes back into the map, then every process
\* that joins it is woken and, if it ended, every process that monitors it is told.
EndSlice ==
  /\ outcome = "none" /\ running # NoProc
  /\ left = 0 \/ cur.status # "ready"
  /\ procs' = [q \in DOMAIN procs |->
                 IF q \in Observers THEN Notified(Joined[q], running) ELSE Joined[q]]
  /\ ready' = Requeued \o InOrder(Joiners, Rank) \o InOrder(Listeners, Rank)
  /\ running' = NoProc
  /\ cur' = NewProcess
  /\ left' = 0
  /\ UNCHANGED <<program, tick, steps, outcome, unread>>

\* Nothing is ready: the run ends, or time jumps to the earliest sleeper.
Idle ==
  /\ outcome = "none" /\ running = NoProc
  /\ InBudget /\ ready = <<>>

SleepersEvenEnded == {q \in DOMAIN procs : procs[q].cond.on = "tick"}
Sleepers == {q \in DOMAIN procs : procs[q].status = "waiting" /\ procs[q].cond.on = "tick"}

\* The earliest deadline.
Earliest == CHOOSE n \in {procs[q].cond.tick : q \in Sleepers} :
              \A q \in Sleepers : n <= procs[q].cond.tick

DueBefore == {q \in Sleepers : procs[q].cond.tick < Earliest}
DueAll    == Sleepers
Due       == {q \in Sleepers : procs[q].cond.tick <= Earliest}

NextTick ==
  /\ Idle /\ procs[Root].status # "completed"
  /\ Sleepers # {}
  /\ tick' = Earliest
  /\ procs' = [q \in DOMAIN procs |-> IF q \in Due THEN Woken(procs[q]) ELSE procs[q]]
  /\ ready' = InOrder(Due, Rank)
  /\ UNCHANGED <<program, running, cur, left, steps, outcome, unread>>

AnyWaiting == \E q \in DOMAIN procs : procs[q].status = "waiting"

RootDone == Idle /\ procs[Root].status = "completed" /\ Stop("done")

AllDone ==
  /\ Idle /\ procs[Root].status # "completed"
  /\ ~AnyWaiting
  /\ Stop("done")

Deadlock ==
  /\ Idle /\ procs[Root].status # "completed"
  /\ Sleepers = {} /\ AnyWaiting
  /\ Stop("ProcessDeadlock")

OutOfSteps ==
  /\ outcome = "none" /\ running = NoProc /\ ~InBudget
  /\ Stop("done")

\* The run has returned and nothing happens any more.
Returned == outcome # "none" /\ UNCHANGED vars

---------------------------------------------------------------------------
Init ==
  /\ program \in Menus
  /\ procs = [q \in {Root} |-> NewProcess]
  /\ ready = <<Root>>
  /\ running = NoProc
  /\ cur = NewProcess
  /\ left = 0
  /\ tick = 0
  /\ steps = 0
  /\ outcome = "none"
  /\ unread = {}

Instruction ==
  \/ Local \/ Fault \/ StepLimit \/ Halt \/ Abort \/ Exit \/ Yield \/ Spawn
  \/ \E q \in DOMAIN procs, t \in Tags : Send(q, t)
  \/ Receive \/ ReceiveOpt
  \/ \E t \in Tags : ReceiveMatch(t) \/ ReceiveMatchOpt(t)
  \/ \E q \in DOMAIN procs : Join(q) \/ Cancel(q) \/ Link(q) \/ Unlink(q) \/ Monitor(q)
  \/ \E ref \in cur.monitors : Demonitor(ref)
  \/ \E n \in Naps : Sleep(n)

Loop == Dispatch \/ EndSlice \/ NextTick \/ RootDone \/ AllDone \/ Deadlock \/ OutOfSteps

Next == Instruction \/ Loop \/ Returned

Spec == Init /\ [][Next]_vars

\* The loop is sequential and never blocks: it takes its next step.
FairSpec == Spec /\ WF_vars(Next)

---------------------------------------------------------------------------
(* Properties *)

\* The record a process acts on: its own while it runs, the map's otherwise.
View(q) == IF q = running THEN cur ELSE procs[q]

\* Type correctness: the process map has no gaps, the queue holds known processes.
TypeOK ==
  /\ program \in SUBSET Instructions
  /\ \E n \in 1 .. MaxProcesses : procs \in [0 .. n - 1 -> Process]
  /\ ready \in Seq(DOMAIN procs)
  /\ running \in DOMAIN procs \cup {NoProc}
  /\ cur \in Process
  /\ left \in 0 .. MaxSlice
  /\ tick \in Nat /\ steps \in Nat
  /\ outcome \in {"none", "done", "fault", "StepLimitExceeded", "InvalidInstruction",
                  "MailboxTooLarge", "ProcessDeadlock"}
  /\ unread \subseteq Pid \X Nat

\* No wake-up of the queue is lost or doubled: a process is queued at most once,
\* every ready process other than the running one is queued, and a queued process
\* is ready, or was cancelled after it was queued (yieldProcess, updateProcess).
QueueExact ==
  /\ IsInjective(ready)
  /\ \A q \in Range(ready) : q # running /\ procs[q].status \in {"ready", "cancelled"}
  /\ \A q \in DOMAIN procs \ {running} : procs[q].status = "ready" => q \in Range(ready)

\* A process blocked on its mailbox has nothing there that would unblock it, DOWN
\* notices to a selective receive aside (PROC_SEND's and notifyMonitorsOfDeath's wake-ups).
MailboxWakeups ==
  \A q \in DOMAIN procs : LET p == procs[q] IN
    /\ Waits(p, OnMessage) => p.mailbox = <<>>
    /\ \A t \in Tags \ {"DOWN"} : Waits(p, OnMatch(t)) => ~HasTag(p.mailbox, t)

\* The same without the exception: a process blocked in PROC_RECEIVE_MATCH has
\* no message of that tag in its mailbox.
SelectiveWakeups ==
  \A q \in DOMAIN procs, t \in Tags :
    Waits(procs[q], OnMatch(t)) => ~HasTag(procs[q].mailbox, t)

\* Nobody stays blocked joining a process that ended by its own doing
\* (wakeProcessWaiters after the slice in which it ended).
JoinWakeups ==
  \A q, d \in DOMAIN procs :
    Waits(procs[q], OnProcess(d)) => procs[d].status \notin {"completed", "failed", "exited"}

\* Every message sent to another process is in its mailbox until it is received,
\* once, whatever receives, selections and slices interleave.
MessagesConserved ==
  \A q \in DOMAIN procs :
    LET box  == View(q).mailbox
        sent == {i \in DOMAIN box : <<q, box[i].id>> \in unread}
    IN /\ {box[i].id : i \in sent} = {m[2] : m \in {u \in unread : u[1] = q}}
       /\ \A i, j \in DOMAIN box : box[i].id = box[j].id => i = j

\* Messages wait in the order they were sent, selective receives notwithstanding.
OldestFirst ==
  \A q \in DOMAIN procs :
    LET box == View(q).mailbox IN
    \A i, j \in DOMAIN box :
      i < j /\ {<<q, box[i].id>>, <<q, box[j].id>>} \subseteq unread => box[i].id < box[j].id

\* PROC_SEND never fills a mailbox beyond its limit; only DOWN notices exceed it.
SentWithinLimit ==
  \A q \in DOMAIN procs : Cardinality({u \in unread : u[1] = q}) <= MaxMailbox

\* A link is mutual, although its two ends are written to different records, one
\* of which may be the running process's own.
LinksMutual ==
  \A p, q \in DOMAIN procs : q \in View(p).links <=> p \in View(q).links

\* A monitor reference is live or has been answered, never both: no DOWN notice
\* waits whose reference is still set (notifyMonitorsOfDeath drops what it tells).
DownDropsRef ==
  \A q \in DOMAIN procs : \A r \in View(q).monitors :
    \A i \in DOMAIN View(q).mailbox : View(q).mailbox[i].id # r.id

\* The machine executes fewer than maxSteps + maxProcessStepsPerSlice instructions:
\* the budget is tested between slices only. (The functions MACHINE_TRANSITION
\* runs inside a step, left out here, are not held to it.)
StepBudget ==
  /\ steps > 0 => steps < MaxSteps + MaxSlice
  /\ running # NoProc => steps + left < MaxSteps + MaxSlice

\* The machine's step counter accounts for every process's steps.
StepsAccounted ==
  LET n == Cardinality(DOMAIN procs)
      sum[i \in 0 .. n] == IF i = 0 THEN 0 ELSE sum[i - 1] + View(i - 1).steps
  IN  steps = sum[n]

\* A sleeper's deadline lies ahead of the clock.
SleepersAhead == \A q \in Sleepers : procs[q].cond.tick > tick

\* A sleeper is woken at its deadline exactly, unless it is cancelled.
WokenOnTime ==
  [][\A q \in Sleepers : procs'[q].status = "ready" => tick' = procs[q].cond.tick]_vars

\* A process that ended never runs again: only PROC_CANCEL still rewrites its status.
\* (A process that cancels itself is not ended: its slice goes on.)
EndedForGood ==
  [][\A q \in DOMAIN procs \ {running} :
       procs[q].status \in Terminal => procs'[q].status \in {procs[q].status, "cancelled"}]_vars

\* When a process ends by its own doing, each monitor set on it is answered by a
\* DOWN notice to the process that set it, and dropped, in that same step.
DeathAnnounced ==
  [][\A d, q \in DOMAIN procs :
       procs[d].status \notin Terminal /\ procs'[d].status \in Terminal \ {"cancelled"} =>
         \A r \in View(q).monitors : r.pid = d =>
           /\ r \notin procs'[q].monitors
           /\ \E i \in DOMAIN procs'[q].mailbox :
                procs'[q].mailbox[i] = [tag |-> "DOWN", from |-> d, id |-> r.id]]_vars

\* The queue is first in, first out: a process is never overtaken.
NoOvertaking ==
  [][IsPrefix(ready, ready') \/ (ready # <<>> /\ IsPrefix(Tail(ready), ready'))]_vars

\* When another process is cancelled, its monitors are told, or it is queued, so
\* that they will be when its turn comes.
CancelAnnounced ==
  [][\A q \in DOMAIN procs, d \in DOMAIN procs \ {running} :
       /\ procs[d].status \notin Terminal /\ procs'[d].status = "cancelled"
       /\ \E r \in View(q).monitors : r.pid = d
       => d \in Range(ready')]_vars

\* A run returns.
Halts == <>(outcome # "none")

=============================================================================
