----------------------------- MODULE EffectRun -----------------------------
(***************************************************************************)
(* Suspend and resume: processes ask for effects, the machine runs until     *)
(* nobody can go on, the host answers everything that is pending and the      *)
(* machine continues from its snapshot, until it has nothing left to ask.      *)
(*                                                                          *)
(* A process executes any instruction at each step. What happens among the    *)
(* processes of one machine (joins, links, monitors, sleeping, limits) is      *)
(* ProcessScheduler's; here they send, receive and spawn, ask the host for      *)
(* effects, and link to and monitor processes of other nodes. Process 0 is      *)
(* "main"; a message is its tag, with a mark on the reply to an EFFECT_AWAIT    *)
(* (the history of the mark starts in the outbox): the host may also bring       *)
(* replies nobody awaited. Of each other node one process is linked to.         *)
(***************************************************************************)
EXTENDS Ordered, SequencesExt

CONSTANTS
  MaxProcesses,            \* maxProcesses
  Key,                     \* the correlation keys of effects
  Node,                    \* the other nodes
  MaxSteps,                \* maxSteps
  MaxProcessStepsPerSlice,
  MaxEffectsRequested,
  MatchTag,                \* bound: the tags the program selects messages by
  MessageTag,              \* bound: the tags of the messages of programs and hosts
  MaxHints                 \* bound: the deliveries one transport brings

ASSUME LimitsAssumption ==
  /\ MaxProcesses \in Nat \ {0} /\ MaxProcessStepsPerSlice \in Nat \ {0}
  /\ MaxSteps \in Nat /\ MaxEffectsRequested \in Nat
  /\ MatchTag \union MessageTag \subseteq {"EffectReply", "DOWN", "EXIT", "message"}
  /\ MaxHints \in Nat

VARIABLES
  procs,    \* the processes by number, as the scheduler's map holds them
  ready,    \* the ready queue
  running,  \* the process whose slice it is, or -1
  held,     \* that process as its slice leaves it
  slice,    \* the steps of the slice
  steps,    \* the steps of the run, over all its resumes
  outbox,   \* the intents since the last resume, in order
  owed,     \* by process, its awaits whose replies it has not received
  stage     \* "running", "suspended", or the outcome

vars == <<procs, ready, running, held, slice, steps, outbox, owed, stage>>

---------------------------------------------------------------------------
(* Processes and messages *)

Tags == {"EffectReply", "DOWN", "EXIT", "message"}

Message == [tag : Tags, awaited : BOOLEAN]
Mail(t) == [tag |-> t, awaited |-> FALSE]

OnMessage  == <<"message">>
OnMatch(t) == <<"match", t>>
OnEffect(k) == <<"effect", k>>
Waits      == {OnMessage} \union {OnMatch(t) : t \in MatchTag} \union {OnEffect(k) : k \in Key}
Terminal   == {<<"completed">>, <<"exited">>}
Ready      == <<"ready">>
Status     == {Ready} \union Waits \union Terminal

\* Of the monitors of remote processes, how many each node has.
Process == [status : Status, mailbox : Seq(Message), monitors : [Node -> Nat],
            remoteLinks : SUBSET Node, trapExit : BOOLEAN]

NewProcess == [status |-> Ready, mailbox |-> <<>>, monitors |-> [n \in Node |-> 0], remoteLinks |-> {}, trapExit |-> FALSE]

mailboxHasVariantTag(t, mailbox) == \E m \in ToSet(mailbox) : m.tag = t

---------------------------------------------------------------------------
(* Deliveries: what applyDelivery makes of the processes and the queue *)

\* Here and below, a definition named for what it leaves out is a slip of the
\* one it precedes: a plausible bug, which the run must notice.
WakesPlainReceive(status, mailbox) == status = OnMessage

WakesFor(status, mailbox) ==
  status = OnMessage \/ \E t \in MatchTag : status = OnMatch(t) /\ mailboxHasVariantTag(t, mailbox)

\* Process p with these messages appended, woken and queued if it is to be.
Woken(m, p, q, wakes) ==
  [procs |-> [m.procs EXCEPT ![p] = IF wakes THEN [q EXCEPT !.status = Ready] ELSE q],
   ready |-> IF wakes THEN Append(m.ready, p) ELSE m.ready]

MailboxMessage(m, p, t) ==
  LET q == [m.procs[p] EXCEPT !.mailbox = Append(@, Mail(t))]
  IN  Woken(m, p, q, WakesFor(q.status, q.mailbox))

\* A plain receive is not woken by a reply, only by a message that looks like one.
EffectReply(m, p, k, awaited) ==
  LET q == [m.procs[p] EXCEPT !.mailbox = Append(@, [tag |-> "EffectReply", awaited |-> awaited])]
  IN  Woken(m, p, q, q.status = OnEffect(k) \/ (q.status # OnMessage /\ WakesFor(q.status, q.mailbox)))

\* What a process is told of a disconnection: a DOWN for each of its monitors of
\* the node, and an EXIT if it is linked and traps exits; if it does not, it exits.
Notices(q, node) ==
  [i \in 1 .. q.monitors[node] |-> Mail("DOWN")]
    \o (IF node \in q.remoteLinks /\ q.trapExit THEN <<Mail("EXIT")>> ELSE <<>>)

\* Queued: one in a plain receive that is told of anything, even if it exits.
Hears(q, node) == q.status = OnMessage /\ Notices(q, node) # <<>>

Disconnected(q, node) ==
  [q EXCEPT !.mailbox = @ \o Notices(q, node), !.monitors[node] = 0, !.remoteLinks = @ \ {node},
            !.status = IF node \in q.remoteLinks /\ ~q.trapExit THEN <<"exited">>
                       ELSE IF Hears(q, node) THEN Ready ELSE @]

applyDisconnectDelivery(m, node) ==
  [procs |-> [p \in DOMAIN m.procs |-> Disconnected(m.procs[p], node)],
   ready |-> m.ready \o InOrder({p \in DOMAIN m.procs : Hears(m.procs[p], node)}, [p \in DOMAIN m.procs |-> p])]

\* What is delivered to a process that is not there is dropped.
applyDelivery(m, d) ==
  CASE d[1] = "disconnect"                          -> applyDisconnectDelivery(m, d[2])
    [] d[1] = "reply" /\ d[2] \in DOMAIN m.procs   -> EffectReply(m, d[2], d[3], d[4])
    [] d[1] = "message" /\ d[2] \in DOMAIN m.procs -> MailboxMessage(m, d[2], d[3])
    [] OTHER                                        -> m

---------------------------------------------------------------------------
(* The run loop: runUntilQuiescent *)

Dispatch ==
  /\ stage = "running" /\ running = -1
  /\ steps < MaxSteps /\ ready # <<>>
  /\ running' = Head(ready) /\ ready' = Tail(ready)
  /\ held' = procs[Head(ready)] /\ slice' = 0
  /\ UNCHANGED <<procs, steps, outbox, owed, stage>>

Executes == running # -1 /\ held.status = Ready /\ slice < MaxProcessStepsPerSlice

EndSlice ==
  /\ stage = "running" /\ running # -1 /\ ~Executes
  /\ procs' = [procs EXCEPT ![running] = held]
  /\ ready' = IF held.status = Ready THEN Append(ready, running) ELSE ready
  /\ running' = -1 /\ held' = NewProcess /\ slice' = 0
  /\ UNCHANGED <<steps, outbox, owed, stage>>

\* The status of the output: whatever is pending comes before who is alive.
quiescedOutput ==
  IF outbox # <<>> THEN "suspended"
  ELSE IF \E p \in DOMAIN procs : procs[p].status \notin Terminal THEN "deadlock"
  ELSE "completed"

Quiesce ==
  /\ stage = "running" /\ running = -1
  /\ steps >= MaxSteps \/ ready = <<>>
  /\ stage' = quiescedOutput
  /\ UNCHANGED <<procs, ready, running, held, slice, steps, outbox, owed>>

---------------------------------------------------------------------------
(* Instructions. Each is a step of the machine and of the slice. *)

Steps(q) ==
  /\ stage = "running" /\ Executes
  /\ held' = q
  /\ steps' = steps + 1 /\ slice' = slice + 1
  /\ UNCHANGED running

\* A run that fails has an error and nothing else: its machine is gone.
Lost ==
  /\ procs' = [p \in {} |-> NewProcess] /\ ready' = <<>>
  /\ running' = -1 /\ held' = NewProcess /\ slice' = 0
  /\ steps' = 0 /\ outbox' = <<>> /\ owed' = [p \in DOMAIN owed |-> 0]
  /\ stage' = "failed"

\* An error of one process ends the whole run.
Fault == stage = "running" /\ Executes /\ Lost

AtLimitOffByOne == Len(outbox) > MaxEffectsRequested

AtLimit == Len(outbox) >= MaxEffectsRequested

\* pendingEntry tells an await by its payload: what it is for process p and key k.
AwaitReply(p, k, awaited) ==
  [kind |-> "await_reply", effect |-> TRUE, pid |-> p, key |-> k, awaited |-> awaited]

Pid == 0 .. MaxProcesses   \* the last is nobody's

\* A request whose payload holds a key and a payload passes for an await, of any
\* process; it asks for a reply its process does not wait for.
Request(e) ==
  /\ ~AtLimit /\ Steps(held)
  /\ outbox' = Append(outbox, e)
  /\ UNCHANGED <<procs, ready, owed, stage>>

EFFECT_REQUEST ==
  \/ Request([kind |-> "transport", effect |-> TRUE])
  \/ \E p \in Pid, k \in Key : Request(AwaitReply(p, k, FALSE))

EFFECT_AWAIT(k) ==
  /\ ~AtLimit /\ Steps([held EXCEPT !.status = OnEffect(k)])
  /\ outbox' = Append(outbox, AwaitReply(running, k, TRUE))
  /\ owed' = [owed EXCEPT ![running] = @ + 1]
  /\ UNCHANGED <<procs, ready, stage>>

\* The NODE_ instructions fill the outbox too, and are not refused at the limit.
Intent(q) ==
  /\ Steps(q)
  /\ outbox' = Append(outbox, [kind |-> "transport", effect |-> FALSE])
  /\ UNCHANGED <<procs, ready, owed, stage>>

NODE_SEND == Intent(held)
NODE_LINK(n) == Intent([held EXCEPT !.remoteLinks = @ \union {n}])
NODE_UNLINK(n) == Intent([held EXCEPT !.remoteLinks = @ \ {n}])
NODE_MONITOR(n) == Intent([held EXCEPT !.monitors[n] = @ + 1])
NODE_DEMONITOR(n) == held.monitors[n] > 0 /\ Intent([held EXCEPT !.monitors[n] = @ - 1])

PROC_TRAP_EXIT(trap) ==
  Steps([held EXCEPT !.trapExit = trap]) /\ UNCHANGED <<procs, ready, outbox, owed, stage>>

\* The message goes to the map, which a process running itself overwrites.
PROC_SEND(p, t) ==
  /\ Steps(held)
  /\ LET m == MailboxMessage([procs |-> procs, ready |-> ready], p, t) IN procs' = m.procs /\ ready' = m.ready
  /\ UNCHANGED <<outbox, owed, stage>>

\* A receive of message i, or the wait for one; only a receive moves the program on.
Takes(i) ==
  /\ Steps([held EXCEPT !.mailbox = RemoveAt(@, i)])
  /\ owed' = IF held.mailbox[i].awaited THEN [owed EXCEPT ![running] = @ - 1] ELSE owed
  /\ UNCHANGED <<procs, ready, outbox, stage>>

Blocks(wait) == Steps([held EXCEPT !.status = wait]) /\ UNCHANGED <<procs, ready, outbox, owed, stage>>

PROC_RECEIVE == IF held.mailbox = <<>> THEN Blocks(OnMessage) ELSE Takes(1)

PROC_RECEIVE_MATCH(t) ==
  IF mailboxHasVariantTag(t, held.mailbox)
  THEN Takes(SelectInSeq(held.mailbox, LAMBDA m : m.tag = t)) ELSE Blocks(OnMatch(t))

PROC_SPAWN ==
  LET p == Cardinality(DOMAIN procs)
  IN  /\ p < MaxProcesses /\ Steps(held)
      /\ procs' = [q \in DOMAIN procs \union {p} |-> IF q = p THEN NewProcess ELSE procs[q]]
      /\ ready' = Append(ready, p)
      /\ UNCHANGED <<outbox, owed, stage>>

HALT == Steps([held EXCEPT !.status = <<"completed">>]) /\ UNCHANGED <<procs, ready, outbox, owed, stage>>

Instruction ==
  \/ EFFECT_REQUEST \/ \E k \in Key : EFFECT_AWAIT(k)
  \/ NODE_SEND \/ \E n \in Node : NODE_LINK(n) \/ NODE_UNLINK(n) \/ NODE_MONITOR(n) \/ NODE_DEMONITOR(n)
  \/ \E trap \in BOOLEAN : PROC_TRAP_EXIT(trap)
  \/ \E p \in DOMAIN procs, t \in MessageTag : PROC_SEND(p, t)
  \/ PROC_RECEIVE \/ \E t \in MatchTag : PROC_RECEIVE_MATCH(t)
  \/ PROC_SPAWN \/ HALT \/ Fault

---------------------------------------------------------------------------
(* The host answers what is pending, in order; a handler may fail. *)

\* What a handler may have the driver deliver for a transport: a reply, a message or
\* a disconnection (the status of a node is nothing to the processes).
Hints ==
  ({"reply"} \X Pid \X Key \X {FALSE}) \union ({"message"} \X Pid \X MessageTag) \union ({"disconnect"} \X Node)

\* Slips: the snapshot forgets the steps, or keeps what was pending.
StepsForgotten == 0
OutboxKept == outbox

\* decodeMachineState: what the snapshot does not hold is empty again.
StepsRestored == steps
OutboxRestored == <<>>

OneHint(ms) == ms \union {applyDelivery(m, d) : m \in ms, d \in Hints}

\* What the machines ms may be after the hints of a transport, in their order.
Hinted(ms) ==
  LET H[n \in 0 .. MaxHints] == IF n = 0 THEN ms ELSE OneHint(H[n - 1]) IN H[MaxHints]

\* What the driver delivers for entry e to the machines ms: the reply, or the hints.
Delivered(e, ms) ==
  IF e.kind = "await_reply" THEN {applyDelivery(m, <<"reply", e.pid, e.key, e.awaited>>) : m \in ms} ELSE Hinted(ms)

\* What the machine may be with the first i entries of the outbox answered.
Answered[i \in 0 .. Len(outbox)] ==
  IF i = 0 THEN {[procs |-> procs, ready |-> ready]} ELSE Delivered(outbox[i], Answered[i - 1])

runEffectResume ==
  /\ stage = "suspended"
  /\ \E m \in Answered[Len(outbox)] : procs' = m.procs /\ ready' = m.ready
  /\ steps' = StepsRestored /\ outbox' = OutboxRestored
  /\ stage' = "running"
  /\ UNCHANGED <<running, held, slice, owed>>

HostFails == stage = "suspended" /\ Lost

---------------------------------------------------------------------------

Init ==
  /\ procs = [p \in {0} |-> NewProcess] /\ ready = <<0>>
  /\ running = -1 /\ held = NewProcess /\ slice = 0
  /\ steps = 0 /\ outbox = <<>> /\ owed = [p \in 0 .. MaxProcesses - 1 |-> 0]
  /\ stage = "running"

Run == Dispatch \/ EndSlice \/ Quiesce \/ Instruction

Next == Run \/ runEffectResume \/ HostFails

\* The machine computes without pausing, and the driver answers each round or
\* fails (HostDriver, RunSettles): a suspended run does not stay so.
HostSettles == stage = "suspended" /\ stage' \in {"running", "failed"}

Spec == Init /\ [][Next]_vars /\ WF_vars(Run) /\ WF_stage(HostSettles)

---------------------------------------------------------------------------
(* Properties *)

\* The types, and the limit on effects: those pending were each asked for below
\* maxEffectsRequested, whatever the NODE_ instructions added.
TypeOK ==
  /\ DOMAIN procs = 0 .. Cardinality(DOMAIN procs) - 1
  /\ \A p \in DOMAIN procs : procs[p] \in Process
  /\ running \in DOMAIN procs \union {-1} /\ held \in Process
  /\ ToSet(ready) \subseteq DOMAIN procs
  /\ stage \in {"running", "suspended", "deadlock", "completed", "failed"}
  /\ Cardinality({i \in DOMAIN outbox : outbox[i].effect}) <= MaxEffectsRequested

\* Entry e is an EFFECT_AWAIT of process p.
Awaits(e, p) == e.kind = "await_reply" /\ e.awaited /\ e.pid = p

Now(p) == IF p = running THEN held ELSE procs[p]
Count(s, Is(_)) == Cardinality({i \in DOMAIN s : Is(s[i])})

\* Every await gets its one reply, over any number of suspensions, whoever exits
\* meanwhile and whatever else is delivered: what a process is owed is in its mailbox
\* or still pending, for one await at most, and a process that waits for a reply has
\* it pending. Replies nobody awaited come on top (EFFECT_AWAIT, EFFECT_REQUEST,
\* pendingEntry, applyDelivery, decodeMachineState).
RepliesAccounted ==
  \A p \in DOMAIN procs :
    LET pending == {i \in DOMAIN outbox : Awaits(outbox[i], p)}
    IN  /\ owed[p] = Count(Now(p).mailbox, LAMBDA m : m.awaited) + Cardinality(pending)
        /\ \A i, j \in pending : i = j
        /\ \A k \in Key : Now(p).status = OnEffect(k) => \E i \in pending : outbox[i].key = k

\* Between slices nobody sleeps on what it waits for, and every ready process is
\* queued once, so that a deadlock is only called with the step budget spent or when
\* nobody can go on. Two exceptions are the code's: a selective receive sleeps on the
\* DOWN or EXIT of a disconnection, and a plain one on replies nobody awaited
\* (ReceiversHearEverything), but never on the reply of an await of its own
\* (applyDelivery, applyDisconnectDelivery, quiescedOutput).
NobodyForgotten ==
  running = -1 =>
    \A p \in DOMAIN procs :
      LET q == procs[p]
      IN  /\ q.status = OnMessage => \A m \in ToSet(q.mailbox) : m.tag = "EffectReply" /\ ~m.awaited
          /\ \A t \in MatchTag \ {"DOWN", "EXIT"} : q.status = OnMatch(t) => ~mailboxHasVariantTag(t, q.mailbox)
          /\ Count(ready, LAMBDA r : r = p) <= 1
          /\ q.status = Ready => p \in ToSet(ready)
          /\ stage = "deadlock" /\ q.status = Ready => steps >= MaxSteps

\* Not so: "PROC_RECEIVE dst: Read oldest message or block" (INSTRUCTION_SET.md). A
\* reply delivered to a process in a plain receive does not wake it (applyDelivery).
ReceiversHearEverything ==
  \A p \in DOMAIN procs : running = -1 /\ procs[p].status = OnMessage => procs[p].mailbox = <<>>

\* A run ends, however often it is suspended: its steps count over all of it.
RunEnds == <>(stage \in {"deadlock", "completed", "failed"})
=============================================================================
