---------------------------- MODULE WakeLifecycle ----------------------------
(***************************************************************************)
(* A handler's loop and the wakes it starts (apps/a8s/daemon.py), the      *)
(* record that names a wake's mail (core.py), and `a8s stop --force`, which *)
(* kills a handler that does not end and settles what it leaves            *)
(* (commands.py).  A handler serves several agents and has one slot for a  *)
(* wake.  Exit 0 acks a wake's mail; any other end makes it dead letters.  *)
(* Who may attach to an agent is HandlerClaim's subject: here owner[a] is  *)
(* the live process in the pid file.                                       *)
(***************************************************************************)
EXTENDS Integers, FiniteSets, Sequences, SequencesExt

CONSTANTS
  Handler,     \* handler processes, each attached at most once
  Agent,
  Serves,      \* the agents a handler may be told to serve
  Order,       \* the agents as the command line lists them
  Proxy,       \* agents whose inbox is a folder somebody else watches
  Batch,       \* agents with a batch invoke
  BatchLimit,  \* how many messages one batch takes
  Budgeted,    \* agents with max_wake_seconds
  Resident,    \* agents whose wake hands the turn to a detached session
  Msg,
  To,          \* the agent whose inbox a message is routed to
  Asked,       \* detach and kill requests that may be made: <<agent, kind>>
  Renewed,     \* messages that stand for endless mail: they come again
  None,
  MaxEvents    \* bound on the events of the run, see "events"

ASSUME WakeAssumption ==
  /\ Serves \in [Handler -> SUBSET Agent] /\ IsFiniteSet(Agent)
  /\ Order \in Seq(Agent) /\ \A i, j \in DOMAIN Order : Order[i] = Order[j] => i = j
  /\ Proxy \subseteq Agent /\ Batch \subseteq Agent
  /\ BatchLimit \in Nat \ {0, 1} /\ Budgeted \subseteq Agent /\ Resident \subseteq Agent
  /\ To \in [Msg -> Agent] /\ Renewed \subseteq Msg
  /\ Asked \subseteq Agent \X {"detach", "kill"} /\ None \notin Handler
  /\ MaxEvents \in Nat

VARIABLES
  inbox,     \* inbox[a]: the messages waiting, in the order of their names
  sent,      \* messages that were routed
  trash,     \* messages a wake has consumed
  acked,     \* the ones with a WAKE_RETURN row that says exit 0
  dead,      \* the ones with a dead-letter marker
  last,      \* last[a]: the outcome in last-wake
  record,    \* record[a]: the wake-pid file
  owner,     \* owner[a]: the live handler in the pid file
  request,   \* request[a]: a detach or kill request on disk
  wakes,     \* wake processes: their unit, their handler, their state
  children,  \* units whose detached session still works
  outcomes,  \* units with a failure record in wake-outcomes
  pc, names, rr, pos,  \* the loop: its step, agents, wake_rr and place in the pass
  slot,      \* slot[h]: the unit of _CURRENT_WAKE_PROC, or {}
  cur,       \* cur[h]: the unit the loop is starting or has just settled
  signals,   \* stop signals taken, up to 2
  frozen,    \* handlers a stop has suspended
  kpc, target, scope, own, left, looks, unit,  \* `a8s stop --force`
  sure,      \* the stop has confirmed that its handler is frozen
  events,    \* bound: force stops, deaths, requests and stop signals so far
  excused,   \* messages the code loses sight of in a known window  (history)
  tainted,   \* agents attached beside an unsettled wake or stop  (history)
  newest,    \* the last unit started for each agent  (history)
  reported,  \* units whose session reported a failure  (history)
  caught     \* the unsettled mail of a handler that a stop killed  (history)

mail == <<inbox, sent, trash, acked, dead, last>>
disk == <<record, owner, request>>
procs == <<wakes, children, outcomes>>
loop == <<names, rr, pos, slot, cur, signals>>
stop == <<kpc, target, scope, own, left, looks, unit, sure, frozen>>
history == <<excused, tainted, newest, reported, caught>>
vars == <<inbox, sent, trash, acked, dead, last, record, owner, request, wakes,
          children, outcomes, pc, names, rr, pos, slot, cur, signals, frozen,
          kpc, target, scope, own, left, looks, unit, sure, events,
          excused, tainted, newest, reported, caught>>

Unit == SUBSET Msg
NoRecord == [unit |-> {}, born |-> FALSE]
States == {"running", "ok", "failed"}
LoopSteps == {"top", "service", "unrecord", "consume", "proxies", "dispatch",
              "trashed", "claimed", "spawned", "unspawned", "fin", "finUnrecord"}
StopSteps == {"idle", "term", "wait", "freeze", "recorded", "children", "handler",
              "late", "settle", "check", "clear", "mark", "end"}

Live(h) == pc[h] \in LoopSteps
At(h, step) == pc[h] = step /\ h \notin frozen
Go(h, step) == pc' = [pc EXCEPT ![h] = step]
AgentOf(u) == To[CHOOSE m \in u : TRUE]
InFlight(h) == \E w \in wakes : w.unit = slot[h] /\ w.st = "running"
Hand(h) == slot[h] \cup cur[h]

Init ==
  /\ inbox = [a \in Agent |-> <<>>] /\ sent = {} /\ trash = {}
  /\ acked = {} /\ dead = {} /\ last = [a \in Agent |-> "none"]
  /\ record = [a \in Agent |-> NoRecord] /\ owner = [a \in Agent |-> None]
  /\ request = [a \in Agent |-> "none"]
  /\ wakes = {} /\ children = {} /\ outcomes = {}
  /\ pc = [h \in Handler |-> "unborn"] /\ names = [h \in Handler |-> {}]
  /\ rr = [h \in Handler |-> 0] /\ pos = [h \in Handler |-> 0]
  /\ slot = [h \in Handler |-> {}] /\ cur = [h \in Handler |-> {}]
  /\ signals = [h \in Handler |-> 0] /\ frozen = {}
  /\ kpc = "idle" /\ target = None /\ scope = {} /\ own = {} /\ left = {} /\ looks = None
  /\ unit = {} /\ sure = FALSE
  /\ events = 0
  /\ excused = {} /\ tainted = {} /\ newest = [a \in Agent |-> {}] /\ reported = {}
  /\ caught = {}

(***************************************************************************)
(* Mail arrives, wakes exit, sessions report.                              *)
(***************************************************************************)
\* Nothing refers to the message any more.
Done(m) ==
  /\ m \in acked \cup dead /\ \A u \in children \cup outcomes : m \notin u
  /\ \A a \in Agent : m \notin record[a].unit
  /\ \A h \in Handler : m \notin Hand(h)
  /\ \A w \in wakes : m \notin w.unit
Waits(m) == \E i \in 1 .. Len(inbox[To[m]]) : inbox[To[m]][i] = m

Arrive(m) ==
  /\ m \notin sent \/ (m \in Renewed /\ ~Waits(m) /\ (m \in trash => Done(m)))
  /\ inbox' = [inbox EXCEPT ![To[m]] = Append(@, m)]
  /\ sent' = sent \cup {m} /\ trash' = trash \ {m}
  /\ acked' = acked \ {m} /\ dead' = dead \ {m} /\ reported' = {u \in reported : m \notin u}
  /\ newest' = [a \in Agent |-> IF m \in newest[a] THEN {} ELSE newest[a]]
  /\ UNCHANGED <<last, disk, procs, pc, loop, stop, events, excused, tainted, caught>>

\* The wakes of W end with this code; a handler that is gone reaps nothing.
Ended(W, code) ==
  (wakes \ W) \cup {[w EXCEPT !.st = code] : w \in {v \in W : Live(v.by)}}

Exit(w) ==
  /\ w.st = "running" /\ \E code \in {"ok", "failed"} : wakes' = Ended({w}, code)
  /\ UNCHANGED <<mail, disk, children, outcomes, pc, loop, stop, events, history>>

\* The detached session of a wake ends; report_failure leaves a record.
SessionEnds(u) ==
  /\ u \in children /\ children' = children \ {u}
  /\ \/ outcomes' = outcomes \cup {u} /\ reported' = reported \cup {u}
     \/ UNCHANGED <<outcomes, reported>>
  /\ UNCHANGED <<mail, disk, wakes, pc, loop, stop, events, excused, tainted, newest,
                 caught>>

\* terminate_group: the wake gets SIGTERM and may still exit 0 on it.
SlotKilled(h) ==
  \E code \in {"ok", "failed"} :
    wakes' = Ended({w \in wakes : w.unit = slot[h] /\ w.st = "running"}, code)

\* max_wake_seconds, enforced by the loop (a loop that is stuck has a watchdog to kill the
\* wake in the same way).
TimesUp(h) ==
  /\ Live(h) /\ h \notin frozen /\ InFlight(h) /\ AgentOf(slot[h]) \in Budgeted
  /\ SlotKilled(h)
  /\ UNCHANGED <<mail, disk, children, outcomes, pc, loop, stop, events, history>>

\* The first stop signal sets the stop event, the second one kills the wake.
Signalled(h) ==
  /\ signals' = [signals EXCEPT ![h] = IF @ = 2 THEN 2 ELSE @ + 1]
  /\ IF signals[h] >= 1 THEN SlotKilled(h) ELSE UNCHANGED wakes
Signal(h) ==
  /\ Live(h) /\ h \notin frozen /\ signals[h] < 2 /\ Signalled(h)
  /\ events < MaxEvents /\ events' = events + 1
  /\ UNCHANGED <<mail, disk, children, outcomes, pc, names, rr, pos, slot, cur,
                 stop, history>>

(***************************************************************************)
(* Attaching, and requests to let go.                                      *)
(***************************************************************************)
\* A wake of the agent that an earlier handler has yet to settle, or a stop that has
\* yet to finish with the agent.
Unsettled(a) ==
  \/ record[a].unit \ (acked \cup dead) # {}
  \/ \E h \in Handler : Live(h) /\ \E m \in Hand(h) : To[m] = a
  \/ kpc # "idle" /\ a \in scope

\* A handler that attaches does not look at a record it finds.
Attach(h, S) ==
  /\ pc[h] = "unborn" /\ S # {} /\ S \subseteq Serves[h] /\ \A a \in S : owner[a] = None
  /\ Go(h, "top") /\ names' = [names EXCEPT ![h] = S]
  /\ owner' = [a \in Agent |-> IF a \in S THEN h ELSE owner[a]]
  /\ request' = [a \in Agent |-> IF a \in S THEN "none" ELSE request[a]]
  /\ tainted' = tainted \cup {a \in S : Unsettled(a)}
  /\ UNCHANGED <<mail, record, procs, rr, pos, slot, cur, signals, stop, events,
                 excused, newest, reported, caught>>

Ask(a, kind) ==
  /\ events < MaxEvents /\ events' = events + 1
  /\ owner[a] # None /\ request' = [request EXCEPT ![a] = kind]
  /\ UNCHANGED <<mail, record, owner, procs, pc, loop, stop, history>>

\* Mutant: a failure record is taken while the wake that left it is unsettled.
MayTakeEarly(me, a) == record[a].unit = {} \/ owner[a] \in {None, me}

\* _consume_wake_failures: the wake that enqueued the turn settles first.
MayTake(me, a) ==
  /\ me = None \/ slot[me] = {} \/ AgentOf(slot[me]) # a
  /\ record[a].unit = {} \/ owner[a] \in {None, me}

Consumed(S, me) ==
  LET taken == {u \in outcomes : AgentOf(u) \in S /\ MayTake(me, AgentOf(u))}
  IN /\ outcomes' = outcomes \ taken /\ dead' = dead \cup UNION taken
     /\ last' = [a \in Agent |->
                   IF \E u \in taken : AgentOf(u) = a /\ ~(u \subseteq dead)
                     THEN "failed" ELSE last[a]]

\* The top of an iteration: a kill request also ends the agent's own wake, and
\* its stop hook takes the failure records.
Yield(h, a) ==
  /\ At(h, "top") /\ a \in names[h] /\ request[a] # "none"
  /\ IF request[a] = "kill" /\ slot[h] # {} /\ AgentOf(slot[h]) = a
       THEN SlotKilled(h) ELSE UNCHANGED wakes
  /\ IF request[a] = "kill" THEN Consumed({a}, h) ELSE UNCHANGED <<outcomes, dead, last>>
  /\ names' = [names EXCEPT ![h] = @ \ {a}]
  /\ owner' = [owner EXCEPT ![a] = None] /\ request' = [request EXCEPT ![a] = "none"]
  /\ UNCHANGED <<inbox, sent, trash, acked, record, children, pc, rr, pos, slot, cur,
                 signals, stop, events, history>>

(***************************************************************************)
(* attached_loop.                                                          *)
(***************************************************************************)
MayStop(h) == signals[h] > 0 /\ ~InFlight(h)
Begin(h) ==
  /\ At(h, "top") /\ (MayStop(h) \/ \A a \in names[h] : request[a] = "none")
  /\ Go(h, IF MayStop(h) \/ names[h] = {} THEN "fin" ELSE "service")
  /\ UNCHANGED <<mail, disk, procs, loop, stop, events, history>>

\* Mutants: a wake that fails leaves no marker; the record outlives the settling.
MarkedNever(u) == dead
ClearedNever(a) == record

\* The markers of a failed wake's mail; the removal of the record.
Marked(u) == dead \cup u
Cleared(a) == [record EXCEPT ![a] = NoRecord]

\* _service_in_flight_wake: there is no wake, or it still runs.
Service(h) ==
  /\ At(h, "service") /\ (slot[h] = {} \/ InFlight(h)) /\ Go(h, "consume")
  /\ UNCHANGED <<mail, disk, procs, loop, stop, events, history>>

\* _finish_wake_if_done and the first half of _clear_wake_state: exit 0 is the
\* only ack, everything else a dead letter.
Settle(h) ==
  /\ At(h, "service") \/ At(h, "fin")
  /\ slot[h] # {} /\ ~InFlight(h)
  /\ LET ok == \E w \in wakes : w.unit = slot[h] /\ w.st = "ok"
     IN /\ acked' = IF ok THEN acked \cup slot[h] ELSE acked
        /\ dead' = IF ok THEN dead ELSE Marked(slot[h])
        /\ last' = [last EXCEPT ![AgentOf(slot[h])] = IF ok THEN "ok" ELSE "failed"]
  /\ wakes' = {w \in wakes : w.unit # slot[h]}
  /\ cur' = [cur EXCEPT ![h] = slot[h]] /\ slot' = [slot EXCEPT ![h] = {}]
  /\ Go(h, IF pc[h] = "service" THEN "unrecord" ELSE "finUnrecord")
  /\ UNCHANGED <<inbox, sent, trash, disk, children, outcomes, names, rr, pos,
                 signals, stop, events, history>>

\* clear_wake_pid: whosever record it is by now.
Unrecord(h) ==
  /\ At(h, "unrecord") \/ At(h, "finUnrecord")
  /\ record' = Cleared(AgentOf(cur[h]))
  /\ cur' = [cur EXCEPT ![h] = {}]
  /\ Go(h, IF pc[h] = "unrecord" THEN "consume" ELSE "fin")
  /\ UNCHANGED <<mail, owner, request, procs, names, rr, pos, slot, signals, stop,
                 events, history>>

Consume(h) ==
  /\ At(h, "consume") /\ Consumed(names[h], h) /\ Go(h, "proxies")
  /\ UNCHANGED <<inbox, sent, trash, acked, disk, wakes, children, loop, stop, events,
                 history>>

\* Mutant: the folders wait for the wake slot.
DeliveredGated(h) == IF slot[h] = {} THEN names[h] \cap Proxy ELSE {}

\* _deliver_file_proxy moves the whole inbox, wake or no wake.
Delivered(h) == names[h] \cap Proxy
Proxies(h) ==
  /\ At(h, "proxies")
  /\ inbox' = [a \in Agent |-> IF a \in Delivered(h) THEN <<>> ELSE inbox[a]]
  /\ pos' = [pos EXCEPT ![h] = 0] /\ Go(h, "dispatch")
  /\ UNCHANGED <<sent, trash, acked, dead, last, disk, procs, names, rr, slot, cur,
                 signals, stop, events, history>>

\* The agent whose turn it is in this pass: so many of the handler's come before it.
Ring(h) == Cardinality(names[h])
Place(h) == ((rr[h] % Ring(h)) + pos[h]) % Ring(h)
Before(a, b) == \E i, j \in DOMAIN Order : i < j /\ Order[i] = a /\ Order[j] = b
Turn(h) == {a \in names[h] : Cardinality({b \in names[h] : Before(b, a)}) = Place(h)}
Passing(h) == At(h, "dispatch") /\ pos[h] < Ring(h) /\ ~InFlight(h)
Ready(a) == a \notin Proxy /\ inbox[a] # <<>>
\* The oldest message, or what a batch takes when two or more wait.
NextUnit(a) == IF a \in Batch /\ Len(inbox[a]) >= 2
              THEN SubSeq(inbox[a], 1, IF Len(inbox[a]) < BatchLimit THEN Len(inbox[a])
                                       ELSE BatchLimit)
              ELSE <<inbox[a][1]>>

\* The slot is taken, the stop event is set, or the pass is over.
PassEnds(h) ==
  /\ At(h, "dispatch") /\ (~Passing(h) \/ signals[h] > 0) /\ Go(h, "top")
  /\ UNCHANGED <<mail, disk, procs, loop, stop, events, history>>

NextAgent(h) ==
  /\ Passing(h) /\ signals[h] = 0 /\ \A a \in Turn(h) : ~Ready(a)
  /\ pos' = [pos EXCEPT ![h] = @ + 1]
  /\ UNCHANGED <<mail, disk, procs, pc, names, rr, slot, cur, signals, stop, events,
                 history>>

\* wake_once and wake_batch: the unit leaves the inbox before anything names it.
Take(h) ==
  /\ Passing(h) /\ signals[h] = 0
  /\ \E a \in Turn(h) :
       /\ Ready(a)
       /\ cur' = [cur EXCEPT ![h] = ToSet(NextUnit(a))]
       /\ trash' = trash \cup ToSet(NextUnit(a))
       /\ inbox' = [inbox EXCEPT ![a] = SubSeq(@, Len(NextUnit(a)) + 1, Len(@))]
  /\ Go(h, "trashed")
  /\ UNCHANGED <<sent, acked, dead, last, disk, procs, names, rr, pos, slot, signals,
                 stop, events, history>>

\* The wake never starts: its mail is dead and the pass goes on.
Fails(h) ==
  /\ dead' = Marked(cur[h]) /\ last' = [last EXCEPT ![AgentOf(cur[h])] = "failed"]
  /\ cur' = [cur EXCEPT ![h] = {}] /\ pos' = [pos EXCEPT ![h] = @ + 1]
  /\ Go(h, "dispatch")
  /\ UNCHANGED <<inbox, sent, trash, acked, disk, procs, names, rr, slot, signals, stop,
                 events, history>>

\* A message that does not parse, a definition or a variable that does not resolve.
Abort(h) == At(h, "trashed") /\ Fails(h)

\* write_wake_claim replaces whatever record is there: that of a handler that died,
\* or of a wake that exited since the loop looked.
Claim(h) ==
  /\ At(h, "trashed") /\ Go(h, "claimed")
  /\ record' = [record EXCEPT ![AgentOf(cur[h])] = [unit |-> cur[h], born |-> FALSE]]
  /\ excused' = excused \cup record[AgentOf(cur[h])].unit
  /\ UNCHANGED <<mail, owner, request, procs, loop, stop, events, tainted, newest,
                 reported, caught>>

Spawn(h) ==
  /\ At(h, "claimed") /\ Go(h, "spawned")
  /\ wakes' = wakes \cup {[unit |-> cur[h], by |-> h, st |-> "running"]}
  /\ children' = IF AgentOf(cur[h]) \in Resident THEN children \cup {cur[h]} ELSE children
  /\ UNCHANGED <<mail, disk, outcomes, loop, stop, events, history>>

SpawnFails(h) ==
  /\ At(h, "claimed") /\ Go(h, "unspawned") /\ record' = Cleared(AgentOf(cur[h]))
  /\ UNCHANGED <<mail, owner, request, procs, loop, stop, events, history>>
Unspawned(h) == At(h, "unspawned") /\ Fails(h)

\* Mutant: the turn does not move on.
AdvanceNever(h) == rr

\* The next pass starts behind the agent that woke.
Advance(h) == [rr EXCEPT ![h] = (@ % Ring(h)) + pos[h] + 1]

\* write_wake_pid.  The slot may hold a wake that has exited since the loop looked
\* (_wake_in_flight asks for the process only), which nothing settles any more.
Note(h) ==
  /\ At(h, "spawned") /\ Go(h, "top")
  /\ slot' = [slot EXCEPT ![h] = cur[h]] /\ cur' = [cur EXCEPT ![h] = {}]
  /\ record' = [record EXCEPT ![AgentOf(cur[h])] = [unit |-> cur[h], born |-> TRUE]]
  /\ rr' = Advance(h) /\ newest' = [newest EXCEPT ![AgentOf(cur[h])] = cur[h]]
  /\ wakes' = {w \in wakes : slot[h] = {} \/ w.unit # slot[h]}
  /\ UNCHANGED <<mail, owner, request, children, outcomes, names, pos, signals, stop,
                 events, excused, tainted, reported, caught>>

\* The process is gone: what is in its pid files reads as no handler.
Ends(h) ==
  /\ Go(h, "gone")
  /\ owner' = [a \in Agent |-> IF owner[a] = h THEN None ELSE owner[a]]
  /\ names' = [names EXCEPT ![h] = {}] /\ rr' = [rr EXCEPT ![h] = 0]
  /\ pos' = [pos EXCEPT ![h] = 0] /\ slot' = [slot EXCEPT ![h] = {}]
  /\ cur' = [cur EXCEPT ![h] = {}] /\ signals' = [signals EXCEPT ![h] = 0]

\* The end of the loop: the wake in flight is settled first (Settle at "fin").
Release(h) ==
  /\ At(h, "fin") /\ slot[h] = {} /\ Consumed(names[h], h) /\ Ends(h)
  /\ request' = [a \in Agent |-> IF owner[a] = h THEN "none" ELSE request[a]]
  /\ UNCHANGED <<inbox, sent, trash, acked, record, wakes, children, stop, events,
                 history>>

\* A handler dies between two steps.  Its mail is out of sight when no record names
\* it yet or any more; a record that outlives the settling makes it dead once more.
Windows == {"trashed", "unspawned", "unrecord", "finUnrecord"}
Dies(h) ==
  /\ Ends(h) /\ wakes' = {w \in wakes : w.by # h \/ w.st = "running"}
  /\ excused' = excused \cup (IF pc[h] \in Windows THEN cur[h] ELSE {})

Die(h) ==
  /\ Live(h) /\ h \notin frozen /\ events < MaxEvents /\ events' = events + 1
  /\ Dies(h)
  /\ UNCHANGED <<mail, record, request, children, outcomes, stop,
                 tainted, newest, reported, caught>>

(***************************************************************************)
(* `a8s stop --force` (_stop_handlers, _kill_outright).                    *)
(***************************************************************************)
Then(step) == kpc' = step

\* The agents of the handler, and the wakes their records show, as it starts.
ForceStop(a) ==
  /\ kpc = "idle" /\ owner[a] # None /\ events < MaxEvents /\ events' = events + 1
  /\ target' = owner[a] /\ left' = {b \in Agent : owner[b] = owner[a]} /\ scope' = left'
  /\ own' = {b \in left' : record[b].born /\
                            \E w \in wakes : w.unit = record[b].unit /\ w.st = "running"}
  /\ Signalled(owner[a]) /\ Then("term")
  /\ UNCHANGED <<mail, disk, children, outcomes, pc, names, rr, pos, slot, cur, looks,
                 unit, sure, frozen, history>>

SecondTerm ==
  /\ kpc = "term" /\ Then("wait")
  /\ IF Live(target) THEN Signalled(target) ELSE UNCHANGED <<signals, wakes>>
  /\ UNCHANGED <<mail, disk, children, outcomes, pc, names, rr, pos, slot, cur, target, scope,
                 own, left, looks, unit, sure, frozen, events, history>>

\* It let go in time, or not.
Wait ==
  /\ kpc = "wait" /\ Then(IF Live(target) THEN "freeze" ELSE "end")
  /\ UNCHANGED <<mail, disk, procs, pc, loop, target, scope, own, left, looks, unit, sure, frozen,
                 events, history>>

\* A freeze that is not confirmed is taken back.
Freeze ==
  /\ kpc = "freeze" /\ Then(IF Live(target) THEN "recorded" ELSE "settle")
  /\ own' = own \cup {b \in left : owner[b] = target}
  /\ sure' \in {FALSE, Live(target)} /\ frozen' = IF sure' THEN {target} ELSE {}
  /\ UNCHANGED <<mail, disk, procs, pc, loop, target, scope, left, looks, unit, events, history>>

\* read_wake_pid: the live wakes the records of the handler's agents name.
Named == {w \in wakes : w.st = "running" /\
                       \E a \in own : record[a] = [unit |-> w.unit, born |-> TRUE]}

KillRecorded ==
  /\ kpc \in {"recorded", "late"}
  /\ Then(IF kpc = "late" THEN "settle" ELSE IF sure THEN "children" ELSE "handler")
  /\ wakes' = Ended(Named, "failed")
  /\ UNCHANGED <<mail, disk, children, outcomes, pc, loop, target, scope, own, left, looks, unit,
                 sure, frozen, events, history>>

\* Mutant: only what a record names is killed.
OfTargetNamed == {w \in Named : w.by = target}

\* Mutant: every wake of the machine.
OfAnybody == {w \in wakes : w.st = "running"}

\* The children of the frozen handler, recorded or not.
OfTarget == {w \in wakes : w.st = "running" /\ w.by = target}

KillChildren ==
  /\ kpc = "children" /\ Then("handler") /\ wakes' = Ended(OfTarget, "failed")
  /\ UNCHANGED <<mail, disk, children, outcomes, pc, loop, target, scope, own, left, looks, unit,
                 sure, frozen, events, history>>

KillHandler ==
  /\ kpc = "handler" /\ Then(IF sure THEN "settle" ELSE "late")
  /\ IF Live(target) THEN Dies(target) /\ frozen' = {}
       ELSE UNCHANGED <<owner, wakes, pc, loop, frozen, excused>>
  /\ caught' = {m \in trash \ (acked \cup dead \cup excused') : To[m] \in scope}
  /\ UNCHANGED <<mail, record, request, children, outcomes, target, scope, own, left, looks,
                 unit, sure, events, tainted, newest, reported>>

\* Agent by agent: what does its record name, ...
Look(a) ==
  /\ kpc = "settle" /\ a \in left /\ Then("check")
  /\ looks' = a /\ unit' = record[a].unit
  /\ UNCHANGED <<mail, disk, procs, pc, loop, target, scope, own, left, sure, frozen, events,
                 history>>

\* ... is it free (_clear_dead_handler_files, under the pid lock), ...
Check ==
  /\ kpc = "check" /\ Then(IF owner[looks] = None THEN "clear" ELSE "mark")
  /\ UNCHANGED <<mail, disk, procs, pc, loop, target, scope, own, left, looks, unit, sure, frozen,
                 events, history>>

\* ... then the record goes, the lock let go, ...
Clear ==
  /\ kpc = "clear" /\ Then("mark") /\ record' = Cleared(looks)
  /\ request' = [request EXCEPT ![looks] = "none"]
  /\ UNCHANGED <<mail, owner, procs, pc, loop, target, scope, own, left, looks, unit, sure,
                 frozen, events, history>>

\* ... and its mail is marked if the agent is still free.
Mark ==
  /\ kpc = "mark" /\ Then(IF left = {looks} THEN "end" ELSE "settle")
  /\ left' = left \ {looks} /\ looks' = None /\ unit' = {}
  /\ IF unit # {} /\ owner[looks] = None
       THEN dead' = Marked(unit) /\ last' = [last EXCEPT ![looks] = "failed"]
       ELSE UNCHANGED <<dead, last>>
  /\ UNCHANGED <<inbox, sent, trash, acked, disk, procs, pc, loop, target, scope, own, sure,
                 frozen, events, history>>

\* run_stop_hook_if_owed takes the failure records.
Finish ==
  /\ kpc = "end" /\ Then("idle") /\ Consumed(scope, None)
  /\ target' = None /\ scope' = {} /\ own' = {} /\ left' = {} /\ sure' = FALSE
  /\ caught' = {}
  /\ UNCHANGED <<inbox, sent, trash, acked, disk, wakes, children, pc, loop, looks, unit,
                 frozen, events, excused, tainted, newest, reported>>

Command ==
  \/ SecondTerm \/ Wait \/ Freeze \/ KillRecorded \/ KillChildren \/ KillHandler
  \/ (\E a \in Agent : Look(a)) \/ Check \/ Clear \/ Mark \/ Finish

Loop(h) ==
  \/ (\E a \in Agent : Yield(h, a))
  \/ Begin(h) \/ Service(h) \/ Settle(h) \/ Unrecord(h) \/ Consume(h) \/ Proxies(h)
  \/ PassEnds(h) \/ NextAgent(h) \/ Take(h) \/ Abort(h) \/ Claim(h) \/ Spawn(h)
  \/ SpawnFails(h) \/ Unspawned(h) \/ Note(h) \/ Release(h)

Next ==
  \/ \E m \in Msg : Arrive(m)
  \/ \E w \in wakes : Exit(w)
  \/ \E u \in children : SessionEnds(u)
  \/ \E h \in Handler : TimesUp(h) \/ Signal(h) \/ Die(h) \/ Loop(h)
  \/ \E h \in Handler, S \in SUBSET Agent : Attach(h, S)
  \/ \E r \in Asked : Ask(r[1], r[2])
  \/ \E a \in Agent : ForceStop(a)
  \/ Command

Spec == Init /\ [][Next]_vars

\* The loop and the stop command run on; nothing is said of the wakes.
FairSpec == Spec /\ WF_vars(Command) /\ \A h \in Handler : WF_vars(Loop(h))

(***************************************************************************)
(* Properties.                                                             *)
(***************************************************************************)
TypeOK ==
  /\ inbox \in [Agent -> Seq(Msg)] /\ sent \subseteq Msg /\ trash \subseteq sent
  /\ acked \subseteq trash /\ dead \subseteq trash /\ last \in [Agent -> {"none", "ok", "failed"}]
  /\ record \in [Agent -> [unit : Unit, born : BOOLEAN]]
  /\ owner \in [Agent -> Handler \cup {None}]
  /\ request \in [Agent -> {"none", "detach", "kill"}]
  /\ wakes \subseteq [unit : Unit, by : Handler, st : States]
  /\ children \subseteq Unit /\ outcomes \subseteq Unit
  /\ pc \in [Handler -> LoopSteps \cup {"unborn", "gone"}] /\ names \in [Handler -> SUBSET Agent]
  /\ rr \in [Handler -> Nat] /\ pos \in [Handler -> Nat]
  /\ slot \in [Handler -> Unit] /\ cur \in [Handler -> Unit]
  /\ signals \in [Handler -> 0 .. 2] /\ frozen \subseteq Handler
  /\ kpc \in StopSteps /\ target \in Handler \cup {None} /\ scope \subseteq Agent
  /\ own \subseteq Agent /\ left \subseteq scope /\ looks \in Agent \cup {None}
  /\ unit \in Unit /\ sure \in BOOLEAN
  /\ events \in 0 .. MaxEvents
  /\ excused \subseteq Msg /\ tainted \subseteq Agent /\ newest \in [Agent -> Unit]
  /\ reported \subseteq Unit /\ caught \subseteq Msg

\* The mail of a wake that has not been settled is in somebody's hands or named by
\* the record, whatever dies and whatever a force stop interrupts, except in the
\* windows the history variables name (core.py:334, docs/a8s-development.md).
Held(m) == \E h \in Handler : Live(h) /\ m \in Hand(h)
Settled ==
  \A m \in trash \ (acked \cup dead) :
    \/ Held(m) \/ m \in record[To[m]].unit \/ m \in unit
    \/ m \in excused \/ To[m] \in tainted

\* "Exit 0 is the only ack": no message is acked and a dead letter as well, unless
\* its session reported a failure later.
OneVerdict ==
  \A m \in acked \cap dead :
    (\E u \in reported : m \in u) \/ m \in excused \/ To[m] \in tainted

\* A force stop that killed its handler leaves it neither suspended nor with a wake
\* that runs on, when the freeze was confirmed; the mail it left is settled.
KillIsClean ==
  kpc = "end" /\ sure =>
    /\ frozen = {} /\ \A w \in wakes : w.by = target => w.st # "running"
    /\ \A m \in caught : m \in acked \cup dead \/ To[m] \in tainted

\* It ends no wake of another handler, but for one whose handler has died and whose
\* mail is dead letters already: the next handler does not count as attached beside it.
Spared(w) ==
  w.by \notin {target, target'} => ~Live(w.by) /\ w.unit \subseteq dead
SparesOthers ==
  [][\A w \in wakes :
       w.st = "running" /\ w \notin wakes' /\ kpc # kpc' =>
         Spared(w) \/ AgentOf(w.unit) \in tainted]_vars

\* A session's failure is the outcome last-wake shows, and the exit 0 of the wake
\* that enqueued the turn does not replace it (daemon.py:748).
LastWakeHonest ==
  \A a \in Agent \ tainted :
    newest[a] \in reported /\ newest[a] \notin outcomes => last[a] = "failed"

\* Every agent of a handler gets its turn, however much mail the others have, as
\* long as wakes end.
Serving(h, a) == Live(h) /\ a \in names[h] /\ signals[h] = 0
WakesEnd == \A a \in Agent : WF_vars(\E w \in wakes : AgentOf(w.unit) = a /\ Exit(w))
MailTurns ==
  WakesEnd =>
    \A h \in Handler, m \in {x \in Msg : To[x] \notin Proxy} :
      Waits(m) /\ Serving(h, To[m]) ~> ~Waits(m) \/ ~Serving(h, To[m])

\* A file proxy's inbox is emptied even while a wake of another agent never ends.
ProxyFlows ==
  \A h \in Handler, m \in {x \in Msg : To[x] \in Proxy} :
    Waits(m) /\ Serving(h, To[m]) ~> ~Waits(m) \/ ~Serving(h, To[m])
=============================================================================
