---------------------------- MODULE TurnDispatch ----------------------------
(***************************************************************************)
(* r4t's dispatch (apps/r4t/dispatch.py, schedule.py, state.py): mail for  *)
(* the members of a roster is queued on disk, and a process drains the     *)
(* queues one turn at a time.  A turn claims the whole queue of a member,  *)
(* runs it once, and what it was given is spent or becomes a dead letter.  *)
(* Processes are a8s wakes, idle passes and the commands of an operator;   *)
(* they overlap and may be killed at any step.  What keeps their turns     *)
(* apart are lock files that are created, written and unlinked in steps of *)
(* their own.                                                              *)
(***************************************************************************)
EXTENDS Integers, FiniteSets, Sequences, SequencesExt

CONSTANTS
  Proc,
  Bringer,     \* processes that bring a message: dispatch wakes, `r4t tell`
  Idler,       \* processes that make idle passes: idle wakes, `r4t clear`
  Member,
  Msg,
  To,          \* the member a message is queued for
  Ingress,     \* messages from outside the roster
  From,        \* the member whose turn may stage a message of the others, or None
  Notice,      \* what a member is sent when a message of its own fails (class "error")
  Refused,     \* messages from outside that no member may get
  Renewed,     \* messages that stand for endless mail: they come again
  Outcome,     \* how a turn may end: "ok", "failed", "absent" (no such program)
  Earning,     \* bound: the buckets that earn anything in the time of a behaviour
  Budget,      \* what a bucket holds when it is full
  Admission,   \* the admission lock
  Cell,        \* the bucket all members share
  None,
  Gone,        \* the pid of a process that is dead
  MaxEvents    \* bound: kills and batches put back

Lock == Member \cup {Admission}
Bucket == Member \cup {Cell}

ASSUME DispatchAssumption ==
  /\ Bringer \cup Idler \subseteq Proc /\ To \in [Msg -> Member] /\ Ingress \subseteq Msg /\ From \in [Msg \ Ingress -> Member \cup {None}]
  /\ Notice \in [Msg -> Msg \cup {None}]
  /\ Refused \subseteq Ingress /\ Renewed \subseteq Ingress
  /\ Outcome \subseteq {"ok", "failed", "absent"}
  /\ Earning \subseteq Bucket /\ Budget \in Nat \ {0} /\ MaxEvents \in Nat
  /\ Admission \notin Member /\ Cell \notin Member
  /\ None \notin Proc /\ Gone \notin Proc /\ None # Gone /\ None \notin Member

VARIABLES
  order,     \* the messages in a queue or in flight, by file name
  queue,     \* the ones in queue/
  inflight,  \* the ones in queue/.inflight/
  dead,      \* messages with a dead-letter record
  spent,     \* messages whose turn ended well
  lock,      \* the lock files: whose, and whether the pid is in it yet
  level,     \* budgets
  passes,    \* how often a ready member was passed over
  parked,
  pc, job,   \* a process: its step and the local variables of dispatch
  events,    \* bound
  sent,      \* what was ever accepted  (history)
  stolen,    \* a lock file of a live process was unlinked by another  (history)
  adrift,    \* messages of a turn whose harness has outlived its killed process
  mixed,     \* messages two processes had in hand at once, or that a turn found left over  (history)
  tries,     \* launches of a turn with this message, up to 2  (history)
  told       \* notices to its sender, up to 2  (history)

mail == <<order, queue, inflight, dead, spent>>
sched == <<level, passes, parked>>
counts == <<sent, tries, told>>
vars == <<order, queue, inflight, dead, spent, lock, level, passes, parked, pc, job, events,
          adrift, sent, stolen, mixed, tries, told>>

\* Mutant: the sender is told before the claim is dropped.
BurialTold == <<"bury", "notify", "drop">>
\* Mutant: the claim is dropped before its messages are on record.
BurialDropped == <<"drop", "bury", "notify">>
\* A dead letter: recorded, then the claim is dropped, then the sender is told.
Burial == <<"bury", "drop", "notify">>
Steps == {"off", "sweep", "read", "bury", "drop", "notify", "probe", "look", "pick",
          "try", "unlink", "write", "live", "leave", "charge", "unadmit", "claim", "launch",
          "running", "settle", "park", "unlock"}

NoFile == [by |-> None, told |-> FALSE]
Idle == [who |-> None, on |-> Admission, tries |-> 0, batch |-> {}, cohort |-> {},
         aged |-> <<>>, ran |-> FALSE, begun |-> FALSE, end |-> "none", orphans |-> {},
         living |-> {}]

Go(p, step) == pc' = [pc EXCEPT ![p] = step]
Who(p) == job[p].who
Of(a, S) == {m \in S : To[m] = a}
\* read_lock and pid_alive: a file that has no pid yet counts as nobody's.
Held(l) == lock[l].by \in Proc /\ lock[l].told
Stale(l) == lock[l] # NoFile /\ ~Held(l)
LiveTurns == {a \in Member : Held(a)}
InTurn(p) == \/ pc[p] \in {"claim", "launch", "running", "settle", "park", "unlock"}
             \/ pc[p] \in ToSet(Burial) /\ job[p].end # "none"
InHand(p) == job[p].batch \cup job[p].orphans

Init ==
  /\ order = <<>> /\ queue = {} /\ inflight = {} /\ dead = {} /\ spent = {}
  /\ lock = [l \in Lock |-> NoFile] /\ level = [k \in Bucket |-> Budget]
  /\ passes = [a \in Member |-> 0] /\ parked = {}
  /\ pc = [p \in Proc |-> "off"] /\ job = [p \in Proc |-> Idle] /\ events = 0
  /\ adrift = {} /\ sent = {} /\ stolen = FALSE /\ mixed = {}
  /\ tries = [m \in Msg |-> 0] /\ told = [m \in Msg |-> 0]

(***************************************************************************)
(* Mail in: every message of the roster's own is queued, and so is mail    *)
(* from outside unless its address is refused.                             *)
(***************************************************************************)
Settled(m) == m \in dead \cup spent /\ m \notin queue \cup inflight
             /\ \A p \in Proc : m \notin InHand(p)
Anew(m) == m \notin sent \/ (m \in Renewed /\ Settled(m))

\* _ingest: one more file in the member's queue, or a dead letter and a notice.
Ingest(S) ==
  LET in == S \ Refused
  IN /\ order' = SelectSeq(order, LAMBDA m : m \notin S) \o SetToSeq(in)
     /\ queue' = queue \cup in /\ spent' = spent \ S
     /\ dead' = (dead \ S) \cup (S \cap Refused) /\ sent' = sent \cup S
     /\ tries' = [m \in Msg |-> IF m \in S THEN 0 ELSE tries[m]]
     /\ told' = [m \in Msg |-> IF m \in S THEN IF m \in Refused THEN 1 ELSE 0 ELSE told[m]]
     /\ mixed' = mixed \ S /\ adrift' = adrift \ S

\* A wake with a message, or `r4t tell`.
Dispatch(p, m) ==
  /\ pc[p] = "off" /\ p \in Bringer /\ m \in Ingress /\ Anew(m) /\ Ingest({m}) /\ Go(p, "look")
  /\ UNCHANGED <<inflight, lock, sched, job, events, stolen>>

\* SKIPPED: the roster or the rigs cannot be read.  The message is not accepted: its
\* sender is told, nothing is queued, no dead letter recorded.  The drain follows, or
\* finds the roster unreadable too and does nothing.
Skip(p) ==
  /\ pc[p] = "off" /\ p \in Bringer /\ Go(p, "look")
  /\ UNCHANGED <<mail, lock, sched, job, events, counts, stolen, mixed, adrift>>

\* An idle wake or `r4t clear`.
BeginIdle(p) ==
  /\ pc[p] = "off" /\ p \in Idler /\ Go(p, "sweep")
  /\ UNCHANGED <<mail, lock, sched, job, events, counts, stolen, mixed, adrift>>

(***************************************************************************)
(* Lock files.                                                             *)
(***************************************************************************)
\* live_locks unlinks every member's lock that shows no live process.
Prune ==
  /\ lock' = [l \in Lock |-> IF l \in Member /\ Stale(l) THEN NoFile ELSE lock[l]]
  /\ stolen' = (stolen \/ \E a \in Member : Stale(a) /\ lock[a].by \in Proc)

\* AgentLock.acquire and ProcessLock.acquire: O_CREAT | O_EXCL ...
Create(p) ==
  /\ pc[p] = "try" /\ job[p].tries < 2 /\ lock[job[p].on] = NoFile
  /\ lock' = [lock EXCEPT ![job[p].on] = [by |-> p, told |-> FALSE]] /\ Go(p, "write")
  /\ UNCHANGED <<mail, sched, job, events, counts, stolen, mixed, adrift>>

\* ... then the pid.  The file may have been unlinked, or be another's, by now.
Write(p) ==
  /\ pc[p] = "write"
  /\ lock' = IF lock[job[p].on].by = p THEN [lock EXCEPT ![job[p].on].told = TRUE] ELSE lock
  /\ Go(p, IF job[p].on = Admission THEN "live" ELSE "charge")
  /\ UNCHANGED <<mail, sched, job, events, counts, stolen, mixed, adrift>>

\* A file that names nobody who lives is unlinked, whosever it is at that moment.
FindStale(p) ==
  /\ pc[p] = "try" /\ job[p].tries < 2 /\ Stale(job[p].on) /\ Go(p, "unlink")
  /\ UNCHANGED <<mail, lock, sched, job, events, counts, stolen, mixed, adrift>>

Refusal(p) == IF job[p].on = Admission THEN "pick" ELSE "leave"
Unlink(p) ==
  /\ pc[p] = "unlink"
  /\ IF lock[job[p].on] = NoFile
       THEN Go(p, Refusal(p)) /\ UNCHANGED <<lock, job, stolen>>
       ELSE /\ lock' = [lock EXCEPT ![job[p].on] = NoFile] /\ Go(p, "try")
            /\ stolen' = (stolen \/ lock[job[p].on].by \in Proc)
            /\ job' = [job EXCEPT ![p].tries = @ + 1]
  /\ UNCHANGED <<mail, sched, events, counts, mixed, adrift>>

Locked(p) ==
  /\ pc[p] = "try" /\ (job[p].tries = 2 \/ Held(job[p].on)) /\ Go(p, Refusal(p))
  /\ UNCHANGED <<mail, lock, sched, job, events, counts, stolen, mixed, adrift>>

\* release unlinks the path.
Released(l, p) ==
  /\ lock' = [lock EXCEPT ![l] = NoFile]
  /\ stolen' = (stolen \/ lock[l].by \in Proc \ {p})

(***************************************************************************)
(* An idle pass first buries what killed turns left in flight.             *)
(***************************************************************************)
\* orphaned_inflight: whose turn is live is read first ...
Sweep(p) ==
  /\ pc[p] = "sweep" /\ Prune /\ Go(p, "read")
  /\ job' = [job EXCEPT ![p].living = LiveTurns]
  /\ UNCHANGED <<mail, sched, events, counts, mixed, adrift>>

\* ... then what is in flight.
Left(p) == {m \in inflight : To[m] \notin job[p].living}
Read(p) ==
  /\ pc[p] = "read" /\ Go(p, IF Left(p) = {} THEN "probe" ELSE Burial[1])
  /\ LET a == IF Left(p) = {} THEN None ELSE To[CHOOSE m \in Left(p) : TRUE]
     IN job' = [job EXCEPT ![p].orphans = Left(p), ![p].living = {}, ![p].who = a,
                           ![p].batch = Of(a, Left(p))]
  /\ mixed' = mixed \cup {m \in Left(p) : \E q \in Proc \ {p} : m \in InHand(q)}
  /\ UNCHANGED <<mail, lock, sched, events, counts, stolen, adrift>>

(***************************************************************************)
(* _dead_letter_batch, in the order of Burial.                             *)
(***************************************************************************)
Place(step) == CHOOSE n \in 1..3 : Burial[n] = step
\* What follows: the next step, the next orphaned batch, or the rest of the turn.
Onward(p, step) ==
  LET rest == job[p].orphans \ job[p].batch
      a == To[CHOOSE m \in rest : TRUE]
  IN IF Place(step) < 3 THEN Go(p, Burial[Place(step) + 1]) /\ UNCHANGED job
     ELSE IF job[p].end # "none"
            THEN /\ Go(p, IF job[p].end = "absent" THEN "park" ELSE "unlock")
                 /\ job' = [job EXCEPT ![p].batch = {}]
     ELSE IF rest # {}
            THEN Go(p, Burial[1]) /\ job' = [job EXCEPT ![p].orphans = rest, ![p].who = a,
                                                     ![p].batch = Of(a, rest)]
            ELSE Go(p, "probe") /\ job' = [job EXCEPT ![p] = Idle]

Bury(p) ==
  /\ pc[p] = "bury" /\ dead' = dead \cup job[p].batch /\ Onward(p, "bury")
  /\ UNCHANGED <<order, queue, inflight, spent, lock, sched, events, counts, stolen, mixed, adrift>>

\* release_claim drops whatever is in flight for the member.
Drop(p) ==
  /\ pc[p] = "drop" /\ inflight' = inflight \ Of(Who(p), inflight)
  /\ mixed' = mixed \cup (Of(Who(p), inflight) \ job[p].batch)
  /\ Onward(p, "drop")
  /\ UNCHANGED <<order, queue, dead, spent, lock, sched, events, counts, stolen, adrift>>

\* _tell_error: mail for a member of the roster, a `tell` for anybody else.
Notify(p) ==
  LET note == {Notice[m] : m \in job[p].batch} \ ({None} \cup sent)
  IN /\ pc[p] = "notify" /\ Onward(p, "notify")
     /\ order' = order \o SetToSeq(note) /\ queue' = queue \cup note /\ sent' = sent \cup note
     /\ told' = [m \in Msg |-> IF m \in job[p].batch /\ told[m] < 2 THEN told[m] + 1 ELSE told[m]]
     /\ UNCHANGED <<inflight, dead, spent, lock, sched, events, tries, stolen, mixed, adrift>>

\* prune_stale_locks, and _park_probe_sweep un-parks whoever's program is there again.
Probe(p, back) ==
  /\ pc[p] = "probe" /\ parked' = parked \ back /\ Prune /\ Go(p, "look")
  /\ UNCHANGED <<mail, level, passes, job, events, counts, mixed, adrift>>

(***************************************************************************)
(* A pass over the members that have mail when it begins (drain).          *)
(***************************************************************************)
Runnable(a) == a \notin parked /\ level[a] >= 1 /\ level[Cell] >= 1
ReadyNow == {a \in Member : Of(a, queue) # {} /\ Runnable(a)}
FirstPlace(a) == CHOOSE i \in 1..Len(order) :
                   /\ order[i] \in Of(a, queue)
                   /\ \A k \in 1..(i - 1) : order[k] \notin Of(a, queue)
Score(a) == passes[a] + (IF Of(a, queue) \cap Ingress # {} THEN 1 ELSE 0)
Ahead(a, b) == Score(a) > Score(b) \/ (Score(a) = Score(b) /\ FirstPlace(a) <= FirstPlace(b))

Look(p) ==
  /\ pc[p] = "look" /\ Go(p, "pick")
  /\ job' = [job EXCEPT ![p].cohort = {a \in Member : Of(a, queue) # {}}, ![p].ran = FALSE]
  /\ UNCHANGED <<mail, lock, sched, events, counts, stolen, mixed, adrift>>

\* next_up, _run_member_turn up to the first acquire; the snapshot is kept for later.
Pick(p) ==
  /\ pc[p] = "pick"
  /\ \E a \in job[p].cohort \cap ReadyNow :
       /\ \A b \in job[p].cohort \cap ReadyNow : Ahead(a, b)
       /\ job' = [job EXCEPT ![p].who = a, ![p].on = Admission, ![p].tries = 0,
                             ![p].cohort = @ \ {a}, ![p].aged = [b \in ReadyNow |-> passes[b]]]
  /\ Go(p, "try")
  /\ UNCHANGED <<mail, lock, sched, events, counts, stolen, mixed, adrift>>

\* drain_until_quiet: another pass after one that ran a turn.
EndPass(p) ==
  /\ pc[p] = "pick" /\ job[p].cohort \cap ReadyNow = {}
  /\ IF job[p].ran THEN Go(p, "look") /\ UNCHANGED job
                   ELSE Go(p, "off") /\ job' = [job EXCEPT ![p] = Idle]
  /\ UNCHANGED <<mail, lock, sched, events, counts, stolen, mixed, adrift>>

\* OUT_OF_TIME: the first turn of a wake always fits, a later one may not.
OutOfTime(p) ==
  /\ pc[p] = "pick" /\ job[p].cohort \cap ReadyNow # {} /\ job[p].begun
  /\ Go(p, "off") /\ job' = [job EXCEPT ![p] = Idle]
  /\ UNCHANGED <<mail, lock, sched, events, counts, stolen, mixed, adrift>>

(***************************************************************************)
(* Admission: one turn at a time.                                          *)
(***************************************************************************)
\* Mutant: only the member's own lock keeps a turn out.
AdmitsOthers(p) == Who(p) \notin LiveTurns
Admits(p) == LiveTurns = {}

Live(p) ==
  /\ pc[p] = "live" /\ Prune
  /\ IF Admits(p)
       THEN Go(p, "try") /\ job' = [job EXCEPT ![p].on = Who(p), ![p].tries = 0]
       ELSE Go(p, "leave") /\ UNCHANGED job
  /\ UNCHANGED <<mail, sched, events, counts, mixed, adrift>>

\* The turn is not admitted; the pass goes on with another member.
Leave(p) ==
  /\ pc[p] = "leave" /\ Released(Admission, p) /\ Go(p, "pick")
  /\ UNCHANGED <<mail, sched, job, events, counts, mixed, adrift>>

\* Budgets are read again under the lock, and charged.
Affords(a) == Runnable(a)
Charged(a) == [k \in Bucket |-> IF k \in {a, Cell} /\ level[k] > 0 THEN level[k] - 1 ELSE level[k]]
Charge(p) ==
  /\ pc[p] = "charge" /\ Affords(Who(p)) /\ level' = Charged(Who(p)) /\ Go(p, "unadmit")
  /\ UNCHANGED <<mail, lock, passes, parked, job, events, counts, stolen, mixed, adrift>>
Unaffordable(p) ==
  /\ pc[p] = "charge" /\ ~Affords(Who(p)) /\ Released(Who(p), p) /\ Go(p, "leave")
  /\ UNCHANGED <<mail, sched, job, events, counts, mixed, adrift>>
Unadmit(p) ==
  /\ pc[p] = "unadmit" /\ Released(Admission, p) /\ Go(p, "claim")
  /\ UNCHANGED <<mail, sched, job, events, counts, mixed, adrift>>

(***************************************************************************)
(* A turn.                                                                 *)
(***************************************************************************)
\* Mutant: the claim copies.
Copied(S) == queue
Moved(S) == queue \ S
\* claim_queue: the whole queue moves.  An empty one (somebody else's turn had it)
\* counts as a turn that ran.
Claim(p) ==
  LET batch == Of(Who(p), queue)
  IN /\ pc[p] = "claim" /\ queue' = Moved(batch) /\ inflight' = inflight \cup batch
     /\ mixed' = mixed \cup Of(Who(p), inflight)
     /\ job' = [job EXCEPT ![p].batch = batch, ![p].begun = TRUE]
     /\ Go(p, IF batch = {} THEN "unlock" ELSE "launch")
     /\ UNCHANGED <<order, dead, spent, lock, sched, events, counts, stolen, adrift>>

Launch(p) ==
  /\ pc[p] = "launch" /\ Go(p, "running")
  /\ tries' = [m \in Msg |-> IF m \in job[p].batch /\ tries[m] < 2 THEN tries[m] + 1 ELSE tries[m]]
  /\ UNCHANGED <<mail, lock, sched, job, events, sent, told, stolen, mixed, adrift>>

\* The prompt took too long for this wake: return_claim, and the charge is paid back.
Repaid(a) == [k \in Bucket |-> IF k \in {a, Cell} /\ level[k] < Budget THEN level[k] + 1 ELSE level[k]]
PutBack(p) ==
  LET back == Of(Who(p), inflight)
  IN /\ pc[p] = "launch" /\ events < MaxEvents /\ events' = events + 1
     /\ queue' = queue \cup back /\ inflight' = inflight \ back
     /\ level' = Repaid(Who(p)) /\ Released(Who(p), p)
     /\ mixed' = mixed \cup (back \ job[p].batch)
     /\ Go(p, "off") /\ job' = [job EXCEPT ![p] = Idle]
     /\ UNCHANGED <<order, dead, spent, passes, parked, counts, adrift>>

\* The harness returns, and what it staged is released, whatever its end.
Return(p, end, staged) ==
  /\ pc[p] = "running" /\ staged \subseteq {m \in Msg \ Ingress : From[m] = Who(p) /\ Anew(m)}
  /\ Ingest(staged) /\ Go(p, IF end = "ok" THEN "settle" ELSE Burial[1])
  /\ job' = [job EXCEPT ![p].end = end]
  /\ UNCHANGED <<inflight, lock, sched, events, stolen>>

\* release_claim after a turn that ended well.
Settle(p) ==
  /\ pc[p] = "settle" /\ inflight' = inflight \ Of(Who(p), inflight)
  /\ spent' = spent \cup job[p].batch
  /\ mixed' = mixed \cup (Of(Who(p), inflight) \ job[p].batch)
  /\ job' = [job EXCEPT ![p].batch = {}] /\ Go(p, "unlock")
  /\ UNCHANGED <<order, queue, dead, lock, sched, events, counts, stolen, adrift>>

Park(p) ==
  /\ pc[p] = "park" /\ parked' = parked \cup {Who(p)} /\ Go(p, "unlock")
  /\ UNCHANGED <<mail, lock, level, passes, job, events, counts, stolen, mixed, adrift>>

\* record_selection, from the snapshot the selection was made from.
\* Mutant: whoever was passed over is not aged.
AgedNever(p) == [passes EXCEPT ![Who(p)] = 0]
Aged(p) == [b \in Member |-> IF b \notin DOMAIN job[p].aged THEN passes[b]
                             ELSE IF b = Who(p) THEN 0 ELSE job[p].aged[b] + 1]
Unlock(p) ==
  /\ pc[p] = "unlock" /\ Released(Who(p), p) /\ passes' = Aged(p) /\ Go(p, "pick")
  /\ job' = [job EXCEPT ![p].end = "none", ![p].batch = {}, ![p].aged = <<>>,
                        ![p].who = None, ![p].on = Admission, ![p].tries = 0, ![p].ran = TRUE]
  /\ UNCHANGED <<mail, level, parked, events, counts, mixed, adrift>>

(***************************************************************************)
(* A process is killed; a bucket earns.                                    *)
(***************************************************************************)
\* The harness has a session of its own and runs on, with nobody to wait for it.
Die(p) ==
  /\ pc[p] # "off" /\ events < MaxEvents /\ events' = events + 1
  /\ lock' = [l \in Lock |-> IF lock[l].by = p THEN [lock[l] EXCEPT !.by = Gone] ELSE lock[l]]
  /\ adrift' = IF pc[p] = "running" THEN adrift \cup job[p].batch ELSE adrift
  /\ Go(p, "off") /\ job' = [job EXCEPT ![p] = Idle]
  /\ UNCHANGED <<mail, sched, counts, stolen, mixed>>

HarnessEnds(a) ==
  /\ Of(a, adrift) # {} /\ adrift' = adrift \ Of(a, adrift)
  /\ UNCHANGED <<mail, lock, sched, pc, job, events, counts, stolen, mixed>>

Earn(k) ==
  /\ k \in Earning /\ level[k] < Budget /\ level' = [level EXCEPT ![k] = @ + 1]
  /\ UNCHANGED <<mail, lock, passes, parked, pc, job, events, counts, stolen, mixed, adrift>>

Walk(p) ==
  \/ Sweep(p) \/ Read(p) \/ Bury(p) \/ Drop(p) \/ Notify(p) \/ \E back \in SUBSET parked : Probe(p, back)
  \/ Look(p) \/ Pick(p) \/ EndPass(p) \/ OutOfTime(p)
  \/ Create(p) \/ Write(p) \/ FindStale(p) \/ Unlink(p) \/ Locked(p)
  \/ Live(p) \/ Leave(p) \/ Charge(p) \/ Unaffordable(p) \/ Unadmit(p)
  \/ Claim(p) \/ Launch(p) \/ PutBack(p)
  \/ \E end \in Outcome, staged \in SUBSET (Msg \ Ingress) : Return(p, end, staged)
  \/ Settle(p) \/ Park(p) \/ Unlock(p)

Next ==
  \/ \E p \in Proc : Walk(p) \/ BeginIdle(p) \/ Skip(p) \/ Die(p) \/ \E m \in Ingress : Dispatch(p, m)
  \/ \E a \in Member : HarnessEnds(a)
  \/ \E k \in Bucket : Earn(k)

Spec == Init /\ [][Next]_vars

\* A process goes on (a harness has a timeout), idle wakes come again, buckets earn.
FairSpec ==
  /\ Spec
  /\ \A p \in Proc : WF_vars(Walk(p)) /\ WF_vars(BeginIdle(p))
  /\ \A k \in Bucket : WF_vars(Earn(k))

(***************************************************************************)
(* Properties.                                                             *)
(***************************************************************************)
TypeOK ==
  /\ order \in Seq(Msg) /\ ToSet(order) \subseteq Msg
  /\ queue \subseteq Msg /\ inflight \subseteq Msg /\ dead \subseteq Msg /\ spent \subseteq Msg
  /\ lock \in [Lock -> [by : Proc \cup {None, Gone}, told : BOOLEAN]]
  /\ level \in [Bucket -> 0..Budget] /\ passes \in [Member -> Nat] /\ parked \subseteq Member
  /\ pc \in [Proc -> Steps] /\ events \in 0..MaxEvents
  /\ sent \subseteq Msg /\ stolen \in BOOLEAN /\ mixed \subseteq Msg /\ adrift \subseteq Msg
  /\ tries \in [Msg -> 0..2] /\ told \in [Msg -> 0..2]

\* "ONE TURN AT A TIME" (dispatch.py, _run_member_turn), of the processes: whichever are
\* killed at whatever step, no two are in a turn, unless a lock file of a live one was
\* unlinked.  No lock holds back a turn beside the harness of a killed process, which
\* runs on (adrift); but what that harness was given is never given to the new one.
OneTurn ==
  /\ ~stolen => \A p, q \in Proc : InTurn(p) /\ InTurn(q) => p = q
  /\ \A p \in Proc : pc[p] = "running" => job[p].batch \cap adrift \subseteq mixed

\* A message that was accepted is queued, in flight, dead-lettered or spent, whatever
\* fails or dies, unless two processes had it in hand or a turn found it left over.
NothingDropped == sent \subseteq queue \cup inflight \cup dead \cup spent \cup mixed

\* A message is given to at most one turn (a failed turn is not tried again, because
\* it may have acted), with the same exception.
RunsOnce == \A m \in Msg : tries[m] = 2 => m \in mixed

\* "a kill between them cannot tell anyone twice" (dispatch.py, _dead_letter_batch).
ToldOnce == \A m \in Msg : told[m] = 2 => m \in mixed

\* Endless mail for one member does not keep another's from its turn: ageing ("passes")
\* lifts it past any score, even when every wake has time for one turn only.
ProgramsReturn == \A a \in Member : []<>(a \notin parked)
Served == ProgramsReturn => \A m \in Msg : m \in queue ~> m \notin queue
=============================================================================
