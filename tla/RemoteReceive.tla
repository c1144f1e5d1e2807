---------------------------- MODULE RemoteReceive ----------------------------
(***************************************************************************)
(* The receiving side of the remotes: receive_envelope and what it calls   *)
(* (network.py), and the seen table (txlog.py) that every handler process  *)
(* of a machine shares.  A transport may hand the same envelope to every   *)
(* worker, any number of times and at any later moment.                    *)
(***************************************************************************)
EXTENDS Integers, FiniteSets

CONSTANTS
  Worker,       \* subscriber workers, one per process and remote
  Process,      \* the processes of this machine
  ProcOf,       \* the process of each worker
  Msg,          \* envelopes, each with its ULID
  KindOf,       \* what each envelope is
  To,           \* the local recipients the registry resolves it to
  Agent,        \* the agents of this machine
  None,
  DayChoices,   \* what the operator may set dedup_days to
  ReceiptDays,  \* RECEIPT_SEEN_DAYS
  ClockSkew,    \* CLOCK_SKEW_DAYS
  Ahead,        \* how far a sender's clock runs ahead of this machine's
  Behind,       \* how old an envelope is on that clock when it is sent
  Lag,          \* how long a worker may take from the age check to the insert
  PoolSize,     \* _ATTACHMENT_WAIT_WORKERS
  MaxNow,       \* bound: the clock
  MaxErrors,    \* bound: inserts into a store that cannot be written
  MaxRestarts   \* bound: process restarts

\* "own" is an envelope this machine published itself.
Kinds == {"text", "files", "receipt", "own"}

ASSUME ReceiveAssumption ==
  /\ ProcOf \in [Worker -> Process]
  /\ KindOf \in [Msg -> Kinds] /\ To \in [Msg -> SUBSET Agent]
  /\ DayChoices \subseteq Nat /\ DayChoices # {}
  /\ ReceiptDays \in Nat /\ ClockSkew \in Nat
  /\ Ahead \in Nat /\ Behind \in Nat /\ Lag \in Nat
  /\ PoolSize \in Nat \ {0} /\ None \notin Msg
  /\ MaxNow \in Nat /\ MaxErrors \in Nat /\ MaxRestarts \in Nat

\* A machine runs finitely many processes and threads.
ASSUME FiniteAssumption == IsFiniteSet(Worker) /\ IsFiniteSet(Process)

VARIABLES
  now,       \* this machine's clock
  days,      \* the setting dedup_days
  wire,      \* envelopes a transport can hand over
  mint,      \* the time in each ULID, read from the sender's clock
  seen,      \* the ids in the seen table
  seenAt,    \* when each id was remembered
  pc,        \* the step of each worker
  cur,       \* its envelope
  checked,   \* when it read the clock for the age check
  won,       \* whether its insert added the row
  todo,      \* recipients it has still to serve
  got,       \* recipients whose inbox took the envelope
  inbox,     \* the inbox files of each agent
  jobs,      \* attachment waits <<process, envelope, agent>>
  running,   \* the ones a pool thread works on
  rows,      \* transaction rows <<event, envelope, agent or "message">>
  receipts,  \* receipts published <<envelope, agent, stage>>
  taken,     \* inserts that named a winner, per envelope  (history)
  errs,      \* the ones that could not write the store  (history)
  writes,    \* inbox writes per envelope and agent  (history)
  lost,      \* recipients a restart forgot <<envelope, agent>>  (history)
  restarts   \* restarts so far

table == <<seen, seenAt, taken, errs>>
local == <<cur, checked, won, todo, got>>
mail == <<inbox, jobs, running, rows, receipts, writes, lost>>
vars == <<now, days, wire, mint, seen, seenAt, pc, cur, checked, won, todo, got,
          inbox, jobs, running, rows, receipts, taken, errs, writes, lost, restarts>>

Steps == {"idle", "insert", "expire", "deliver"}
Events == {"EXPIRED", "NOT_LOCAL", "RECEIVED_REMOTE", "DROPPED", "DELIVERY_RECEIPT"}
Stages == {"inbox_write", "attachment_failed"}

\* How long an envelope is admitted; its id is remembered ClockSkew longer.
AdmitDays(m) == IF KindOf[m] = "receipt" THEN ReceiptDays ELSE days

Init ==
  /\ now = 0 /\ days \in DayChoices
  /\ wire = {} /\ mint = [m \in Msg |-> 0]
  /\ seen = {} /\ seenAt = [m \in Msg |-> 0]
  /\ pc = [w \in Worker |-> "idle"] /\ cur = [w \in Worker |-> None]
  /\ checked = [w \in Worker |-> 0] /\ won = [w \in Worker |-> FALSE]
  /\ todo = [w \in Worker |-> {}] /\ got = [w \in Worker |-> {}]
  /\ inbox = [a \in Agent |-> {}] /\ jobs = {} /\ running = {}
  /\ rows = {} /\ receipts = {}
  /\ taken = [m \in Msg |-> 0] /\ errs = [m \in Msg |-> 0]
  /\ writes = [m \in Msg |-> [a \in Agent |-> 0]]
  /\ lost = {} /\ restarts = 0

Go(w, step) == pc' = [pc EXCEPT ![w] = step]
(***************************************************************************)
(* The clock, the operator and the sending side.                           *)
(***************************************************************************)
\* Time passes, but no worker takes longer than Lag from check to insert.
Tick ==
  /\ now < MaxNow
  /\ \A w \in Worker : pc[w] = "insert" => now < checked[w] + Lag
  /\ now' = now + 1
  /\ UNCHANGED <<days, wire, mint, table, pc, local, mail, restarts>>

\* `a8s config set dedup_days`: the next read of the setting sees it.
Configure(d) ==
  /\ days' = d
  /\ UNCHANGED <<now, wire, mint, table, pc, local, mail, restarts>>

\* Another machine sends: the ULID holds that machine's clock.
Send(m) ==
  /\ m \notin wire /\ KindOf[m] # "own"
  /\ \E t \in {u \in 0 .. now + Ahead : u >= now - Behind} : mint' = [mint EXCEPT ![m] = t]
  /\ wire' = wire \cup {m}
  /\ UNCHANGED <<now, days, table, pc, local, mail, restarts>>

\* Mutant: the memory lasts as long as the admission window, without the margin.
AgedExact == {m \in seen : seenAt[m] < now - AdmitDays(m)}

\* Ids past their retention, whose rows seen_expire deletes.
Aged == {m \in seen : seenAt[m] < now - (AdmitDays(m) + ClockSkew)}

\* seen_insert of an id that is not in the table, stamped with a clock reading.
AddRow(m, at) ==
  /\ seen' = seen \cup {m} /\ seenAt' = [seenAt EXCEPT ![m] = at]
  /\ taken' = [taken EXCEPT ![m] = @ + 1]
  /\ UNCHANGED errs

\* A store that cannot be written names a winner and adds no row.
NoRow(m) ==
  /\ errs[m] < MaxErrors
  /\ taken' = [taken EXCEPT ![m] = @ + 1] /\ errs' = [errs EXCEPT ![m] = @ + 1]
  /\ UNCHANGED <<seen, seenAt>>

\* Mutant: an own envelope is published and not remembered.
PublishOwnUnseen(m) ==
  /\ m \notin wire /\ KindOf[m] = "own"
  /\ \E t \in {u \in 0 .. now : u >= now - Behind} : mint' = [mint EXCEPT ![m] = t]
  /\ wire' = wire \cup {m}
  /\ UNCHANGED <<now, days, table, pc, local, mail, restarts>>

\* The router remembers an envelope of its own before it publishes it; its ULID
\* may be old by then (make_publish_remotes' callers, mailbox.py).
PublishOwn(m) ==
  /\ m \notin wire /\ KindOf[m] = "own"
  /\ \E t \in {u \in 0 .. now : u >= now - Behind} : mint' = [mint EXCEPT ![m] = t]
  /\ AddRow(m, now) \/ NoRow(m)
  /\ wire' = wire \cup {m}
  /\ UNCHANGED <<now, days, pc, local, mail, restarts>>

(***************************************************************************)
(* receive_envelope, on a subscriber worker.                               *)
(***************************************************************************)
\* _refuse_aged: an envelope older than the memory is refused, with a row when
\* it is mail for an agent of this machine.
Refuse(w, m) ==
  /\ pc[w] = "idle" /\ now - mint[m] > AdmitDays(m)
  /\ rows' = IF KindOf[m] # "receipt" /\ To[m] # {}
             THEN rows \cup {<<"EXPIRED", m, "message">>} ELSE rows
  /\ UNCHANGED <<now, days, wire, mint, table, pc, local, inbox, jobs, running,
                 receipts, writes, lost, restarts>>

Admit(w, m) ==
  /\ pc[w] = "idle" /\ now - mint[m] <= AdmitDays(m)
  /\ cur' = [cur EXCEPT ![w] = m] /\ checked' = [checked EXCEPT ![w] = now]
  /\ Go(w, "insert")
  /\ UNCHANGED <<now, days, wire, mint, table, won, todo, got, mail, restarts>>

Receive(w) == \E m \in wire : Refuse(w, m) \/ Admit(w, m)

\* Mutant: the answer of INSERT OR IGNORE is not asked.
InsertBlind(w) ==
  /\ pc[w] = "insert"
  /\ IF cur[w] \in seen THEN UNCHANGED table ELSE AddRow(cur[w], checked[w])
  /\ won' = [won EXCEPT ![w] = TRUE]
  /\ checked' = [checked EXCEPT ![w] = 0] /\ Go(w, "expire")
  /\ UNCHANGED <<now, days, wire, mint, cur, todo, got, mail, restarts>>

\* The insert names the one receiver that goes on; seen_at is read before it.
Insert(w) ==
  /\ pc[w] = "insert"
  /\ LET m == cur[w]
     IN \/ /\ m \notin seen
           /\ \E t \in checked[w] .. now : AddRow(m, t)
           /\ won' = [won EXCEPT ![w] = TRUE]
        \/ NoRow(m) /\ won' = [won EXCEPT ![w] = TRUE]
        \/ m \in seen /\ won' = [won EXCEPT ![w] = FALSE] /\ UNCHANGED table
  /\ checked' = [checked EXCEPT ![w] = 0] /\ Go(w, "expire")
  /\ UNCHANGED <<now, days, wire, mint, cur, todo, got, mail, restarts>>

\* At most once per ten minutes a process drops what has aged out. A loser is
\* done; the winner of a receipt logs it, of a message serves its recipients.
Expire(w) ==
  /\ pc[w] = "expire"
  /\ \E dropped \in {{}, Aged} :
       /\ seen' = seen \ dropped
       /\ seenAt' = [m \in Msg |-> IF m \in dropped THEN 0 ELSE seenAt[m]]
  /\ won' = [won EXCEPT ![w] = FALSE]
  /\ LET m == cur[w]
         control == KindOf[m] = "receipt"
         event == IF control THEN "DELIVERY_RECEIPT" ELSE "NOT_LOCAL"
     IN IF won[w] /\ ~control /\ To[m] # {}
        THEN /\ Go(w, "deliver") /\ todo' = [todo EXCEPT ![w] = To[m]]
             /\ UNCHANGED <<cur, rows>>
        ELSE /\ Go(w, "idle") /\ cur' = [cur EXCEPT ![w] = None] /\ UNCHANGED todo
             /\ rows' = IF won[w] THEN rows \cup {<<event, m, "message">>} ELSE rows
  /\ UNCHANGED <<now, days, wire, mint, taken, errs, checked, got, inbox, jobs,
                 running, receipts, writes, lost, restarts>>

\* _write_to_inbox: an envelope that is there counts, a failed write is dropped.
InInbox(m, a) ==
  /\ inbox' = [inbox EXCEPT ![a] = @ \cup {m}]
  /\ writes' = IF m \in inbox[a] THEN writes ELSE [writes EXCEPT ![m][a] = @ + 1]
  /\ rows' = rows \cup {<<"RECEIVED_REMOTE", m, a>>}

\* Mutant: a failed write is only said on the console.
DroppedSilently(m, a) == UNCHANGED <<rows, inbox, writes>>

Dropped(m, a) ==
  /\ rows' = rows \cup {<<"DROPPED", m, a>>}
  /\ UNCHANGED <<inbox, writes>>

\* The first fetch does not wait: what is missing goes to the pool.
Deliver(w) ==
  /\ pc[w] = "deliver"
  /\ \E a \in todo[w] :
       LET m == cur[w]
       IN /\ todo' = [todo EXCEPT ![w] = @ \ {a}]
          /\ \/ /\ InInbox(m, a) /\ got' = [got EXCEPT ![w] = @ \cup {a}]
                /\ UNCHANGED <<jobs, receipts>>
             \/ /\ KindOf[m] = "files" /\ InInbox(m, a)
                /\ got' = [got EXCEPT ![w] = @ \cup {a}]
                /\ receipts' = receipts \cup {<<m, a, "attachment_failed">>}
                /\ UNCHANGED jobs
             \/ Dropped(m, a) /\ UNCHANGED <<got, jobs, receipts>>
             \/ /\ KindOf[m] = "files"
                /\ jobs' = jobs \cup {<<ProcOf[w], m, a>>}
                /\ UNCHANGED <<got, inbox, writes, rows, receipts>>
  /\ UNCHANGED <<now, days, wire, mint, table, pc, cur, checked, won, running,
                 lost, restarts>>

\* Mutant: the receipt names every recipient, also one whose write failed or who
\* waits for an attachment.
ReceiptForAll(w) ==
  /\ pc[w] = "deliver" /\ todo[w] = {} /\ Go(w, "idle")
  /\ cur' = [cur EXCEPT ![w] = None] /\ got' = [got EXCEPT ![w] = {}]
  /\ receipts' = receipts \cup {<<cur[w], a, "inbox_write">> : a \in To[cur[w]]}
  /\ UNCHANGED <<now, days, wire, mint, table, checked, won, todo, inbox, jobs,
                 running, rows, writes, lost, restarts>>

\* Mutant: the worker itself waits for the attachments of its process.
ReceiptJoins(w) ==
  /\ pc[w] = "deliver" /\ todo[w] = {} /\ Go(w, "idle")
  /\ ~\E j \in jobs : j[1] = ProcOf[w]
  /\ cur' = [cur EXCEPT ![w] = None] /\ got' = [got EXCEPT ![w] = {}]
  /\ receipts' = receipts \cup {<<cur[w], a, "inbox_write">> : a \in got[w]}
  /\ UNCHANGED <<now, days, wire, mint, table, checked, won, todo, inbox, jobs,
                 running, rows, writes, lost, restarts>>

\* The receipt names whom the message reached; its publish may fail.
Receipt(w) ==
  /\ pc[w] = "deliver" /\ todo[w] = {} /\ Go(w, "idle")
  /\ cur' = [cur EXCEPT ![w] = None] /\ got' = [got EXCEPT ![w] = {}]
  /\ receipts' \in {receipts, receipts \cup {<<cur[w], a, "inbox_write">> : a \in got[w]}}
  /\ UNCHANGED <<now, days, wire, mint, table, checked, won, todo, inbox, jobs,
                 running, rows, writes, lost, restarts>>

(***************************************************************************)
(* The pool of attachment waits, the readers, and a process that restarts. *)
(***************************************************************************)
PoolOf(p) == {j \in running : j[1] = p}

\* Mutant: off by one, the pool never uses its last thread.
StartWaitShort(j) ==
  /\ j \in jobs \ running /\ Cardinality(PoolOf(j[1])) < PoolSize - 1
  /\ running' = running \cup {j}
  /\ UNCHANGED <<now, days, wire, mint, table, pc, local, inbox, jobs, rows,
                 receipts, writes, lost, restarts>>

StartWait(j) ==
  /\ j \in jobs \ running /\ Cardinality(PoolOf(j[1])) < PoolSize
  /\ running' = running \cup {j}
  /\ UNCHANGED <<now, days, wire, mint, table, pc, local, inbox, jobs, rows,
                 receipts, writes, lost, restarts>>

\* finish(): the fetch resolved or its bounded wait ended.
FinishWait(j) ==
  /\ j \in running
  /\ running' = running \ {j} /\ jobs' = jobs \ {j}
  /\ LET m == j[2]
         a == j[3]
     IN \/ /\ InInbox(m, a)
           /\ \E stages \in SUBSET Stages :
                receipts' = receipts \cup {<<m, a, stage>> : stage \in stages}
        \/ Dropped(m, a) /\ UNCHANGED receipts
  /\ UNCHANGED <<now, days, wire, mint, table, pc, local, lost, restarts>>

\* A wake takes an envelope out of the inbox.
Read(a, m) ==
  /\ m \in inbox[a] /\ inbox' = [inbox EXCEPT ![a] = @ \ {m}]
  /\ UNCHANGED <<now, days, wire, mint, table, pc, local, jobs, running, rows,
                 receipts, writes, lost, restarts>>

\* A process ends and comes back: its workers and its waits are gone, and what
\* they had taken is not handed over again.
Restart(p) ==
  /\ restarts < MaxRestarts /\ restarts' = restarts + 1
  /\ LET gone == {w \in Worker : ProcOf[w] = p}
         mine == {j \in jobs : j[1] = p}
         dueTo(w) == IF pc[w] = "deliver" THEN todo[w]
                     ELSE IF pc[w] = "expire" /\ won[w] THEN To[cur[w]] ELSE {}
         reset(f, v) == [w \in Worker |-> IF w \in gone THEN v ELSE f[w]]
     IN /\ pc' = reset(pc, "idle") /\ cur' = reset(cur, None)
        /\ checked' = reset(checked, 0) /\ won' = reset(won, FALSE)
        /\ todo' = reset(todo, {}) /\ got' = reset(got, {})
        /\ lost' = lost \cup {<<j[2], j[3]>> : j \in mine}
                        \cup UNION {{<<cur[w], a>> : a \in dueTo(w)} : w \in gone}
        /\ jobs' = jobs \ mine /\ running' = running \ mine
  /\ UNCHANGED <<now, days, wire, mint, table, inbox, rows, receipts, writes>>

Work(w) == Insert(w) \/ Expire(w) \/ Deliver(w) \/ Receipt(w)
Wait(p) == \E j \in {p} \X Msg \X Agent : StartWait(j) \/ FinishWait(j)

Next ==
  \/ Tick
  \/ \E d \in DayChoices : Configure(d)
  \/ \E m \in Msg : Send(m) \/ PublishOwn(m)
  \/ \E w \in Worker : Receive(w) \/ Work(w)
  \/ \E p \in Process : Wait(p) \/ Restart(p)
  \/ \E a \in Agent, m \in Msg : Read(a, m)

Spec == Init /\ [][Next]_vars

\* Workers go on with what they took; nothing is said of the attachment waits.
FairSpec == Spec /\ \A w \in Worker : WF_vars(Work(w))

(***************************************************************************)
(* Properties.                                                             *)
(***************************************************************************)
TypeOK ==
  /\ now \in Nat /\ days \in DayChoices /\ wire \subseteq Msg
  /\ mint \in [Msg -> Nat] /\ seen \subseteq Msg /\ seenAt \in [Msg -> Nat]
  /\ pc \in [Worker -> Steps] /\ cur \in [Worker -> Msg \cup {None}]
  /\ checked \in [Worker -> Nat] /\ won \in [Worker -> BOOLEAN]
  /\ todo \in [Worker -> SUBSET Agent] /\ got \in [Worker -> SUBSET Agent]
  /\ inbox \in [Agent -> SUBSET Msg] /\ jobs \subseteq Process \X Msg \X Agent
  /\ running \subseteq jobs
  /\ rows \subseteq Events \X Msg \X (Agent \cup {"message"})
  /\ receipts \subseteq Msg \X Agent \X Stages
  /\ taken \in [Msg -> Nat] /\ errs \in [Msg -> 0 .. MaxErrors]
  /\ writes \in [Msg -> [Agent -> Nat]] /\ lost \subseteq Msg \X Agent
  /\ restarts \in 0 .. MaxRestarts

\* docs/a8s-development.md "the memory always outlasts what any wire can replay":
\* however often and late an envelope comes, by however many workers, one of them
\* takes it, and a store that cannot be written costs one more each time.
TakenOnce == \A m \in Msg : taken[m] <= 1 + errs[m]

\* No inbox gets an envelope a second time, not even when its agent has read it, another
\* remote hands it over while its attachments are waited for, or its id has expired.
WrittenOnce == \A m \in Msg, a \in Agent : writes[m][a] <= 1 + errs[m]

\* A machine never delivers the echo of an envelope it published itself.
EchoDropped ==
  \A m \in Msg, a \in Agent :
    KindOf[m] = "own" /\ writes[m][a] > 0 => errs[m] > 0

\* A receipt goes out only for a message that reached the inbox it names.
ReceiptHonest ==
  \A r \in receipts : writes[r[1]][r[2]] > 0 /\ <<"RECEIVED_REMOTE", r[1], r[2]>> \in rows

\* An envelope that was taken for an agent reached it or left a row, unless a
\* worker or a wait still holds it or a restart forgot it (docs/a8s.md:328).
Holds(w, m, a) ==
  /\ cur[w] = m
  /\ \/ pc[w] = "expire" /\ won[w]
     \/ pc[w] = "deliver" /\ a \in todo[w]
Accounted ==
  \A m \in Msg : \A a \in To[m] :
    (taken[m] > 0 /\ KindOf[m] \in {"text", "files"}) =>
      \/ <<"RECEIVED_REMOTE", m, a>> \in rows \/ <<"DROPPED", m, a>> \in rows
      \/ \E w \in Worker : Holds(w, m, a)
      \/ \E p \in Process : <<p, m, a>> \in jobs
      \/ <<m, a>> \in lost

\* A worker finishes every envelope it takes, however long the attachment waits
\* of earlier ones last.
WorkerFlows == \A w \in Worker : pc[w] # "idle" ~> pc[w] = "idle"

\* Every attachment wait gets its turn in the pool and ends, as each fetch is
\* bounded (storage_receive_wait_seconds).
FetchesEnd == \A p \in Process : WF_vars(Wait(p))
WaitsEnd ==
  FetchesEnd =>
    \A p \in Process, m \in Msg, a \in Agent :
      <<p, m, a>> \in jobs ~> <<p, m, a>> \notin jobs
=============================================================================
