# A TLA+ model of ar3

ar3 is four Python applications over one shared library:

- **a8s** routes messages between *agents* (nodes). `tell` drops a JSON envelope in
  an agent's `.outbox/`; a *handler* process ingests it, gives every path (local inbox,
  each configured remote) one try, and wakes the recipient as a subprocess.
- **r4t** is a dispatcher that runs inside a node: it keeps a roster of members,
  stores per-member state and drives agent engines, some of them resident.
- **k7e** is a knowledge store: notes, distillation jobs and a search engine.
- **ar3** is the umbrella command line, with an autoupdate supervisor.

Nothing here runs on one machine-wide server: handlers, commands (`a8s start`,
`stop`, `kill`, `tell`), transport threads and wake subprocesses share a state root
on the filesystem (`~/.config/a8s`) and SQLite stores. The correctness of a8s is the
correctness of renames, O_EXCL creates, request files and INSERT OR IGNORE rows made
by processes that start, die and overlap freely, so that is what is modelled first. r4t's
dispatch, the folder remote with its ledger, and autoupdate are built the same way, of
lock files, renames and a record of what is under way, and come next.

## Inventory

| component | state it keeps | operations | interacts with | hard behaviour | what makes it correct |
|---|---|---|---|---|---|
| mail routing (`a8s/mailbox.py`) | `.outbox/`, `pending/`, `sending/`, `inbox.tmp/`, `inbox/`, `trash/`, transaction rows | ingest, claim, stage, commit, publish, settle | handlers, registry, transports, seen table | several handlers on one outbox, failing steps, death mid-pass | nothing sent twice; every path has a row; a dropped message reached nobody; live routers settle everything |
| remote receive (`a8s/network.py`, `txlog.py`) | seen table, inbox, receipts, attachment wait pool | age check, seen insert, deliver, wait for attachments, receipt, expiry | transports (threads), routing (echo) | broker redelivery, several subscribers on one store, clock skew, expiry | a message is delivered at most once per machine, for ever |
| handler attachment (`a8s/daemon.py`, `commands.py`) | `pid`, start token, `detach-request`, `kill-request`, `stop-request`, stop hook mark | claim, hand-off, release, kill, stop, hook | other handlers, the command line | two claimants, dead or recycled pids, requests crossing a release | one handler per agent; a requester gets the agent or times out; a hook runs once |
| wake lifecycle (`a8s/daemon.py`, `core.py`) | wake record, subprocess, `trash/`, `dead-letters/` | claim a wake, spawn, settle, kill, force-stop | handler attachment, watchdog | handler dies between two steps, kill races an exit | every woken envelope is acked or dead-lettered, once |
| handler loop (`a8s/daemon.py`) | round-robin cursors, one wake slot | route, service the wake, dispatch, idle wakes, watchdog | all the above | fairness among agents, a wedged wake | an agent with mail is eventually woken |
| transports (`a8s/transports/`, `ledger.py`) | folder of envelopes, consumed ledger and its mutex, ids in memory, S3 cursor, MQTT session | publish, poll, sweep, append, compact | routing, receive | stale mutex, a compaction beside an append, a file that arrives in part | what was taken is remembered while it is on the wire; nothing else is; no echo |
| autostart (`a8s/autostart.py`) | claim tokens, epochs, boot entries | queue a start, claim, cancel | handler attachment, `stop` | a queued start that outlives a later stop | the last stated intent wins |
| registry, secrets (`registry.py`, `network.py`) | `registry.json`, `secrets.json` with binding digests | add, remove, put/merge secrets | everything | two files updated in turn | a secret is never joined with another endpoint |
| r4t dispatch (`r4t/dispatch.py`, `state.py`) | `queue/`, `queue/.inflight/`, dead letters, lock files, budgets, parked members | take mail in, drain, admit, claim, run, bury, put back | a8s wakes, engines, schedule, the command line | two processes that drain, one killed in a turn or in a burial, lock files made in two steps | one turn at a time; a message is run once, or buried and its sender told once |
| r4t engines (`r4t/engines/`) | resident process, session socket | start, submit, stream, restart | dispatch | death mid-turn, late answers | an answer belongs to the turn that asked |
| r4t schedule (`r4t/schedule.py`) | how often each member was passed over | snapshot, select, age | dispatch | endless mail that outranks other mail | everybody who has mail and a budget gets a turn |
| k7e (`k7e/engine.py`, `distill.py`) | notes, index, job leases | write, index, distill, sweep | a8s wakes | two distillers, stale index | a note is distilled once |
| ar3 autoupdate (`ar3/autoupdate.py`, `get.sh`) | update lock, pending record, `bad_release`, the install and the one moved aside | check, install, restart, health check, put back, roll back, an update by hand | every seat (`a8s update`), the installer, a person | the updater or its installer dies between two steps, a person updates, edits, starts or stops in between | seats and tree agree, or a record says what is to do; a person's update stands; no bad release comes back |
| shared library (`lib/ar3/`) | lock files | atomic write, file lock, ULID, process tokens | everything | stale locks, pid reuse | locks exclude; tokens identify a process |
| tools, connectors, vendored code | – | browser, vault, gemini | – | I/O with external programs | not modelled |

## Modules

| module | models | extends | proofs |
|---|---|---|---|
| `OneTry` | what a router promises: every path of a message is taken at most once, and a dropped message by nobody | – | – |
| `MailRouting` | `route_outboxes` and everything below it | – (refines `OneTry`) | `MailRoutingProofs`, `MailPromiseProofs` |
| `HandlerClaim` | who handles an agent: claim, hand-off, kill, stop, release, stop hook | – | `HandlerClaimProofs` |
| `RemoteReceive` | what comes in from a remote: age check, seen table, delivery, attachment waits | – | `RemoteReceiveProofs` |
| `WakeLifecycle` | the handler's loop, its wakes, and `a8s stop --force` | – | `WakeLifecycleProofs` |
| `TurnDispatch` | r4t: mail for the members of a roster, the locks, the pass and the turns that drain it | – | `TurnDispatchProofs` |
| `FolderWire` | a folder as a remote, and the ledger of what was taken from it | – | `FolderWireProofs` |
| `NightlyUpdate` | the nightly updater, its installer and its rollback, beside a person | – | `NightlyUpdateProofs` |

Each has an `MC…` module with the functions its instances need, and the `.cfg` files
that give the other constants. Mutants, which are operators with a comment that starts
`Mutant`, sit in front of the definition they replace; no specification uses them.

The modules meet at shared files. `MailRouting` and `RemoteReceive` both end at an
inbox, which `WakeLifecycle` (`Arrive`) starts from; `Read` in the first two is the
`Take` of the third. `FolderWire` is one of the transports that `RemoteReceive` sums up in
`wire`: it hands over an envelope at least once and then remembers it (`Offer` is the
callback where `RemoteReceive` begins), which is what the seen table need not do for it.
`TurnDispatch` starts where a wake of `WakeLifecycle` has run `r4t`: `Dispatch` is a wake
with a message, `BeginIdle` an idle one. `NightlyUpdate` restarts the seats, which are
handlers of `HandlerClaim`. `HandlerClaim` says who may be attached, and `WakeLifecycle` takes
that for granted: `owner[a]` is at most one live handler. Where the guarantee ends at
a take-over, `WakeLifecycle` says so with `tainted`.

### MailRouting

One action is one filesystem step, because any two handlers, and a death, may come
between two of them. `at[m]` is the set of places that hold a message's envelope,
`bundleAt` the same for its bundle of attachments; `commits`, `sent`, `rows`, `seen`
are the inboxes written, the publishes, the transaction rows and the seen table. A
handler is a `pc` and a record `job` of the local variables of its pass.
`StartPass … IngestBundle` is `_ingest_outboxes`, `StartTurn … EndPass` the loop of
`_process_pending`, `Claim` the rename into `sending/`, `Unroutable`, `NotLocal`,
`Stage`, `Commit`, `Delivered`, `Offer`, `Publish`, `Published`, `Outcome` and
`Settle` its body in order. `Crash` is a death at any step; the handler restarts
and starts over. `Faults` names the steps whose system call may fail.

Left out: the bytes of an attachment and a second copy of a bundle that is already
there; the convo store; ENQUEUED rows; the namespace stamp of `from`; a failed write
of the seen table (`RemoteReceive` has it). A remote that is down is a publish that
fails. An outbox that is shared has one fixed default owner. The recipients of a
fan-out are committed in any order.

### HandlerClaim

One agent. A process is one incarnation with the pid `PidOf` gives it, so two
processes may have the same pid one after the other. `RoleOf` says what it is: `run`
(takes over), `start` (does not), the commands `kill`, `stop`, `force`, or `alien`, a
process that has nothing to do with a8s but got a recycled pid. What the code does
under `pid_lock` is one action; requests are read and unlinked in two. `TornClaim` is
a death inside the lock. A stop reads its handler twice: `ReadTarget` is whom it will signal,
`Reread` (`held`) whose hook it will ask after. The stop hook is a process of its own and outlives who
started it. Two history variables name what `HookOnce` and `HookNotSkipped` except: `torn`
(a hook that was started and is not, or no longer, named in the mark) and `astray` (the
commands that may take the mark of another handler's hook for their target's); `Unasked` names
the two windows in which a command asks after no hook at all.

Left out: the Windows stop-request file, the other agents of a shared handler,
autostart tokens and disarming, the `stuck` pid file, `a8s step`, a mark that cannot be
written (`_write_stop_hook_mark` goes on without one, `daemon.py:1660-1664`).

### RemoteReceive

`Worker` are the transport threads of all processes that share a seen table. `wire`
never loses an envelope: every transport may hand over every one again at any time.
Time is the integer `now`; `mint[m]` is the time in the envelope's ULID and may be
`Ahead` of the receiver or `Behind`. Between the age check and the insert a worker
lags by at most `Lag`. `table` operators `Aged`, `AddRow`, `NoRow` are the SQL;
`NoRow` is a store that cannot be written, where the code goes on as if it had won.

Left out: decoding, unexpected exceptions that the callback swallows, a receiver's
clock that steps back, the convo store, the rate limit of notices for unknown names.

### WakeLifecycle

A handler's `pc` walks through one iteration of `attached_loop`: `Yield` obeys a
request, `Begin`, then `Settle` and `Unrecord` for a wake that ended
(`_finish_wake_if_done`: first the ack or the markers, then the record), `Consume` for
the failure records of detached sessions, `Proxies`, and a pass over the agents
(`NextAgent`, `Take`, `Claim`, `Spawn`, `Note`, or `Abort`, `SpawnFails`, `Unspawned`).
`slot` is `_CURRENT_WAKE_PROC`, `rr` and `pos` are `wake_rr` and the place in the pass,
`record` the `wake-pid` files. The force stop is one more process, with `kpc`, and
walks through `_stop_handlers` and `_kill_outright`. `Turn` is the set of the one agent whose
place in the handler's order, `Order` cut down to `names`, the rotation has come to.

Five history variables make the properties say what the code can keep:
`excused` are the messages out of sight in a window the code has (a death between
`Take` and `Claim`, between a failed spawn and its marker, between settling and the
removal of the record; a record that a later claim overwrites), `tainted` the agents
attached while a wake of theirs, or a force stop of them, was unsettled, `newest` and `reported` the last unit of
an agent and the units whose session reported a failure, and `caught` the mail that
was unsettled when a stop killed its handler.

Left out: idle wakes, the pause debounce, `a8s step`, the Windows job and stop request,
a death in the middle of marking a batch, a wake record that cannot be written, a
stop command that is itself killed, the watchdog's handling of an open stdout. A session
starts with its wake. A wake killed by SIGTERM may exit 0 and is acked.

### TurnDispatch

`Proc` are the processes that may drain a roster's queues at once: a8s wakes of the node, idle
wakes, and commands of an operator. `queue` and `inflight` are the directories `queue/` and
`queue/.inflight/`, `order` the file names, `dead` and `spent` what became of a batch.
A lock file is a record `[by, told]`, since `AgentLock.acquire` creates it (`Create`) and
writes the pid (`Write`) in two steps; `FindStale` and `Unlink` are the two steps of
removing one that names nobody who lives, and `Prune` is `live_locks`, which removes
every such file on its way. An idle pass sweeps (`Sweep`, `Read`: who is live first, then
what is in flight), buries what is left over, and probes parked members. A pass is
`Look`, then `Pick` again and again (`ReadyNow`, `Score`, `Ahead` are `schedule.py`); a
turn is `Create … Live`, `Create … Charge`, `Unadmit`, `Claim`, `Launch`,
`Return`, and `Settle` or the three steps of `Burial`; `Unlock` also records the selection
(`Aged`). What the harness staged is taken in (`Ingest`) whatever its end. `Skip` is a message that
comes while the roster or the rigs cannot be read. `Die` kills a
process at any step; its lock files then name `Gone`. Its harness has a session of its own and runs on:
`adrift` holds the messages it was given, until `HarnessEnds`.

History: `stolen` (the lock file of a live process was unlinked by another), `mixed`
(messages two processes had in hand at once, or that a turn found left over and lost, or
put back while another runs them),
`tries` and `told`.

Left out: duplicate collapse, cadence, the rig bucket, egress gates, conversations,
dreams and reviews, prompts, recycled pids, priority senders, what a harness adrift still
writes, what a killed turn had staged, a drain whose roster cannot be read.

### FolderWire

`wire[u]` is what stands in the folder under an envelope's name: nothing, a part of it, all
of it, or gone. `lines` is the ledger file, `ids[p]` what a process knows, `mutex` the
ledger's mutex file and whether it looks stale. Each process has a polling thread and may
have a sending one. `Poll`, `ReadFile`, `Offer` are `_poll_once`; `Publish`, `Show`, `SweepNow`,
`Done` are `publish`, which guards against its own poll with `publishing`; `Want … Release`
is `record`: the mutex (`Acquire`, `GiveUp` after the wait, `SeeStale`, `TakeOver`), the
`Append`, and every so often a compaction in three steps (`Ask` the wire, `ReadLines`,
`Replace`). `NoAnswer` is a folder that is not there, when the compaction is skipped. `AskFails` is one
that is there and cannot be listed: `_all_envelopes` answers with no envelope at all
(`folder.py:275-276`), and `ReadFails` a ledger that cannot be read, which has no lines then. A
compaction that went on after one of these is `blind`. `Restart` is a death at any step, after which
the ledger is read, or cannot be. History: `crossed` are the ids appended without the mutex
while another thread compacts, `forgot` those that a blind compaction, or a start that could not read
the ledger, dropped. `Remembered` and `NoEcho` except both (`Excused`).

Left out: the S3 cursor and its pages, the MQTT session, joining cutoffs, an envelope
that never becomes whole.

### NightlyUpdate

The updater's `pc` walks through `run`: `Tick`, `Recover` of a record that an earlier
night left, `Check`, `Install`, the end of the installer (`Installed`, `Failed`, `TimesOut`),
`Landed`, `Restart`, `Health`, and on the way back `Restore`, `Reset` or `MoveAside` and
`MoveIn`, `Restored`, `Again`, `Back`. The installer has a state `inst` of its own since
it runs in a session of its own and outlives a tick that is killed. `pending` is the
record (`previous`, `target`, `stage`), `tree` and `prev` the install and the one set
aside, `code[s]` what a seat runs. A person has a pc, `hand`, for `ar3 update`, which takes
the lock, ends the record, pulls and, when the tree changed, restarts, and may also run `get.sh`, edit the
clone, and stop or start seats. `Die` is a death of the tick, at any step; an installer that is
at work then lives on. `outlived` says that an `ar3 update` pulled beside such an installer, `undone`
that an installer then put an older release over what the update had made; `HandIsFinal` allows the second
only with the first.

`Finishes` asks that a record ends unless it is `Blocked`: the install was moved away or is half done
and the one set aside is not the record's source, so there is nothing to put back.

`strayed` excepts what the code does not see; each case is listed under "What the runs found".

Left out: windows, slots and `done_night` (a tick may come at any time), schedulers'
triggers, notices, pinned and beta channels, an unpack that git turns into a clone, two
installers at once, a release that is withdrawn, a branch head that is not at the newest tag, and the settings: `--auto on/off`, `--window`, `--tell`,
`ensure` and `skip-off` read and rewrite the state file without the lock (`autoupdate.py:246-292`, `452`)
and may thus drop or revive a record or `bad_release` that a tick writes meanwhile.

## Runs

| run | question | instance | states, time |
|---|---|---|---|
| `routing_shared` | do two handlers of one outbox send twice, or lose the row of a path, whatever fails? | 1 message, 3 agents, a remote, every fault, 2 deaths | 92 thousand, 15 s |
| `routing_queue` | does a queue drain, and what does a death strand? | 2 messages, 2 outboxes, one on another filesystem, 1 death | 125 thousand, 30 s |
| `claim_handlers` | one handler, its claim on disk | 3 handlers, a recycled pid, `a8s kill`, a signal, missing tokens | 1.3 million, 45 s |
| `claim_live` | the hook runs once and is not skipped; a requester and a stop get what they want | `start` with a Ctrl+C, `run`, `stop --force`, 1 death, a foreign pid | 109 thousand, 100 s |
| `receive_replay` | is an envelope taken once, for ever? | 2 processes that may be swapped (symmetry), a receipt and an echo, 6 units of time, a setting that changes, a failed write, a restart | 2.4 million, 80 s |
| `receive_waits` | is an inbox written once; receipts, rows, the pool of attachment waits | an envelope for two agents, 2 processes, 4 units of time, a pool of 1, a restart | 149 thousand, 95 s |
| `wake_turns` | does everybody get a turn? | endless mail, a batch, a folder | 143 thousand, 45 s |
| `wake_force` | a force stop at any point; does an outcome stay true? | 2 handlers, 2 agents, sessions; one force stop, death, request or signal | 1.0 million, 65 s |
| `dispatch_turns` | one turn at a time; is a message lost, run twice or told twice? | 2 processes, 2 members, a message that makes another and its notice; 1 kill or late prompt | 583 thousand, 20 s |
| `dispatch_served` | does everybody get a turn? | endless mail, budgets of 1, wakes with time for one turn, 1 kill | 85 thousand, 20 s |
| `wire_folder` | does the ledger forget, or swallow? | 2 processes, a published and an arriving envelope, a cap every append exceeds, 1 fault | 1.7 million, 60 s |
| `update_nights` | do seats and tree agree, whatever dies? | clone or unpack, 2 seats, 3 releases with a broken one, 3 events | 180 thousand, 20 s |

**Bounds.** Two handlers are enough for every race over a file: each hazard is between
one process that acts and one that has read before. A third matters only where a
waiting process is overtaken, so `claim_handlers` has three. Three agents give a sender,
a member of a fan-out and a bystander. One message suffices where the property is about
one message; `routing_queue` has two because a stranded one must not hold up the next,
`wake_turns` a batch of two. Deaths, restarts, failed writes, force stops and requests
are counted by `MaxCrashes`, `MaxDeaths`, `MaxRestarts`, `MaxErrors` and
`MaxEvents`; time in `RemoteReceive` by `MaxNow`, which lets an id expire and be replayed in both
runs: `ClockSkew` is as small as the clock ahead, the lag and the change of `dedup_days` allow. In
`wake_turns` `Renewed` mail comes again for ever without new names. `MaxEvents` counts
force stops, deaths, requests and signals of `WakeLifecycle` together: with 1, no behaviour
has two of them. With 2 (and no session) `wake_force` has 3.9 million states and takes four
workers two minutes; it passes too, and is not a run because of its length. `MaxEvents` counts kills
and batches put back in `TurnDispatch`, faults (a death, a ledger that cannot be written or read, a wire
that is not there or cannot be listed, a mutex that grows old) in `FolderWire`, and everything unplanned in
`NightlyUpdate` (deaths, timeouts, failed steps, turns that begin, what a person does): there
it is 3, since the interesting cases are a death in one night, a person's act, and another
death in a later one. Three releases let a bad one be followed by a newer one that is
good or bad. A `Cap` of 2 makes every second append compact. Two members of a roster are
enough for a lock per member and one for all; a message, what its turn stages, and the
notice of its failure give every message a second process or a second turn to meet. `CHECK_DEADLOCK FALSE`
is in each `.cfg` because every instance really comes to rest: all mail is settled, or
every process has ended.

**Fairness.** `MailRouting` and `WakeLifecycle` are fair to a handler's loop, which polls
until it is stopped and calls nothing that does not return; `HandlerClaim` also to
commands (which poll with a timeout) and the hook (which has one, `STOP_HOOK_SECONDS`); `RemoteReceive` to
transport threads. `TurnDispatch` is fair to the steps of a process (a harness has a timeout), to
idle wakes, which a8s sends again and again, and to buckets, which earn with time;
`Served` has programs that come back as its premise. `NightlyUpdate` is fair to ticks, which a
scheduler starts every night, to the steps of the updater and the installer (every call has a
timeout), to those of a person's `ar3 update` once begun, and to the end of a seat's turn.
Nothing is said of mail that arrives, of signals, of deaths, or of
wakes: an agent may run for ever, and `ProxyFlows` and `WorkerFlows` are about exactly
that. Where a property needs wakes or fetches to end it says so as its premise
(`WakesEnd`, `FetchesEnd`): the code bounds both, with `max_wake_seconds` when it is
set and `storage_receive_wait_seconds`.

## Proofs

For all values of the constants that the named assumptions allow:

- `RouterTypes`, `SentOnce`, `OneHolder` (`MailRoutingProofs`). `SentOnce` assumes
  `CrossDevice = {}`; the first trace below shows why. Invariant: `RoutingInv`. At most one commit
  is not inductive: the next commit needs to know that there was none. `OneFile` says an
  envelope is in one place; `HoldersHold` that who works on it holds that place;
  then two holders are one (`ClaimIsExclusive`), `WaitingUntried` says that nothing was
  tried while it waits, and `PathsUntried` that a holder has not yet tried what is ahead
  of it. A rename is the only step between waiting and held, and it fails for the second.
- `RouterKeepsPromise`, `NoPathUnaccounted`, `DeathStrandsOne`, `AttachmentTravels`
  (`MailPromiseProofs`), all with `CrossDevice = {}` and on top of `RoutingInv` (`Sound`). The first
  is the refinement of `OneTry`, step by step: each router step is one of a path, a settling
  or a stutter; `PromiseInv` says that the local variables of a pass know every try that was made,
  so a message it drops was taken by nobody. `NoPathUnaccounted` also assumes
  `Lagging = {}` (the trace below shows why) and finitely many agents; `AccountInv` says which
  receivers have a row, or will get one, at each step of a pass. `DeathStrandsOne` assumes that a settle does not
  fail: what no live handler works on in `sending/` was then left by a death, one message each.
  `AttachmentTravels` assumes one handler per outbox (`OwnBoxes`; the race below shows why) and is about
  runs without a death: a bundle is where its envelope is, or in the hands
  of the one handler that carries it (`ScopeInv`, `CarryInv`).
- `ClaimTypes`, `ClaimStaysOnDisk`, `OneHandlerAlways` (`HandlerClaimProofs`). Invariant:
  types, one live process per pid (`OnePerPid`), and `ClaimOnDisk`: whoever serves is the
  one the pid file names. Two who serve are then named by the same file, so they have one
  pid and are one. The hard step is reaping: a file that names a live pid with its own token,
  or with none, is never stale.
- `HookRunsOnce`, `NoHookSkipped` (`HandlerClaimProofs`). The first assumes at most one command
  (`OneCommand`): two that look at once both find no mark and both run the hook. Invariant: `HookInv`.
  `CourseInv` says which handlers may still run a hook and that those have had none; `MarkInv`
  that a hook that ran is named in the mark or about to be; so a command that finds
  no mark (`OwedInv`) acts for a handler that is gone and had none. `NoHookSkipped` holds for
  any number of commands, and for every step in which one is done with the hook, not only those in
  which it reads the mark: who it asks after is the handler it last read, or nobody (`Aimed`,
  `Reads`); since it cleared the mark, it only meets that of a hook which its
  target's process started (`TellingInv`, `SpawnedInv`), unless it is `astray`. A command that asked
  after nobody (`Unasked`) is excepted.
- `ReceiveTypes`, `TakenByOne` (`RemoteReceiveProofs`). Assumes `Margin`: `ClockSkew` covers
  `Ahead`, `Lag` and whatever `dedup_days` may be raised by. Invariant: `ReceiveInv`. A row's absence
  says nothing by itself; `TakenInv` says that a taken id is in the table or `TooOld`, so
  old that, whatever `dedup_days` is set to, nobody who could still insert it can have admitted it, and `AdmittedInv` what a
  worker between check and insert knows. Expiry keeps a row `ClockSkew` longer than admission.
- `WrittenByOne`, `EchoNeverWritten`, `ReceiptsAreHonest`, `EveryRecipientAccounted`. The first two
  are under `Margin` as well: for each inbox, the writes and the workers and waits that may still write
  are no more than the wins of the insert (`PaidInv`), and there is one win, plus one per insert that the
  store could not write; for an own envelope the publisher has it. The last two need no
  assumption on time: `HonestInv` says that an agent a worker has reached has the envelope written,
  and `Accounted` is inductive with the types. Processes and workers are finitely many
  (`FiniteAssumption`).
- `TypesHold`, `MailStaysInSight`, `VerdictIsOne`, `FailureIsShown`, `StopIsClean`,
  `StopSparesOthers` (`WakeLifecycleProofs`), for any handlers, agents, messages, batches and any number
  of events. All assume `Renewed = {}`: messages that come back under an old name exist only to give
  `MailTurns` endless mail. `WakeAssumption` has finitely many agents, and an `Order` that lists each
  once. The base is `Firm`: types, `InboxInv` (a message is in one
  inbox once, or taken), `PlaceInv`, `LoopInv`, `WakeInv` (what a loop and its wakes may hold at each step) and
  `UnitInv` (what was taken together stays together, so that two units are equal or disjoint).
  `NamedInv` says when a record must name the mail of a wake; `VerdictInv` that a verdict is only
  given by who has the unit; `LastInv` that the newest unit of an agent is in the slot, in hand or
  settled; `CaughtInv` and `CleanInv` what a frozen and killed handler can have left; and
  `OrphanInv` that a recorded wake of a dead handler belongs to mail with a verdict or to an agent
  nobody attached to since.
- `OneAtATime`, `NoneDropped`, `GivenOnce`, `HeardOnce` (`TurnDispatchProofs`). Invariant: `TurnInv`. While nothing is
  `stolen`, a process between its admission and its release has the admission lock, and one in
  a turn its member's, with the pid in it (`LockInv`). A second turn would have to be admitted
  while the first is live, when `LiveTurns` is empty, or with the first, when the
  admission lock would have two owners (`AloneInv`). The proof is in two halves: what a step
  does to the process that takes it (`MyLocks`, `NoTurnStarts`), and that it leaves the
  others and their locks alone (`Others`, `TheirLocks`); a lock may only be taken from
  another by a theft. `OneAtATime` also says that a turn is given no mail that a harness adrift was given:
  that mail was tried, and what a queue hands out was not (`Drift`). `NoneDropped` needs `MailInv`: what a burial is about to drop is on record, and
  mail that comes in again is in nobody's hand. `GivenOnce` and `HeardOnce` need `TellInv`: for a message
  that is not `mixed`, at most one process has it in hand (`Apart`), what is queued or in hand has
  not been told of, and what is queued has not been tried; so the step that runs or tells it
  is the first.
- `WireTypes`, `NotSwallowed`, `StillRemembered`, `NotEchoed` (`FolderWireProofs`). Invariant: `WireInv`.
  What is on the wire and was appended is in the file, in the lines a compaction has read, and
  among the envelopes it saw, unless the append crossed it, the compaction looked in vain, or a start
  could not read the file (`CompactInv`, `Excused`); a publisher's own id
  is in its memory from before the file shows until the sweep has it (`MineInv`, `PublishInv`), so
  a poll never offers it (`OfferInv`).
- `UpdateTypes`, `HandsOff`, `NotTwice`, `SeatsAgree`, `AsideKept` (`NightlyUpdateProofs`). Invariants:
  `UpdateInv` and `SeatsInv`. The lock says who is at work and the record at which stage
  (`LockInv`, `RecordInv`); a person's tree is the one a record starts from or there is no
  record past its install (`HandInv`); what failed is at most `bad_release`, and targets
  only go up (`BadInv`); by the stage of the record, all seats run the tree, the tree before,
  or either (`FollowInv`, `StageInv`), and an install is aside only with a record (`AsideInv`).

Every safety property that a run checks is thus also proved, under the assumptions named here.
Checked only by TLC: all liveness (`EventuallySettled`, `HandOff`, `StopEnds`, `WorkerFlows`,
`WaitsEnd`, `MailTurns`, `ProxyFlows`, `Served`, `Finishes`), which is out of the prover's reach.
Writing the proofs changed the models: where an invariant could not be kept, TLC found the behaviour
on a larger instance than the runs have (three events, three processes, a second `run`), and the
property or its history variable now says so. Those behaviours are marked with (p) below.

## What the runs found

No run states these any more; the models reach them as soon as an instance or a history
variable lets them.

**Where the code departs from what its documents or comments say**

- **A shared outbox on another filesystem sends twice** (`CrossDevice` with two handlers violates
  `NothingSentTwice`; `docs/a8s-development.md:301`). The ingest copies and then unlinks
  (`mailbox.py:359`); in between another handler sends the copy, and the original is ingested again.
- **A take-over may run the stop hook** (`docs/a8s-development.md:43`). A `run` handler does not
  shorten `acquired` when it hands an agent over, so its final loop (`daemon.py:2556`) releases
  and hooks it again when the next holder has not claimed yet or is gone. A `run` that was killed by
  request is hooked a second time that way (`KilledRun` excepts it).
- **A stop may leave out the hook it owes** (p) (`daemon.py:1692`). The mark says `done` and nobody compares
  the pid in it. A handler that was interrupted or taken over is still in its hook when its successor has
  claimed and a stop has cleared the mark for that one; the `done` of the first then
  answers for the second, which is killed before its own (`astray` excepts it).
- **A hook may be run twice by a stop** (p) (`daemon.py:1694` has it that a hook the handler ran never is).
  The stop clears the mark before it signals, and with it the mark of a hook that its handler, on its way
  out anyhow, is running or has run (`commands.py:2290`; `torn` excepts it). Two stops at once both find no mark.
- **A `kill` or a stop may ask after no hook** (`docs/a8s-development.md:36`: every stop of a node runs its
  `stop.invoke` once). `a8s kill` clears the mark, and when its SIGUSR1 then finds no process it returns
  (`commands.py:2710-2712`): nobody runs the hook of a handler that has just died. A stop reads its
  handler twice (`commands.py:2264`, `2288`); one that dies in between leaves `held` None, and the hook is
  left out (`2332-2334`). (`Unasked` excepts the two.)
- **A wake may never be settled** (`docs/a8s.md:725`). It exits after `_service_in_flight_wake` looked
  and before the dispatch asks `_wake_in_flight`, which is false then, and the next wake
  overwrites `_CURRENT_WAKE_PROC` (`daemon.py:2454`). Its mail has no ack and no marker, and its
  record stays until the agent's next claim replaces it.
- **A killed turn's batch may be dropped unrecorded** (`docs/r4t-governance.md:137` has it recorded on
  the next wake). That is so for an idle wake, which sweeps first; a wake with a message
  does not, and its turn of the same member ends with `release_claim`, which drops whatever is in
  flight. (`mixed` excepts it.)
- **A turn may run beside the harness of a killed one** (`docs/r4t-governance.md:117`: a node runs exactly
  one member turn at a time). A harness starts in a session of its own (`dispatch.py:1211-1218`), so a kill
  of the r4t process leaves it running with nobody to end it at its timeout (`1263-1266`); the dead process's
  locks count as stale and the next turn is admitted. `OneTurn` says that no two *processes* are in a turn,
  and that the two harnesses share no mail. A turn of the same member even gets the same staging directory,
  wiped first (`state.py:847-851`), and releases what the old harness still writes there as its own.
- **What a killed turn had told is lost** (`prepare_staging` wipes it, `state.py:851`), though each `tell` of
  that turn had succeeded.
- **Mail that meets an unreadable roster leaves no record** (`dispatch.py:1344`, `1437`; the docstring of
  `_ingest` has it that undeliverable mail is dead-lettered). Its sender is told, and it is neither queued nor
  dead-lettered (`Skip`).
- **A rollback leaves down what the failed release kept from starting** (`docs/ar3.md:350-358` has
  the seats restart onto the old tree). Its `a8s update` restarts only nodes that run
  (`autoupdate.py:896`, `914`), and a seat that did not come up does not. (`code[s] = Down` is no
  violation of `SeatsFollow`.)
- **An installer that is killed in mid-checkout ends the rollback.** The clone is dirty, `_where`
  takes it for somebody else's, and the record is dropped with the tree as it is.
  (`DroppedForeign`; `strayed` excepts it.)
- **An update by hand may be undone** (`docs/ar3.md:339`: even an interrupted one "is never undone"). A tick
  is killed while its installer is at work on an unpack; the flock is free, `ar3 update` moves a newer release
  in, and the old installer goes on and puts its own, older one over it (`get.sh:304-313`).
  (`outlived`; `HandIsFinal` asks that nothing else undoes an update.)
- **A fruitless `ar3 update` leaves a seat on the old code.** After a night that ended in `partial` it ends the
  record; when it finds nothing newer, `get.sh:338-347` restarts nobody, and no later night sees anything
  to do, though nothing has died. (`strayed` excepts it.)
- **A compaction may erase the record of what is still on the wire** (`ledger.py:33-35` has a failed listing
  skip it, and `160-166` that only what is gone from the wire may go). A folder that is there and cannot be listed answers
  that it is empty (`folder.py:275-276`), and the compaction rewrites the ledger with no line and drops the
  ids; so does a ledger that cannot be read at that moment. What is still in the folder is then offered
  again, which the seen table of `RemoteReceive` stops, and a publisher may be offered its own message.
  (`forgot` excepts what was dropped in this way.)
- **A crash in the middle of a fan-out leaves a part of it** (`mailbox.py:24-25`: "A crash mid-fan-out leaves no
  partial state"). The renames into the inboxes come one by one: members after the last one get nothing, and
  the file stays in `sending/`, which no pass scans.
- **Two processes may both take over one stale mutex.** The comment at `ledger.py:103` says
  that one of them wins; between the look and the rename the first may have made its own.

**Races that nothing in the code prevents**

- **A message may lose its attachment.** The envelope is renamed into `pending/` before its bundle
  (`mailbox.py:369`), and a co-owner's handler may claim it in between.
- A take-over hands an agent over while its wake runs on, so one agent has two wakes for a
  while. The old holder's settle then removes the new holder's record, and a force stop no
  longer finds the mail it should mark.
- A handler that attaches does not look at a leftover record; its first claim replaces
  it, and the mail of the dead handler's wake stays in trash without a marker.
- A force stop clears the record outside the pid lock; a handler that attaches in between
  makes it leave the mail unmarked.
- A handler that attaches while a force stop is between the marking and the end may start a wake and let
  go of the agent again; the stop's last step then takes the failure record of that wake's session before its
  exit 0 is settled, and last-wake says "ok" (p). (`tainted` excepts it.)
- The last step of a force stop may take the failure record of a wake that a dead handler left running:
  the mail is a dead letter then, the next handler is not seen as attached beside it, and a force
  stop of that one kills the running session, whose own handler it was not (p). (`Spared` excepts it.)
- A handler killed between an ack and `clear_wake_pid` leaves a record that makes acked
  mail a dead letter as well.
- A failed spawn clears the record before it marks the mail.
- A recipient that the registry knows and `by_name` does not (`Lagging`) gets neither the
  message nor a row.
- The most recent requester need not be the next handler: who wins the O_EXCL create
  is. A kill request stays until the hook has run, and a waiter that claims meanwhile obeys it.
- Raising `dedup_days` after an id expired, by more than `CLOCK_SKEW_DAYS` has to spare, admits a
  replay: the expiry forgets by the old setting, the age check admits by the new one.
- Two turns at once (`stolen`): a lock file read between its create and its write
  names nobody, so another process unlinks it (`state.py:397`); or a file that was stale when
  it was read is another's by the time it is unlinked. Two processes then hold the
  admission lock, both find no live turn, and both are admitted.
- The orphan sweep lists live turns before it lists what is in flight (`state.py:617`), so a turn
  that starts in between is buried while it runs; two sweeps at once tell the sender twice
  (`mixed`).
- `return_claim` puts back whatever is in flight for the member (`state.py:598`). With two turns of one
  member admitted at once, the one that gives its batch back queues the batch that the other is
  running, and the next turn runs it again (p) (`mixed`).
- An append that gave up on the mutex while another process compacts is forgotten with the
  rewrite, or, between the compaction's look at the wire and its rewrite, dropped as an id
  that is no longer there; a published envelope may then be echoed (`crossed`).
- A tick is killed and its installer runs on: the next tick still finds the old tree,
  drops the record, and the installer then changes the tree under seats that nobody restarts.
- A pull that lands on a newer commit than the recorded one: the record is dropped as
  somebody else's work, the seats stay on the old code, and later nights see nothing to do.
- A seat that a person, or a reboot, starts while the installer is at work runs the new code after a
  put-back.
- An `ar3 update` that has ended the record and then dies leaves seats and tree apart.
- A seat that a person stops between the install and the health check makes a good release bad.
- `get.sh` by hand while a tick's installer is at work on an unpack can leave the install moved
  aside without a record.
- An edit between `_guard` and `git reset` is lost.

## Plan

Done: `MailRouting` with `OneTry`, `HandlerClaim`, `RemoteReceive`, `TurnDispatch`,
`WakeLifecycle`, `FolderWire`, `NightlyUpdate`, each with proofs of all its safety properties. Next, in this order:

1. `StartIntent` (autostart): tokens, epochs, the claim under the lock, composed with
   `HandlerClaim`'s claim.
2. A composition of two nodes joined by a broker, `MailRouting` on one side and
   `RemoteReceive` on the other: an accepted message reaches its recipient once.
3. The two files of registry and secrets, and the binding that joins them.
4. The queue of a resident session and what its death leaves (r4t engines).
5. Proofs: weaker assumptions where the code allows them (`AttachmentTravels` with shared outboxes
   and a guard on the carrier, `HookRunsOnce` with several commands one after the other), and
   abstract specifications for the seen table and for the one wake slot.

The runs are kept few, so that all of them are looked at: a new module takes the place of the
questions that are understood by then.

## Not modelled

`PROJECT.json` lists every part with its reason. In short: autostart, the binding of secrets and the resident
engines of r4t are planned, and S3 and MQTT have no model of their own beside the folder's; k7e's writers hold one file lock, so
nothing interleaves and what is left is text ranking; the command lines, definitions,
connectors, engines' output parsers and vendored code have no protocol of their own. The shared
library is in the models as the atomic steps it provides.
