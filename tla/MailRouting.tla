----------------------------- MODULE MailRouting -----------------------------
(***************************************************************************)
(* The a8s router (apps/a8s/mailbox.py): handler processes that ingest the *)
(* outboxes of the agents they hold into pending/, claim each pending      *)
(* message into sending/, give every path one try and settle the message.  *)
(* Handlers run concurrently on one state root, two of them may share an   *)
(* outbox, and any of them may die between two steps.                      *)
(***************************************************************************)
EXTENDS Integers, FiniteSets

CONSTANTS
  Daemon,       \* handler processes
  Agent,        \* registered agents
  Box,          \* physical outbox directories
  NumMsgs,      \* bound: messages ever written; numbered in ULID order
  Remote,       \* configured remotes that started
  None,         \* "no value"
  Handled,      \* Handled[d]: the agents daemon d holds
  OutboxOf,     \* OutboxOf[a]: the outbox of agent a, shared when equal
  CrossDevice,  \* outboxes on another filesystem than the state root
  Lagging,      \* agents the registry names but a pass may not hold yet
  Services,     \* TRUE when a storage service is configured
  Headers,      \* the envelopes agents write
  Faults,       \* which filesystem steps may fail
  MaxCrashes    \* bound: handler deaths

Msg == 1 .. NumMsgs
Kinds == {"agent", "alias", "namespace", "unknown", "unroutable"}
FaultKinds == {"claim", "stage", "commit", "settle", "upload"}

\* A place an envelope can be: an outbox, or a directory of one agent.
Place == ({"outbox"} \X Box) \cup ({"pending", "sending", "trash"} \X Agent)
Pending(a) == <<"pending", a>>
Sending(a) == <<"sending", a>>
Trash(a)   == <<"trash", a>>

ASSUME RoutingAssumption ==
  /\ NumMsgs \in Nat /\ MaxCrashes \in Nat
  /\ Handled \in [Daemon -> SUBSET Agent]
  /\ OutboxOf \in [Agent -> Box]
  /\ CrossDevice \subseteq Box /\ Lagging \subseteq Agent
  /\ Services \in BOOLEAN /\ Faults \subseteq FaultKinds
  /\ Headers \subseteq [sender : Agent, claim : Agent \cup {None}, kind : Kinds,
                        members : SUBSET Agent, files : BOOLEAN]
  /\ None \notin Agent /\ None \notin Msg /\ None \notin Headers
  /\ Agent \cap Remote = {}

\* resolve_name raises KeyError on a name it does not know: nobody is behind it.
ASSUME UnknownAssumption == \A h \in Headers : h.kind = "unknown" => h.members = {}

VARIABLES
  header,    \* header[m]: the envelope of m, None until it is written
  at,        \* at[m]: the places that hold a file of m
  bundleAt,  \* bundleAt[m]: the places that hold the attachment bundle of m
  inbox,     \* inbox[a]: envelopes in a's inbox
  tmp,       \* tmp[a]: envelopes staged in a's inbox.tmp
  seen,      \* ids in the seen table
  rows,      \* transaction rows <<event, message, party>>
  commits,   \* commits[m][a]: times m was moved into a's inbox  (history)
  sent,      \* sent[m][r]: times remote r accepted m  (history)
  bare,      \* <<m, a>>: m reached a without its attachment  (history)
  crashes,   \* handler deaths so far
  pc,        \* pc[d]: what daemon d does next
  job        \* job[d]: the local variables of d's routing pass

mail == <<header, at, bundleAt>>
history == <<commits, sent, bare>>
vars == <<header, at, bundleAt, inbox, tmp, seen, rows, commits, sent, bare,
          crashes, pc, job>>

Locals == {"none", "unknown", "delivered", "failed"}
Verdicts == {"none", "sent", "DROPPED", "DISCARDED"}
Steps == {"idle", "scan", "copied", "bundle", "turn",
          "stage", "commit", "remote", "publish", "outcome", "settle"}

Job == [boxes : SUBSET Box, turns : SUBSET Agent, byName : SUBSET Agent,
        queue : SUBSET Msg, cur : Msg \cup {None}, owner : Agent \cup {None},
        whole : BOOLEAN, local : Locals,
        staged : SUBSET Agent, committed : SUBSET Agent, missed : SUBSET Agent,
        waiting : SUBSET Remote, took : SUBSET Remote, refused : SUBSET Remote,
        verdict : Verdicts]

NoJob == [boxes |-> {}, turns |-> {}, byName |-> {}, queue |-> {}, cur |-> None,
          owner |-> None, whole |-> TRUE, local |-> "none",
          staged |-> {}, committed |-> {}, missed |-> {},
          waiting |-> {}, took |-> {}, refused |-> {}, verdict |-> "none"]

\* The job with the state of the message in hand reset.
Fresh(j, m) ==
  [j EXCEPT !.cur = m, !.whole = TRUE, !.local = "none",
            !.staged = {}, !.committed = {}, !.missed = {},
            !.waiting = {}, !.took = {}, !.refused = {}, !.verdict = "none"]

-----------------------------------------------------------------------------
\* The envelope of the message daemon d holds, and the place it holds it in.
Envelope(d) == header[job[d].cur]
Holds(d) == Sending(job[d].owner)

OutboxFor(h) == <<"outbox", OutboxOf[h.sender]>>
Owners(b) == {a \in Agent : OutboxOf[a] = b}
InDir(p) == {m \in Msg : p \in at[m]}
Earliest(S) == {m \in S : \A n \in S : m <= n}   \* at most one message

Goto(d, label) == pc' = [pc EXCEPT ![d] = label]
SetJob(d, j) == job' = [job EXCEPT ![d] = j]
\* Mutant: the file is copied, not renamed.
MoveFileCopies(m, from, to) == at' = [at EXCEPT ![m] = @ \cup {to}]
MoveFile(m, from, to) == at' = [at EXCEPT ![m] = (@ \ {from}) \cup {to}]

\* Who the ingest gives a file of outbox b to: the only owner, the co-owner
\* the envelope claims, or a handled owner of that outbox.
IngestOwner(d, b, m) ==
  IF Cardinality(Owners(b)) = 1 THEN Owners(b)
  ELSE IF header[m].claim \in Owners(b) THEN {header[m].claim}
  ELSE LET H == Owners(b) \cap Handled[d]
       IN {a \in H : a = CHOOSE x \in H : TRUE}

\* The members of the recipient this pass can deliver to. An alias or a
\* namespace leaves the sender out of its own fan-out, a plain name does not.
Recipients(d) ==
  {r \in Envelope(d).members \cap job[d].byName :
     Envelope(d).kind = "agent" \/ r # job[d].owner}

-----------------------------------------------------------------------------
Init ==
  /\ header = [m \in Msg |-> None]
  /\ at = [m \in Msg |-> {}]
  /\ bundleAt = [m \in Msg |-> {}]
  /\ inbox = [a \in Agent |-> {}]
  /\ tmp = [a \in Agent |-> {}]
  /\ seen = {}
  /\ rows = {}
  /\ commits = [m \in Msg |-> [a \in Agent |-> 0]]
  /\ sent = [m \in Msg |-> [r \in Remote |-> 0]]
  /\ bare = {}
  /\ crashes = 0
  /\ pc = [d \in Daemon |-> "idle"]
  /\ job = [d \in Daemon |-> NoJob]

\* `tell`: the bundle is in the outbox before the envelope is renamed in.
\* ULIDs are minted in time order, so messages appear in the order of Msg.
Tell(m, h) ==
  /\ header[m] = None
  /\ \A n \in Msg : n < m => header[n] # None
  /\ header' = [header EXCEPT ![m] = h]
  /\ at' = [at EXCEPT ![m] = {OutboxFor(h)}]
  /\ bundleAt' = [bundleAt EXCEPT ![m] = IF h.files THEN {OutboxFor(h)} ELSE {}]
  /\ UNCHANGED <<inbox, tmp, seen, rows, history, crashes, pc, job>>

\* A wake takes an envelope out of the inbox.
Read(a, m) ==
  /\ m \in inbox[a]
  /\ inbox' = [inbox EXCEPT ![a] = @ \ {m}]
  /\ UNCHANGED <<mail, tmp, seen, rows, history, crashes, pc, job>>

\* Mutant: only the owner of a file this pass ingests gets a turn in it.
StartPassFresh(d) ==
  /\ pc[d] = "idle"
  /\ SetJob(d, [NoJob EXCEPT !.byName = Agent,
                             !.boxes = {OutboxOf[a] : a \in Handled[d]}])
  /\ Goto(d, "scan")
  /\ UNCHANGED <<mail, inbox, tmp, seen, rows, history, crashes>>

StartPass(d) ==
  /\ pc[d] = "idle"
  /\ \E late \in SUBSET Lagging :
       SetJob(d, [NoJob EXCEPT !.byName = Agent \ late,
                               !.boxes = {OutboxOf[a] : a \in Handled[d]},
                               !.turns = Handled[d]])
  /\ Goto(d, "scan")
  /\ UNCHANGED <<mail, inbox, tmp, seen, rows, history, crashes>>

\* _ingest_outboxes, one outbox: the listing is taken before any file moves.
ScanOutbox(d) ==
  /\ pc[d] = "scan" /\ job[d].queue = {}
  /\ \E b \in job[d].boxes :
       SetJob(d, [job[d] EXCEPT !.boxes = @ \ {b},
                                !.queue = InDir(<<"outbox", b>>)])
  /\ UNCHANGED <<mail, inbox, tmp, seen, rows, history, crashes, pc>>

ScanDone(d) ==
  /\ pc[d] = "scan" /\ job[d].queue = {} /\ job[d].boxes = {}
  /\ Goto(d, "turn")
  /\ UNCHANGED <<mail, inbox, tmp, seen, rows, history, crashes, job>>

\* The rename into pending/. A file another daemon moved first is passed over.
\* Across filesystems the rename fails, and the file is copied and then unlinked.
IngestFile(d) ==
  /\ pc[d] = "scan"
  /\ \E m \in Earliest(job[d].queue) :
       LET b == OutboxOf[header[m].sender]
           src == <<"outbox", b>>
       IN IF src \notin at[m]
          THEN /\ SetJob(d, [job[d] EXCEPT !.queue = @ \ {m}])
               /\ UNCHANGED <<at, pc>>
          ELSE \E a \in IngestOwner(d, b, m) :
                 /\ SetJob(d, [job[d] EXCEPT !.cur = m, !.owner = a])
                 /\ IF b \in CrossDevice
                    THEN /\ at' = [at EXCEPT ![m] = @ \cup {Pending(a)}]
                         /\ Goto(d, "copied")
                    ELSE /\ MoveFile(m, src, Pending(a))
                         /\ Goto(d, "bundle")
  /\ UNCHANGED <<header, bundleAt, inbox, tmp, seen, rows, history, crashes>>

\* The unlink after a copy. When the file is already gone the message is
\* passed over, and its bundle stays where it is.
UnlinkCopied(d) ==
  /\ pc[d] = "copied"
  /\ LET m == job[d].cur
         src == OutboxFor(header[m])
     IN IF src \in at[m]
        THEN /\ at' = [at EXCEPT ![m] = @ \ {src}]
             /\ Goto(d, "bundle")
             /\ UNCHANGED job
        ELSE /\ SetJob(d, [job[d] EXCEPT !.queue = @ \ {m}, !.cur = None,
                                         !.owner = None])
             /\ Goto(d, "scan")
             /\ UNCHANGED at
  /\ UNCHANGED <<header, bundleAt, inbox, tmp, seen, rows, history, crashes>>

\* Mutant: the bundle is left in the outbox.
IngestBundleLeaves(d) ==
  /\ pc[d] = "bundle"
  /\ SetJob(d, [job[d] EXCEPT !.queue = @ \ {job[d].cur}, !.cur = None, !.owner = None,
                              !.turns = @ \cup {job[d].owner}])
  /\ Goto(d, "scan")
  /\ UNCHANGED <<mail, inbox, tmp, seen, rows, history, crashes>>

\* The bundle follows its envelope; the owner gets a turn in this pass.
IngestBundle(d) ==
  /\ pc[d] = "bundle"
  /\ LET m == job[d].cur
         src == OutboxFor(header[m])
     IN /\ bundleAt' = [bundleAt EXCEPT ![m] =
             IF src \in @ THEN (@ \ {src}) \cup {Pending(job[d].owner)} ELSE @]
        /\ SetJob(d, [job[d] EXCEPT !.queue = @ \ {m}, !.cur = None, !.owner = None,
                                    !.turns = @ \cup {job[d].owner}])
  /\ Goto(d, "scan")
  /\ UNCHANGED <<header, at, inbox, tmp, seen, rows, history, crashes>>

\* _process_pending for one owner: the listing of pending/ is taken first.
\* The pass runs over the owners in some order; any order is allowed here.
StartTurn(d) ==
  /\ pc[d] = "turn" /\ job[d].queue = {}
  /\ \E a \in job[d].turns :
       SetJob(d, [job[d] EXCEPT !.turns = @ \ {a}, !.owner = a,
                                !.queue = InDir(Pending(a))])
  /\ UNCHANGED <<mail, inbox, tmp, seen, rows, history, crashes, pc>>

EndPass(d) ==
  /\ pc[d] = "turn" /\ job[d].queue = {} /\ job[d].turns = {}
  /\ SetJob(d, NoJob)
  /\ Goto(d, "idle")
  /\ UNCHANGED <<mail, inbox, tmp, seen, rows, history, crashes>>

\* _claim_pending: the rename into sending/ decides who sends the message.
Claim(d) ==
  /\ pc[d] = "turn"
  /\ \E m \in Earliest(job[d].queue) :
       LET j == [job[d] EXCEPT !.queue = @ \ {m}]
       IN \/ /\ Pending(job[d].owner) \in at[m]
             /\ MoveFile(m, Pending(job[d].owner), Sending(job[d].owner))
             /\ SetJob(d, Fresh(j, m))
             /\ Goto(d, "stage")
          \/ /\ Pending(job[d].owner) \notin at[m] \/ "claim" \in Faults
             /\ SetJob(d, j)
             /\ UNCHANGED <<at, pc>>
  /\ UNCHANGED <<header, bundleAt, inbox, tmp, seen, rows, history, crashes>>

\* Mutant: an unroutable message is logged and skipped, not settled.
UnroutableSkips(d) ==
  /\ pc[d] = "stage" /\ Envelope(d).kind = "unroutable"
  /\ rows' = rows \cup {<<"DROPPED", job[d].cur, "message">>}
  /\ Goto(d, "turn")
  /\ UNCHANGED <<mail, inbox, tmp, seen, history, crashes, job>>

\* Unreadable, malformed, empty `to` and cyclic alias: dropped with one row.
Unroutable(d) ==
  /\ pc[d] = "stage" /\ Envelope(d).kind = "unroutable"
  /\ rows' = rows \cup {<<"DROPPED", job[d].cur, "message">>}
  /\ SetJob(d, [job[d] EXCEPT !.verdict = "DROPPED"])
  /\ Goto(d, "settle")
  /\ UNCHANGED <<mail, inbox, tmp, seen, history, crashes>>

\* resolve_name raises KeyError: only a remote can take the message.
NotLocal(d) ==
  /\ pc[d] = "stage" /\ Envelope(d).kind = "unknown"
  /\ SetJob(d, [job[d] EXCEPT !.local = "unknown"])
  /\ Goto(d, "remote")
  /\ UNCHANGED <<mail, inbox, tmp, seen, rows, history, crashes>>

\* Every recipient is staged, or none is. A recipient whose inbox holds the
\* file already is skipped; with no recipient the local hop counts as delivered.
\* The attachment is copied for each recipient out of the pending bundle.
Stage(d) ==
  /\ pc[d] = "stage" /\ Envelope(d).kind \in {"agent", "alias", "namespace"}
  /\ LET m == job[d].cur
         new == {r \in Recipients(d) : m \notin inbox[r]}
         whole == Envelope(d).files => Pending(job[d].owner) \in bundleAt[m]
     IN IF Recipients(d) = {}
        THEN /\ SetJob(d, [job[d] EXCEPT !.local = "delivered"])
             /\ Goto(d, "remote")
             /\ UNCHANGED tmp
        ELSE \/ /\ tmp' = [a \in Agent |-> IF a \in new THEN tmp[a] \cup {m}
                                           ELSE tmp[a]]
                /\ SetJob(d, [job[d] EXCEPT !.staged = new, !.whole = whole])
                /\ Goto(d, "commit")
             \/ /\ "stage" \in Faults /\ new # {}
                /\ SetJob(d, [job[d] EXCEPT !.local = "failed"])
                /\ Goto(d, "remote")
                /\ UNCHANGED tmp
  /\ UNCHANGED <<mail, inbox, seen, rows, history, crashes>>

\* _commit_staged_inboxes: one rename per recipient, in turn.
Commit(d) ==
  /\ pc[d] = "commit"
  /\ \E r \in job[d].staged :
       LET m == job[d].cur
           j == [job[d] EXCEPT !.staged = @ \ {r}]
       IN /\ tmp' = [tmp EXCEPT ![r] = @ \ {m}]
          /\ \/ /\ m \in tmp[r]
                /\ inbox' = [inbox EXCEPT ![r] = @ \cup {m}]
                /\ commits' = [commits EXCEPT ![m][r] = @ + 1]
                /\ bare' = IF job[d].whole THEN bare ELSE bare \cup {<<m, r>>}
                /\ SetJob(d, [j EXCEPT !.committed = @ \cup {r}])
             \/ /\ m \notin tmp[r] \/ "commit" \in Faults
                /\ SetJob(d, [j EXCEPT !.missed = @ \cup {r}])
                /\ UNCHANGED <<inbox, commits, bare>>
  /\ UNCHANGED <<mail, seen, rows, sent, crashes, pc>>

\* Mutant: the members a fan-out missed get no row.
DeliveredUnlogged(d) ==
  /\ pc[d] = "commit" /\ job[d].staged = {}
  /\ SetJob(d, [job[d] EXCEPT !.local =
       IF job[d].committed = {} /\ job[d].missed # {} THEN "failed" ELSE "delivered"])
  /\ Goto(d, "remote")
  /\ UNCHANGED <<mail, inbox, tmp, seen, rows, history, crashes>>

\* The local hop failed when it staged copies and none moved. Otherwise each
\* member missed gets its row, and a commit enters the id in the seen table.
Delivered(d) ==
  /\ pc[d] = "commit" /\ job[d].staged = {}
  /\ LET m == job[d].cur
         none == job[d].committed = {} /\ job[d].missed # {}
     IN /\ SetJob(d, [job[d] EXCEPT !.local = IF none THEN "failed" ELSE "delivered"])
        /\ rows' = rows \cup
             IF none THEN {}
             ELSE {<<"DROPPED", m, r>> : r \in job[d].missed}
                    \cup {<<"ROUTED", m, r>> : r \in job[d].committed}
        /\ seen' = IF job[d].committed = {} THEN seen ELSE seen \cup {m}
  /\ Goto(d, "remote")
  /\ UNCHANGED <<mail, inbox, tmp, history, crashes>>

\* What comes before the publish: files without a store stay local, an upload
\* nobody took fails every remote, and the id is seen before it is published.
Offer(d) ==
  /\ pc[d] = "remote"
  /\ LET m == job[d].cur
         files == Envelope(d).files
     IN \/ /\ Remote = {} \/ (files /\ ~Services)
           /\ Goto(d, "outcome")
           /\ UNCHANGED <<seen, job>>
        \/ /\ Remote # {} /\ files /\ Services /\ "upload" \in Faults
           /\ SetJob(d, [job[d] EXCEPT !.refused = Remote])
           /\ Goto(d, "outcome")
           /\ UNCHANGED seen
        \/ /\ Remote # {} /\ (files => Services)
           /\ seen' = seen \cup {m}
           /\ SetJob(d, [job[d] EXCEPT !.waiting = Remote])
           /\ Goto(d, "publish")
  /\ UNCHANGED <<mail, inbox, tmp, rows, history, crashes>>

\* One publish per remote: SENT, AMBIGUOUS (taken or not, counted as taken) or
\* FAILED. A remote known to be down fails at once, which FAILED covers.
Publish(d) ==
  /\ pc[d] = "publish"
  /\ \E r \in job[d].waiting :
       LET m == job[d].cur
           j == [job[d] EXCEPT !.waiting = @ \ {r}]
       IN \E took \in BOOLEAN, arrived \in BOOLEAN :
            /\ arrived => took
            /\ sent' = IF arrived THEN [sent EXCEPT ![m][r] = @ + 1] ELSE sent
            /\ SetJob(d, IF took THEN [j EXCEPT !.took = @ \cup {r}]
                         ELSE [j EXCEPT !.refused = @ \cup {r}])
            /\ rows' = IF took THEN rows \cup {<<"PUBLISHED", m, r>>} ELSE rows
  /\ UNCHANGED <<mail, inbox, tmp, seen, commits, bare, crashes, pc>>

Published(d) ==
  /\ pc[d] = "publish" /\ job[d].waiting = {}
  /\ Goto(d, "outcome")
  /\ UNCHANGED <<mail, inbox, tmp, seen, rows, history, crashes, job>>

\* Mutant: the outcome looks at the local hop only.
OutcomeLocalOnly(d) ==
  /\ pc[d] = "outcome"
  /\ SetJob(d, [job[d] EXCEPT !.verdict =
       IF job[d].local = "delivered" THEN "sent" ELSE "DISCARDED"])
  /\ Goto(d, "settle")
  /\ UNCHANGED <<mail, inbox, tmp, seen, rows, history, crashes>>

\* The outcome: no path at all, some path took it, or every path failed.
Outcome(d) ==
  /\ pc[d] = "outcome"
  /\ LET m == job[d].cur
         j == job[d]
         none == j.local = "unknown" /\ Remote = {}
         some == j.local = "delivered" \/ j.took # {}
         lost == {<<"DROPPED", m, r>> : r \in j.refused}
                   \cup IF j.local = "failed" THEN {<<"DROPPED", m, "local">>} ELSE {}
         verdict == CASE none -> "DROPPED" [] ~none /\ some -> "sent"
                      [] OTHER -> "DISCARDED"
     IN /\ rows' = rows \cup IF verdict = "sent" THEN lost
                             ELSE {<<verdict, m, "message">>}
        /\ SetJob(d, [j EXCEPT !.verdict = verdict])
  /\ Goto(d, "settle")
  /\ UNCHANGED <<mail, inbox, tmp, seen, history, crashes>>

\* _finalize_pending removes the file, _trash_pending moves it to trash; both
\* take the bundle along. A file that will not move stays in sending/.
Settle(d) ==
  /\ pc[d] = "settle"
  /\ LET m == job[d].cur
         end == IF job[d].verdict = "sent" THEN {} ELSE {Trash(job[d].owner)}
         bundle == Pending(job[d].owner)
     IN /\ \/ at' = [at EXCEPT ![m] = (@ \ {Holds(d)}) \cup end]
           \/ "settle" \in Faults /\ UNCHANGED at
        /\ bundleAt' = [bundleAt EXCEPT ![m] =
             IF bundle \in @ THEN (@ \ {bundle}) \cup end ELSE @]
        /\ SetJob(d, Fresh(job[d], None))
  /\ Goto(d, "turn")
  /\ UNCHANGED <<header, inbox, tmp, seen, rows, history, crashes>>

\* A handler dies between two steps, and a later one runs from the top.
Crash(d) ==
  /\ pc[d] # "idle" /\ crashes < MaxCrashes
  /\ crashes' = crashes + 1
  /\ SetJob(d, NoJob)
  /\ Goto(d, "idle")
  /\ UNCHANGED <<mail, inbox, tmp, seen, rows, history>>

-----------------------------------------------------------------------------
Route(d) ==
  \/ StartPass(d) \/ ScanOutbox(d) \/ ScanDone(d) \/ IngestFile(d)
  \/ UnlinkCopied(d) \/ IngestBundle(d) \/ StartTurn(d) \/ EndPass(d)
  \/ Claim(d) \/ Unroutable(d) \/ NotLocal(d) \/ Stage(d) \/ Commit(d)
  \/ Delivered(d) \/ Offer(d) \/ Publish(d) \/ Published(d) \/ Outcome(d)
  \/ Settle(d)

Next ==
  \/ \E m \in Msg, h \in Headers : Tell(m, h)
  \/ \E a \in Agent, m \in Msg : Read(a, m)
  \/ \E d \in Daemon : Route(d) \/ Crash(d)

Spec == Init /\ [][Next]_vars

\* A live handler keeps running passes.
FairSpec == Spec /\ \A d \in Daemon : WF_vars(Route(d))

-----------------------------------------------------------------------------
TypeOK ==
  /\ header \in [Msg -> Headers \cup {None}]
  /\ at \in [Msg -> SUBSET Place]
  /\ bundleAt \in [Msg -> SUBSET Place]
  /\ inbox \in [Agent -> SUBSET Msg] /\ tmp \in [Agent -> SUBSET Msg]
  /\ seen \subseteq Msg
  /\ commits \in [Msg -> [Agent -> Nat]] /\ sent \in [Msg -> [Remote -> Nat]]
  /\ bare \subseteq Msg \X Agent
  /\ crashes \in 0 .. MaxCrashes
  /\ pc \in [Daemon -> Steps] /\ job \in [Daemon -> Job]

InFlight == {"stage", "commit", "remote", "publish", "outcome", "settle"}

\* Daemon d is between claiming m and settling it.
Holding(d, m) == pc[d] \in InFlight /\ job[d].cur = m

\* The router is done with m: no file of it is left outside a trash directory.
Settled(m) ==
  header[m] # None /\ at[m] \subseteq {Trash(a) : a \in Agent}

Trashed(m) == \E a \in Agent : Trash(a) \in at[m]

\* docs/a8s-development.md "nothing is sent twice": no inbox and no remote takes
\* a message twice, however many handlers route, fail or die.
NothingSentTwice ==
  \A m \in Msg :
    /\ \A a \in Agent : commits[m][a] <= 1
    /\ \A r \in Remote : sent[m][r] <= 1

\* Who the ingest may have taken for the sender of an envelope.
Senders(h) ==
  LET owners == Owners(OutboxOf[h.sender])
  IN IF h.claim \in owners THEN {h.claim} ELSE owners

\* The row of every path: a message in trash has its one drop row, and a sent
\* one has for every recipient and every remote a delivery or a drop row.
EveryPathAccounted ==
  \A m \in Msg : Settled(m) =>
    LET h == header[m]
        row(e, p) == <<e, m, p>> \in rows
    IN IF Trashed(m) THEN row("DROPPED", "message") \/ row("DISCARDED", "message")
       ELSE /\ \A r \in Remote :
                 \/ row("PUBLISHED", r) \/ row("DROPPED", r)
                 \/ h.files /\ ~Services
            /\ \A a \in h.members :
                 \/ commits[m][a] > 0 \/ row("DROPPED", a) \/ row("DROPPED", "local")
                 \/ h.kind # "agent" /\ a \in Senders(h)

\* A message a remote may echo back is in the seen table before it can come
\* back (issue #138: the broker echo is dropped by the seen row).
PublishedIsSeen ==
  \A m \in Msg : (\E r \in Remote : sent[m][r] > 0) => m \in seen

\* A file in sending/ that no handler works on; no later pass scans it.
Stranded(m) ==
  /\ \E a \in Agent : Sending(a) \in at[m]
  /\ ~\E d \in Daemon : Holding(d, m)

\* _claim_pending, mailbox.py:392: each death of a handler strands at most the one message it
\* worked on, and nothing else does.
StrandedByCrash == Cardinality({m \in Msg : Stranded(m)}) <= crashes

\* Nobody else works on a message a daemon has claimed.
ClaimIsExclusive ==
  \A m \in Msg : \A d, e \in Daemon : Holding(d, m) /\ Holding(e, m) => d = e

\* mailbox.py:31 "Ingest moves each bundle with its envelope": a recipient of
\* a message with attachments gets them, as long as no handler dies (one that dies
\* between the two renames leaves the bundle in the outbox).
AttachmentArrives == crashes = 0 => bare = {}

\* The router gives every written message its tries and settles it, also what a
\* handler that died left behind, except the one message it had claimed.
EventuallySettled == \A m \in Msg : header[m] # None ~> Settled(m) \/ Stranded(m)

\* MailRouting implements the promise stated in OneTry.
StageOf(m) ==
  CASE header[m] = None -> "unsent"
    [] header[m] # None /\ ~Settled(m) -> "open"
    [] header[m] # None /\ Settled(m) /\ Trashed(m) -> "dropped"
    [] OTHER -> "sent"

Promise == INSTANCE OneTry WITH
  Path <- Agent \cup Remote,
  stage <- [m \in Msg |-> StageOf(m)],
  taken <- [m \in Msg |-> [p \in Agent \cup Remote |->
              IF p \in Agent THEN commits[m][p] ELSE sent[m][p]]]

KeepsPromise == Promise!Spec

-----------------------------------------------------------------------------
(* The inductive invariant behind NothingSentTwice, for outboxes on the    *)
(* filesystem of the state root: a message is one file, and what was tried *)
(* for it follows from where that file is and how far its holder got.      *)
Waiting(m) ==
  header[m] = None \/ \E p \in at[m] : p[1] \in {"outbox", "pending"}

OneFile == \A m \in Msg :
  /\ \A p, q \in at[m] : p = q
  /\ header[m] = None => at[m] = {}

\* A daemon that works on a message knows which one and whose.
Hands(d) ==
  /\ pc[d] \in {"copied", "bundle"} \cup InFlight =>
       job[d].cur \in Msg /\ job[d].owner \in Agent
  /\ pc[d] = "turn" /\ job[d].queue # {} => job[d].owner \in Agent

HandsFull == \A d \in Daemon : Hands(d)

Grips(d) ==
  /\ pc[d] # "copied"
  /\ pc[d] \in InFlight => Holds(d) \in at[job[d].cur]

HoldersHold == \A d \in Daemon : Grips(d)

WaitingUntried == \A m \in Msg : Waiting(m) =>
  /\ \A a \in Agent : commits[m][a] = 0
  /\ \A r \in Remote : sent[m][r] = 0

\* What the step of daemon d still owes its message was not done before.
Untried(d) ==
  LET m == job[d].cur IN
  /\ pc[d] = "stage" => \A a \in Agent : commits[m][a] = 0
  /\ pc[d] = "commit" => \A a \in job[d].staged : commits[m][a] = 0
  /\ pc[d] \in {"stage", "commit", "remote"} => \A r \in Remote : sent[m][r] = 0
  /\ pc[d] = "publish" => \A r \in job[d].waiting : sent[m][r] = 0

PathsUntried == \A d \in Daemon : Untried(d)

OnceInv ==
  /\ OneFile /\ HoldersHold /\ ClaimIsExclusive
  /\ WaitingUntried /\ PathsUntried /\ NothingSentTwice

RoutingInv == TypeOK /\ HandsFull /\ OnceInv
=============================================================================
