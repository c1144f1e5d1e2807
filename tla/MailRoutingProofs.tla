-------------------------- MODULE MailRoutingProofs --------------------------
(***************************************************************************)
(* Proofs about the router: its types, and that no path takes a message    *)
(* twice when every outbox shares the filesystem of the state root.        *)
(***************************************************************************)
EXTENDS MailRouting, TLAPS

Typed == TypeOK /\ HandsFull

\* A step of daemon d leaves what the other daemons are doing alone.
OnlyMoves(d) ==
  /\ pc' \in [Daemon -> Steps] /\ job' \in [Daemon -> Job]
  /\ \A e \in Daemon \ {d} : pc'[e] = pc[e] /\ job'[e] = job[e]

LEMMA InitTyped == Init => Typed
  <1> USE RoutingAssumption
  <1> QED
    BY DEF Init, Typed, TypeOK, HandsFull, Hands, InFlight, Steps, Job, NoJob, Locals, Verdicts

LEMMA NoJobType == NoJob \in Job
  BY DEF NoJob, Job, Locals, Verdicts

LEMMA JobMoves ==
  ASSUME TypeOK, NEW d \in Daemon, NEW j \in Job, SetJob(d, j),
         (\E l \in Steps : Goto(d, l)) \/ pc' = pc
  PROVE  OnlyMoves(d) /\ job'[d] = j
  BY DEF TypeOK, SetJob, Goto, OnlyMoves

LEMMA PcMoves ==
  ASSUME TypeOK, NEW d \in Daemon, NEW l \in Steps, Goto(d, l), job' = job
  PROVE  OnlyMoves(d)
  BY DEF TypeOK, Goto, OnlyMoves

LEMMA HandsStep ==
  ASSUME HandsFull, NEW d \in Daemon, OnlyMoves(d), Hands(d)'
  PROVE  HandsFull'
  BY DEF HandsFull, Hands, OnlyMoves

LEMMA JobOf ==
  ASSUME Typed, NEW d \in Daemon
  PROVE  /\ job[d] \in Job
         /\ pc[d] \in {"copied", "bundle"} \cup InFlight =>
              job[d].cur \in Msg /\ job[d].owner \in Agent
  BY DEF Typed, TypeOK, HandsFull, Hands

\* A step that only passes control on.
LEMMA ControlTyped ==
  ASSUME Typed, NEW d \in Daemon,
         ScanDone(d) \/ Published(d)
  PROVE  Typed'
  <1>1. OnlyMoves(d)
    BY PcMoves DEF Typed, ScanDone, Published, Steps
  <1>2. TypeOK'
    BY <1>1 DEF Typed, TypeOK, OnlyMoves, ScanDone, Published, mail, history
  <1>3. Hands(d)'
    BY <1>1 DEF Typed, TypeOK, HandsFull, Hands, InFlight, ScanDone, Published, Goto
  <1> QED BY <1>1, <1>2, <1>3, HandsStep DEF Typed

\* A pass starts, ends or dies: the local variables start from nothing.
LEMMA PassTyped ==
  ASSUME Typed, NEW d \in Daemon,
         StartPass(d) \/ EndPass(d) \/ Crash(d)
  PROVE  Typed'
  <1>1. PICK j \in Job : SetJob(d, j) /\ j.queue = {}
    <2>1. CASE StartPass(d)
      <3>1. PICK late \in SUBSET Lagging :
              SetJob(d, [NoJob EXCEPT !.byName = Agent \ late,
                                      !.boxes = {OutboxOf[a] : a \in Handled[d]},
                                      !.turns = Handled[d]])
        BY <2>1 DEF StartPass
      <3>2. {OutboxOf[a] : a \in Handled[d]} \in SUBSET Box /\ Handled[d] \in SUBSET Agent
        BY RoutingAssumption
      <3>3. [NoJob EXCEPT !.byName = Agent \ late,
                          !.boxes = {OutboxOf[a] : a \in Handled[d]},
                          !.turns = Handled[d]] \in Job
        BY <3>2, NoJobType DEF Job
      <3> QED BY <3>1, <3>3 DEF NoJob
    <2>2. CASE EndPass(d) \/ Crash(d)
      BY <2>2, NoJobType DEF EndPass, Crash, NoJob
    <2> QED BY <2>1, <2>2
  <1>2. OnlyMoves(d) /\ job'[d] = j
    BY <1>1, JobMoves DEF Typed, StartPass, EndPass, Crash, Steps
  <1>3. TypeOK'
    <2>1. crashes' \in 0 .. MaxCrashes
      <3>1. crashes \in Nat /\ MaxCrashes \in Nat /\ crashes <= MaxCrashes
        BY RoutingAssumption DEF Typed, TypeOK
      <3>2. crashes' = crashes \/ (crashes < MaxCrashes /\ crashes' = crashes + 1)
        BY DEF StartPass, EndPass, Crash
      <3> QED BY <3>1, <3>2
    <2> QED
      BY <1>2, <2>1 DEF Typed, TypeOK, OnlyMoves, StartPass, EndPass, Crash, mail, history
  <1>4. Hands(d)'
    <2>1. pc'[d] \in {"idle", "scan"}
      BY DEF Typed, TypeOK, StartPass, EndPass, Crash, Goto
    <2> QED BY <2>1 DEF Hands, InFlight
  <1> QED BY <1>2, <1>3, <1>4, HandsStep DEF Typed

LEMMA ScanOutboxTyped ==
  ASSUME Typed, NEW d \in Daemon, ScanOutbox(d)
  PROVE  Typed'
  <1>1. PICK b \in job[d].boxes :
          SetJob(d, [job[d] EXCEPT !.boxes = @ \ {b}, !.queue = InDir(<<"outbox", b>>)])
    BY DEF ScanOutbox
  <1>2. [job[d] EXCEPT !.boxes = @ \ {b}, !.queue = InDir(<<"outbox", b>>)] \in Job
    <2>1. InDir(<<"outbox", b>>) \in SUBSET Msg
      BY DEF InDir
    <2> QED BY <2>1, JobOf DEF Job
  <1>3. OnlyMoves(d)
    BY <1>1, <1>2, JobMoves DEF Typed, ScanOutbox
  <1>4. TypeOK'
    BY <1>3 DEF Typed, TypeOK, OnlyMoves, mail, history, ScanOutbox
  <1>5. Hands(d)'
    BY DEF Typed, TypeOK, Hands, InFlight, ScanOutbox
  <1> QED BY <1>3, <1>4, <1>5, HandsStep DEF Typed

LEMMA StartTurnTyped ==
  ASSUME Typed, NEW d \in Daemon, StartTurn(d)
  PROVE  Typed'
  <1>1. PICK a \in job[d].turns :
          SetJob(d, [job[d] EXCEPT !.turns = @ \ {a}, !.owner = a,
                                   !.queue = InDir(Pending(a))])
    BY DEF StartTurn
  <1>2. /\ [job[d] EXCEPT !.turns = @ \ {a}, !.owner = a, !.queue = InDir(Pending(a))] \in Job
        /\ [job[d] EXCEPT !.turns = @ \ {a}, !.owner = a,
                          !.queue = InDir(Pending(a))].owner \in Agent
    <2>1. InDir(Pending(a)) \in SUBSET Msg
      BY DEF InDir
    <2> QED BY <2>1, JobOf DEF Job
  <1>3. OnlyMoves(d) /\ job'[d].owner \in Agent
    BY <1>1, <1>2, JobMoves DEF Typed, StartTurn
  <1>4. TypeOK'
    BY <1>3 DEF Typed, TypeOK, OnlyMoves, mail, history, StartTurn
  <1>5. Hands(d)'
    BY <1>3 DEF Typed, TypeOK, Hands, InFlight, StartTurn
  <1> QED BY <1>3, <1>4, <1>5, HandsStep DEF Typed

LEMMA IngestFileTyped ==
  ASSUME Typed, NEW d \in Daemon, IngestFile(d)
  PROVE  Typed'
  <1>1. PICK m \in job[d].queue :
          LET b == OutboxOf[header[m].sender]
              src == <<"outbox", b>>
          IN IF src \notin at[m]
             THEN /\ SetJob(d, [job[d] EXCEPT !.queue = @ \ {m}])
                  /\ UNCHANGED <<at, pc>>
             ELSE \E a \in IngestOwner(d, b, m) :
                    /\ SetJob(d, [job[d] EXCEPT !.cur = m, !.owner = a])
                    /\ IF b \in CrossDevice
                       THEN /\ at' = [at EXCEPT ![m] = @ \cup {Pending(a)}]
                            /\ Goto(d, "copied")
                       ELSE /\ MoveFile(m, src, Pending(a))
                            /\ Goto(d, "bundle")
    BY DEF IngestFile, Earliest
  <1>2. m \in Msg /\ job[d] \in Job
    BY JobOf DEF Job
  <1> DEFINE src == <<"outbox", OutboxOf[header[m].sender]>>
  <1>3. CASE src \notin at[m]
    <2>1. [job[d] EXCEPT !.queue = @ \ {m}] \in Job
      BY <1>2 DEF Job
    <2>2. OnlyMoves(d)
      BY <1>1, <1>3, <2>1, JobMoves DEF Typed
    <2>3. TypeOK'
      BY <1>1, <1>3, <2>2 DEF Typed, TypeOK, OnlyMoves, IngestFile, history
    <2>4. Hands(d)'
      BY <1>1, <1>3 DEF Typed, Hands, InFlight, IngestFile
    <2> QED BY <2>2, <2>3, <2>4, HandsStep DEF Typed
  <1>4. CASE src \in at[m]
    <2>1. PICK a \in Agent :
            /\ SetJob(d, [job[d] EXCEPT !.cur = m, !.owner = a])
            /\ \/ at' = [at EXCEPT ![m] = @ \cup {Pending(a)}] /\ Goto(d, "copied")
               \/ MoveFile(m, src, Pending(a)) /\ Goto(d, "bundle")
      BY <1>1, <1>4 DEF IngestOwner, Owners
    <2>2. /\ [job[d] EXCEPT !.cur = m, !.owner = a] \in Job
          /\ [job[d] EXCEPT !.cur = m, !.owner = a].cur \in Msg
          /\ [job[d] EXCEPT !.cur = m, !.owner = a].owner \in Agent
      BY <1>2 DEF Job
    <2>3. OnlyMoves(d) /\ job'[d].cur \in Msg /\ job'[d].owner \in Agent
      BY <2>1, <2>2, JobMoves DEF Typed, Steps
    <2>4. at' \in [Msg -> SUBSET Place]
      <3>1. Pending(a) \in Place
        BY DEF Pending, Place
      <3>2. \/ at' = [at EXCEPT ![m] = @ \cup {Pending(a)}]
            \/ at' = [at EXCEPT ![m] = (@ \ {src}) \cup {Pending(a)}]
        BY <2>1 DEF MoveFile
      <3>3. at \in [Msg -> SUBSET Place]
        BY DEF Typed, TypeOK
      <3> HIDE DEF src
      <3> QED BY <1>2, <3>1, <3>2, <3>3
    <2>5. TypeOK'
      BY <2>3, <2>4 DEF Typed, TypeOK, OnlyMoves, IngestFile, history
    <2>6. pc'[d] \in {"copied", "bundle"}
      BY <2>1 DEF Typed, TypeOK, Goto
    <2>7. Hands(d)'
      BY <2>3, <2>6 DEF Hands
    <2> QED BY <2>3, <2>5, <2>7, HandsStep DEF Typed
  <1> QED BY <1>3, <1>4

LEMMA UnlinkCopiedTyped ==
  ASSUME Typed, NEW d \in Daemon, UnlinkCopied(d)
  PROVE  Typed'
  <1> DEFINE m == job[d].cur
             src == OutboxFor(header[m])
  <1>1. m \in Msg /\ job[d].owner \in Agent /\ job[d] \in Job
    BY JobOf DEF UnlinkCopied
  <1>2. CASE src \in at[m]
    <2>1. OnlyMoves(d) /\ job' = job
      BY <1>2, PcMoves DEF Typed, UnlinkCopied, Steps
    <2>2. TypeOK'
      <3>1. at' = [at EXCEPT ![m] = @ \ {src}]
        BY <1>2 DEF UnlinkCopied
      <3>2. at' \in [Msg -> SUBSET Place]
        BY <1>1, <3>1 DEF Typed, TypeOK
      <3> QED BY <2>1, <3>2 DEF Typed, TypeOK, OnlyMoves, UnlinkCopied, history
    <2>3. Hands(d)'
      BY <1>1, <1>2, <2>1 DEF Typed, TypeOK, Hands, InFlight, UnlinkCopied, Goto
    <2> QED BY <2>1, <2>2, <2>3, HandsStep DEF Typed
  <1>3. CASE src \notin at[m]
    <2>1. [job[d] EXCEPT !.queue = @ \ {m}, !.cur = None, !.owner = None] \in Job
      BY <1>1 DEF Job
    <2>2. OnlyMoves(d)
      BY <1>3, <2>1, JobMoves DEF Typed, UnlinkCopied, Steps
    <2>3. TypeOK'
      BY <1>3, <2>2 DEF Typed, TypeOK, OnlyMoves, UnlinkCopied, history
    <2>4. pc'[d] = "scan"
      BY <1>3 DEF Typed, TypeOK, UnlinkCopied, Goto
    <2>5. Hands(d)'
      BY <2>4 DEF Hands, InFlight
    <2> QED BY <2>2, <2>3, <2>5, HandsStep DEF Typed
  <1> QED BY <1>2, <1>3

LEMMA IngestBundleTyped ==
  ASSUME Typed, NEW d \in Daemon, IngestBundle(d)
  PROVE  Typed'
  <1> DEFINE m == job[d].cur
             j == [job[d] EXCEPT !.queue = @ \ {m}, !.cur = None, !.owner = None,
                                 !.turns = @ \cup {job[d].owner}]
  <1>1. m \in Msg /\ job[d].owner \in Agent /\ job[d] \in Job
    BY JobOf DEF IngestBundle
  <1>2. j \in Job
    BY <1>1 DEF Job
  <1>3. OnlyMoves(d)
    BY <1>2, JobMoves DEF Typed, IngestBundle, Steps
  <1>4. bundleAt' \in [Msg -> SUBSET Place]
    BY <1>1 DEF Typed, TypeOK, IngestBundle, Pending, Place
  <1>5. TypeOK'
    BY <1>3, <1>4 DEF Typed, TypeOK, OnlyMoves, IngestBundle, history
  <1>6. pc'[d] = "scan"
    BY DEF Typed, TypeOK, IngestBundle, Goto
  <1>7. Hands(d)'
    BY <1>6 DEF Hands, InFlight
  <1> QED BY <1>3, <1>5, <1>7, HandsStep DEF Typed

LEMMA ClaimTyped ==
  ASSUME Typed, NEW d \in Daemon, Claim(d)
  PROVE  Typed'
  <1>1. PICK m \in job[d].queue :
          LET j == [job[d] EXCEPT !.queue = @ \ {m}]
          IN \/ /\ MoveFile(m, Pending(job[d].owner), Sending(job[d].owner))
                /\ SetJob(d, Fresh(j, m)) /\ Goto(d, "stage")
             \/ /\ SetJob(d, j) /\ UNCHANGED <<at, pc>>
    BY DEF Claim, Earliest
  <1> DEFINE j == [job[d] EXCEPT !.queue = @ \ {m}]
  <1>2. m \in Msg /\ job[d] \in Job /\ job[d].owner \in Agent
    BY JobOf DEF Job, Typed, HandsFull, Hands, Claim
  <1>3. j \in Job /\ j.owner \in Agent
    BY <1>2 DEF Job
  <1>4. Fresh(j, m) \in Job /\ Fresh(j, m).cur = m /\ Fresh(j, m).owner \in Agent
    BY <1>2, <1>3 DEF Job, Fresh, Locals, Verdicts
  <1> HIDE DEF j
  <1>5. CASE /\ MoveFile(m, Pending(job[d].owner), Sending(job[d].owner))
             /\ SetJob(d, Fresh(j, m)) /\ Goto(d, "stage")
    <2>1. OnlyMoves(d) /\ job'[d].cur \in Msg /\ job'[d].owner \in Agent
      BY <1>2, <1>4, <1>5, JobMoves DEF Typed, Steps
    <2>2. at' \in [Msg -> SUBSET Place]
      BY <1>2, <1>5 DEF Typed, TypeOK, MoveFile, Pending, Sending, Place
    <2>3. TypeOK'
      BY <2>1, <2>2 DEF Typed, TypeOK, OnlyMoves, Claim, history
    <2>4. Hands(d)'
      BY <1>5, <2>1 DEF Typed, TypeOK, Hands, InFlight, Goto
    <2> QED BY <2>1, <2>3, <2>4, HandsStep DEF Typed
  <1>6. CASE SetJob(d, j) /\ UNCHANGED <<at, pc>>
    <2>1. OnlyMoves(d) /\ job'[d].owner \in Agent
      BY <1>3, <1>6, JobMoves DEF Typed
    <2>2. TypeOK'
      BY <1>6, <2>1 DEF Typed, TypeOK, OnlyMoves, Claim, history
    <2>3. Hands(d)'
      BY <1>6, <2>1 DEF Typed, TypeOK, Hands, InFlight, Claim
    <2> QED BY <2>1, <2>2, <2>3, HandsStep DEF Typed
  <1> QED BY <1>1, <1>5, <1>6 DEF j

\* The steps between claim and settle keep the message and its owner.
LEMMA InFlightTyped ==
  ASSUME Typed, NEW d \in Daemon, pc[d] \in InFlight, NEW j \in Job, SetJob(d, j),
         j.owner = job[d].owner, j.cur = job[d].cur,
         NEW l \in InFlight, pc' = [pc EXCEPT ![d] = l] \/ pc' = pc
  PROVE  OnlyMoves(d) /\ HandsFull'
  <1>1. OnlyMoves(d) /\ job'[d] = j
    BY JobMoves DEF Typed, InFlight, Steps, Goto
  <1>2. Hands(d)'
    BY <1>1, JobOf DEF Typed, TypeOK, Hands, InFlight
  <1> QED BY <1>1, <1>2, HandsStep DEF Typed

LEMMA RefusedTyped ==
  ASSUME Typed, NEW d \in Daemon, Unroutable(d) \/ NotLocal(d)
  PROVE  Typed'
  <1>1. job[d] \in Job /\ pc[d] \in InFlight
    BY JobOf DEF Unroutable, NotLocal, InFlight
  <1>2. PICK j \in Job : SetJob(d, j) /\ j.owner = job[d].owner /\ j.cur = job[d].cur
    <2>1. /\ [job[d] EXCEPT !.verdict = "DROPPED"] \in Job
          /\ [job[d] EXCEPT !.local = "unknown"] \in Job
      BY <1>1 DEF Job, Locals, Verdicts
    <2> QED BY <1>1, <2>1 DEF Unroutable, NotLocal, Job
  <1>3. OnlyMoves(d) /\ HandsFull'
    BY <1>1, <1>2, InFlightTyped DEF Unroutable, NotLocal, InFlight, Goto
  <1>4. TypeOK'
    BY <1>3 DEF Typed, TypeOK, OnlyMoves, Unroutable, NotLocal, mail, history
  <1> QED BY <1>3, <1>4 DEF Typed

LEMMA StageTyped ==
  ASSUME Typed, NEW d \in Daemon, Stage(d)
  PROVE  Typed'
  <1> DEFINE m == job[d].cur
             new == {r \in Recipients(d) : m \notin inbox[r]}
             whole == Envelope(d).files => Pending(job[d].owner) \in bundleAt[m]
  <1>1. job[d] \in Job /\ m \in Msg /\ pc[d] \in InFlight
    BY JobOf DEF Stage, InFlight
  <1>2. new \in SUBSET Agent /\ whole \in BOOLEAN
    BY <1>1 DEF Recipients, Job
  <1>3. PICK j \in Job : SetJob(d, j) /\ j.owner = job[d].owner /\ j.cur = m
    <2>1. /\ [job[d] EXCEPT !.local = "delivered"] \in Job
          /\ [job[d] EXCEPT !.local = "failed"] \in Job
      BY <1>1 DEF Job, Locals
    <2>2. [job[d] EXCEPT !.staged = new, !.whole = whole] \in Job
      BY <1>1, <1>2 DEF Job
    <2> QED BY <1>1, <2>1, <2>2 DEF Stage, Job
  <1>4. OnlyMoves(d) /\ HandsFull'
    BY <1>1, <1>3, InFlightTyped DEF Stage, InFlight, Goto
  <1>5. tmp' \in [Agent -> SUBSET Msg]
    BY <1>1 DEF Typed, TypeOK, Stage
  <1>6. TypeOK'
    BY <1>4, <1>5 DEF Typed, TypeOK, OnlyMoves, Stage, mail, history
  <1> QED BY <1>4, <1>6 DEF Typed

LEMMA CommitTyped ==
  ASSUME Typed, NEW d \in Daemon, Commit(d)
  PROVE  Typed'
  <1> DEFINE m == job[d].cur
  <1>1. job[d] \in Job /\ m \in Msg /\ pc[d] \in InFlight
    BY JobOf DEF Commit, InFlight
  <1>2. PICK r \in job[d].staged :
          LET j == [job[d] EXCEPT !.staged = @ \ {r}]
          IN /\ tmp' = [tmp EXCEPT ![r] = @ \ {m}]
             /\ \/ /\ inbox' = [inbox EXCEPT ![r] = @ \cup {m}]
                   /\ commits' = [commits EXCEPT ![m][r] = @ + 1]
                   /\ bare' = IF job[d].whole THEN bare ELSE bare \cup {<<m, r>>}
                   /\ SetJob(d, [j EXCEPT !.committed = @ \cup {r}])
                \/ /\ SetJob(d, [j EXCEPT !.missed = @ \cup {r}])
                   /\ UNCHANGED <<inbox, commits, bare>>
    BY DEF Commit
  <1>3. r \in Agent
    BY <1>1 DEF Job
  <1>4. PICK j \in Job : SetJob(d, j) /\ j.owner = job[d].owner /\ j.cur = m
    <2> DEFINE k == [job[d] EXCEPT !.staged = @ \ {r}]
    <2>1. k \in Job /\ k.owner = job[d].owner /\ k.cur = m
      BY <1>1 DEF Job
    <2>2. SetJob(d, [k EXCEPT !.committed = @ \cup {r}])
            \/ SetJob(d, [k EXCEPT !.missed = @ \cup {r}])
      BY <1>2
    <2> HIDE DEF k
    <2>3. \A f \in {"committed", "missed"} :
            /\ [k EXCEPT !.committed = @ \cup {r}] \in Job
            /\ [k EXCEPT !.missed = @ \cup {r}] \in Job
      BY <1>3, <2>1 DEF Job
    <2> QED BY <2>1, <2>2, <2>3 DEF Job
  <1>5. OnlyMoves(d) /\ HandsFull'
    BY <1>1, <1>4, InFlightTyped DEF Commit
  <1>6. /\ tmp' \in [Agent -> SUBSET Msg] /\ inbox' \in [Agent -> SUBSET Msg]
        /\ commits' \in [Msg -> [Agent -> Nat]] /\ bare' \subseteq Msg \X Agent
    <2>1. tmp' \in [Agent -> SUBSET Msg] /\ inbox' \in [Agent -> SUBSET Msg]
      BY <1>1, <1>2, <1>3 DEF Typed, TypeOK
    <2>2. bare' \subseteq Msg \X Agent
      BY <1>1, <1>2, <1>3 DEF Typed, TypeOK
    <2>3. CASE commits' = [commits EXCEPT ![m][r] = @ + 1]
      <3>1. commits[m] \in [Agent -> Nat]
        BY <1>1 DEF Typed, TypeOK
      <3>2. [commits[m] EXCEPT ![r] = @ + 1] \in [Agent -> Nat]
        BY <3>1, <1>3
      <3>3. commits' = [commits EXCEPT ![m] = [commits[m] EXCEPT ![r] = @ + 1]]
        BY <2>3
      <3> QED BY <2>1, <2>2, <3>2, <3>3, <1>1 DEF Typed, TypeOK
    <2>4. CASE commits' = commits
      BY <2>1, <2>2, <2>4 DEF Typed, TypeOK
    <2> QED BY <1>2, <2>3, <2>4
  <1>7. TypeOK'
    BY <1>5, <1>6 DEF Typed, TypeOK, OnlyMoves, Commit, mail
  <1> QED BY <1>5, <1>7 DEF Typed

LEMMA DeliveredTyped ==
  ASSUME Typed, NEW d \in Daemon, Delivered(d)
  PROVE  Typed'
  <1>1. job[d] \in Job /\ job[d].cur \in Msg /\ pc[d] \in InFlight
    BY JobOf DEF Delivered, InFlight
  <1>2. PICK l \in {"failed", "delivered"} : SetJob(d, [job[d] EXCEPT !.local = l])
    BY DEF Delivered
  <1>3. /\ [job[d] EXCEPT !.local = l] \in Job
        /\ [job[d] EXCEPT !.local = l].owner = job[d].owner
        /\ [job[d] EXCEPT !.local = l].cur = job[d].cur
    BY <1>1 DEF Job, Locals
  <1>4. OnlyMoves(d) /\ HandsFull'
    BY <1>1, <1>2, <1>3, InFlightTyped DEF Delivered, InFlight, Goto
  <1>5. TypeOK'
    BY <1>1, <1>4 DEF Typed, TypeOK, OnlyMoves, Delivered, mail, history
  <1> QED BY <1>4, <1>5 DEF Typed

LEMMA OfferTyped ==
  ASSUME Typed, NEW d \in Daemon, Offer(d)
  PROVE  Typed'
  <1>1. job[d] \in Job /\ job[d].cur \in Msg /\ pc[d] \in InFlight
    BY JobOf DEF Offer, InFlight
  <1>2. PICK j \in Job : SetJob(d, j) /\ j.owner = job[d].owner /\ j.cur = job[d].cur
    <2>1. /\ [job[d] EXCEPT !.refused = Remote] \in Job
          /\ [job[d] EXCEPT !.waiting = Remote] \in Job
      BY <1>1 DEF Job
    <2>2. SetJob(d, job[d]) \/ SetJob(d, [job[d] EXCEPT !.refused = Remote])
            \/ SetJob(d, [job[d] EXCEPT !.waiting = Remote])
      BY DEF Offer, SetJob, Typed, TypeOK
    <2> QED BY <1>1, <2>1, <2>2 DEF Job
  <1>3. OnlyMoves(d) /\ HandsFull'
    BY <1>1, <1>2, InFlightTyped DEF Offer, InFlight, Goto
  <1>4. TypeOK'
    BY <1>1, <1>3 DEF Typed, TypeOK, OnlyMoves, Offer, mail, history
  <1> QED BY <1>3, <1>4 DEF Typed

LEMMA PublishTyped ==
  ASSUME Typed, NEW d \in Daemon, Publish(d)
  PROVE  Typed'
  <1> DEFINE m == job[d].cur
  <1>1. job[d] \in Job /\ m \in Msg /\ pc[d] \in InFlight
    BY JobOf DEF Publish, InFlight
  <1>2. PICK r \in job[d].waiting :
          /\ sent' = [sent EXCEPT ![m][r] = @ + 1] \/ sent' = sent
          /\ LET k == [job[d] EXCEPT !.waiting = @ \ {r}]
             IN \/ SetJob(d, [k EXCEPT !.took = @ \cup {r}])
                \/ SetJob(d, [k EXCEPT !.refused = @ \cup {r}])
    BY DEF Publish
  <1>3. r \in Remote
    BY <1>1 DEF Job
  <1>4. PICK j \in Job : SetJob(d, j) /\ j.owner = job[d].owner /\ j.cur = m
    <2> DEFINE k == [job[d] EXCEPT !.waiting = @ \ {r}]
    <2>1. k \in Job /\ k.owner = job[d].owner /\ k.cur = m
      BY <1>1 DEF Job
    <2>2. SetJob(d, [k EXCEPT !.took = @ \cup {r}])
            \/ SetJob(d, [k EXCEPT !.refused = @ \cup {r}])
      BY <1>2
    <2> HIDE DEF k
    <2>3. /\ [k EXCEPT !.took = @ \cup {r}] \in Job
          /\ [k EXCEPT !.refused = @ \cup {r}] \in Job
      BY <1>3, <2>1 DEF Job
    <2> QED BY <2>1, <2>2, <2>3 DEF Job
  <1>5. OnlyMoves(d) /\ HandsFull'
    BY <1>1, <1>4, InFlightTyped DEF Publish
  <1>6. sent' \in [Msg -> [Remote -> Nat]]
    <2>1. sent \in [Msg -> [Remote -> Nat]]
      BY DEF Typed, TypeOK
    <2>2. [sent[m] EXCEPT ![r] = @ + 1] \in [Remote -> Nat]
      BY <1>1, <1>3, <2>1
    <2>3. sent' = [sent EXCEPT ![m] = [sent[m] EXCEPT ![r] = @ + 1]] \/ sent' = sent
      BY <1>2
    <2> QED BY <1>1, <2>1, <2>2, <2>3
  <1>7. TypeOK'
    BY <1>5, <1>6 DEF Typed, TypeOK, OnlyMoves, Publish, mail
  <1> QED BY <1>5, <1>7 DEF Typed

LEMMA OutcomeTyped ==
  ASSUME Typed, NEW d \in Daemon, Outcome(d)
  PROVE  Typed'
  <1>1. job[d] \in Job /\ job[d].cur \in Msg /\ pc[d] \in InFlight
    BY JobOf DEF Outcome, InFlight
  <1>2. PICK v \in Verdicts : SetJob(d, [job[d] EXCEPT !.verdict = v])
    <2>1. PICK v : /\ SetJob(d, [job[d] EXCEPT !.verdict = v])
                   /\ v \in {"DROPPED", "sent", "DISCARDED"}
      BY DEF Outcome
    <2> QED BY <2>1 DEF Verdicts
  <1>3. /\ [job[d] EXCEPT !.verdict = v] \in Job
        /\ [job[d] EXCEPT !.verdict = v].owner = job[d].owner
        /\ [job[d] EXCEPT !.verdict = v].cur = job[d].cur
    BY <1>1 DEF Job
  <1>4. OnlyMoves(d) /\ HandsFull'
    BY <1>1, <1>2, <1>3, InFlightTyped DEF Outcome, InFlight, Goto
  <1>5. TypeOK'
    BY <1>4 DEF Typed, TypeOK, OnlyMoves, Outcome, mail, history
  <1> QED BY <1>4, <1>5 DEF Typed

LEMMA SettleTyped ==
  ASSUME Typed, NEW d \in Daemon, Settle(d)
  PROVE  Typed'
  <1> DEFINE m == job[d].cur
             j == Fresh(job[d], None)
  <1>1. job[d] \in Job /\ m \in Msg /\ job[d].owner \in Agent
    BY JobOf DEF Settle, InFlight
  <1>2. j \in Job /\ j.owner \in Agent
    BY <1>1 DEF Job, Fresh, Locals, Verdicts
  <1>3. OnlyMoves(d) /\ job'[d].owner \in Agent /\ pc'[d] = "turn"
    BY <1>2, JobMoves DEF Typed, TypeOK, Settle, Steps, Goto
  <1> DEFINE end == IF job[d].verdict = "sent" THEN {} ELSE {Trash(job[d].owner)}
             bundle == Pending(job[d].owner)
  <1>4. /\ \/ at' = [at EXCEPT ![m] = (@ \ {Holds(d)}) \cup end]
           \/ at' = at
        /\ bundleAt' = [bundleAt EXCEPT ![m] =
                          IF bundle \in @ THEN (@ \ {bundle}) \cup end ELSE @]
    BY DEF Settle
  <1>5. end \in SUBSET Place
    BY <1>1 DEF Trash, Place
  <1> HIDE DEF end, bundle
  <1>6. at' \in [Msg -> SUBSET Place] /\ bundleAt' \in [Msg -> SUBSET Place]
    BY <1>1, <1>4, <1>5 DEF Typed, TypeOK
  <1>7. TypeOK'
    BY <1>3, <1>6 DEF Typed, TypeOK, OnlyMoves, Settle, history
  <1>8. Hands(d)'
    BY <1>3 DEF Hands, InFlight
  <1> QED BY <1>3, <1>7, <1>8, HandsStep DEF Typed

LEMMA OutsideTyped ==
  ASSUME Typed,
         \/ \E m \in Msg, h \in Headers : Tell(m, h)
         \/ \E a \in Agent, m \in Msg : Read(a, m)
         \/ UNCHANGED vars
  PROVE  Typed'
  <1>1. CASE \E m \in Msg, h \in Headers : Tell(m, h)
    <2>1. PICK m \in Msg, h \in Headers : Tell(m, h)
      BY <1>1
    <2>2. OutboxFor(h) \in Place
      BY RoutingAssumption DEF OutboxFor, Place
    <2>3. TypeOK'
      BY <2>1, <2>2 DEF Typed, TypeOK, Tell, history
    <2>4. HandsFull'
      BY <2>1 DEF Typed, HandsFull, Hands, Tell
    <2> QED BY <2>3, <2>4 DEF Typed
  <1>2. CASE \E a \in Agent, m \in Msg : Read(a, m)
    BY <1>2 DEF Typed, TypeOK, HandsFull, Hands, Read, mail, history
  <1>3. CASE UNCHANGED vars
    BY <1>3 DEF vars, Typed, TypeOK, HandsFull, Hands
  <1> QED BY <1>1, <1>2, <1>3

LEMMA NextTyped == Typed /\ [Next]_vars => Typed'
  BY ControlTyped, PassTyped, ScanOutboxTyped, StartTurnTyped, IngestFileTyped,
     UnlinkCopiedTyped, IngestBundleTyped, ClaimTyped, RefusedTyped, StageTyped,
     CommitTyped, DeliveredTyped, OfferTyped, PublishTyped, OutcomeTyped,
     SettleTyped, OutsideTyped
  DEF Next, Route

\* Every variable of the router keeps its type: for any agents, handlers,
\* remotes and outboxes, with any steps failing and any number of deaths.
THEOREM RouterTypes == Spec => []TypeOK
  <1>1. Typed => TypeOK
    BY DEF Typed
  <1> QED BY InitTyped, NextTyped, <1>1, PTL DEF Spec

-----------------------------------------------------------------------------
(* Nothing is sent twice.  OnceInv is inductive on top of the types.        *)

LEMMA InitOnce == Init => OnceInv
  BY DEF Init, OnceInv, OneFile, HoldersHold, Grips, ClaimIsExclusive, Holding,
         WaitingUntried, PathsUntried, Untried, NothingSentTwice, InFlight

\* Two daemons in flight hold different messages.
LEMMA OthersElsewhere ==
  ASSUME OnceInv, Typed, NEW d \in Daemon, NEW e \in Daemon \ {d},
         pc[d] \in InFlight, pc[e] \in InFlight
  PROVE  job[e].cur # job[d].cur
  <1>1. job[d].cur \in Msg
    BY JobOf
  <1> QED BY <1>1 DEF OnceInv, ClaimIsExclusive, Holding

\* A message in flight is in sending/ and nowhere else.
LEMMA HeldNotWaiting ==
  ASSUME OnceInv, Typed, NEW d \in Daemon, pc[d] \in InFlight
  PROVE  /\ ~Waiting(job[d].cur)
         /\ at[job[d].cur] = {<<"sending", job[d].owner>>}
  <1>1. job[d].cur \in Msg
    BY JobOf
  <1>2. <<"sending", job[d].owner>> \in at[job[d].cur]
    BY DEF OnceInv, HoldersHold, Grips, Holds, Sending
  <1>3. at[job[d].cur] = {<<"sending", job[d].owner>>} /\ header[job[d].cur] # None
    BY <1>1, <1>2 DEF OnceInv, OneFile
  <1>4. \A p \in at[job[d].cur] : p[1] = "sending"
    BY <1>3
  <1> QED BY <1>3, <1>4 DEF Waiting

\* A step of d that moves no envelope and tries no path.
LEMMA QuietStep ==
  ASSUME OnceInv, NEW d \in Daemon, OnlyMoves(d),
         UNCHANGED <<header, at, commits, sent>>,
         \/ pc'[d] \notin InFlight /\ pc'[d] # "copied"
         \/ /\ pc[d] \in InFlight /\ pc'[d] \in InFlight
            /\ job'[d].cur = job[d].cur /\ job'[d].owner = job[d].owner
            /\ Untried(d)'
  PROVE  OnceInv'
  <1>1. OneFile' /\ WaitingUntried' /\ NothingSentTwice'
    BY DEF OnceInv, OneFile, WaitingUntried, Waiting, NothingSentTwice
  <1>2. ASSUME NEW e \in Daemon PROVE Grips(e)'
    BY DEF OnceInv, HoldersHold, Grips, Holds, OnlyMoves, InFlight
  <1>3. ClaimIsExclusive'
    BY DEF OnceInv, ClaimIsExclusive, Holding, OnlyMoves
  <1>4. ASSUME NEW e \in Daemon PROVE Untried(e)'
    <2>1. CASE e = d
      BY <2>1 DEF Untried, InFlight
    <2>2. CASE e # d
      BY <2>2 DEF OnceInv, PathsUntried, Untried, OnlyMoves
    <2> QED BY <2>1, <2>2
  <1> QED BY <1>1, <1>2, <1>3, <1>4 DEF OnceInv, HoldersHold, PathsUntried

LEMMA RouteMoves ==
  ASSUME Typed, Typed', NEW d \in Daemon, Route(d) \/ Crash(d)
  PROVE  OnlyMoves(d)
  <1>1. pc' \in [Daemon -> Steps] /\ job' \in [Daemon -> Job]
    BY DEF Typed, TypeOK
  <1>2. (\E j : SetJob(d, j)) \/ job' = job
    BY DEF Route, Crash, StartPass, ScanOutbox, ScanDone, IngestFile, UnlinkCopied,
           IngestBundle, StartTurn, EndPass, Claim, Unroutable, NotLocal, Stage,
           Commit, Delivered, Offer, Publish, Published, Outcome, Settle
  <1>3. (\E l : Goto(d, l)) \/ pc' = pc
    BY DEF Route, Crash, StartPass, ScanOutbox, ScanDone, IngestFile, UnlinkCopied,
           IngestBundle, StartTurn, EndPass, Claim, Unroutable, NotLocal, Stage,
           Commit, Delivered, Offer, Publish, Published, Outcome, Settle
  <1> QED BY <1>1, <1>2, <1>3 DEF OnlyMoves, SetJob, Goto, Typed, TypeOK

\* Steps outside the claim-to-settle part of a pass that move no envelope.
LEMMA PassOnce ==
  ASSUME OnceInv, Typed, Typed', NEW d \in Daemon,
         \/ StartPass(d) \/ ScanOutbox(d) \/ ScanDone(d) \/ IngestBundle(d)
         \/ StartTurn(d) \/ EndPass(d) \/ Crash(d)
  PROVE  OnceInv'
  <1>1. OnlyMoves(d)
    BY RouteMoves DEF Route
  <1>2. pc'[d] \in {"idle", "scan", "turn"}
    BY DEF StartPass, ScanOutbox, ScanDone, IngestBundle, StartTurn, EndPass, Crash,
           Goto, Typed, TypeOK
  <1>3. UNCHANGED <<header, at, commits, sent>>
    BY DEF StartPass, ScanOutbox, ScanDone, IngestBundle, StartTurn, EndPass, Crash,
           mail, history
  <1> QED BY <1>1, <1>2, <1>3, QuietStep DEF InFlight

\* Steps from claim to settle that try no path.
LEMMA FlightOnce ==
  ASSUME OnceInv, Typed, Typed', NEW d \in Daemon,
         \/ Unroutable(d) \/ NotLocal(d) \/ Stage(d) \/ Delivered(d)
         \/ Offer(d) \/ Published(d) \/ Outcome(d)
  PROVE  OnceInv'
  <1> DEFINE m == job[d].cur
  <1>1. OnlyMoves(d)
    BY RouteMoves DEF Route
  <1>2. pc[d] \in InFlight /\ pc'[d] \in InFlight
    BY DEF Unroutable, NotLocal, Stage, Delivered, Offer, Published, Outcome,
           InFlight, Goto, Typed, TypeOK
  <1>3. job[d] \in Job /\ m \in Msg
    BY <1>2, JobOf
  <1>4. job'[d].cur = m /\ job'[d].owner = job[d].owner
    <2>1. \A j : SetJob(d, j) => job'[d] = j
      BY DEF SetJob, Typed, TypeOK
    <2>2. CASE Unroutable(d) \/ NotLocal(d) \/ Published(d)
      BY <1>3, <2>1, <2>2 DEF Unroutable, NotLocal, Published, Job
    <2>3. CASE Stage(d)
      BY <1>3, <2>1, <2>3 DEF Stage, Job
    <2>4. CASE Delivered(d)
      BY <1>3, <2>1, <2>4 DEF Delivered, Job
    <2>5. CASE Offer(d)
      BY <1>3, <2>1, <2>5 DEF Offer, Job
    <2>6. CASE Outcome(d)
      BY <1>3, <2>1, <2>6 DEF Outcome, Job
    <2> QED BY <2>2, <2>3, <2>4, <2>5, <2>6
  <1>5. UNCHANGED <<header, at, commits, sent>>
    BY DEF Unroutable, NotLocal, Stage, Delivered, Offer, Published, Outcome,
           mail, history
  <1>6. Untried(d)'
    <2>1. Untried(d)
      BY DEF OnceInv, PathsUntried
    <2>2. CASE Unroutable(d) \/ Outcome(d) \/ Published(d)
      <3>1. pc'[d] \in {"settle", "outcome"}
        BY <2>2 DEF Unroutable, Outcome, Published, Goto, Typed, TypeOK
      <3> QED BY <3>1 DEF Untried
    <2>3. CASE NotLocal(d) \/ Delivered(d)
      <3>1. pc[d] \in {"stage", "commit"} /\ pc'[d] = "remote"
        BY <2>3 DEF NotLocal, Delivered, Goto, Typed, TypeOK
      <3> QED BY <1>4, <1>5, <2>1, <3>1 DEF Untried
    <2>4. CASE Stage(d)
      <3>1. pc[d] = "stage" /\ pc'[d] \in {"commit", "remote"}
        BY <2>4 DEF Stage, Goto, Typed, TypeOK
      <3>2. job'[d].staged \subseteq Agent
        BY DEF Typed, TypeOK, Job
      <3> QED BY <1>4, <1>5, <2>1, <3>1, <3>2 DEF Untried
    <2>5. CASE Offer(d)
      <3>1. pc[d] = "remote" /\ pc'[d] \in {"outcome", "publish"}
        BY <2>5 DEF Offer, Goto, Typed, TypeOK
      <3>2. job'[d].waiting \subseteq Remote
        BY DEF Typed, TypeOK, Job
      <3> QED BY <1>4, <1>5, <2>1, <3>1, <3>2 DEF Untried
    <2> QED BY <2>2, <2>3, <2>4, <2>5
  <1> QED BY <1>1, <1>2, <1>4, <1>5, <1>6, QuietStep

LEMMA UnclaimedOnce ==
  ASSUME OnceInv, Typed, Typed', NEW d \in Daemon, UnlinkCopied(d)
  PROVE  FALSE
  BY DEF OnceInv, HoldersHold, Grips, UnlinkCopied

LEMMA CommitOnce ==
  ASSUME OnceInv, Typed, Typed', NEW d \in Daemon, Commit(d)
  PROVE  OnceInv'
  <1> DEFINE m == job[d].cur
  <1>1. OnlyMoves(d) /\ job[d] \in Job /\ m \in Msg /\ job[d].owner \in Agent
          /\ pc[d] = "commit" /\ pc'[d] = "commit"
    BY RouteMoves, JobOf DEF Route, Commit, InFlight
  <1>2. PICK r \in job[d].staged :
          \/ commits' = [commits EXCEPT ![m][r] = @ + 1]
             /\ SetJob(d, [[job[d] EXCEPT !.staged = @ \ {r}] EXCEPT !.committed = @ \cup {r}])
          \/ commits' = commits
             /\ SetJob(d, [[job[d] EXCEPT !.staged = @ \ {r}] EXCEPT !.missed = @ \cup {r}])
    BY DEF Commit
  <1>3. /\ job'[d].cur = m /\ job'[d].owner = job[d].owner
        /\ job'[d].staged = job[d].staged \ {r}
    <2> DEFINE k1 == [[job[d] EXCEPT !.staged = @ \ {r}] EXCEPT !.committed = @ \cup {r}]
               k2 == [[job[d] EXCEPT !.staged = @ \ {r}] EXCEPT !.missed = @ \cup {r}]
    <2>1. job'[d] = k1 \/ job'[d] = k2
      BY <1>2 DEF SetJob, Typed, TypeOK
    <2>2. /\ k1.cur = m /\ k1.owner = job[d].owner /\ k1.staged = job[d].staged \ {r}
          /\ k2.cur = m /\ k2.owner = job[d].owner /\ k2.staged = job[d].staged \ {r}
      BY <1>1 DEF Job
    <2> HIDE DEF k1, k2
    <2> QED BY <2>1, <2>2
  <1>4. r \in Agent /\ commits[m][r] = 0
    <2>1. r \in Agent
      BY <1>1 DEF Job
    <2>2. Untried(d)
      BY DEF OnceInv, PathsUntried
    <2> QED BY <1>1, <2>1, <2>2 DEF Untried
  <1>5. /\ \A n \in Msg \ {m} : commits'[n] = commits[n]
        /\ \A a \in Agent \ {r} : commits'[m][a] = commits[m][a]
        /\ commits'[m][r] <= 1
    BY <1>1, <1>2, <1>4 DEF Typed, TypeOK
  <1>6. UNCHANGED <<header, at, sent>>
    BY DEF Commit, mail
  <1>7. ~Waiting(m)
    BY <1>1, HeldNotWaiting DEF InFlight
  <1>8. OneFile' /\ NothingSentTwice' /\ WaitingUntried'
    <2>1. OneFile' /\ \A n \in Msg : Waiting(n)' <=> Waiting(n)
      BY <1>6 DEF OnceInv, OneFile, Waiting
    <2>2. NothingSentTwice'
      BY <1>4, <1>5, <1>6 DEF OnceInv, NothingSentTwice
    <2>3. WaitingUntried'
      BY <1>5, <1>6, <1>7, <2>1 DEF OnceInv, WaitingUntried
    <2> QED BY <2>1, <2>2, <2>3
  <1>9. HoldersHold' /\ ClaimIsExclusive'
    BY <1>1, <1>3, <1>6
    DEF OnceInv, HoldersHold, Grips, Holds, ClaimIsExclusive, Holding, OnlyMoves
  <1>10. ASSUME NEW e \in Daemon PROVE Untried(e)'
    <2>1. CASE e = d
      BY <1>1, <1>3, <1>5, <1>6, <2>1 DEF OnceInv, PathsUntried, Untried, Job
    <2>2. CASE e # d
      <3>1. pc'[e] = pc[e] /\ job'[e] = job[e] /\ Untried(e)
        BY <1>1, <2>2 DEF OnlyMoves, OnceInv, PathsUntried
      <3>2. CASE pc[e] \in InFlight
        <4>1. job[e].cur # m /\ job[e].cur \in Msg
          BY <1>1, <2>2, <3>2, OthersElsewhere, JobOf DEF InFlight
        <4> QED BY <1>5, <1>6, <3>1, <4>1 DEF Untried
      <3>3. CASE pc[e] \notin InFlight
        BY <3>1, <3>3 DEF Untried, InFlight
      <3> QED BY <3>2, <3>3
    <2> QED BY <2>1, <2>2
  <1> QED BY <1>8, <1>9, <1>10 DEF OnceInv, PathsUntried

LEMMA PublishOnce ==
  ASSUME OnceInv, Typed, Typed', NEW d \in Daemon, Publish(d)
  PROVE  OnceInv'
  <1> DEFINE m == job[d].cur
  <1>1. OnlyMoves(d) /\ job[d] \in Job /\ m \in Msg /\ job[d].owner \in Agent
          /\ pc[d] = "publish" /\ pc'[d] = "publish"
    BY RouteMoves, JobOf DEF Route, Publish, InFlight
  <1>2. PICK r \in job[d].waiting :
          /\ sent' = [sent EXCEPT ![m][r] = @ + 1] \/ sent' = sent
          /\ \/ SetJob(d, [[job[d] EXCEPT !.waiting = @ \ {r}] EXCEPT !.took = @ \cup {r}])
             \/ SetJob(d, [[job[d] EXCEPT !.waiting = @ \ {r}] EXCEPT !.refused = @ \cup {r}])
    BY DEF Publish
  <1>3. /\ job'[d].cur = m /\ job'[d].owner = job[d].owner
        /\ job'[d].waiting = job[d].waiting \ {r}
    <2> DEFINE k1 == [[job[d] EXCEPT !.waiting = @ \ {r}] EXCEPT !.took = @ \cup {r}]
               k2 == [[job[d] EXCEPT !.waiting = @ \ {r}] EXCEPT !.refused = @ \cup {r}]
    <2>1. job'[d] = k1 \/ job'[d] = k2
      BY <1>2 DEF SetJob, Typed, TypeOK
    <2>2. /\ k1.cur = m /\ k1.owner = job[d].owner /\ k1.waiting = job[d].waiting \ {r}
          /\ k2.cur = m /\ k2.owner = job[d].owner /\ k2.waiting = job[d].waiting \ {r}
      BY <1>1 DEF Job
    <2> HIDE DEF k1, k2
    <2> QED BY <2>1, <2>2
  <1>4. r \in Remote /\ sent[m][r] = 0
    <2>1. r \in Remote
      BY <1>1 DEF Job
    <2>2. Untried(d)
      BY DEF OnceInv, PathsUntried
    <2> QED BY <1>1, <2>1, <2>2 DEF Untried
  <1>5. /\ \A n \in Msg \ {m} : sent'[n] = sent[n]
        /\ \A a \in Remote \ {r} : sent'[m][a] = sent[m][a]
        /\ sent'[m][r] <= 1
    BY <1>1, <1>2, <1>4 DEF Typed, TypeOK
  <1>6. UNCHANGED <<header, at, commits>>
    BY DEF Publish, mail
  <1>7. ~Waiting(m)
    BY <1>1, HeldNotWaiting DEF InFlight
  <1>8. OneFile' /\ NothingSentTwice' /\ WaitingUntried'
    <2>1. OneFile' /\ \A n \in Msg : Waiting(n)' <=> Waiting(n)
      BY <1>6 DEF OnceInv, OneFile, Waiting
    <2>2. NothingSentTwice'
      BY <1>4, <1>5, <1>6 DEF OnceInv, NothingSentTwice
    <2>3. WaitingUntried'
      BY <1>5, <1>6, <1>7, <2>1 DEF OnceInv, WaitingUntried
    <2> QED BY <2>1, <2>2, <2>3
  <1>9. HoldersHold' /\ ClaimIsExclusive'
    BY <1>1, <1>3, <1>6
    DEF OnceInv, HoldersHold, Grips, Holds, ClaimIsExclusive, Holding, OnlyMoves
  <1>10. ASSUME NEW e \in Daemon PROVE Untried(e)'
    <2>1. CASE e = d
      BY <1>1, <1>3, <1>5, <1>6, <2>1 DEF OnceInv, PathsUntried, Untried, Job
    <2>2. CASE e # d
      <3>1. pc'[e] = pc[e] /\ job'[e] = job[e] /\ Untried(e)
        BY <1>1, <2>2 DEF OnlyMoves, OnceInv, PathsUntried
      <3>2. CASE pc[e] \in InFlight
        <4>1. job[e].cur # m /\ job[e].cur \in Msg
          BY <1>1, <2>2, <3>2, OthersElsewhere, JobOf DEF InFlight
        <4> QED BY <1>5, <1>6, <3>1, <4>1 DEF Untried
      <3>3. CASE pc[e] \notin InFlight
        BY <3>1, <3>3 DEF Untried, InFlight
      <3> QED BY <3>2, <3>3
    <2> QED BY <2>1, <2>2
  <1> QED BY <1>8, <1>9, <1>10 DEF OnceInv, PathsUntried

\* A step that moves the file of a message no daemon has in flight: the other
\* messages, and every daemon but d, are as before.
LEMMA MoveStep ==
  ASSUME OnceInv, Typed, NEW m \in Msg, NEW E \in SUBSET Daemon,
         UNCHANGED <<commits, sent>>,
         \A n \in Msg \ {m} : at'[n] = at[n] /\ header'[n] = header[n],
         \A p, q \in at'[m] : p = q,
         header'[m] # None,
         Waiting(m)' => Waiting(m),
         \A e \in E : /\ pc'[e] = pc[e] /\ job'[e] = job[e]
                      /\ pc[e] \in InFlight => job[e].cur # m
  PROVE  /\ OneFile' /\ WaitingUntried' /\ NothingSentTwice'
         /\ \A e \in E : Grips(e)' /\ Untried(e)'
         /\ \A n \in Msg : \A e, f \in E : Holding(e, n)' /\ Holding(f, n)' => e = f
  <1>1. OneFile'
    BY DEF OnceInv, OneFile
  <1>2. WaitingUntried' /\ NothingSentTwice'
    <2>1. \A n \in Msg : Waiting(n)' => Waiting(n)
      BY DEF Waiting
    <2> QED BY <2>1 DEF OnceInv, WaitingUntried, NothingSentTwice
  <1>3. ASSUME NEW e \in E PROVE Grips(e)' /\ Untried(e)'
    <2>1. Grips(e) /\ Untried(e)
      BY DEF OnceInv, HoldersHold, PathsUntried
    <2>2. pc[e] \in InFlight => job[e].cur \in Msg
      BY JobOf
    <2>3. Grips(e)'
      BY <2>1, <2>2 DEF Grips, Holds
    <2>4. Untried(e)'
      BY <2>1 DEF Untried
    <2> QED BY <2>3, <2>4
  <1>4. \A n \in Msg : \A e, f \in E : Holding(e, n)' /\ Holding(f, n)' => e = f
    BY DEF OnceInv, ClaimIsExclusive, Holding
  <1> QED BY <1>1, <1>2, <1>3, <1>4

LEMMA TellOnce ==
  ASSUME OnceInv, Typed, NEW m \in Msg, NEW h \in Headers, Tell(m, h)
  PROVE  OnceInv'
  <1>1. UNCHANGED <<commits, sent, pc, job>>
    BY DEF Tell, history
  <1>2. /\ \A n \in Msg \ {m} : at'[n] = at[n] /\ header'[n] = header[n]
        /\ \A p, q \in at'[m] : p = q
        /\ header'[m] # None
    BY RoutingAssumption DEF Tell, Typed, TypeOK
  <1>3. Waiting(m)
    BY DEF Tell, Waiting
  <1>4. \A e \in Daemon : pc[e] \in InFlight => job[e].cur # m
    BY <1>3, HeldNotWaiting
  <1>5. /\ OneFile' /\ WaitingUntried' /\ NothingSentTwice'
        /\ \A e \in Daemon : Grips(e)' /\ Untried(e)'
        /\ \A n \in Msg : \A e, f \in Daemon : Holding(e, n)' /\ Holding(f, n)' => e = f
    BY <1>1, <1>2, <1>3, <1>4, MoveStep
  <1> QED BY <1>5 DEF OnceInv, HoldersHold, PathsUntried, ClaimIsExclusive

\* After a step of d, what MoveStep says of the others and what is known of d.
LEMMA JoinDaemon ==
  ASSUME NEW d \in Daemon,
         OneFile' /\ WaitingUntried' /\ NothingSentTwice',
         \A e \in Daemon \ {d} : Grips(e)' /\ Untried(e)',
         \A n \in Msg : \A e, f \in Daemon \ {d} :
            Holding(e, n)' /\ Holding(f, n)' => e = f,
         Grips(d)' /\ Untried(d)',
         \A e \in Daemon \ {d}, n \in Msg : ~(Holding(e, n)' /\ Holding(d, n)')
  PROVE  OnceInv'
  BY DEF OnceInv, HoldersHold, PathsUntried, ClaimIsExclusive

LEMMA IngestFileOnce ==
  ASSUME OnceInv, Typed, Typed', NEW d \in Daemon, IngestFile(d), CrossDevice = {}
  PROVE  OnceInv'
  <1>1. OnlyMoves(d) /\ UNCHANGED <<header, commits, sent>>
    BY RouteMoves DEF Route, IngestFile, history
  <1>2. PICK m \in job[d].queue :
          \/ UNCHANGED <<at, pc>>
          \/ LET src == <<"outbox", OutboxOf[header[m].sender]>>
             IN /\ src \in at[m]
                /\ \E a : at' = [at EXCEPT ![m] = (@ \ {src}) \cup {<<"pending", a>>}]
                /\ pc' = [pc EXCEPT ![d] = "bundle"]
    BY DEF IngestFile, Earliest, MoveFile, Pending, Goto
  <1>3. m \in Msg
    BY JobOf DEF Job
  <1>4. CASE UNCHANGED <<at, pc>>
    BY <1>1, <1>4, QuietStep DEF IngestFile, InFlight, Typed, TypeOK
  <1>5. ASSUME NEW src, src = <<"outbox", OutboxOf[header[m].sender]>>, src \in at[m],
               NEW a, at' = [at EXCEPT ![m] = (@ \ {src}) \cup {<<"pending", a>>}],
               pc' = [pc EXCEPT ![d] = "bundle"]
        PROVE  OnceInv'
    <2>1. at[m] = {src} /\ header[m] # None
      BY <1>3, <1>5 DEF OnceInv, OneFile
    <2>2. at'[m] = {<<"pending", a>>} /\ \A n \in Msg \ {m} : at'[n] = at[n]
      BY <1>3, <1>5, <2>1 DEF Typed, TypeOK
    <2>3. Waiting(m)
      BY <1>5, <2>1 DEF Waiting
    <2>4. \A e \in Daemon : pc[e] \in InFlight => job[e].cur # m
      BY <2>3, HeldNotWaiting
    <2>5. pc'[d] = "bundle"
      BY <1>5 DEF Typed, TypeOK
    <2>6. \A e \in Daemon \ {d} : pc'[e] = pc[e] /\ job'[e] = job[e]
      BY <1>1 DEF OnlyMoves
    <2>7. /\ OneFile' /\ WaitingUntried' /\ NothingSentTwice'
          /\ \A e \in Daemon \ {d} : Grips(e)' /\ Untried(e)'
          /\ \A n \in Msg : \A e, f \in Daemon \ {d} :
               Holding(e, n)' /\ Holding(f, n)' => e = f
      BY <1>1, <1>3, <2>1, <2>2, <2>3, <2>4, <2>6, MoveStep
    <2>8. Grips(d)' /\ Untried(d)' /\ \A n \in Msg : ~Holding(d, n)'
      BY <2>5 DEF Grips, Untried, Holding, InFlight
    <2> QED BY <2>7, <2>8, JoinDaemon
  <1> QED BY <1>2, <1>4, <1>5

LEMMA ClaimOnce ==
  ASSUME OnceInv, Typed, Typed', NEW d \in Daemon, Claim(d)
  PROVE  OnceInv'
  <1>1. OnlyMoves(d) /\ UNCHANGED <<header, commits, sent>>
    BY RouteMoves DEF Route, Claim, history
  <1>2. PICK m \in job[d].queue :
          LET j == [job[d] EXCEPT !.queue = @ \ {m}]
          IN \/ /\ <<"pending", job[d].owner>> \in at[m]
                /\ at' = [at EXCEPT ![m] = (@ \ {<<"pending", job[d].owner>>})
                                             \cup {<<"sending", job[d].owner>>}]
                /\ SetJob(d, Fresh(j, m)) /\ pc' = [pc EXCEPT ![d] = "stage"]
             \/ UNCHANGED <<at, pc>>
    BY DEF Claim, Earliest, MoveFile, Pending, Sending, Goto
  <1>3. m \in Msg /\ job[d] \in Job
    BY JobOf DEF Job
  <1> DEFINE j == [job[d] EXCEPT !.queue = @ \ {m}]
             src == <<"pending", job[d].owner>>
             dst == <<"sending", job[d].owner>>
  <1>4. CASE UNCHANGED <<at, pc>>
    BY <1>1, <1>4, QuietStep DEF Claim, InFlight, Typed, TypeOK
  <1>5. CASE /\ src \in at[m] /\ at' = [at EXCEPT ![m] = (@ \ {src}) \cup {dst}]
             /\ SetJob(d, Fresh(j, m)) /\ pc' = [pc EXCEPT ![d] = "stage"]
    <2>1. at[m] = {src} /\ header[m] # None
      BY <1>3, <1>5 DEF OnceInv, OneFile
    <2>2. at'[m] = {dst} /\ \A n \in Msg \ {m} : at'[n] = at[n]
      BY <1>3, <1>5, <2>1 DEF Typed, TypeOK
    <2>3. Waiting(m)
      BY <1>5, <2>1 DEF Waiting
    <2>4. \A e \in Daemon : pc[e] \in InFlight => job[e].cur # m
      BY <2>3, HeldNotWaiting
    <2>5. pc'[d] = "stage" /\ job'[d] = Fresh(j, m)
      BY <1>5 DEF Typed, TypeOK, SetJob
    <2>6. job'[d].cur = m /\ job'[d].owner = job[d].owner
      <3>1. j.owner = job[d].owner /\ j \in Job
        BY <1>3 DEF Job
      <3> QED BY <2>5, <3>1 DEF Fresh, Job
    <2>7. \A e \in Daemon \ {d} : pc'[e] = pc[e] /\ job'[e] = job[e]
      BY <1>1 DEF OnlyMoves
    <2>8. /\ OneFile' /\ WaitingUntried' /\ NothingSentTwice'
          /\ \A e \in Daemon \ {d} : Grips(e)' /\ Untried(e)'
          /\ \A n \in Msg : \A e, f \in Daemon \ {d} :
               Holding(e, n)' /\ Holding(f, n)' => e = f
      BY <1>1, <1>3, <2>1, <2>2, <2>3, <2>4, <2>7, MoveStep
    <2>9. Grips(d)' /\ Untried(d)'
      BY <1>1, <1>3, <2>2, <2>3, <2>5, <2>6
      DEF Grips, Holds, Sending, Untried, OnceInv, WaitingUntried
    <2>10. \A e \in Daemon \ {d}, n \in Msg : ~(Holding(e, n)' /\ Holding(d, n)')
      BY <2>4, <2>6, <2>7 DEF Holding
    <2> QED BY <2>8, <2>9, <2>10, JoinDaemon
  <1> QED BY <1>2, <1>4, <1>5

LEMMA SettleOnce ==
  ASSUME OnceInv, Typed, Typed', NEW d \in Daemon, Settle(d)
  PROVE  OnceInv'
  <1>0. PICK m \in Msg : m = job[d].cur
    BY JobOf DEF Settle, InFlight
  <1> DEFINE src == <<"sending", job[d].owner>>
             dst == <<"trash", job[d].owner>>
  <1>1. OnlyMoves(d) /\ UNCHANGED <<header, commits, sent>>
    BY RouteMoves DEF Route, Settle, history
  <1>2. pc[d] \in InFlight /\ pc'[d] = "turn"
    BY DEF Settle, InFlight, Goto, Typed, TypeOK
  <1>3. PICK end \in SUBSET {dst} :
          at' = [at EXCEPT ![m] = (@ \ {src}) \cup end] \/ at' = at
    <2>1. CASE job[d].verdict = "sent"
      BY <1>0, <2>1 DEF Settle, Holds, Sending, Trash
    <2>2. CASE job[d].verdict # "sent"
      BY <1>0, <2>2 DEF Settle, Holds, Sending, Trash
    <2> QED BY <2>1, <2>2
  <1>4. CASE at' = at
    BY <1>1, <1>2, <1>4, QuietStep DEF InFlight
  <1>5. CASE at' = [at EXCEPT ![m] = (@ \ {src}) \cup end]
    <2>1. at[m] = {src} /\ header[m] # None
      BY <1>0, <1>2, HeldNotWaiting DEF Waiting
    <2>2. at'[m] = end /\ \A n \in Msg \ {m} : at'[n] = at[n]
      BY <1>5, <2>1 DEF Typed, TypeOK
    <2>3. ~Waiting(m)'
      <3>1. \A p \in at'[m] : p[1] = "trash"
        BY <2>2
      <3> QED BY <1>1, <2>1, <3>1 DEF Waiting
    <2>4. \A e \in Daemon \ {d} : pc[e] \in InFlight => job[e].cur # m
      BY <1>0, <1>2, OthersElsewhere
    <2>5. \A e \in Daemon \ {d} : pc'[e] = pc[e] /\ job'[e] = job[e]
      BY <1>1 DEF OnlyMoves
    <2>6. /\ OneFile' /\ WaitingUntried' /\ NothingSentTwice'
          /\ \A e \in Daemon \ {d} : Grips(e)' /\ Untried(e)'
          /\ \A n \in Msg : \A e, f \in Daemon \ {d} :
               Holding(e, n)' /\ Holding(f, n)' => e = f
      <3>1. (\A p, q \in at'[m] : p = q) /\ header'[m] # None
        BY <1>1, <2>1, <2>2
      <3> QED BY <1>1, <2>2, <2>3, <2>4, <2>5, <3>1, MoveStep
    <2>7. Grips(d)' /\ Untried(d)' /\ \A n \in Msg : ~Holding(d, n)'
      BY <1>2 DEF Grips, Untried, Holding, InFlight
    <2> QED BY <2>6, <2>7, JoinDaemon
  <1> QED BY <1>3, <1>4, <1>5

LEMMA NextOnce ==
  ASSUME CrossDevice = {}
  PROVE  Typed /\ OnceInv /\ [Next]_vars => OnceInv'
  <1> SUFFICES ASSUME Typed, OnceInv, [Next]_vars PROVE OnceInv'
    OBVIOUS
  <1>1. Typed'
    BY NextTyped
  <1>2. CASE \E m \in Msg, h \in Headers : Tell(m, h)
    BY <1>2, TellOnce
  <1>3. CASE (\E a \in Agent, m \in Msg : Read(a, m)) \/ UNCHANGED vars
    <2>1. UNCHANGED <<header, at, commits, sent, pc, job>>
      BY <1>3 DEF Read, vars, mail, history
    <2> QED
      BY <2>1 DEF OnceInv, OneFile, HoldersHold, Grips, Holds, ClaimIsExclusive, Holding,
                  WaitingUntried, Waiting, PathsUntried, Untried, NothingSentTwice
  <1>4. CASE \E d \in Daemon : Route(d) \/ Crash(d)
    BY <1>1, <1>4, PassOnce, FlightOnce, UnclaimedOnce, CommitOnce, PublishOnce,
       IngestFileOnce, ClaimOnce, SettleOnce
    DEF Route
  <1> QED BY <1>2, <1>3, <1>4 DEF Next

\* However many handlers route, whatever step fails and whenever a handler
\* dies, no inbox and no remote takes a message twice, as long as the outboxes
\* are on the filesystem of the state root (the rename that moves a file is one
\* step). Across filesystems, with two handlers on one outbox, TLC
\* finds a message taken twice.
THEOREM SentOnce ==
  ASSUME CrossDevice = {}
  PROVE  Spec => []NothingSentTwice
  <1>1. Init => Typed /\ OnceInv
    BY InitTyped, InitOnce
  <1>2. Typed /\ OnceInv /\ [Next]_vars => Typed' /\ OnceInv'
    BY NextTyped, NextOnce
  <1>3. OnceInv => NothingSentTwice
    BY DEF OnceInv
  <1> QED BY <1>1, <1>2, <1>3, PTL DEF Spec

\* Under the same assumption a message is worked on by one handler at a time:
\* the rename into sending/ hands it to exactly one of them.
THEOREM OneHolder ==
  ASSUME CrossDevice = {}
  PROVE  Spec => []ClaimIsExclusive
  <1>1. Init => Typed /\ OnceInv
    BY InitTyped, InitOnce
  <1>2. Typed /\ OnceInv /\ [Next]_vars => Typed' /\ OnceInv'
    BY NextTyped, NextOnce
  <1>3. OnceInv => ClaimIsExclusive
    BY DEF OnceInv
  <1> QED BY <1>1, <1>2, <1>3, PTL DEF Spec
=============================================================================
