-------------------------- MODULE MailPromiseProofs --------------------------
(***************************************************************************)
(* Proofs about what the router promises of one message: it implements     *)
(* OneTry, no path is lost without a row, only a death strands a message,  *)
(* and an attachment travels with its envelope.                            *)
(***************************************************************************)
EXTENDS MailRoutingProofs, FiniteSetTheorems

\* What every proof here steps from: the types, and one file and one try.
Sound == Typed /\ OnceInv

LEMMA InitSound == Init => Sound
  BY InitTyped, InitOnce DEF Sound

LEMMA NextSound ==
  ASSUME CrossDevice = {}
  PROVE  Sound /\ [Next]_vars => Sound'
  BY NextTyped, NextOnce DEF Sound

\* A daemon moves and tries only the message it has in flight; a file it moves
\* besides is one that still waits in an outbox or in pending/.
LEMMA OnlyItsMessage ==
  ASSUME Sound, Sound', NEW d \in Daemon, Route(d) \/ Crash(d),
         NEW n \in Msg, ~Holding(d, n)
  PROVE  /\ commits'[n] = commits[n] /\ sent'[n] = sent[n]
         /\ at'[n] = at[n] \/ Waiting(n)
  <1>0. at \in [Msg -> SUBSET Place]
    BY DEF Sound, Typed, TypeOK
  <1>1. CASE \/ StartPass(d) \/ ScanOutbox(d) \/ ScanDone(d) \/ IngestBundle(d)
             \/ StartTurn(d) \/ EndPass(d) \/ Crash(d) \/ Unroutable(d)
             \/ NotLocal(d) \/ Stage(d) \/ Delivered(d) \/ Offer(d)
             \/ Published(d) \/ Outcome(d)
    BY <1>1 DEF StartPass, ScanOutbox, ScanDone, IngestBundle, StartTurn, EndPass,
                Crash, Unroutable, NotLocal, Stage, Delivered, Offer, Published,
                Outcome, mail, history
  <1>2. CASE UnlinkCopied(d)
    BY <1>2, UnclaimedOnce DEF Sound
  <1>3. CASE Commit(d)
    <2>1. job[d].cur \in Msg /\ job[d].cur # n
      BY <1>3, JobOf DEF Sound, Commit, InFlight, Holding
    <2>2. commits' = commits
          \/ \E r : commits' = [commits EXCEPT ![job[d].cur][r] = @ + 1]
      BY <1>3 DEF Commit
    <2> QED BY <1>3, <2>1, <2>2 DEF Commit, mail, Sound, Typed, TypeOK
  <1>4. CASE Publish(d)
    <2>1. job[d].cur \in Msg /\ job[d].cur # n
      BY <1>4, JobOf DEF Sound, Publish, InFlight, Holding
    <2>2. sent' = sent \/ \E r : sent' = [sent EXCEPT ![job[d].cur][r] = @ + 1]
      BY <1>4 DEF Publish
    <2> QED BY <1>4, <2>1, <2>2 DEF Publish, mail, Sound, Typed, TypeOK
  <1>5. CASE Settle(d)
    <2>1. job[d].cur \in Msg /\ job[d].cur # n
      BY <1>5, JobOf DEF Sound, Settle, InFlight, Holding
    <2>2. at' = at \/ \E S : at' = [at EXCEPT ![job[d].cur] = S]
      BY <1>5 DEF Settle
    <2> QED BY <1>0, <1>5, <2>1, <2>2 DEF Settle, history
  <1>6. CASE IngestFile(d)
    <2>1. PICK m \in job[d].queue :
            \/ at' = at
            \/ /\ <<"outbox", OutboxOf[header[m].sender]>> \in at[m]
               /\ \E S : at' = [at EXCEPT ![m] = S]
      BY <1>6 DEF IngestFile, Earliest, MoveFile
    <2>2. m \in Msg
      BY JobOf DEF Sound, Job
    <2>3. m # n => at'[n] = at[n]
      BY <1>0, <2>1, <2>2
    <2>4. CASE m = n
      <3>1. ASSUME <<"outbox", OutboxOf[header[m].sender]>> \in at[m] PROVE Waiting(m)
        <4> DEFINE p == <<"outbox", OutboxOf[header[m].sender]>>
        <4>1. p \in at[m] /\ p[1] = "outbox"
          BY <3>1
        <4> QED BY <4>1 DEF Waiting
      <3> QED BY <1>6, <2>1, <2>4, <3>1 DEF IngestFile, history
    <2> QED BY <1>6, <2>3, <2>4 DEF IngestFile, history
  <1>7. CASE Claim(d)
    <2>1. PICK m \in job[d].queue :
            \/ at' = at
            \/ /\ <<"pending", job[d].owner>> \in at[m]
               /\ \E S : at' = [at EXCEPT ![m] = S]
      BY <1>7 DEF Claim, Earliest, MoveFile, Pending
    <2>2. m \in Msg
      BY JobOf DEF Sound, Job
    <2>3. m # n => at'[n] = at[n]
      BY <1>0, <2>1, <2>2
    <2>4. CASE m = n
      <3>1. ASSUME <<"pending", job[d].owner>> \in at[m] PROVE Waiting(m)
        <4> DEFINE p == <<"pending", job[d].owner>>
        <4>1. p \in at[m] /\ p[1] = "pending"
          BY <3>1
        <4> QED BY <4>1 DEF Waiting
      <3> QED BY <1>7, <2>1, <2>4, <3>1 DEF Claim, history
    <2> QED BY <1>7, <2>3, <2>4 DEF Claim, history
  <1> QED BY <1>1, <1>2, <1>3, <1>4, <1>5, <1>6, <1>7 DEF Route

\* A message another daemon has in flight stays as it is.
LEMMA OthersKept ==
  ASSUME Sound, Sound', NEW d \in Daemon, Route(d) \/ Crash(d),
         NEW e \in Daemon \ {d}
  PROVE  /\ pc'[e] = pc[e] /\ job'[e] = job[e]
         /\ pc[e] \in InFlight =>
              /\ job[e].cur \in Msg
              /\ commits'[job[e].cur] = commits[job[e].cur]
              /\ sent'[job[e].cur] = sent[job[e].cur]
              /\ at'[job[e].cur] = at[job[e].cur]
  <1>1. pc'[e] = pc[e] /\ job'[e] = job[e]
    BY RouteMoves DEF OnlyMoves, Sound
  <1>2. ASSUME pc[e] \in InFlight
        PROVE  /\ job[e].cur \in Msg /\ ~Waiting(job[e].cur)
               /\ ~Holding(d, job[e].cur)
    BY <1>2, JobOf, HeldNotWaiting, OthersElsewhere DEF Sound, Holding
  <1> QED BY <1>1, <1>2, OnlyItsMessage

-----------------------------------------------------------------------------
(* The router keeps the promise of OneTry. What a daemon knows of the tries *)
(* it made covers every try, so a message it drops was taken by no path.    *)

NoTake(m) ==
  /\ \A a \in Agent : commits[m][a] = 0
  /\ \A r \in Remote : sent[m][r] = 0

TriesKnown(d) ==
  LET m == job[d].cur IN
  /\ pc[d] = "commit" => \A a \in Agent : commits[m][a] # 0 => a \in job[d].committed
  /\ pc[d] \in {"remote", "publish", "outcome"} =>
       job[d].local = "delivered" \/ \A a \in Agent : commits[m][a] = 0
  /\ pc[d] \in {"publish", "outcome"} =>
       \A r \in Remote : sent[m][r] # 0 => r \in job[d].took
  /\ pc[d] = "settle" => job[d].verdict = "sent" \/ NoTake(m)

PromiseInv == \A d \in Daemon : TriesKnown(d)

LEMMA InitPromise == Init => PromiseInv
  BY DEF Init, PromiseInv, TriesKnown

\* What a step sets the local variables of its daemon to.
LEMMA JobAfter ==
  ASSUME Sound, NEW d \in Daemon
  PROVE  /\ \A j : SetJob(d, j) => job'[d] = j
         /\ \A l : Goto(d, l) => pc'[d] = l
  BY DEF SetJob, Goto, Sound, Typed, TypeOK

LEMMA PromiseSelf ==
  ASSUME Sound, Sound', PromiseInv, NEW d \in Daemon, Route(d) \/ Crash(d)
  PROVE  TriesKnown(d)'
  <1>0. job[d] \in Job /\ job'[d] \in Job /\ Untried(d) /\ TriesKnown(d)
        /\ (pc[d] \in InFlight => job[d].cur \in Msg)
    BY JobOf DEF Sound, Typed, TypeOK, OnceInv, PathsUntried, PromiseInv
  <1> DEFINE m == job[d].cur
  <1>1. CASE pc'[d] \notin InFlight
    BY <1>1 DEF TriesKnown, InFlight
  <1>2. CASE Claim(d)
    <2>1. CASE pc' = pc
      <3>1. pc'[d] = "turn"
        BY <1>2, <2>1 DEF Claim
      <3> QED BY <3>1 DEF TriesKnown
    <2>2. CASE pc' # pc
      <3>1. pc'[d] = "stage"
        BY <1>2, <2>2, JobAfter DEF Claim
      <3> QED BY <3>1 DEF TriesKnown
    <2> QED BY <2>1, <2>2
  <1>3. CASE Unroutable(d)
    <2>1. pc[d] = "stage" /\ pc'[d] = "settle" /\ job'[d].cur = m
          /\ UNCHANGED <<commits, sent>>
      BY <1>0, <1>3, JobAfter DEF Unroutable, Job, history
    <2> QED BY <1>0, <2>1 DEF TriesKnown, NoTake, Untried
  <1>4. CASE NotLocal(d)
    <2>1. pc[d] = "stage" /\ pc'[d] = "remote" /\ job'[d].cur = m
          /\ UNCHANGED <<commits, sent>>
      BY <1>0, <1>4, JobAfter DEF NotLocal, Job, history
    <2> QED BY <1>0, <2>1 DEF TriesKnown, Untried
  <1>5. CASE Stage(d)
    <2>1. pc[d] = "stage" /\ pc'[d] \in {"commit", "remote"} /\ job'[d].cur = m
          /\ UNCHANGED <<commits, sent>>
      BY <1>0, <1>5, JobAfter DEF Stage, Job, history
    <2> QED BY <1>0, <2>1 DEF TriesKnown, Untried
  <1>6. CASE Commit(d)
    <2>1. pc[d] = "commit" /\ pc'[d] = "commit"
      BY <1>6 DEF Commit
    <2>2. PICK r \in job[d].staged :
            \/ /\ commits' = [commits EXCEPT ![m][r] = @ + 1]
               /\ job'[d] = [[job[d] EXCEPT !.staged = @ \ {r}] EXCEPT !.committed = @ \cup {r}]
            \/ /\ commits' = commits
               /\ job'[d] = [[job[d] EXCEPT !.staged = @ \ {r}] EXCEPT !.missed = @ \cup {r}]
      BY <1>6, JobAfter DEF Commit
    <2>3. r \in Agent /\ m \in Msg
      BY <1>0, <2>1 DEF Job, InFlight
    <2>4. CASE /\ commits' = [commits EXCEPT ![m][r] = @ + 1]
               /\ job'[d] = [[job[d] EXCEPT !.staged = @ \ {r}] EXCEPT !.committed = @ \cup {r}]
      <3>1. job'[d].cur = m /\ job'[d].committed = job[d].committed \cup {r}
        BY <1>0, <2>4 DEF Job
      <3>2. \A a \in Agent \ {r} : commits'[m][a] = commits[m][a]
        BY <2>3, <2>4 DEF Sound, Typed, TypeOK
      <3> QED BY <1>0, <2>1, <3>1, <3>2 DEF TriesKnown
    <2>5. CASE /\ commits' = commits
               /\ job'[d] = [[job[d] EXCEPT !.staged = @ \ {r}] EXCEPT !.missed = @ \cup {r}]
      <3>1. job'[d].cur = m /\ job'[d].committed = job[d].committed
        BY <1>0, <2>5 DEF Job
      <3> QED BY <1>0, <2>1, <2>5, <3>1 DEF TriesKnown
    <2> QED BY <2>2, <2>4, <2>5
  <1>7. CASE Delivered(d)
    <2>1. /\ pc[d] = "commit" /\ pc'[d] = "remote" /\ UNCHANGED <<commits, sent>>
          /\ job'[d] = [job[d] EXCEPT !.local =
               IF job[d].committed = {} /\ job[d].missed # {} THEN "failed" ELSE "delivered"]
      BY <1>7, JobAfter DEF Delivered, history
    <2>2. job'[d].cur = m /\ (job[d].committed # {} => job'[d].local = "delivered")
      BY <1>0, <2>1 DEF Job
    <2> QED BY <1>0, <2>1, <2>2 DEF TriesKnown
  <1>8. CASE Offer(d)
    <2>1. /\ pc[d] = "remote" /\ pc'[d] \in {"publish", "outcome"}
          /\ UNCHANGED <<commits, sent>> /\ job'[d].cur = m /\ job'[d].local = job[d].local
      BY <1>0, <1>8, JobAfter DEF Offer, Job, history
    <2> QED BY <1>0, <2>1 DEF TriesKnown, Untried
  <1>9. CASE Publish(d)
    <2>1. pc[d] = "publish" /\ pc'[d] = "publish" /\ UNCHANGED commits
      BY <1>9 DEF Publish
    <2>2. PICK r \in job[d].waiting :
            \/ /\ sent' = [sent EXCEPT ![m][r] = @ + 1] \/ sent' = sent
               /\ job'[d] = [[job[d] EXCEPT !.waiting = @ \ {r}] EXCEPT !.took = @ \cup {r}]
            \/ /\ sent' = sent
               /\ job'[d] = [[job[d] EXCEPT !.waiting = @ \ {r}] EXCEPT !.refused = @ \cup {r}]
      BY <1>9, JobAfter DEF Publish
    <2>3. r \in Remote /\ m \in Msg
      BY <1>0, <2>1 DEF Job, InFlight
    <2>4. job'[d].cur = m /\ job'[d].local = job[d].local
      BY <1>0, <2>2 DEF Job
    <2>5. \A s \in Remote : sent'[m][s] # 0 => s \in job'[d].took
      <3>1. CASE sent' = [sent EXCEPT ![m][r] = @ + 1] /\ job'[d].took = job[d].took \cup {r}
        <4>1. \A s \in Remote \ {r} : sent'[m][s] = sent[m][s]
          BY <2>3, <3>1 DEF Sound, Typed, TypeOK
        <4> QED BY <1>0, <2>1, <3>1, <4>1 DEF TriesKnown
      <3>2. CASE sent' = sent /\ job[d].took \subseteq job'[d].took
        BY <1>0, <2>1, <3>2 DEF TriesKnown
      <3> QED BY <1>0, <2>2, <3>1, <3>2 DEF Job
    <2> QED BY <1>0, <2>1, <2>4, <2>5 DEF TriesKnown
  <1>10. CASE Published(d)
    <2>1. /\ pc[d] = "publish" /\ pc'[d] = "outcome"
          /\ UNCHANGED <<commits, sent, job>>
      BY <1>10, JobAfter DEF Published, history
    <2> QED BY <1>0, <2>1 DEF TriesKnown
  <1>11. CASE Outcome(d)
    <2>1. /\ pc[d] = "outcome" /\ pc'[d] = "settle" /\ UNCHANGED <<commits, sent>>
      BY <1>11, JobAfter DEF Outcome, history
    <2>2. /\ job'[d].cur = m
          /\ job'[d].verdict # "sent" =>
               \/ job[d].local = "unknown" /\ Remote = {}
               \/ job[d].local # "delivered" /\ job[d].took = {}
      BY <1>0, <1>11, JobAfter DEF Outcome, Job
    <2> QED BY <1>0, <2>1, <2>2 DEF TriesKnown, NoTake
  <1>12. CASE \/ StartPass(d) \/ ScanOutbox(d) \/ ScanDone(d) \/ IngestFile(d)
              \/ UnlinkCopied(d) \/ IngestBundle(d) \/ StartTurn(d) \/ EndPass(d)
              \/ Settle(d) \/ Crash(d)
    <2>1. pc'[d] \notin InFlight
      BY <1>12, JobAfter DEF StartPass, ScanOutbox, ScanDone, IngestFile, UnlinkCopied,
            IngestBundle, StartTurn, EndPass, Settle, Crash, InFlight
    <2> QED BY <1>1, <2>1
  <1> QED BY <1>2, <1>3, <1>4, <1>5, <1>6, <1>7, <1>8, <1>9, <1>10, <1>11, <1>12 DEF Route

LEMMA NextPromise ==
  ASSUME CrossDevice = {}
  PROVE  Sound /\ PromiseInv /\ [Next]_vars => PromiseInv'
  <1> SUFFICES ASSUME Sound, PromiseInv, [Next]_vars PROVE PromiseInv'
    OBVIOUS
  <1>1. Sound'
    BY NextSound
  <1>2. CASE \/ \E m \in Msg, h \in Headers : Tell(m, h)
             \/ \E a \in Agent, m \in Msg : Read(a, m)
             \/ UNCHANGED vars
    BY <1>2 DEF Tell, Read, vars, mail, history, PromiseInv, TriesKnown, NoTake
  <1>3. ASSUME NEW d \in Daemon, Route(d) \/ Crash(d) PROVE PromiseInv'
    <2>1. TriesKnown(d)'
      BY <1>1, <1>3, PromiseSelf
    <2>2. ASSUME NEW e \in Daemon \ {d} PROVE TriesKnown(e)'
      <3>1. TriesKnown(e)
        BY DEF PromiseInv
      <3>2. CASE pc[e] \in InFlight
        BY <1>1, <1>3, <3>1, <3>2, OthersKept DEF TriesKnown, NoTake
      <3>3. CASE pc[e] \notin InFlight
        BY <1>1, <1>3, <3>3, OthersKept DEF TriesKnown, InFlight
      <3> QED BY <3>2, <3>3
    <2> QED BY <2>1, <2>2 DEF PromiseInv
  <1> QED BY <1>2, <1>3 DEF Next

LEMMA StageKept ==
  ASSUME NEW m \in Msg, header'[m] = header[m], at'[m] = at[m]
  PROVE  StageOf(m)' = StageOf(m)
  BY DEF StageOf, Settled, Trashed

\* A written message with a file outside every trash is open.
LEMMA OpenStage ==
  ASSUME NEW m \in Msg, header[m] # None, NEW p \in at[m], p[1] # "trash"
  PROVE  StageOf(m) = "open"
  <1>1. p \notin {Trash(a) : a \in Agent}
    BY DEF Trash
  <1> QED BY <1>1 DEF StageOf, Settled

LEMMA InitRefines == Init => Promise!Init
  <1> SUFFICES ASSUME Init PROVE Promise!Init
    OBVIOUS
  <1>1. \A m \in Msg : StageOf(m) = "unsent"
    BY DEF Init, StageOf
  <1>2. [m \in Msg |-> StageOf(m)] = [m \in Msg |-> "unsent"]
    BY <1>1
  <1>3. [m \in Msg |-> [p \in Agent \cup Remote |->
            IF p \in Agent THEN commits[m][p] ELSE sent[m][p]]]
          = [m \in Msg |-> [p \in Agent \cup Remote |-> 0]]
    BY DEF Init
  <1> QED BY <1>2, <1>3 DEF Promise!Init

LEMMA Stutters ==
  ASSUME \A m \in Msg : StageOf(m)' = StageOf(m), UNCHANGED <<commits, sent>>
  PROVE  UNCHANGED Promise!vars
  BY DEF Promise!vars

LEMMA Submits ==
  ASSUME NEW m \in Msg, StageOf(m) = "unsent", StageOf(m)' = "open",
         \A n \in Msg \ {m} : StageOf(n)' = StageOf(n), UNCHANGED <<commits, sent>>
  PROVE  Promise!Next
  <1>1. [n \in Msg |-> StageOf(n)]' = [[n \in Msg |-> StageOf(n)] EXCEPT ![m] = "open"]
    OBVIOUS
  <1>2. Promise!Submit(m)
    BY <1>1 DEF Promise!Submit
  <1> QED BY <1>2 DEF Promise!Next

LEMMA Finishes ==
  ASSUME NEW m \in Msg, StageOf(m) = "open", StageOf(m)' = "sent",
         \A n \in Msg \ {m} : StageOf(n)' = StageOf(n), UNCHANGED <<commits, sent>>
  PROVE  Promise!Next
  <1>1. [n \in Msg |-> StageOf(n)]' = [[n \in Msg |-> StageOf(n)] EXCEPT ![m] = "sent"]
    OBVIOUS
  <1>2. Promise!Finish(m)
    BY <1>1 DEF Promise!Finish
  <1> QED BY <1>2 DEF Promise!Next

LEMMA Drops ==
  ASSUME NEW m \in Msg, StageOf(m) = "open", StageOf(m)' = "dropped", NoTake(m),
         \A n \in Msg \ {m} : StageOf(n)' = StageOf(n), UNCHANGED <<commits, sent>>
  PROVE  Promise!Next
  <1>1. [n \in Msg |-> StageOf(n)]' = [[n \in Msg |-> StageOf(n)] EXCEPT ![m] = "dropped"]
    OBVIOUS
  <1>2. Promise!Drop(m)
    BY <1>1 DEF Promise!Drop, NoTake
  <1> QED BY <1>2 DEF Promise!Next

\* How often path p took message m: an agent's inbox or a remote.
TriesOf(m, p) == IF p \in Agent THEN commits[m][p] ELSE sent[m][p]

LEMMA Takes ==
  ASSUME NEW m \in Msg, NEW p \in Agent \cup Remote, StageOf(m) = "open",
         \A n \in Msg : StageOf(n)' = StageOf(n),
         TriesOf(m, p) = 0, TriesOf(m, p)' = 1,
         \A n \in Msg, q \in Agent \cup Remote :
            n # m \/ q # p => TriesOf(n, q)' = TriesOf(n, q)
  PROVE  Promise!Next
  <1> DEFINE T == [n \in Msg |-> [q \in Agent \cup Remote |-> TriesOf(n, q)]]
  <1>1. T' = [T EXCEPT ![m][p] = 1]
    <2>1. \A n \in Msg : T'[n] = [q \in Agent \cup Remote |-> TriesOf(n, q)']
      OBVIOUS
    <2>2. \A n \in Msg \ {m} : T'[n] = T[n]
      OBVIOUS
    <2>3. T'[m] = [T[m] EXCEPT ![p] = 1]
      OBVIOUS
    <2>4. T \in [Msg -> [Agent \cup Remote -> {TriesOf(n, q) : n \in Msg, q \in Agent \cup Remote}]]
      OBVIOUS
    <2>5. T' = [n \in Msg |-> T'[n]]
      OBVIOUS
    <2>6. T' = [T EXCEPT ![m] = [T[m] EXCEPT ![p] = 1]]
      <3> HIDE DEF T
      <3> QED BY <2>2, <2>3, <2>4, <2>5
    <2> QED BY <2>6
  <1>2. T[m][p] = 0
    OBVIOUS
  <1>3. [n \in Msg |-> StageOf(n)]' = [n \in Msg |-> StageOf(n)]
    OBVIOUS
  <1>4. Promise!Take(m, p)
    BY <1>1, <1>2, <1>3 DEF Promise!Take, TriesOf
  <1> QED BY <1>4 DEF Promise!Next

\* A step that moves only files still waiting leaves every message at its stage.
LEMMA MoveKeepsStage ==
  ASSUME Sound, Sound', UNCHANGED header, NEW n \in Msg,
         Waiting(n) \/ at'[n] = at[n],
         at'[n] = at[n] \/ \E p \in at'[n] : p[1] # "trash"
  PROVE  StageOf(n)' = StageOf(n)
  <1>1. CASE at'[n] = at[n]
    BY <1>1, StageKept
  <1>2. CASE at'[n] # at[n] /\ header[n] # None
    <2>1. PICK p \in at[n] : p[1] # "trash"
      BY <1>2 DEF Waiting
    <2>2. PICK q \in at'[n] : q[1] # "trash"
      BY <1>2
    <2>3. StageOf(n) = "open"
      BY <1>2, <2>1, OpenStage
    <2>4. StageOf(n)' = "open"
      <3>1. q \notin {Trash(a) : a \in Agent}
        BY <2>2 DEF Trash
      <3> QED BY <1>2, <2>2, <3>1 DEF StageOf, Settled
    <2> QED BY <2>3, <2>4
  <1>3. CASE at'[n] # at[n] /\ header[n] = None
    <2>1. at'[n] = {} /\ at[n] = {}
      BY <1>3 DEF Sound, OnceInv, OneFile
    <2> QED BY <1>3, <2>1
  <1> QED BY <1>1, <1>2, <1>3

\* A message in flight is open.
LEMMA HeldIsOpen ==
  ASSUME Sound, NEW d \in Daemon, pc[d] \in InFlight
  PROVE  /\ job[d].cur \in Msg /\ job[d].owner \in Agent /\ header[job[d].cur] # None
         /\ at[job[d].cur] = {<<"sending", job[d].owner>>}
         /\ StageOf(job[d].cur) = "open"
  <1> DEFINE p == <<"sending", job[d].owner>>
  <1>1. job[d].cur \in Msg /\ job[d].owner \in Agent
    BY JobOf DEF Sound
  <1>2. at[job[d].cur] = {p} /\ header[job[d].cur] # None
    BY HeldNotWaiting DEF Sound, Waiting
  <1>3. p \in at[job[d].cur] /\ p[1] # "trash"
    BY <1>2
  <1>4. StageOf(job[d].cur) = "open"
    <2> HIDE DEF p
    <2> QED BY <1>1, <1>2, <1>3, OpenStage
  <1> QED BY <1>1, <1>2, <1>4

\* Where a file that ingest or a claim moved is now.
LEMMA MovedStaysOpen ==
  ASSUME Sound, NEW d \in Daemon, IngestFile(d) \/ Claim(d), NEW n \in Msg
  PROVE  at'[n] = at[n] \/ \E p \in at'[n] : p[1] # "trash"
  <1>0. at \in [Msg -> SUBSET Place]
    BY DEF Sound, Typed, TypeOK
  <1>1. PICK m \in Msg : at' = at \/ \E p, S : /\ at' = [at EXCEPT ![m] = S]
                                               /\ p \in S /\ p[1] # "trash"
    <2>1. CASE IngestFile(d)
      <3>1. PICK m \in job[d].queue :
              \/ at' = at
              \/ \E a, S : at' = [at EXCEPT ![m] = S \cup {<<"pending", a>>}]
        BY <2>1 DEF IngestFile, Earliest, MoveFile, Pending
      <3>2. m \in Msg
        BY JobOf DEF Sound, Job
      <3>3. \A a, S : <<"pending", a>> \in S \cup {<<"pending", a>>}
                        /\ <<"pending", a>>[1] # "trash"
        OBVIOUS
      <3> QED BY <3>1, <3>2, <3>3
    <2>2. CASE Claim(d)
      <3>1. PICK m \in job[d].queue :
              \/ at' = at
              \/ \E a, S : at' = [at EXCEPT ![m] = S \cup {<<"sending", a>>}]
        BY <2>2 DEF Claim, Earliest, MoveFile, Sending
      <3>2. m \in Msg
        BY JobOf DEF Sound, Job
      <3>3. \A a, S : <<"sending", a>> \in S \cup {<<"sending", a>>}
                        /\ <<"sending", a>>[1] # "trash"
        OBVIOUS
      <3> QED BY <3>1, <3>2, <3>3
    <2> QED BY <2>1, <2>2
  <1> QED BY <1>0, <1>1

\* Every step of one daemon is a step of OneTry, or none.
LEMMA RouteRefines ==
  ASSUME Sound, Sound', PromiseInv, NEW d \in Daemon, Route(d) \/ Crash(d)
  PROVE  Promise!Next \/ UNCHANGED Promise!vars
  <1>1. CASE \/ StartPass(d) \/ ScanOutbox(d) \/ ScanDone(d) \/ IngestBundle(d)
             \/ StartTurn(d) \/ EndPass(d) \/ Crash(d) \/ Unroutable(d)
             \/ NotLocal(d) \/ Stage(d) \/ Delivered(d) \/ Offer(d)
             \/ Published(d) \/ Outcome(d)
    <2>1. UNCHANGED <<header, at, commits, sent>>
      BY <1>1 DEF StartPass, ScanOutbox, ScanDone, IngestBundle, StartTurn, EndPass,
                  Crash, Unroutable, NotLocal, Stage, Delivered, Offer, Published,
                  Outcome, mail, history
    <2> QED BY <2>1, StageKept, Stutters
  <1>2. CASE UnlinkCopied(d)
    BY <1>2, UnclaimedOnce DEF Sound
  <1>3. CASE IngestFile(d) \/ Claim(d)
    <2>1. UNCHANGED <<header, commits, sent>> /\ pc[d] \notin InFlight
      BY <1>3 DEF IngestFile, Claim, history, InFlight
    <2>2. \A n \in Msg : StageOf(n)' = StageOf(n)
      BY <1>3, <2>1, OnlyItsMessage, MovedStaysOpen, MoveKeepsStage DEF Holding
    <2> QED BY <2>1, <2>2, Stutters
  <1>4. CASE Commit(d)
    <2>0. PICK m \in Msg : m = job[d].cur
      BY <1>4, JobOf DEF Commit, InFlight, Sound
    <2>1. /\ pc[d] = "commit" /\ m \in Msg /\ StageOf(m) = "open" /\ job[d] \in Job
          /\ UNCHANGED <<header, at, sent>> /\ Untried(d)
      BY <1>4, <2>0, HeldIsOpen DEF Commit, mail, InFlight, Sound, Typed, TypeOK, OnceInv,
                              PathsUntried
    <2>2. \A n \in Msg : StageOf(n)' = StageOf(n)
      BY <2>1, StageKept
    <2>3. PICK r \in job[d].staged :
            commits' = commits \/ commits' = [commits EXCEPT ![m][r] = @ + 1]
      BY <1>4, <2>0 DEF Commit
    <2>4. CASE commits' = commits
      BY <2>1, <2>2, <2>4, Stutters
    <2>5. CASE commits' = [commits EXCEPT ![m][r] = @ + 1]
      <3>1. r \in Agent /\ commits[m][r] = 0
        BY <2>0, <2>1 DEF Job, Untried
      <3>2. /\ \A n \in Msg \ {m} : commits'[n] = commits[n]
            /\ \A a \in Agent \ {r} : commits'[m][a] = commits[m][a]
            /\ commits'[m][r] = 1
        BY <2>1, <2>5, <3>1 DEF Sound, Typed, TypeOK
      <3>3. TriesOf(m, r) = 0 /\ TriesOf(m, r)' = 1
        BY <3>1, <3>2 DEF TriesOf
      <3>4. \A n \in Msg, q \in Agent \cup Remote :
               n # m \/ q # r => TriesOf(n, q)' = TriesOf(n, q)
        BY <2>1, <3>2 DEF TriesOf
      <3> QED BY <2>1, <2>2, <3>1, <3>3, <3>4, Takes
    <2> QED BY <2>3, <2>4, <2>5
  <1>5. CASE Publish(d)
    <2>0. PICK m \in Msg : m = job[d].cur
      BY <1>5, JobOf DEF Publish, InFlight, Sound
    <2>1. /\ pc[d] = "publish" /\ m \in Msg /\ StageOf(m) = "open" /\ job[d] \in Job
          /\ UNCHANGED <<header, at, commits>> /\ Untried(d)
      BY <1>5, <2>0, HeldIsOpen DEF Publish, mail, InFlight, Sound, Typed, TypeOK, OnceInv,
                              PathsUntried
    <2>2. \A n \in Msg : StageOf(n)' = StageOf(n)
      BY <2>1, StageKept
    <2>3. PICK r \in job[d].waiting :
            sent' = sent \/ sent' = [sent EXCEPT ![m][r] = @ + 1]
      BY <1>5, <2>0 DEF Publish
    <2>4. CASE sent' = sent
      BY <2>1, <2>2, <2>4, Stutters
    <2>5. CASE sent' = [sent EXCEPT ![m][r] = @ + 1]
      <3>1. r \in Remote /\ r \notin Agent /\ sent[m][r] = 0
        BY <2>0, <2>1, RoutingAssumption DEF Job, Untried
      <3>2. /\ \A n \in Msg \ {m} : sent'[n] = sent[n]
            /\ \A a \in Remote \ {r} : sent'[m][a] = sent[m][a]
            /\ sent'[m][r] = 1
        BY <2>1, <2>5, <3>1 DEF Sound, Typed, TypeOK
      <3>3. TriesOf(m, r) = 0 /\ TriesOf(m, r)' = 1
        BY <3>1, <3>2 DEF TriesOf
      <3>4. \A n \in Msg, q \in Agent \cup Remote :
               n # m \/ q # r => TriesOf(n, q)' = TriesOf(n, q)
        BY <2>1, <3>2 DEF TriesOf
      <3> QED BY <2>1, <2>2, <3>1, <3>3, <3>4, Takes
    <2> QED BY <2>3, <2>4, <2>5
  <1>6. CASE Settle(d)
    <2>0. PICK m \in Msg : m = job[d].cur
      BY <1>6, JobOf DEF Settle, InFlight, Sound
    <2>1. /\ pc[d] = "settle" /\ UNCHANGED <<header, commits, sent>>
          /\ pc[d] \in InFlight
      BY <1>6 DEF Settle, history, InFlight
    <2>2. /\ m \in Msg /\ job[d].owner \in Agent /\ header[m] # None
          /\ at[m] = {<<"sending", job[d].owner>>} /\ StageOf(m) = "open"
      BY <2>0, <2>1, HeldIsOpen
    <2>3. \A n \in Msg \ {m} : StageOf(n)' = StageOf(n)
      <3>1. at \in [Msg -> SUBSET Place]
        BY DEF Sound, Typed, TypeOK
      <3>2. at' = at \/ \E S : at' = [at EXCEPT ![m] = S]
        BY <1>6, <2>0 DEF Settle
      <3> QED BY <2>1, <3>1, <3>2, StageKept
    <2>4. CASE at' = at
      BY <2>1, <2>2, <2>3, <2>4, StageKept, Stutters
    <2>5. CASE job[d].verdict = "sent" /\ at' # at
      <3>1. at'[m] = {}
        BY <1>6, <2>0, <2>2, <2>5 DEF Settle, Holds, Sending, Sound, Typed, TypeOK
      <3>2. StageOf(m)' = "sent"
        BY <2>1, <2>2, <3>1 DEF StageOf, Settled, Trashed
      <3> QED BY <2>1, <2>2, <2>3, <3>2, Finishes
    <2>6. CASE job[d].verdict # "sent" /\ at' # at
      <3>1. at'[m] = {Trash(job[d].owner)}
        BY <1>6, <2>0, <2>2, <2>6 DEF Settle, Holds, Sending, Sound, Typed, TypeOK
      <3>2. StageOf(m)' = "dropped"
        BY <2>1, <2>2, <3>1 DEF StageOf, Settled, Trashed
      <3>3. NoTake(m)
        BY <2>0, <2>1, <2>6 DEF PromiseInv, TriesKnown
      <3> QED BY <2>1, <2>2, <2>3, <3>2, <3>3, Drops
    <2> QED BY <2>4, <2>5, <2>6
  <1> QED BY <1>1, <1>2, <1>3, <1>4, <1>5, <1>6 DEF Route

LEMMA NextRefines ==
  ASSUME CrossDevice = {}
  PROVE  Sound /\ PromiseInv /\ [Next]_vars => [Promise!Next]_(Promise!vars)
  <1> SUFFICES ASSUME Sound, PromiseInv, [Next]_vars
               PROVE  Promise!Next \/ UNCHANGED Promise!vars
    OBVIOUS
  <1>1. Sound'
    BY NextSound
  <1>2. CASE (\E a \in Agent, m \in Msg : Read(a, m)) \/ UNCHANGED vars
    <2>1. UNCHANGED <<header, at, commits, sent>>
      BY <1>2 DEF Read, vars, mail, history
    <2> QED BY <2>1, StageKept, Stutters
  <1>3. ASSUME NEW m \in Msg, NEW h \in Headers, Tell(m, h) PROVE Promise!Next
    <2>1. /\ UNCHANGED <<commits, sent>> /\ header[m] = None /\ header'[m] = h
          /\ at'[m] = {OutboxFor(h)}
          /\ \A n \in Msg \ {m} : header'[n] = header[n] /\ at'[n] = at[n]
      BY <1>3 DEF Tell, history, Sound, Typed, TypeOK
    <2>2. StageOf(m) = "unsent"
      BY <2>1 DEF StageOf
    <2>3. StageOf(m)' = "open"
      <3>1. h # None /\ OutboxFor(h) \notin {Trash(a) : a \in Agent}
        BY RoutingAssumption DEF OutboxFor, Trash
      <3> QED BY <2>1, <3>1 DEF StageOf, Settled
    <2> QED BY <2>1, <2>2, <2>3, StageKept, Submits
  <1> QED BY <1>1, <1>2, <1>3, RouteRefines DEF Next

\* With the outboxes on the filesystem of the state root the router implements
\* OneTry: each path to a receiver takes a message at most once and only until
\* the message is settled, a message reaches a trash directory only when no
\* inbox and no remote took it, and a settled message is never touched again;
\* for any handlers, shared outboxes, failing steps and deaths.
THEOREM RouterKeepsPromise ==
  ASSUME CrossDevice = {}
  PROVE  Spec => KeepsPromise
  <1>1. Init => Sound /\ PromiseInv /\ Promise!Init
    BY InitSound, InitPromise, InitRefines
  <1>2. Sound /\ PromiseInv /\ [Next]_vars => Sound' /\ PromiseInv'
    BY NextSound, NextPromise
  <1>3. Sound /\ PromiseInv /\ [Next]_vars => [Promise!Next]_(Promise!vars)
    BY NextRefines
  <1> QED BY <1>1, <1>2, <1>3, PTL DEF Spec, KeepsPromise, Promise!Spec

-----------------------------------------------------------------------------
(* No path is lost without a trace. What a daemon still holds of its tries  *)
(* and the rows it wrote cover every receiver of the message it works on.   *)

Row(e, m, p) == <<e, m, p>> \in rows

MemberAnswered(m, a) ==
  \/ commits[m][a] > 0 \/ Row("DROPPED", m, a)
  \/ header[m].kind # "agent" /\ a \in Senders(header[m])

LocalAnswered(m) == \A a \in header[m].members : MemberAnswered(m, a)

RemotesAnswered(m) ==
  \A r \in Remote : \/ Row("PUBLISHED", m, r) \/ Row("DROPPED", m, r)
                    \/ header[m].files /\ ~Services

\* pending/ and sending/ of an agent hold what that agent may have written.
OwnersAreSenders ==
  \A m \in Msg, a \in Agent :
    Pending(a) \in at[m] \/ Sending(a) \in at[m] => a \in Senders(header[m])

InboxTried == \A a \in Agent : \A m \in inbox[a] : commits[m][a] > 0

AllNames == \A d \in Daemon : pc[d] # "idle" => job[d].byName = Agent

Accounts(d) ==
  LET m == job[d].cur
      j == job[d]
  IN /\ pc[d] = "commit" =>
          \A a \in header[m].members : a \in j.staged \cup j.missed \/ MemberAnswered(m, a)
     /\ pc[d] \in {"remote", "publish", "outcome"} => j.local = "failed" \/ LocalAnswered(m)
     /\ pc[d] = "publish" =>
          \A r \in Remote : r \in j.waiting \cup j.refused \/ Row("PUBLISHED", m, r)
     /\ pc[d] = "outcome" =>
          \A r \in Remote : \/ r \in j.refused \/ Row("PUBLISHED", m, r)
                            \/ header[m].files /\ ~Services
     /\ pc[d] = "settle" =>
          \/ /\ j.verdict = "sent" /\ RemotesAnswered(m)
             /\ Row("DROPPED", m, "local") \/ LocalAnswered(m)
          \/ j.verdict \in {"DROPPED", "DISCARDED"} /\ Row(j.verdict, m, "message")

AccountInv ==
  /\ OwnersAreSenders /\ InboxTried /\ AllNames
  /\ \A d \in Daemon : Accounts(d)
  /\ EveryPathAccounted

\* Nothing written about message m is lost in this step.
Grows(m) ==
  /\ header[m] \in Headers /\ header'[m] = header[m]
  /\ rows \subseteq rows'
  /\ \A a \in Agent : commits[m][a] > 0 => commits'[m][a] > 0

LEMMA InitAccount == Init => AccountInv
  BY DEF Init, AccountInv, OwnersAreSenders, InboxTried, AllNames, Accounts,
         EveryPathAccounted, Settled

LEMMA StepGrows ==
  ASSUME Sound, [Next]_vars, NEW m \in Msg, header[m] # None
  PROVE  Grows(m)
  <1>1. header[m] \in Headers
    BY DEF Sound, Typed, TypeOK
  <1>2. rows \subseteq rows' /\ header'[m] = header[m]
    <2>1. CASE \E n \in Msg, h \in Headers : Tell(n, h)
      BY <2>1 DEF Tell, Sound, Typed, TypeOK
    <2>2. CASE (\E a \in Agent, n \in Msg : Read(a, n)) \/ UNCHANGED vars
      BY <2>2 DEF Read, vars, mail
    <2>3. ASSUME NEW d \in Daemon, Route(d) \/ Crash(d)
          PROVE  rows \subseteq rows' /\ header' = header
      <3>1. CASE Unroutable(d) \/ Delivered(d) \/ Publish(d) \/ Outcome(d)
        <4>1. (\E S : rows' = rows \cup S) \/ rows' = rows
          BY <3>1 DEF Unroutable, Delivered, Publish, Outcome
        <4> QED BY <3>1, <4>1 DEF Unroutable, Delivered, Publish, Outcome, mail
      <3> QED
        BY <2>3, <3>1 DEF Route, Crash, StartPass, ScanOutbox, ScanDone, IngestFile,
           UnlinkCopied, IngestBundle, StartTurn, EndPass, Claim, NotLocal, Stage, Commit,
           Offer, Published, Settle, mail
    <2> QED BY <2>1, <2>2, <2>3 DEF Next
  <1>3. ASSUME NEW a \in Agent, commits[m][a] > 0 PROVE commits'[m][a] > 0
    <2>1. commits[m][a] \in Nat
      BY DEF Sound, Typed, TypeOK
    <2>2. CASE \E d \in Daemon : Commit(d)
      <3>1. PICK d \in Daemon : Commit(d)
        BY <2>2
      <3>2. job[d].cur \in Msg /\ job[d].staged \subseteq Agent
        BY <3>1, JobOf DEF Sound, Commit, InFlight, Job
      <3>3. PICK r \in job[d].staged :
              commits' = commits \/ commits' = [commits EXCEPT ![job[d].cur][r] = @ + 1]
        BY <3>1 DEF Commit
      <3>4. commits \in [Msg -> [Agent -> Nat]]
        BY DEF Sound, Typed, TypeOK
      <3>5. commits'[m][a] = commits[m][a] \/ commits'[m][a] = commits[m][a] + 1
        BY <3>2, <3>3, <3>4
      <3> QED BY <1>3, <2>1, <3>5
    <2>3. CASE UNCHANGED commits
      BY <1>3, <2>3
    <2> QED BY ZenonT(40), <2>2, <2>3
      DEF Next, Tell, Read, vars, Route, Crash, StartPass, ScanOutbox, ScanDone, IngestFile,
          UnlinkCopied, IngestBundle, StartTurn, EndPass, Claim, Unroutable,
          NotLocal, Stage, Delivered, Offer, Publish, Published, Outcome,
          Settle, history
  <1> QED BY <1>1, <1>2, <1>3 DEF Grows

LEMMA AnswersKept ==
  ASSUME NEW m \in Msg, Grows(m)
  PROVE  /\ \A a \in Agent : MemberAnswered(m, a) => MemberAnswered(m, a)'
         /\ LocalAnswered(m) => LocalAnswered(m)'
         /\ RemotesAnswered(m) => RemotesAnswered(m)'
         /\ \A e, p : Row(e, m, p) => Row(e, m, p)'
  <1>1. \A e, p : Row(e, m, p) => Row(e, m, p)'
    BY DEF Grows, Row
  <1>2. \A a \in Agent : MemberAnswered(m, a) => MemberAnswered(m, a)'
    BY <1>1 DEF Grows, MemberAnswered
  <1>3. header[m].members \subseteq Agent
    BY RoutingAssumption DEF Grows
  <1> QED BY <1>1, <1>2, <1>3 DEF Grows, LocalAnswered, RemotesAnswered

\* The accounts of a daemon hold through a step that leaves it alone.
LEMMA AccountsKept ==
  ASSUME NEW d \in Daemon, Accounts(d), pc'[d] = pc[d], job'[d] = job[d],
         pc[d] \in InFlight => job[d].cur \in Msg /\ Grows(job[d].cur)
  PROVE  Accounts(d)'
  <1> DEFINE m == job[d].cur
  <1>1. CASE pc[d] \notin InFlight
    BY <1>1 DEF Accounts, InFlight
  <1>2. CASE pc[d] \in InFlight
    <2>1. PICK n \in Msg : n = job[d].cur
      BY <1>2
    <2>2. header[n] \in Headers /\ header'[n] = header[n] /\ Grows(n)
      BY <1>2, <2>1 DEF Grows
    <2>3. header[n].members \subseteq Agent
      BY <2>2, RoutingAssumption
    <2>4. /\ \A a \in Agent : MemberAnswered(n, a) => MemberAnswered(n, a)'
          /\ LocalAnswered(n) => LocalAnswered(n)'
          /\ RemotesAnswered(n) => RemotesAnswered(n)'
          /\ \A e, p : Row(e, n, p) => Row(e, n, p)'
      BY <2>2, AnswersKept
    <2> QED BY <2>1, <2>2, <2>3, <2>4 DEF Accounts
  <1> QED BY <1>1, <1>2

\* Ingest takes the file for one that may have written it.
LEMMA IngestedToSender ==
  ASSUME IsFiniteSet(Agent), NEW d \in Daemon, NEW m \in Msg, header[m] \in Headers,
         NEW a \in IngestOwner(d, OutboxOf[header[m].sender], m)
  PROVE  a \in Agent /\ a \in Senders(header[m])
  <1> DEFINE O == Owners(OutboxOf[header[m].sender])
  <1>1. O \subseteq Agent /\ IsFiniteSet(O)
    BY FS_Subset DEF Owners
  <1>2. CASE Cardinality(O) = 1
    <2>1. PICK x : O = {x}
      BY <1>1, <1>2, FS_Singleton
    <2>2. a \in O
      BY <1>2 DEF IngestOwner
    <2> HIDE DEF O
    <2>3. Senders(header[m]) = IF header[m].claim \in O THEN {header[m].claim} ELSE O
      BY DEF Senders, O
    <2> QED BY <1>1, <2>1, <2>2, <2>3
  <1>3. CASE Cardinality(O) # 1
    BY <1>1, <1>3 DEF IngestOwner, Senders
  <1> QED BY <1>2, <1>3

LEMMA OwnersStep ==
  ASSUME CrossDevice = {}, IsFiniteSet(Agent), Sound, Sound', OwnersAreSenders,
         [Next]_vars
  PROVE  OwnersAreSenders'
  <1>0. at \in [Msg -> SUBSET Place]
    BY DEF Sound, Typed, TypeOK
  <1> SUFFICES ASSUME NEW m \in Msg, NEW a \in Agent,
                      Pending(a) \in at'[m] \/ Sending(a) \in at'[m]
               PROVE  a \in Senders(header'[m])
    BY DEF OwnersAreSenders, Pending, Sending
  <1>1. ASSUME header'[m] = header[m], Pending(a) \in at[m] \/ Sending(a) \in at[m]
        PROVE  a \in Senders(header'[m])
    BY <1>1 DEF OwnersAreSenders
  <1>2. CASE \E n \in Msg, h \in Headers : Tell(n, h)
    <2>1. PICK n \in Msg, h \in Headers : Tell(n, h)
      BY <1>2
    <2>2. m # n
      BY <1>0, <2>1 DEF Tell, OutboxFor, Pending, Sending
    <2> QED BY <1>0, <1>1, <2>1, <2>2 DEF Tell, Sound, Typed, TypeOK
  <1>3. CASE (\E b \in Agent, n \in Msg : Read(b, n)) \/ UNCHANGED vars
    BY <1>1, <1>3 DEF Read, vars, mail
  <1>4. ASSUME NEW d \in Daemon, Route(d) \/ Crash(d) PROVE a \in Senders(header'[m])
    <2>0. header' = header
      BY <1>4 DEF Route, Crash, StartPass, ScanOutbox, ScanDone, IngestFile, UnlinkCopied,
             IngestBundle, StartTurn, EndPass, Claim, Unroutable, NotLocal, Stage,
             Commit, Delivered, Offer, Publish, Published, Outcome, Settle, mail
    <2>1. CASE IngestFile(d)
      <3>1. PICK n \in job[d].queue :
              LET b == OutboxOf[header[n].sender]
                  src == <<"outbox", b>>
              IN \/ at' = at
                 \/ /\ src \in at[n]
                    /\ \E o \in IngestOwner(d, b, n) :
                         at' = [at EXCEPT ![n] = (@ \ {src}) \cup {Pending(o)}]
        BY <2>1 DEF IngestFile, Earliest, MoveFile
      <3>2. n \in Msg
        BY JobOf DEF Sound, Job
      <3>3. CASE at'[m] = at[m]
        BY <1>1, <2>0, <3>3
      <3>4. CASE at'[m] # at[m]
        <4>1. PICK o \in IngestOwner(d, OutboxOf[header[n].sender], n) :
                /\ <<"outbox", OutboxOf[header[n].sender]>> \in at[n]
                /\ at' = [at EXCEPT ![n] =
                     (@ \ {<<"outbox", OutboxOf[header[n].sender]>>}) \cup {Pending(o)}]
          BY <3>1, <3>4
        <4>2. n = m /\ at'[m] \subseteq at[m] \cup {Pending(o)}
          BY <1>0, <3>2, <3>4, <4>1
        <4>3. header[m] \in Headers
          BY <4>1, <4>2 DEF Sound, OnceInv, OneFile, Typed, TypeOK
        <4>4. o \in Senders(header[m])
          BY <4>1, <4>2, <4>3, IngestedToSender
        <4> QED BY <1>1, <2>0, <4>2, <4>4 DEF Pending, Sending
      <3> QED BY <3>3, <3>4
    <2>2. CASE Claim(d)
      <3>1. PICK n \in job[d].queue :
              \/ at' = at
              \/ /\ Pending(job[d].owner) \in at[n]
                 /\ at' = [at EXCEPT ![n] =
                      (@ \ {Pending(job[d].owner)}) \cup {Sending(job[d].owner)}]
        BY <2>2 DEF Claim, Earliest, MoveFile
      <3>2. n \in Msg /\ job[d].owner \in Agent
        BY <2>2, JobOf DEF Sound, Job, Typed, HandsFull, Hands, Claim
      <3>3. \/ Pending(a) \in at[m] \/ Sending(a) \in at[m]
            \/ Pending(job[d].owner) \in at[m] /\ Sending(a) = Sending(job[d].owner)
        BY <1>0, <3>1, <3>2 DEF Pending, Sending
      <3> QED BY <1>1, <2>0, <3>3 DEF Pending, Sending
    <2>3. CASE Settle(d)
      <3>1. job[d].cur \in Msg
        BY <2>3, JobOf DEF Sound, Settle, InFlight
      <3>2. at'[m] \subseteq at[m] \cup {Trash(job[d].owner)}
        BY <1>0, <2>3, <3>1 DEF Settle
      <3> QED BY <1>1, <2>0, <3>2 DEF Pending, Sending, Trash
    <2>4. CASE UnlinkCopied(d)
      BY <2>4, UnclaimedOnce DEF Sound
    <2>5. CASE at' = at
      BY <1>1, <2>0, <2>5
    <2> QED BY <1>4, <2>1, <2>2, <2>3, <2>4, <2>5
      DEF Route, Crash, StartPass, ScanOutbox, ScanDone, IngestBundle, StartTurn, EndPass,
          Unroutable, NotLocal, Stage, Commit, Delivered, Offer, Publish, Published,
          Outcome, mail
  <1> QED BY <1>2, <1>3, <1>4 DEF Next

LEMMA InboxStep ==
  ASSUME Sound, Sound', InboxTried, [Next]_vars
  PROVE  InboxTried'
  <1>1. CASE \E d \in Daemon : Commit(d)
    <2>1. PICK d \in Daemon : Commit(d)
      BY <1>1
    <2>2. job[d].cur \in Msg /\ job[d].staged \subseteq Agent
      BY <2>1, JobOf DEF Sound, Commit, InFlight, Job
    <2>3. PICK r \in job[d].staged :
            \/ /\ inbox' = [inbox EXCEPT ![r] = @ \cup {job[d].cur}]
               /\ commits' = [commits EXCEPT ![job[d].cur][r] = @ + 1]
            \/ UNCHANGED <<inbox, commits>>
      BY <2>1 DEF Commit
    <2>4. commits \in [Msg -> [Agent -> Nat]] /\ inbox \in [Agent -> SUBSET Msg]
      BY DEF Sound, Typed, TypeOK
    <2>5. ASSUME NEW a \in Agent, NEW m \in inbox'[a] PROVE commits'[m][a] > 0
      <3>0. CASE UNCHANGED <<inbox, commits>>
        BY <2>5, <3>0 DEF InboxTried
      <3>1. CASE /\ inbox' = [inbox EXCEPT ![r] = @ \cup {job[d].cur}]
                 /\ commits' = [commits EXCEPT ![job[d].cur][r] = @ + 1]
        <4>1. m \in inbox[a] \/ (a = r /\ m = job[d].cur)
          BY <2>2, <2>4, <2>5, <3>1
        <4>2. m \in Msg
          BY <2>2, <2>4, <4>1
        <4>3. commits[m][a] \in Nat
          BY <2>4, <4>2
        <4>4. CASE a = r /\ m = job[d].cur
          <5>1. commits'[m][a] = commits[m][a] + 1
            BY <2>2, <2>4, <3>1, <4>4
          <5> QED BY <4>3, <5>1
        <4>5. CASE ~(a = r /\ m = job[d].cur)
          <5>1. commits'[m][a] = commits[m][a]
            BY <2>2, <2>4, <3>1, <4>2, <4>5
          <5> QED BY <4>1, <4>5, <5>1 DEF InboxTried
        <4> QED BY <4>4, <4>5
      <3> QED BY <2>3, <3>0, <3>1
    <2> QED BY <2>5 DEF InboxTried
  <1>2. CASE \E a \in Agent, m \in Msg : Read(a, m)
    <2>1. PICK b \in Agent, n \in Msg : Read(b, n)
      BY <1>2
    <2>2. \A a \in Agent : inbox'[a] \subseteq inbox[a]
      BY <2>1 DEF Read, Sound, Typed, TypeOK
    <2> QED BY <2>1, <2>2 DEF InboxTried, Read, history
  <1>3. CASE UNCHANGED <<inbox, commits>>
    BY <1>3 DEF InboxTried
  <1> QED BY ZenonT(40), <1>1, <1>2, <1>3
    DEF Next, Tell, vars, Route, Crash, StartPass, ScanOutbox, ScanDone, IngestFile,
        UnlinkCopied, IngestBundle, StartTurn, EndPass, Claim, Unroutable,
        NotLocal, Stage, Delivered, Offer, Publish, Published, Outcome,
        Settle, history

LEMMA FreshKeeps ==
  ASSUME NEW j \in Job, NEW m
  PROVE  /\ Fresh(j, m).byName = j.byName /\ Fresh(j, m).owner = j.owner
         /\ Fresh(j, m).turns = j.turns /\ Fresh(j, m).boxes = j.boxes
         /\ Fresh(j, m).cur = m
  BY DEF Fresh, Job

LEMMA NamesStep ==
  ASSUME Lagging = {}, Sound, Sound', AllNames, [Next]_vars
  PROVE  AllNames'
  <1>1. ASSUME NEW d \in Daemon, Route(d) \/ Crash(d), pc'[d] # "idle"
        PROVE  job'[d].byName = Agent
    <2>0. job[d] \in Job
      BY JobOf DEF Sound
    <2>1. CASE StartPass(d)
      <3>1. \E late \in SUBSET Lagging :
              job'[d] = [NoJob EXCEPT !.byName = Agent \ late,
                                      !.boxes = {OutboxOf[a] : a \in Handled[d]},
                                      !.turns = Handled[d]]
        BY <2>1, JobAfter DEF StartPass
      <3> QED BY <3>1 DEF NoJob
    <2>2. CASE EndPass(d) \/ Crash(d)
      BY <1>1, <2>2, JobAfter DEF EndPass, Crash
    <2>3. CASE \/ ScanOutbox(d) \/ ScanDone(d) \/ IngestFile(d) \/ UnlinkCopied(d)
               \/ IngestBundle(d) \/ StartTurn(d)
      <3>1. pc[d] # "idle"
        BY <2>3 DEF ScanOutbox, ScanDone, IngestFile, UnlinkCopied, IngestBundle, StartTurn
      <3>2. job'[d].byName = job[d].byName
        <4>1. CASE ScanDone(d) \/ UnlinkCopied(d)
          BY <2>0, <4>1, JobAfter DEF ScanDone, UnlinkCopied, Job
        <4>2. CASE ScanOutbox(d) \/ StartTurn(d)
          <5>1. \/ \E b : job'[d] = [job[d] EXCEPT !.boxes = @ \ {b},
                                                  !.queue = InDir(<<"outbox", b>>)]
                \/ \E a : job'[d] = [job[d] EXCEPT !.turns = @ \ {a}, !.owner = a,
                                                  !.queue = InDir(Pending(a))]
            BY <4>2, JobAfter DEF ScanOutbox, StartTurn
          <5> QED BY <2>0, <5>1 DEF Job
        <4>3. CASE IngestBundle(d)
          BY <2>0, <4>3, JobAfter DEF IngestBundle, Job
        <4>4. CASE IngestFile(d)
          <5>1. \E m, a : \/ job'[d] = [job[d] EXCEPT !.queue = @ \ {m}]
                          \/ job'[d] = [job[d] EXCEPT !.cur = m, !.owner = a]
            BY <4>4, JobAfter DEF IngestFile
          <5> QED BY <2>0, <5>1 DEF Job
        <4> QED BY <2>3, <4>1, <4>2, <4>3, <4>4
      <3> QED BY <3>1, <3>2 DEF AllNames
    <2>4. CASE Claim(d) \/ Settle(d)
      <3>1. pc[d] # "idle"
        BY <2>4 DEF Claim, Settle
      <3>2. job'[d].byName = job[d].byName
        <4>1. CASE Settle(d)
          <5>1. job'[d] = Fresh(job[d], None)
            BY <4>1, JobAfter DEF Settle
          <5> QED BY <2>0, <5>1, FreshKeeps
        <4>2. CASE Claim(d)
          <5>1. PICK m : \/ job'[d] = [job[d] EXCEPT !.queue = @ \ {m}]
                         \/ job'[d] = Fresh([job[d] EXCEPT !.queue = @ \ {m}], m)
            BY <4>2, JobAfter DEF Claim
          <5> DEFINE k == [job[d] EXCEPT !.queue = @ \ {m}]
          <5>2. k \in Job /\ k.byName = job[d].byName
            BY <2>0 DEF Job
          <5>3. Fresh(k, m).byName = k.byName
            BY <5>2, FreshKeeps
          <5> HIDE DEF k
          <5> QED BY <5>1, <5>2, <5>3 DEF k
        <4> QED BY <2>4, <4>1, <4>2
      <3> QED BY <3>1, <3>2 DEF AllNames
    <2>5. CASE \/ Unroutable(d) \/ NotLocal(d) \/ Stage(d) \/ Delivered(d)
               \/ Offer(d) \/ Published(d) \/ Outcome(d)
      <3>1. pc[d] # "idle"
        BY <2>5 DEF Unroutable, NotLocal, Stage, Delivered, Offer, Published, Outcome
      <3>2. job'[d].byName = job[d].byName
        BY ZenonT(40), <2>0, <2>5, JobAfter
        DEF Unroutable, NotLocal, Stage, Delivered, Offer, Published, Outcome, Job
      <3> QED BY <3>1, <3>2 DEF AllNames
    <2>6. CASE Commit(d)
      <3>1. pc[d] # "idle"
        BY <2>6 DEF Commit
      <3>2. PICK r : \/ job'[d] = [[job[d] EXCEPT !.staged = @ \ {r}] EXCEPT !.committed = @ \cup {r}]
                     \/ job'[d] = [[job[d] EXCEPT !.staged = @ \ {r}] EXCEPT !.missed = @ \cup {r}]
        BY <2>6, JobAfter DEF Commit
      <3>3. job'[d].byName = job[d].byName
        BY <2>0, <3>2 DEF Job
      <3> QED BY <3>1, <3>3 DEF AllNames
    <2>7. CASE Publish(d)
      <3>1. pc[d] # "idle"
        BY <2>7 DEF Publish
      <3>2. PICK r : \/ job'[d] = [[job[d] EXCEPT !.waiting = @ \ {r}] EXCEPT !.took = @ \cup {r}]
                     \/ job'[d] = [[job[d] EXCEPT !.waiting = @ \ {r}] EXCEPT !.refused = @ \cup {r}]
        BY <2>7, JobAfter DEF Publish
      <3>3. job'[d].byName = job[d].byName
        BY <2>0, <3>2 DEF Job
      <3> QED BY <3>1, <3>3 DEF AllNames
    <2> QED BY <1>1, <2>1, <2>2, <2>3, <2>4, <2>5, <2>6, <2>7 DEF Route
  <1>2. ASSUME NEW d \in Daemon, Route(d) \/ Crash(d) PROVE AllNames'
    BY <1>1, <1>2, OthersKept DEF AllNames
  <1>3. CASE UNCHANGED <<pc, job>>
    BY <1>3 DEF AllNames
  <1> QED BY <1>2, <1>3 DEF Next, Tell, Read, vars

\* The accounts of a daemon through a step of its own that wrote only to n.
LEMMA AccountSelf ==
  ASSUME Sound, Sound', AccountInv, NEW d \in Daemon, Route(d) \/ Crash(d)
  PROVE  Accounts(d)'
  <1>0. job[d] \in Job /\ job'[d] \in Job /\ Untried(d) /\ Accounts(d)
    BY JobOf DEF Sound, Typed, TypeOK, OnceInv, PathsUntried, AccountInv
  <1>1. CASE \/ StartPass(d) \/ ScanOutbox(d) \/ ScanDone(d) \/ IngestFile(d)
             \/ UnlinkCopied(d) \/ IngestBundle(d) \/ StartTurn(d) \/ EndPass(d)
             \/ Settle(d) \/ Crash(d)
    <2>1. pc'[d] \notin InFlight
      BY <1>1, JobAfter DEF StartPass, ScanOutbox, ScanDone, IngestFile, UnlinkCopied,
            IngestBundle, StartTurn, EndPass, Settle, Crash, InFlight
    <2> QED BY <2>1 DEF Accounts, InFlight
  <1>2. CASE Claim(d)
    <2>1. pc'[d] \in {"turn", "stage"}
      BY <1>2, JobAfter DEF Claim
    <2> QED BY <2>1 DEF Accounts
  <1>3. CASE pc[d] \in InFlight /\ Route(d)
    <2>0. PICK m \in Msg : m = job[d].cur
      BY <1>3, JobOf DEF Sound
    <2>1. /\ job[d].owner \in Agent /\ header[m] \in Headers /\ Grows(m)
          /\ at[m] = {<<"sending", job[d].owner>>}
      <3>1. header[m] # None
        BY <1>3, <2>0, HeldIsOpen
      <3> QED BY <1>3, <2>0, <3>1, HeldIsOpen, StepGrows DEF Next, Grows
    <2>2. /\ header[m].members \subseteq Agent /\ header'[m] = header[m]
          /\ header[m].kind \in Kinds
      BY <2>1, RoutingAssumption DEF Grows
    <2>3. /\ \A a \in Agent : MemberAnswered(m, a) => MemberAnswered(m, a)'
          /\ LocalAnswered(m) => LocalAnswered(m)'
          /\ RemotesAnswered(m) => RemotesAnswered(m)'
          /\ \A e, p : Row(e, m, p) => Row(e, m, p)'
      BY <2>1, AnswersKept
    <2>4. job[d].owner \in Senders(header[m])
      BY <2>1 DEF AccountInv, OwnersAreSenders, Sending
    <2>5. CASE Unroutable(d)
      <3>1. /\ pc'[d] = "settle" /\ job'[d].cur = m /\ job'[d].verdict = "DROPPED"
            /\ Row("DROPPED", m, "message")'
        BY <1>0, <2>0, <2>5, JobAfter DEF Unroutable, Job, Row
      <3> QED BY <3>1 DEF Accounts
    <2>6. CASE NotLocal(d)
      <3>1. pc'[d] = "remote" /\ job'[d].cur = m /\ header[m].kind = "unknown"
        BY <1>0, <2>0, <2>6, JobAfter DEF NotLocal, Job, Envelope
      <3>2. LocalAnswered(m)
        BY <2>1, <3>1, UnknownAssumption DEF LocalAnswered
      <3> QED BY <2>3, <3>1, <3>2 DEF Accounts
    <2>7. CASE Stage(d)
      <3>1. pc[d] = "stage" /\ UNCHANGED <<header, inbox, rows, commits>>
        BY <2>7 DEF Stage, mail, history
      <3>2. job[d].byName = Agent
        BY <3>1 DEF AccountInv, AllNames
      <3>3. \A a \in header[m].members :
              a \in Recipients(d) \/ MemberAnswered(m, a)
        BY <2>0, <2>2, <2>4, <3>2 DEF Recipients, Envelope, MemberAnswered
      <3>4. CASE Recipients(d) = {}
        <4>1. pc'[d] = "remote" /\ job'[d].cur = m
          BY <1>0, <2>0, <2>7, <3>4, JobAfter DEF Stage, Job
        <4>2. LocalAnswered(m)
          BY <3>3, <3>4 DEF LocalAnswered
        <4> QED BY <2>3, <4>1, <4>2 DEF Accounts
      <3>5. CASE Recipients(d) # {}
        <4> DEFINE new == {r \in Recipients(d) : m \notin inbox[r]}
                   whole == Envelope(d).files => Pending(job[d].owner) \in bundleAt[m]
        <4>1. \/ /\ pc'[d] = "commit"
                 /\ job'[d] = [job[d] EXCEPT !.staged = new, !.whole = whole]
              \/ /\ pc'[d] = "remote"
                 /\ job'[d] = [job[d] EXCEPT !.local = "failed"]
          BY <2>0, <2>7, <3>5, JobAfter DEF Stage
        <4>2. CASE /\ pc'[d] = "commit"
                   /\ job'[d] = [job[d] EXCEPT !.staged = new, !.whole = whole]
          <5>1. job'[d].cur = m /\ job'[d].staged = new
            BY <1>0, <2>0, <4>2 DEF Job
          <5>2. \A a \in header[m].members : a \in new \/ MemberAnswered(m, a)
            <6>1. \A a \in Recipients(d) : a \in new \/ commits[m][a] > 0
              BY <2>0, <2>2 DEF AccountInv, InboxTried, Recipients, Envelope
            <6> HIDE DEF new
            <6> QED BY <3>3, <6>1 DEF MemberAnswered
          <5> HIDE DEF new
          <5> QED BY <2>2, <2>3, <4>2, <5>1, <5>2 DEF Accounts
        <4>3. CASE pc'[d] = "remote" /\ job'[d] = [job[d] EXCEPT !.local = "failed"]
          <5>1. job'[d].cur = m /\ job'[d].local = "failed"
            BY <1>0, <2>0, <4>3 DEF Job
          <5> QED BY <4>3, <5>1 DEF Accounts
        <4> QED BY <4>1, <4>2, <4>3
      <3> QED BY <3>4, <3>5
    <2>8. CASE Commit(d)
      <3>1. pc[d] = "commit" /\ pc'[d] = "commit"
        BY <2>8 DEF Commit
      <3>2. PICK r \in job[d].staged :
              \/ /\ commits' = [commits EXCEPT ![m][r] = @ + 1]
                 /\ job'[d] = [[job[d] EXCEPT !.staged = @ \ {r}] EXCEPT !.committed = @ \cup {r}]
              \/ job'[d] = [[job[d] EXCEPT !.staged = @ \ {r}] EXCEPT !.missed = @ \cup {r}]
        BY <2>0, <2>8, JobAfter DEF Commit
      <3>3. r \in Agent
        BY <1>0 DEF Job
      <3>4. job'[d].cur = m
        BY <1>0, <2>0, <3>2 DEF Job
      <3>5. \A a \in header[m].members :
              a \in job'[d].staged \cup job'[d].missed \/ MemberAnswered(m, a)'
        <4>1. CASE /\ commits' = [commits EXCEPT ![m][r] = @ + 1]
                   /\ job'[d] = [[job[d] EXCEPT !.staged = @ \ {r}] EXCEPT !.committed = @ \cup {r}]
          <5>1. /\ job'[d].staged = job[d].staged \ {r} /\ job'[d].missed = job[d].missed
            BY <1>0, <4>1 DEF Job
          <5>2. commits'[m][r] > 0
            <6>1. commits[m][r] \in Nat /\ commits'[m][r] = commits[m][r] + 1
              BY <3>3, <4>1 DEF Sound, Typed, TypeOK
            <6> QED BY <6>1
          <5> QED BY <1>0, <2>0, <2>2, <2>3, <3>1, <5>1, <5>2 DEF Accounts, MemberAnswered
        <4>2. CASE job'[d] = [[job[d] EXCEPT !.staged = @ \ {r}] EXCEPT !.missed = @ \cup {r}]
          <5>1. /\ job'[d].staged = job[d].staged \ {r}
                /\ job'[d].missed = job[d].missed \cup {r}
            BY <1>0, <4>2 DEF Job
          <5> QED BY <1>0, <2>0, <2>2, <2>3, <3>1, <5>1 DEF Accounts
        <4> QED BY <3>2, <4>1, <4>2
      <3> QED BY <2>2, <3>1, <3>4, <3>5 DEF Accounts
    <2>9. CASE Delivered(d)
      <3> DEFINE none == job[d].committed = {} /\ job[d].missed # {}
      <3>1. /\ pc[d] = "commit" /\ pc'[d] = "remote" /\ job[d].staged = {}
            /\ job'[d] = [job[d] EXCEPT !.local = IF none THEN "failed" ELSE "delivered"]
            /\ ~none => \A r \in job[d].missed : Row("DROPPED", m, r)'
        BY <2>0, <2>9, JobAfter DEF Delivered, Row
      <3>2. job'[d].cur = m /\ (none => job'[d].local = "failed")
        BY <1>0, <2>0, <3>1 DEF Job
      <3>3. CASE none
        BY <3>1, <3>2, <3>3 DEF Accounts
      <3>4. CASE ~none
        <4>1. \A a \in header[m].members : MemberAnswered(m, a)'
          BY <1>0, <2>0, <2>2, <2>3, <3>1, <3>4 DEF Accounts, MemberAnswered
        <4> QED BY <2>2, <3>1, <3>2, <4>1 DEF Accounts, LocalAnswered
      <3> QED BY <3>3, <3>4
    <2>10. CASE Offer(d)
      <3>1. /\ pc[d] = "remote" /\ pc'[d] \in {"publish", "outcome"}
            /\ job'[d].cur = m /\ job'[d].local = job[d].local
        BY <1>0, <2>0, <2>10, JobAfter DEF Offer, Job
      <3>2. job'[d].local = "failed" \/ LocalAnswered(m)'
        BY <1>0, <2>0, <2>3, <3>1 DEF Accounts
      <3>3. CASE pc'[d] = "publish"
        <4>1. job'[d] = [job[d] EXCEPT !.waiting = Remote]
          BY <2>10, <3>3, JobAfter DEF Offer
        <4>2. job'[d].waiting = Remote
          BY <1>0, <4>1 DEF Job
        <4> QED BY <3>1, <3>2, <3>3, <4>2 DEF Accounts
      <3>4. CASE pc'[d] = "outcome"
        <4>1. \/ Remote = {} \/ (header[m].files /\ ~Services)
              \/ job'[d] = [job[d] EXCEPT !.refused = Remote]
          <5>0. \/ Remote = {} \/ (Envelope(d).files /\ ~Services)
                \/ SetJob(d, [job[d] EXCEPT !.refused = Remote])
                \/ Goto(d, "publish")
            BY <2>10, Zenon DEF Offer
          <5>1. \/ Remote = {} \/ (header[m].files /\ ~Services)
                \/ SetJob(d, [job[d] EXCEPT !.refused = Remote])
                \/ Goto(d, "publish")
            BY <2>0, <5>0 DEF Envelope
          <5>2. CASE SetJob(d, [job[d] EXCEPT !.refused = Remote])
            BY <5>2, JobAfter
          <5>3. ~Goto(d, "publish")
            <6>1. pc'[d] # "publish"
              BY <3>4
            <6> QED BY <6>1, JobAfter
          <5> QED BY <5>1, <5>2, <5>3
        <4>2. \/ Remote = {} \/ (header[m].files /\ ~Services) \/ job'[d].refused = Remote
          BY <1>0, <4>1 DEF Job
        <4> QED BY <2>2, <3>1, <3>2, <3>4, <4>2 DEF Accounts
      <3> QED BY <3>1, <3>3, <3>4
    <2>11. CASE Publish(d)
      <3>1. pc[d] = "publish" /\ pc'[d] = "publish"
        BY <2>11 DEF Publish
      <3>2. PICK r \in job[d].waiting :
              \/ /\ Row("PUBLISHED", m, r)'
                 /\ job'[d] = [[job[d] EXCEPT !.waiting = @ \ {r}] EXCEPT !.took = @ \cup {r}]
              \/ job'[d] = [[job[d] EXCEPT !.waiting = @ \ {r}] EXCEPT !.refused = @ \cup {r}]
        BY <2>0, <2>11, JobAfter DEF Publish, Row
      <3>3. /\ job'[d].cur = m /\ job'[d].local = job[d].local
            /\ job'[d].waiting = job[d].waiting \ {r}
            /\ \/ Row("PUBLISHED", m, r)' /\ job'[d].refused = job[d].refused
               \/ job'[d].refused = job[d].refused \cup {r}
        <4>1. CASE /\ Row("PUBLISHED", m, r)'
                   /\ job'[d] = [[job[d] EXCEPT !.waiting = @ \ {r}] EXCEPT !.took = @ \cup {r}]
          BY <1>0, <2>0, <4>1 DEF Job
        <4>2. CASE job'[d] = [[job[d] EXCEPT !.waiting = @ \ {r}] EXCEPT !.refused = @ \cup {r}]
          BY <1>0, <2>0, <4>2 DEF Job
        <4> QED BY <3>2, <4>1, <4>2
      <3>4. \A s \in Remote : s \in job'[d].waiting \cup job'[d].refused \/ Row("PUBLISHED", m, s)'
        BY <1>0, <2>0, <2>3, <3>1, <3>3 DEF Accounts
      <3>5. job'[d].local = "failed" \/ LocalAnswered(m)'
        BY <1>0, <2>0, <2>3, <3>1, <3>3 DEF Accounts
      <3> QED BY <3>1, <3>3, <3>4, <3>5 DEF Accounts
    <2>12. CASE Published(d)
      <3>1. /\ pc[d] = "publish" /\ pc'[d] = "outcome" /\ job'[d] = job[d]
            /\ job[d].waiting = {}
        BY <2>12, JobAfter DEF Published
      <3> QED BY <1>0, <2>0, <2>2, <2>3, <3>1 DEF Accounts
    <2>13. CASE Outcome(d)
      <3>1. pc[d] = "outcome" /\ pc'[d] = "settle"
        BY <2>13, JobAfter DEF Outcome
      <3>2. PICK v \in {"DROPPED", "sent", "DISCARDED"} :
              /\ job'[d] = [job[d] EXCEPT !.verdict = v]
              /\ v # "sent" => Row(v, m, "message")'
              /\ v = "sent" => /\ \A r \in job[d].refused : Row("DROPPED", m, r)'
                               /\ job[d].local = "failed" => Row("DROPPED", m, "local")'
        <4> DEFINE none == job[d].local = "unknown" /\ Remote = {}
                   some == job[d].local = "delivered" \/ job[d].took # {}
                   lost == {<<"DROPPED", m, r>> : r \in job[d].refused}
                             \cup IF job[d].local = "failed" THEN {<<"DROPPED", m, "local">>} ELSE {}
                   w == CASE none -> "DROPPED" [] ~none /\ some -> "sent"
                          [] OTHER -> "DISCARDED"
        <4>1. w \in {"DROPPED", "sent", "DISCARDED"}
          OBVIOUS
        <4>2. /\ job'[d] = [job[d] EXCEPT !.verdict = w]
              /\ rows' = rows \cup IF w = "sent" THEN lost ELSE {<<w, m, "message">>}
          BY <2>0, <2>13, JobAfter DEF Outcome
        <4>3. (\A r \in job[d].refused : <<"DROPPED", m, r>> \in lost)
              /\ (job[d].local = "failed" => <<"DROPPED", m, "local">> \in lost)
          OBVIOUS
        <4> HIDE DEF w, lost
        <4> QED BY <4>1, <4>2, <4>3 DEF Row
      <3>3. job'[d].cur = m /\ job'[d].verdict = v
        BY <1>0, <2>0, <3>2 DEF Job
      <3>4. CASE v # "sent"
        BY <3>1, <3>2, <3>3, <3>4 DEF Accounts
      <3>5. CASE v = "sent"
        <4>1. RemotesAnswered(m)'
          BY <1>0, <2>0, <2>2, <2>3, <3>1, <3>2, <3>5 DEF Accounts, RemotesAnswered
        <4>2. Row("DROPPED", m, "local")' \/ LocalAnswered(m)'
          BY <1>0, <2>0, <2>3, <3>1, <3>2, <3>5 DEF Accounts
        <4> QED BY <3>1, <3>3, <3>5, <4>1, <4>2 DEF Accounts
      <3> QED BY <3>4, <3>5
    <2> QED BY <1>1, <1>2, <1>3, <2>5, <2>6, <2>7, <2>8, <2>9, <2>10, <2>11, <2>12, <2>13
        DEF Route
  <1>4. Route(d) /\ pc[d] \notin InFlight =>
          \/ StartPass(d) \/ ScanOutbox(d) \/ ScanDone(d) \/ IngestFile(d)
          \/ UnlinkCopied(d) \/ IngestBundle(d) \/ StartTurn(d) \/ EndPass(d) \/ Claim(d)
    BY DEF Route, Unroutable, NotLocal, Stage, Commit, Delivered, Offer, Publish,
           Published, Outcome, Settle, InFlight
  <1> QED BY <1>1, <1>2, <1>3, <1>4

\* A step that leaves a message settled settled it already, or is the settling.
LEMMA SettledBefore ==
  ASSUME Sound, Sound', NEW d \in Daemon, Route(d) \/ Crash(d), NEW m \in Msg,
         Settled(m)', ~(Settle(d) /\ job[d].cur = m)
  PROVE  Settled(m) /\ at'[m] = at[m]
  <1>1. at'[m] = at[m]
    <2>1. CASE IngestFile(d) \/ Claim(d)
      <3>1. \A p \in at'[m] : p[1] = "trash"
        BY DEF Settled, Trash
      <3> QED BY <2>1, <3>1, MovedStaysOpen
    <2>2. CASE Settle(d)
      <3>1. ~Holding(d, m) /\ pc[d] \in InFlight
        BY <2>2 DEF Holding, Settle, InFlight
      <3>2. job[d].cur \in Msg /\ job[d].cur # m
        BY <2>2, <3>1, JobOf DEF Sound
      <3> QED BY <2>2, <3>2 DEF Settle, Sound, Typed, TypeOK
    <2>3. CASE UnlinkCopied(d)
      BY <2>3, UnclaimedOnce DEF Sound
    <2> QED BY <2>1, <2>2, <2>3
      DEF Route, Crash, StartPass, ScanOutbox, ScanDone, IngestBundle, StartTurn, EndPass,
          Unroutable, NotLocal, Stage, Commit, Delivered, Offer, Publish, Published,
          Outcome, mail
  <1>2. header' = header
    BY DEF Route, Crash, StartPass, ScanOutbox, ScanDone, IngestFile, UnlinkCopied,
           IngestBundle, StartTurn, EndPass, Claim, Unroutable, NotLocal, Stage,
           Commit, Delivered, Offer, Publish, Published, Outcome, Settle, mail
  <1> QED BY <1>1, <1>2 DEF Settled

\* What EveryPathAccounted asks of one message.
Accounted(m) ==
  IF Trashed(m) THEN Row("DROPPED", m, "message") \/ Row("DISCARDED", m, "message")
  ELSE RemotesAnswered(m) /\ (Row("DROPPED", m, "local") \/ LocalAnswered(m))

LEMMA AccountedEach ==
  EveryPathAccounted <=> \A m \in Msg : Settled(m) => Accounted(m)
  <1> DEFINE row(m, e, p) == <<e, m, p>> \in rows
             Each(m) ==
               IF Trashed(m) THEN row(m, "DROPPED", "message") \/ row(m, "DISCARDED", "message")
               ELSE /\ \A r \in Remote :
                         \/ row(m, "PUBLISHED", r) \/ row(m, "DROPPED", r)
                         \/ header[m].files /\ ~Services
                    /\ \A a \in header[m].members :
                         \/ commits[m][a] > 0 \/ row(m, "DROPPED", a)
                         \/ row(m, "DROPPED", "local")
                         \/ header[m].kind # "agent" /\ a \in Senders(header[m])
  <1>1. EveryPathAccounted <=> \A m \in Msg : Settled(m) => Each(m)
    BY DEF EveryPathAccounted
  <1>2. ASSUME NEW m \in Msg PROVE Each(m) <=> Accounted(m)
    BY DEF Accounted, RemotesAnswered, LocalAnswered, MemberAnswered, Row
  <1> HIDE DEF Each
  <1> QED BY <1>1, <1>2

LEMMA AccountedKept ==
  ASSUME Sound, Sound', AccountInv, [Next]_vars, NEW m \in Msg, Settled(m),
         at'[m] = at[m]
  PROVE  Accounted(m)'
  <1>1. Accounted(m) /\ header[m] # None
    BY AccountedEach DEF AccountInv, Settled
  <1>2. Trashed(m)' <=> Trashed(m)
    BY DEF Trashed, Trash
  <1> QED BY <1>1, <1>2, StepGrows, AnswersKept DEF Accounted

LEMMA EveryPathStep ==
  ASSUME CrossDevice = {}, Sound, Sound', AccountInv, [Next]_vars
  PROVE  EveryPathAccounted'
  <1> SUFFICES ASSUME NEW m \in Msg, Settled(m)' PROVE Accounted(m)'
    <2>1. \A m \in Msg : Settled(m)' => Accounted(m)'
      OBVIOUS
    <2>2. (\A m \in Msg : Settled(m) => Accounted(m))' => EveryPathAccounted'
      BY AccountedEach, PTL
    <2> QED BY <2>1, <2>2
  <1>1. CASE \E n \in Msg, h \in Headers : Tell(n, h)
    <2>1. PICK n \in Msg, h \in Headers : Tell(n, h)
      BY <1>1
    <2>2. at'[n] = {OutboxFor(h)}
      BY <2>1 DEF Tell, Sound, Typed, TypeOK
    <2>3. n # m
      <3>1. OutboxFor(h) \notin {Trash(a) : a \in Agent}
        BY DEF OutboxFor, Trash
      <3>2. at'[m] \subseteq {Trash(a) : a \in Agent}
        BY DEF Settled, Trash
      <3> QED BY <2>2, <3>1, <3>2
    <2>4. header'[m] = header[m] /\ at'[m] = at[m]
      BY <2>1, <2>3 DEF Tell, Sound, Typed, TypeOK
    <2> QED BY <2>4, AccountedKept DEF Settled
  <1>2. CASE (\E a \in Agent, n \in Msg : Read(a, n)) \/ UNCHANGED vars
    <2>1. header' = header /\ at' = at
      BY <1>2 DEF Read, vars, mail
    <2> QED BY <2>1, AccountedKept DEF Settled
  <1>3. ASSUME NEW d \in Daemon, Route(d) \/ Crash(d) PROVE Accounted(m)'
    <2>1. CASE ~(Settle(d) /\ job[d].cur = m)
      BY <1>3, <2>1, SettledBefore, AccountedKept
    <2>2. CASE Settle(d) /\ job[d].cur = m
      <3>1. pc[d] = "settle" /\ pc[d] \in InFlight
        BY <2>2 DEF Settle, InFlight
      <3>2. /\ at[m] = {<<"sending", job[d].owner>>} /\ job[d].owner \in Agent
            /\ header[m] # None
        BY <2>2, <3>1, HeldIsOpen
      <3>3. <<"sending", job[d].owner>> \notin at'[m]
        BY DEF Settled, Trash
      <3>4. at'[m] = IF job[d].verdict = "sent" THEN {} ELSE {Trash(job[d].owner)}
        BY <2>2, <3>2, <3>3 DEF Settle, Holds, Sending, Sound, Typed, TypeOK
      <3>5. Accounts(d) /\ Grows(m)
        BY <3>2, StepGrows DEF AccountInv
      <3>6. CASE job[d].verdict = "sent"
        <4>1. RemotesAnswered(m) /\ (Row("DROPPED", m, "local") \/ LocalAnswered(m))
          BY <2>2, <3>1, <3>5, <3>6 DEF Accounts
        <4>2. ~Trashed(m)'
          BY <3>4, <3>6 DEF Trashed
        <4> QED BY <3>5, <4>1, <4>2, AnswersKept DEF Accounted
      <3>7. CASE job[d].verdict # "sent"
        <4>1. Row("DROPPED", m, "message") \/ Row("DISCARDED", m, "message")
          BY <2>2, <3>1, <3>5, <3>7 DEF Accounts
        <4>2. Trashed(m)'
          BY <3>2, <3>4, <3>7 DEF Trashed
        <4> QED BY <3>5, <4>1, <4>2, AnswersKept DEF Accounted
      <3> QED BY <3>6, <3>7
    <2> QED BY <2>1, <2>2
  <1> QED BY <1>1, <1>2, <1>3 DEF Next

LEMMA NextAccount ==
  ASSUME CrossDevice = {}, Lagging = {}, IsFiniteSet(Agent)
  PROVE  Sound /\ AccountInv /\ [Next]_vars => AccountInv'
  <1> SUFFICES ASSUME Sound, AccountInv, [Next]_vars PROVE AccountInv'
    OBVIOUS
  <1>1. Sound'
    BY NextSound
  <1>2. OwnersAreSenders' /\ InboxTried' /\ AllNames' /\ EveryPathAccounted'
    BY <1>1, OwnersStep, InboxStep, NamesStep, EveryPathStep DEF AccountInv
  <1>3. ASSUME NEW e \in Daemon PROVE Accounts(e)'
    <2>1. Accounts(e)
      BY DEF AccountInv
    <2>2. pc[e] \in InFlight => job[e].cur \in Msg /\ Grows(job[e].cur)
      BY HeldIsOpen, StepGrows
    <2>3. CASE pc'[e] = pc[e] /\ job'[e] = job[e]
      BY <2>1, <2>2, <2>3, AccountsKept
    <2>4. ASSUME NEW d \in Daemon, Route(d) \/ Crash(d) PROVE Accounts(e)'
      BY <1>1, <2>3, <2>4, AccountSelf, OthersKept
    <2> QED BY <2>3, <2>4 DEF Next, Tell, Read, vars
  <1> QED BY <1>2, <1>3 DEF AccountInv

\* No path of a message is lost without a trace: once it is settled, a message
\* in trash has its drop row, and a sent one has for every recipient and every
\* remote a delivery or a drop row; for any number of handlers sharing outboxes,
\* with any step failing and any number of deaths. Assumed: the outboxes are on
\* the filesystem of the state root, the agents are finitely many, and no agent
\* registers in the middle of a pass (such a recipient is left out of it).
THEOREM NoPathUnaccounted ==
  ASSUME CrossDevice = {}, Lagging = {}, IsFiniteSet(Agent)
  PROVE  Spec => []EveryPathAccounted
  <1>1. Init => Sound /\ AccountInv
    BY InitSound, InitAccount
  <1>2. Sound /\ AccountInv /\ [Next]_vars => Sound' /\ AccountInv'
    BY NextSound, NextAccount
  <1>3. AccountInv => EveryPathAccounted
    BY DEF AccountInv
  <1> QED BY <1>1, <1>2, <1>3, PTL DEF Spec

-----------------------------------------------------------------------------
(* Only a death strands a message, and each death at most one: whatever     *)
(* else a handler does with a file in sending/, it goes on holding it or    *)
(* moves it on.                                                             *)

SameTurn(d) ==
  /\ job'[d].cur = job[d].cur /\ job'[d].owner = job[d].owner
  /\ job'[d].boxes = job[d].boxes /\ job'[d].turns = job[d].turns

\* From the claim to the settling a daemon goes on with the same message.
LEMMA FlightKeeps ==
  ASSUME Sound, NEW d \in Daemon, Route(d), ~Settle(d), pc[d] \in InFlight
  PROVE  pc'[d] \in InFlight /\ SameTurn(d)
  <1>0. job[d] \in Job
    BY JobOf DEF Sound
  <1>1. CASE \/ Unroutable(d) \/ NotLocal(d) \/ Stage(d) \/ Delivered(d)
             \/ Offer(d) \/ Published(d) \/ Outcome(d)
    <2>1. pc'[d] \in InFlight
      BY <1>1, JobAfter
      DEF Unroutable, NotLocal, Stage, Delivered, Offer, Published, Outcome, InFlight
    <2>2. SameTurn(d)
      <3>1. CASE Unroutable(d) \/ NotLocal(d) \/ Published(d)
        BY <1>0, <3>1, JobAfter DEF Unroutable, NotLocal, Published, Job, SameTurn
      <3>2. CASE Stage(d)
        BY ZenonT(40), <1>0, <3>2, JobAfter DEF Stage, Job, SameTurn
      <3>3. CASE Delivered(d)
        BY <1>0, <3>3, JobAfter DEF Delivered, Job, SameTurn
      <3>4. CASE Offer(d)
        BY <1>0, <3>4, JobAfter DEF Offer, Job, SameTurn
      <3>5. CASE Outcome(d)
        BY <1>0, <3>5, JobAfter DEF Outcome, Job, SameTurn
      <3> QED BY <1>1, <3>1, <3>2, <3>3, <3>4, <3>5
    <2> QED BY <2>1, <2>2
  <1>2. CASE Commit(d)
    <2>1. PICK r : \/ job'[d] = [[job[d] EXCEPT !.staged = @ \ {r}] EXCEPT !.committed = @ \cup {r}]
                   \/ job'[d] = [[job[d] EXCEPT !.staged = @ \ {r}] EXCEPT !.missed = @ \cup {r}]
      BY <1>2, JobAfter DEF Commit
    <2>2. SameTurn(d)
      BY <1>0, <2>1 DEF Job, SameTurn
    <2> QED BY <1>2, <2>2 DEF Commit
  <1>3. CASE Publish(d)
    <2>1. PICK r : \/ job'[d] = [[job[d] EXCEPT !.waiting = @ \ {r}] EXCEPT !.took = @ \cup {r}]
                   \/ job'[d] = [[job[d] EXCEPT !.waiting = @ \ {r}] EXCEPT !.refused = @ \cup {r}]
      BY <1>3, JobAfter DEF Publish
    <2>2. SameTurn(d)
      BY <1>0, <2>1 DEF Job, SameTurn
    <2> QED BY <1>3, <2>2 DEF Publish
  <1> QED BY <1>1, <1>2, <1>3
      DEF Route, StartPass, ScanOutbox, ScanDone, IngestFile, UnlinkCopied, IngestBundle,
          StartTurn, EndPass, Claim, InFlight

\* A routing step strands nothing.
LEMMA RouteStrandsNone ==
  ASSUME "settle" \notin Faults, CrossDevice = {}, Sound, Sound', NEW d \in Daemon,
         Route(d), NEW m \in Msg, Stranded(m)'
  PROVE  Stranded(m)
  <1>0. at \in [Msg -> SUBSET Place] /\ pc \in [Daemon -> Steps]
    BY DEF Sound, Typed, TypeOK
  <1>1. PICK a \in Agent : Sending(a) \in at'[m]
    BY DEF Stranded, Sending
  <1>2. ~\E e \in Daemon : pc'[e] \in InFlight /\ job'[e].cur = m
    BY DEF Stranded, Holding
  <1>3. at'[m] = at[m]
    <2>1. CASE Settle(d)
      <3>1. /\ job[d].cur \in Msg
            /\ at[job[d].cur] = {<<"sending", job[d].owner>>}
        BY <2>1, HeldIsOpen DEF Settle, InFlight
      <3>2. \E end \in SUBSET {Trash(job[d].owner)} :
              at' = [at EXCEPT ![job[d].cur] = (@ \ {Holds(d)}) \cup end]
        BY <2>1 DEF Settle
      <3>3. m # job[d].cur
        BY <1>0, <1>1, <3>1, <3>2 DEF Holds, Sending, Trash
      <3> QED BY <1>0, <3>1, <3>2, <3>3
    <2>2. CASE IngestFile(d)
      <3>1. PICK n \in job[d].queue :
              \/ at' = at
              \/ LET src == <<"outbox", OutboxOf[header[n].sender]>>
                 IN /\ src \in at[n]
                    /\ \E o : at' = [at EXCEPT ![n] = (@ \ {src}) \cup {Pending(o)}]
        BY <2>2 DEF IngestFile, Earliest, MoveFile
      <3>2. n \in Msg
        BY JobOf DEF Sound, Job
      <3>3. CASE at'[m] # at[m]
        <4> DEFINE src == <<"outbox", OutboxOf[header[n].sender]>>
        <4>1. PICK o : src \in at[n] /\ at' = [at EXCEPT ![n] = (@ \ {src}) \cup {Pending(o)}]
          BY <3>1, <3>3
        <4>2. n = m /\ Sending(a) \in at[m]
          BY <1>0, <1>1, <3>2, <3>3, <4>1 DEF Pending, Sending
        <4>3. Sending(a) # src
          BY DEF Sending
        <4> QED BY <4>1, <4>2, <4>3 DEF Sound, OnceInv, OneFile
      <3> QED BY <3>3
    <2>3. CASE Claim(d)
      <3>1. PICK n \in job[d].queue :
              \/ at' = at
              \/ \E S : /\ at' = [at EXCEPT ![n] = S]
                        /\ job'[d] = Fresh([job[d] EXCEPT !.queue = @ \ {n}], n)
                        /\ pc'[d] = "stage"
        BY <2>3, JobAfter DEF Claim, Earliest, MoveFile
      <3>2. n \in Msg /\ job[d] \in Job
        BY JobOf DEF Sound, Job
      <3>3. [job[d] EXCEPT !.queue = @ \ {n}] \in Job
        BY <3>2 DEF Job
      <3>4. Fresh([job[d] EXCEPT !.queue = @ \ {n}], n).cur = n
        BY <3>3, FreshKeeps
      <3> QED BY <1>0, <1>2, <3>1, <3>2, <3>4 DEF InFlight
    <2>4. CASE UnlinkCopied(d)
      BY <2>4, UnclaimedOnce DEF Sound
    <2> QED BY <2>1, <2>2, <2>3, <2>4
      DEF Route, StartPass, ScanOutbox, ScanDone, IngestBundle, StartTurn, EndPass,
          Unroutable, NotLocal, Stage, Commit, Delivered, Offer, Publish, Published,
          Outcome, mail
  <1>4. ASSUME NEW e \in Daemon, Holding(e, m) PROVE FALSE
    <2>1. CASE e # d
      BY <1>2, <1>4, <2>1, OthersKept DEF Holding
    <2>2. CASE e = d /\ ~Settle(d)
      BY <1>2, <1>4, <2>2, FlightKeeps DEF Holding, SameTurn
    <2>3. CASE e = d /\ Settle(d)
      <3>1. at[m] = {<<"sending", job[d].owner>>}
        BY <1>4, <2>3, HeldIsOpen DEF Holding
      <3>2. \E end \in SUBSET {Trash(job[d].owner)} :
              at' = [at EXCEPT ![m] = (@ \ {Holds(d)}) \cup end]
        BY <1>4, <2>3 DEF Settle, Holding
      <3> QED BY <1>0, <1>1, <3>1, <3>2 DEF Holds, Sending, Trash
    <2> QED BY <2>1, <2>2, <2>3
  <1> QED BY <1>1, <1>3, <1>4 DEF Stranded

\* A death strands at most the message the handler worked on.
LEMMA CrashStrandsOne ==
  ASSUME Sound, Sound', NEW d \in Daemon, Crash(d), NEW m \in Msg, Stranded(m)'
  PROVE  Stranded(m) \/ m = job[d].cur
  <1>1. at' = at
    BY DEF Crash, mail
  <1>2. ASSUME NEW e \in Daemon, Holding(e, m) PROVE m = job[d].cur
    <2>1. CASE e = d
      BY <1>2, <2>1 DEF Holding
    <2>2. CASE e # d
      <3>1. Holding(e, m)'
        BY <1>2, <2>2, OthersKept DEF Holding
      <3> QED BY <3>1 DEF Stranded, Holding
    <2> QED BY <2>1, <2>2
  <1> QED BY <1>1, <1>2 DEF Stranded, Sending

LEMMA OutsideStrandsNone ==
  ASSUME Sound, NEW m \in Msg, Stranded(m)',
         \/ \E n \in Msg, h \in Headers : Tell(n, h)
         \/ \E a \in Agent, n \in Msg : Read(a, n)
         \/ UNCHANGED vars
  PROVE  Stranded(m)
  <1>1. CASE \E n \in Msg, h \in Headers : Tell(n, h)
    <2>1. PICK n \in Msg, h \in Headers : Tell(n, h)
      BY <1>1
    <2>2. UNCHANGED <<pc, job>> /\ at' = [at EXCEPT ![n] = {OutboxFor(h)}]
      BY <2>1 DEF Tell
    <2>3. m # n
      BY <2>2 DEF Stranded, Sending, OutboxFor, Sound, Typed, TypeOK
    <2>4. at'[m] = at[m]
      BY <2>2, <2>3 DEF Sound, Typed, TypeOK
    <2> QED BY <2>2, <2>4 DEF Stranded, Holding, Sending
  <1>2. CASE (\E a \in Agent, n \in Msg : Read(a, n)) \/ UNCHANGED vars
    BY <1>2 DEF Read, vars, mail, Stranded, Holding, Sending
  <1> QED BY <1>1, <1>2

LEMMA NextStranded ==
  ASSUME "settle" \notin Faults, CrossDevice = {}
  PROVE  Sound /\ StrandedByCrash /\ [Next]_vars => StrandedByCrash'
  <1> DEFINE S == {m \in Msg : Stranded(m)}
  <1> SUFFICES ASSUME Sound, StrandedByCrash, [Next]_vars PROVE StrandedByCrash'
    OBVIOUS
  <1>1. Sound'
    BY NextSound
  <1>2. IsFiniteSet(Msg)
    BY RoutingAssumption, FS_Interval DEF Msg
  <1>3. IsFiniteSet(S) /\ S \subseteq Msg
    BY <1>2, FS_Subset
  <1>4. crashes \in Nat /\ Cardinality(S) <= crashes /\ Cardinality(S) \in Nat
    BY <1>3, FS_CardinalityType, RoutingAssumption DEF StrandedByCrash, Sound, Typed, TypeOK
  <1>5. CASE S' \subseteq S
    <2>1. Cardinality(S') <= Cardinality(S) /\ Cardinality(S') \in Nat
      BY <1>3, <1>5, FS_Subset, FS_CardinalityType
    <2>2. crashes' = crashes \/ crashes' = crashes + 1
      <3>1. ASSUME NEW d \in Daemon, Route(d) PROVE crashes' = crashes
        BY <3>1 DEF Route, StartPass, ScanOutbox, ScanDone, IngestFile, UnlinkCopied,
           IngestBundle, StartTurn, EndPass, Claim, Unroutable, NotLocal, Stage, Commit,
           Delivered, Offer, Publish, Published, Outcome, Settle
      <3> QED BY <3>1 DEF Next, Tell, Read, vars, Crash
    <2> HIDE DEF S
    <2>3. Cardinality(S') <= crashes'
      BY <1>4, <2>1, <2>2
    <2> QED BY <2>3 DEF StrandedByCrash, S
  <1>6. ASSUME NEW d \in Daemon, Crash(d) PROVE StrandedByCrash'
    <2>1. S' \subseteq S \cup {job[d].cur}
      BY <1>1, <1>6, CrashStrandsOne
    <2>2. crashes' = crashes + 1
      BY <1>6 DEF Crash
    <2> HIDE DEF S
    <2>3. /\ IsFiniteSet(S \cup {job[d].cur})
          /\ Cardinality(S \cup {job[d].cur}) \in Nat
          /\ Cardinality(S \cup {job[d].cur}) <= Cardinality(S) + 1
      <3>1. CASE job[d].cur \in S
        <4>1. S \cup {job[d].cur} = S
          BY <3>1
        <4> QED BY <1>3, <1>4, <4>1
      <3>2. CASE job[d].cur \notin S
        <4>1. /\ IsFiniteSet(S \cup {job[d].cur})
              /\ Cardinality(S \cup {job[d].cur}) = Cardinality(S) + 1
          BY <1>3, <3>2, FS_AddElement
        <4> QED BY <1>4, <4>1
      <3> QED BY <3>1, <3>2
    <2>4. Cardinality(S') <= Cardinality(S \cup {job[d].cur}) /\ Cardinality(S') \in Nat
      BY <2>1, <2>3, FS_Subset, FS_CardinalityType
    <2>5. Cardinality(S') <= crashes'
      BY <1>4, <2>2, <2>3, <2>4
    <2> QED BY <2>5 DEF StrandedByCrash, S
  <1>7. CASE ~\E d \in Daemon : Crash(d)
    <2>1. ASSUME NEW m \in Msg, Stranded(m)' PROVE Stranded(m)
      BY <1>1, <1>7, <2>1, RouteStrandsNone, OutsideStrandsNone DEF Next
    <2>2. S' \subseteq S
      BY <2>1
    <2> QED BY <1>5, <2>2
  <1> QED BY <1>6, <1>7

\* Each death of a handler strands at most the one message it worked on, and
\* nothing else strands one: for any number of handlers, shared outboxes and
\* failing steps other than the one that settles. Assumed: the outboxes are on
\* the filesystem of the state root. Where the settling fails, the file that
\* would not move stays in sending/ without a death.
THEOREM DeathStrandsOne ==
  ASSUME "settle" \notin Faults, CrossDevice = {}
  PROVE  Spec => []StrandedByCrash
  <1>1. Init => Sound /\ StrandedByCrash
    <2>1. ASSUME Init PROVE StrandedByCrash
      <3>1. {m \in Msg : Stranded(m)} = {}
        BY <2>1 DEF Init, Stranded
      <3>2. Cardinality({m \in Msg : Stranded(m)}) = 0
        BY <3>1, FS_EmptySet
      <3>3. crashes = 0
        BY <2>1 DEF Init
      <3> QED BY <3>2, <3>3 DEF StrandedByCrash
    <2> QED BY <2>1, InitSound
  <1>2. Sound /\ StrandedByCrash /\ [Next]_vars => Sound' /\ StrandedByCrash'
    BY NextSound, NextStranded
  <1> QED BY <1>1, <1>2, PTL DEF Spec

-----------------------------------------------------------------------------
(* An attachment travels with its envelope as long as no handler dies and   *)
(* no two handlers serve one outbox: between the rename of the envelope and *)
(* the rename of its bundle only the handler that carries them can claim.   *)

BoxesOf(d) == {OutboxOf[a] : a \in Handled[d]}

\* A daemon works on the outboxes of the agents it holds, and on nothing else.
Scoped(d) ==
  /\ job[d].boxes \subseteq BoxesOf(d)
  /\ \A a \in job[d].turns : OutboxOf[a] \in BoxesOf(d)
  /\ job[d].owner # None => OutboxOf[job[d].owner] \in BoxesOf(d)
  /\ pc[d] \in {"scan", "bundle"} => \A m \in job[d].queue :
       header[m] # None /\ OutboxOf[header[m].sender] \in BoxesOf(d)

InOwnBox == \A m \in Msg, b \in Box :
  <<"outbox", b>> \in at[m] => header[m] # None /\ b = OutboxOf[header[m].sender]

ScopeInv == InOwnBox /\ \A d \in Daemon : Scoped(d)

\* Daemon d moved the envelope of m and not yet its bundle.
Carries(d, m) == pc[d] = "bundle" /\ job[d].cur = m

\* The bundle of a message not yet claimed is where its envelope is, or follows.
BundleFollows(m) ==
  header[m] # None /\ header[m].files =>
    /\ OutboxFor(header[m]) \in at[m] => OutboxFor(header[m]) \in bundleAt[m]
    /\ \A a \in Agent : Pending(a) \in at[m] =>
         Pending(a) \in bundleAt[m] \/ \E d \in Daemon : Carries(d, m)

InHand(d) ==
  LET m == job[d].cur IN
  /\ pc[d] = "bundle" =>
       /\ at[m] = {Pending(job[d].owner)} /\ header[m] # None
       /\ header[m].files => OutboxFor(header[m]) \in bundleAt[m]
  /\ pc[d] = "stage" /\ header[m].files => Pending(job[d].owner) \in bundleAt[m]
  /\ pc[d] = "commit" => job[d].whole

Carried ==
  /\ bare = {}
  /\ \A m \in Msg : BundleFollows(m)
  /\ \A d \in Daemon : InHand(d)

CarryInv == crashes = 0 => Carried

LEMMA InitCarry == Init => ScopeInv /\ CarryInv
  <1> SUFFICES ASSUME Init PROVE ScopeInv /\ CarryInv
    OBVIOUS
  <1>1. ScopeInv
    BY DEF Init, ScopeInv, InOwnBox, Scoped, NoJob
  <1>2. CarryInv
    BY DEF Init, CarryInv, Carried, BundleFollows, InHand
  <1> QED BY <1>1, <1>2

\* Only `tell` puts a file into an outbox.
LEMMA InOwnBoxStep ==
  ASSUME Sound, Sound', ScopeInv, [Next]_vars
  PROVE  InOwnBox'
  <1>0. at \in [Msg -> SUBSET Place]
    BY DEF Sound, Typed, TypeOK
  <1>1. CASE \E n \in Msg, h \in Headers : Tell(n, h)
    <2>1. PICK n \in Msg, h \in Headers : Tell(n, h)
      BY <1>1
    <2>2. /\ at'[n] = {OutboxFor(h)} /\ header'[n] = h /\ h # None
          /\ \A m \in Msg \ {n} : at'[m] = at[m] /\ header'[m] = header[m]
      BY <2>1, RoutingAssumption DEF Tell, Sound, Typed, TypeOK
    <2> QED BY <2>2 DEF ScopeInv, InOwnBox, OutboxFor
  <1>2. ASSUME header' = header,
               \A m \in Msg, b \in Box : <<"outbox", b>> \in at'[m] => <<"outbox", b>> \in at[m]
        PROVE  InOwnBox'
    BY <1>2 DEF ScopeInv, InOwnBox
  <1>3. CASE (\E a \in Agent, n \in Msg : Read(a, n)) \/ UNCHANGED vars
    BY <1>2, <1>3 DEF Read, vars, mail
  <1>4. ASSUME NEW d \in Daemon, Route(d) \/ Crash(d) PROVE InOwnBox'
    <2>0. header' = header
      BY <1>4 DEF Route, Crash, StartPass, ScanOutbox, ScanDone, IngestFile, UnlinkCopied,
             IngestBundle, StartTurn, EndPass, Claim, Unroutable, NotLocal, Stage,
             Commit, Delivered, Offer, Publish, Published, Outcome, Settle, mail
    <2>1. CASE (IngestFile(d) \/ Claim(d) \/ Settle(d)) /\ at' # at
      <3>1. PICK n \in Msg, p \in Place : /\ at' = [at EXCEPT ![n] = at'[n]]
                                          /\ at'[n] \subseteq at[n] \cup {p}
                                          /\ p[1] # "outbox"
        <4>1. CASE Settle(d)
          <5>1. job[d].cur \in Msg /\ job[d].owner \in Agent
            BY <4>1, JobOf DEF Sound, Settle, InFlight
          <5>2. \E S \in SUBSET (at[job[d].cur] \cup {Trash(job[d].owner)}) :
                  at' = [at EXCEPT ![job[d].cur] = S]
            BY <2>1, <4>1 DEF Settle
          <5>3. Trash(job[d].owner) \in Place /\ Trash(job[d].owner)[1] # "outbox"
            BY <5>1 DEF Trash, Place
          <5> QED BY <1>0, <5>1, <5>2, <5>3
        <4>2. CASE Claim(d)
          <5>1. PICK n \in job[d].queue :
                  \E S \in SUBSET at[n] :
                    at' = [at EXCEPT ![n] = S \cup {Sending(job[d].owner)}]
            BY <2>1, <4>2 DEF Claim, Earliest, MoveFile
          <5>2. n \in Msg /\ job[d].owner \in Agent
            BY <4>2, JobOf DEF Sound, Job, Typed, HandsFull, Hands, Claim
          <5>3. Sending(job[d].owner) \in Place /\ Sending(job[d].owner)[1] # "outbox"
            BY <5>2 DEF Sending, Place
          <5> QED BY ZenonT(40), <1>0, <5>1, <5>2, <5>3
        <4>3. CASE IngestFile(d)
          <5>1. PICK n \in job[d].queue :
                  \E o \in Agent : \E S \in SUBSET at[n] :
                    at' = [at EXCEPT ![n] = S \cup {Pending(o)}]
            <6>1. \A b, n : IngestOwner(d, b, n) \subseteq Agent
              BY DEF IngestOwner, Owners
            <6>2. PICK n \in job[d].queue :
                    LET b == OutboxOf[header[n].sender]
                        src == <<"outbox", b>>
                    IN \E o \in IngestOwner(d, b, n) :
                         \/ at' = [at EXCEPT ![n] = @ \cup {Pending(o)}]
                         \/ at' = [at EXCEPT ![n] = (@ \ {src}) \cup {Pending(o)}]
              BY <2>1, <4>3 DEF IngestFile, Earliest, MoveFile
            <6> QED BY <6>1, <6>2
          <5>2. n \in Msg
            BY JobOf DEF Sound, Job
          <5>3. \A o \in Agent : Pending(o) \in Place /\ Pending(o)[1] # "outbox"
            BY DEF Pending, Place
          <5> QED BY <1>0, <5>1, <5>2, <5>3
        <4> QED BY <2>1, <4>1, <4>2, <4>3
      <3>2. \A m \in Msg, b \in Box : <<"outbox", b>> \in at'[m] => <<"outbox", b>> \in at[m]
        <4>1. \A m \in Msg \ {n} : at'[m] = at[m]
          BY <1>0, <3>1
        <4>2. \A b \in Box : <<"outbox", b>> # p
          BY <3>1
        <4> QED BY <3>1, <4>1, <4>2
      <3> QED BY <1>2, <2>0, <3>2
    <2>2. CASE UnlinkCopied(d)
      BY <2>2, UnclaimedOnce DEF Sound
    <2>3. CASE at' = at
      BY <1>2, <2>0, <2>3
    <2> QED BY <1>4, <2>1, <2>2, <2>3
      DEF Route, Crash, StartPass, ScanOutbox, ScanDone, IngestBundle, StartTurn, EndPass,
          Unroutable, NotLocal, Stage, Commit, Delivered, Offer, Publish, Published,
          Outcome, mail
  <1> QED BY <1>1, <1>3, <1>4 DEF Next

LEMMA ScopeSelf ==
  ASSUME Sound, Sound', ScopeInv, NEW d \in Daemon, Route(d) \/ Crash(d)
  PROVE  Scoped(d)'
  <1>0. /\ job[d] \in Job /\ Scoped(d) /\ OutboxOf \in [Agent -> Box]
        /\ BoxesOf(d) \subseteq Box /\ NoJob \in Job
    <2>1. BoxesOf(d) \subseteq Box
      BY RoutingAssumption DEF BoxesOf
    <2> QED BY <2>1, JobOf, NoJobType, RoutingAssumption DEF Sound, ScopeInv
  <1>1. header' = header
    BY DEF Route, Crash, StartPass, ScanOutbox, ScanDone, IngestFile, UnlinkCopied,
           IngestBundle, StartTurn, EndPass, Claim, Unroutable, NotLocal, Stage,
           Commit, Delivered, Offer, Publish, Published, Outcome, Settle, mail
  <1>2. CASE StartPass(d)
    <2>1. PICK late \in SUBSET Lagging :
            job'[d] = [NoJob EXCEPT !.byName = Agent \ late,
                                    !.boxes = {OutboxOf[a] : a \in Handled[d]},
                                    !.turns = Handled[d]]
      BY <1>2, JobAfter DEF StartPass
    <2>2. /\ job'[d].boxes = BoxesOf(d) /\ job'[d].turns = Handled[d]
          /\ job'[d].owner = None /\ job'[d].queue = {}
      BY <2>1 DEF NoJob, BoxesOf
    <2> QED BY <2>2 DEF Scoped, BoxesOf
  <1>3. CASE EndPass(d) \/ Crash(d)
    <2>1. job'[d] = NoJob
      BY <1>3, JobAfter DEF EndPass, Crash
    <2> QED BY <2>1 DEF Scoped, NoJob
  <1>4. CASE ScanOutbox(d)
    <2>1. PICK b \in job[d].boxes :
            job'[d] = [job[d] EXCEPT !.boxes = @ \ {b}, !.queue = InDir(<<"outbox", b>>)]
      BY <1>4, JobAfter DEF ScanOutbox
    <2>2. /\ job'[d].boxes \subseteq job[d].boxes /\ job'[d].turns = job[d].turns
          /\ job'[d].owner = job[d].owner /\ job'[d].queue = InDir(<<"outbox", b>>)
      BY <1>0, <2>1 DEF Job
    <2>3. b \in BoxesOf(d) /\ b \in Box
      BY <1>0 DEF Scoped
    <2>4. \A m \in InDir(<<"outbox", b>>) :
            header[m] # None /\ OutboxOf[header[m].sender] \in BoxesOf(d)
      BY <2>3 DEF InDir, ScopeInv, InOwnBox
    <2> QED BY <1>0, <1>1, <2>2, <2>4 DEF Scoped, BoxesOf
  <1>5. CASE ScanDone(d)
    <2>1. pc'[d] = "turn" /\ job' = job
      BY <1>5, JobAfter DEF ScanDone
    <2> QED BY <1>0, <2>1 DEF Scoped, BoxesOf
  <1>6. CASE IngestFile(d)
    <2>0. pc[d] = "scan" /\ pc'[d] \in {"scan", "bundle", "copied"}
      BY <1>6, JobAfter DEF IngestFile
    <2>1. PICK m \in job[d].queue :
            \/ job'[d] = [job[d] EXCEPT !.queue = @ \ {m}]
            \/ \E a \in IngestOwner(d, OutboxOf[header[m].sender], m) :
                 job'[d] = [job[d] EXCEPT !.cur = m, !.owner = a]
      BY <1>6, JobAfter DEF IngestFile, Earliest
    <2>2. \A a \in IngestOwner(d, OutboxOf[header[m].sender], m) :
            OutboxOf[a] = OutboxOf[header[m].sender]
      BY DEF IngestOwner, Owners
    <2>3. OutboxOf[header[m].sender] \in BoxesOf(d)
      BY <1>0, <2>0 DEF Scoped
    <2>4. /\ job'[d].boxes = job[d].boxes /\ job'[d].turns = job[d].turns
          /\ job'[d].queue \subseteq job[d].queue
          /\ job'[d].owner = job[d].owner \/ OutboxOf[job'[d].owner] \in BoxesOf(d)
      <3>1. CASE job'[d] = [job[d] EXCEPT !.queue = @ \ {m}]
        BY <1>0, <3>1 DEF Job
      <3>2. ASSUME NEW a \in IngestOwner(d, OutboxOf[header[m].sender], m),
                   job'[d] = [job[d] EXCEPT !.cur = m, !.owner = a]
            PROVE  /\ job'[d].boxes = job[d].boxes /\ job'[d].turns = job[d].turns
                   /\ job'[d].queue = job[d].queue
                   /\ OutboxOf[job'[d].owner] \in BoxesOf(d)
        <4>1. job'[d].owner = a
          BY <1>0, <3>2 DEF Job
        <4> QED BY <1>0, <2>2, <2>3, <3>2, <4>1 DEF Job
      <3> QED BY <2>1, <3>1, <3>2
    <2> QED BY <1>0, <1>1, <2>0, <2>4 DEF Scoped, BoxesOf
  <1>7. CASE IngestBundle(d)
    <2>1. /\ pc[d] = "bundle" /\ job[d].owner \in Agent
          /\ job'[d] = [job[d] EXCEPT !.queue = @ \ {job[d].cur}, !.cur = None,
                                      !.owner = None, !.turns = @ \cup {job[d].owner}]
      BY <1>7, JobAfter, JobOf DEF IngestBundle, Sound
    <2>2. /\ job'[d].boxes = job[d].boxes /\ job'[d].owner = None
          /\ job'[d].turns = job[d].turns \cup {job[d].owner}
          /\ job'[d].queue \subseteq job[d].queue
      BY <1>0, <2>1 DEF Job
    <2> QED BY <1>0, <1>1, <2>1, <2>2, RoutingAssumption DEF Scoped, BoxesOf
  <1>8. CASE StartTurn(d)
    <2>0. pc'[d] = "turn"
      BY <1>8 DEF StartTurn
    <2>1. PICK a \in job[d].turns :
            job'[d] = [job[d] EXCEPT !.turns = @ \ {a}, !.owner = a, !.queue = InDir(Pending(a))]
      BY <1>8, JobAfter DEF StartTurn
    <2>2. /\ job'[d].boxes = job[d].boxes /\ job'[d].owner = a
          /\ job'[d].turns \subseteq job[d].turns
      BY <1>0, <2>1 DEF Job
    <2> QED BY <1>0, <2>0, <2>2 DEF Scoped, BoxesOf
  <1>9. CASE Claim(d)
    <2>0. pc'[d] \in {"turn", "stage"}
      BY <1>9, JobAfter DEF Claim
    <2>1. PICK m : \/ job'[d] = [job[d] EXCEPT !.queue = @ \ {m}]
                   \/ job'[d] = Fresh([job[d] EXCEPT !.queue = @ \ {m}], m)
      BY <1>9, JobAfter DEF Claim
    <2> DEFINE k == [job[d] EXCEPT !.queue = @ \ {m}]
    <2>2. /\ k \in Job /\ k.boxes = job[d].boxes /\ k.owner = job[d].owner
          /\ k.turns = job[d].turns
      BY <1>0 DEF Job
    <2> HIDE DEF k
    <2>3. /\ job'[d].boxes = job[d].boxes /\ job'[d].owner = job[d].owner
          /\ job'[d].turns = job[d].turns
      <3>1. job'[d] = k \/ job'[d] = Fresh(k, m)
        BY <2>1 DEF k
      <3> QED BY <2>2, <3>1, FreshKeeps
    <2> QED BY <1>0, <2>0, <2>3 DEF Scoped, BoxesOf
  <1>10. CASE Settle(d)
    <2>1. pc'[d] = "turn" /\ job'[d] = Fresh(job[d], None)
      BY <1>10, JobAfter DEF Settle
    <2>2. /\ job'[d].boxes = job[d].boxes /\ job'[d].owner = job[d].owner
          /\ job'[d].turns = job[d].turns
      BY <1>0, <2>1, FreshKeeps
    <2> QED BY <1>0, <2>1, <2>2 DEF Scoped, BoxesOf
  <1>11. CASE UnlinkCopied(d)
    BY <1>11, UnclaimedOnce DEF Sound
  <1>12. CASE Route(d) /\ pc[d] \in InFlight /\ ~Settle(d)
    <2>1. pc'[d] \notin {"scan", "bundle"} /\ SameTurn(d)
      BY <1>12, FlightKeeps DEF InFlight
    <2> QED BY <1>0, <2>1 DEF Scoped, SameTurn, BoxesOf
  <1>13. pc[d] \in InFlight \/ ~(\/ Unroutable(d) \/ NotLocal(d) \/ Stage(d) \/ Commit(d)
           \/ Delivered(d) \/ Offer(d) \/ Publish(d) \/ Published(d) \/ Outcome(d))
    BY DEF Unroutable, NotLocal, Stage, Commit, Delivered, Offer, Publish, Published,
           Outcome, InFlight
  <1> QED BY <1>2, <1>3, <1>4, <1>5, <1>6, <1>7, <1>8, <1>9, <1>10, <1>11, <1>12, <1>13
      DEF Route

LEMMA NextScope ==
  ASSUME CrossDevice = {}
  PROVE  Sound /\ ScopeInv /\ [Next]_vars => ScopeInv'
  <1> SUFFICES ASSUME Sound, ScopeInv, [Next]_vars PROVE ScopeInv'
    OBVIOUS
  <1>1. Sound' /\ InOwnBox'
    BY NextSound, InOwnBoxStep
  <1>2. ASSUME NEW e \in Daemon PROVE Scoped(e)'
    <2>1. \A m \in job[e].queue : header[m] # None => header'[m] = header[m]
      BY JobOf, StepGrows DEF Grows, Sound, Job
    <2>2. CASE pc'[e] = pc[e] /\ job'[e] = job[e]
      <3>1. Scoped(e)
        BY DEF ScopeInv
      <3> QED BY <2>1, <2>2, <3>1 DEF Scoped, BoxesOf
    <2>3. ASSUME NEW d \in Daemon, Route(d) \/ Crash(d) PROVE Scoped(e)'
      BY <1>1, <2>2, <2>3, ScopeSelf, OthersKept
    <2> QED BY <2>2, <2>3 DEF Next, Tell, Read, vars
  <1> QED BY <1>1, <1>2 DEF ScopeInv

\* No two handlers serve the same outbox.
OwnBoxes == \A d, e \in Daemon : d # e => BoxesOf(d) \cap BoxesOf(e) = {}

LEMMA PlacesDiffer ==
  ASSUME NEW a, NEW b
  PROVE  /\ Pending(a) # Sending(b) /\ Pending(a) # Trash(b) /\ Sending(a) # Trash(b)
         /\ Pending(a) = Pending(b) => a = b
         /\ \A h : /\ OutboxFor(h) # Pending(a) /\ OutboxFor(h) # Sending(a)
                   /\ OutboxFor(h) # Trash(a)
  BY DEF Pending, Sending, Trash, OutboxFor

\* The owner a daemon works for is no other daemon's.
LEMMA OwnersDiffer ==
  ASSUME OwnBoxes, ScopeInv, NEW d \in Daemon, NEW e \in Daemon \ {d},
         job[d].owner # None, job[e].owner # None
  PROVE  job[d].owner # job[e].owner
  BY DEF OwnBoxes, ScopeInv, Scoped

LEMMA BundleKept ==
  ASSUME NEW m \in Msg, BundleFollows(m), header'[m] = header[m], at'[m] = at[m],
         bundleAt'[m] = bundleAt[m], \A d \in Daemon : Carries(d, m) => Carries(d, m)'
  PROVE  BundleFollows(m)'
  <1>1. OutboxFor(header'[m]) = OutboxFor(header[m])
    OBVIOUS
  <1> QED BY <1>1 DEF BundleFollows, Pending, OutboxFor

LEMMA InHandKept ==
  ASSUME NEW e \in Daemon, InHand(e), pc'[e] = pc[e], job'[e] = job[e],
         pc[e] \in {"bundle", "stage"} =>
           /\ header'[job[e].cur] = header[job[e].cur]
           /\ at'[job[e].cur] = at[job[e].cur]
           /\ bundleAt'[job[e].cur] = bundleAt[job[e].cur]
  PROVE  InHand(e)'
  BY DEF InHand, OutboxFor, Pending

\* Where the message in the hand of a daemon is, and that it was written.
LEMMA InHandAt ==
  ASSUME Sound, Carried, NEW e \in Daemon, pc[e] \in {"bundle", "stage"}
  PROVE  /\ job[e].cur \in Msg /\ header[job[e].cur] # None /\ job[e].owner \in Agent
         /\ pc[e] = "bundle" => at[job[e].cur] = {Pending(job[e].owner)}
         /\ pc[e] = "stage" => at[job[e].cur] = {Sending(job[e].owner)}
  <1>1. CASE pc[e] = "bundle"
    BY <1>1, JobOf DEF Sound, Carried, InHand
  <1>2. CASE pc[e] = "stage"
    BY <1>2, HeldIsOpen DEF InFlight, Sending
  <1> QED BY <1>1, <1>2

\* A step of d on message m alone: the other messages and the other daemons.
LEMMA OthersCarried ==
  ASSUME Sound, Sound', Carried, NEW d \in Daemon, Route(d), NEW m \in Msg,
         header' = header,
         \A n \in Msg \ {m} : at'[n] = at[n] /\ bundleAt'[n] = bundleAt[n],
         pc[d] = "bundle" => job[d].cur = m,
         \A e \in Daemon \ {d} : pc[e] \in {"bundle", "stage"} => job[e].cur # m
  PROVE  /\ \A n \in Msg \ {m} : BundleFollows(n)'
         /\ \A e \in Daemon \ {d} : InHand(e)'
  <1>1. \A e \in Daemon \ {d} : pc'[e] = pc[e] /\ job'[e] = job[e]
    BY OthersKept
  <1>2. ASSUME NEW n \in Msg \ {m} PROVE BundleFollows(n)'
    <2>1. \A e \in Daemon : Carries(e, n) => Carries(e, n)'
      BY <1>1 DEF Carries
    <2> QED BY <2>1, BundleKept DEF Carried
  <1>3. ASSUME NEW e \in Daemon \ {d} PROVE InHand(e)'
    <2>1. pc[e] \in {"bundle", "stage"} => job[e].cur \in Msg \ {m}
      BY InHandAt
    <2> QED BY <1>1, <2>1, InHandKept DEF Carried
  <1> QED BY <1>2, <1>3

LEMMA TellCarries ==
  ASSUME Sound, Sound', Carried, NEW m \in Msg, NEW h \in Headers, Tell(m, h)
  PROVE  Carried'
  <1>1. /\ header[m] = None /\ header'[m] = h /\ at'[m] = {OutboxFor(h)}
        /\ bundleAt'[m] = IF h.files THEN {OutboxFor(h)} ELSE {}
        /\ \A n \in Msg \ {m} : /\ header'[n] = header[n] /\ at'[n] = at[n]
                                /\ bundleAt'[n] = bundleAt[n]
        /\ UNCHANGED <<pc, job, bare>>
    BY DEF Tell, history, Sound, Typed, TypeOK
  <1>2. BundleFollows(m)'
    <2>1. \A a \in Agent : Pending(a) \notin at'[m]
      BY <1>1, PlacesDiffer
    <2> QED BY <1>1, <2>1 DEF BundleFollows, OutboxFor, Pending
  <1>3. \A n \in Msg \ {m} : BundleFollows(n)'
    <2>1. \A n \in Msg, e \in Daemon : Carries(e, n) => Carries(e, n)'
      BY <1>1 DEF Carries
    <2> QED BY <1>1, <2>1, BundleKept DEF Carried
  <1>4. ASSUME NEW e \in Daemon PROVE InHand(e)'
    <2>1. pc[e] \in {"bundle", "stage"} => job[e].cur \in Msg \ {m}
      BY <1>1, InHandAt
    <2> QED BY <1>1, <2>1, InHandKept DEF Carried
  <1> QED BY <1>1, <1>2, <1>3, <1>4 DEF Carried

LEMMA IngestFileCarries ==
  ASSUME CrossDevice = {}, Sound, Sound', Carried, NEW d \in Daemon, IngestFile(d)
  PROVE  Carried'
  <1>0. at \in [Msg -> SUBSET Place] /\ job[d] \in Job /\ pc[d] = "scan"
    BY JobOf DEF IngestFile, Sound, Typed, TypeOK
  <1>1. UNCHANGED <<header, bundleAt, bare>> /\ Route(d)
    BY DEF IngestFile, history, Route
  <1>2. PICK m \in job[d].queue :
          \/ UNCHANGED <<at, pc>>
          \/ /\ OutboxFor(header[m]) \in at[m]
             /\ \E a : /\ at' = [at EXCEPT ![m] = (@ \ {OutboxFor(header[m])}) \cup {Pending(a)}]
                       /\ job'[d] = [job[d] EXCEPT !.cur = m, !.owner = a]
                       /\ pc'[d] = "bundle"
    BY JobAfter DEF IngestFile, Earliest, MoveFile, OutboxFor
  <1>3. m \in Msg
    BY <1>0 DEF Job
  <1>4. CASE UNCHANGED <<at, pc>>
    <2>1. /\ \A n \in Msg, e \in Daemon : Carries(e, n) => Carries(e, n)'
          /\ \A e \in Daemon \ {d} : pc'[e] = pc[e] /\ job'[e] = job[e]
      BY <1>0, <1>1, <1>4, OthersKept DEF Carries
    <2>2. \A n \in Msg : BundleFollows(n)'
      BY <1>1, <1>4, <2>1, BundleKept DEF Carried
    <2>3. \A e \in Daemon \ {d} : InHand(e)'
      BY <1>1, <1>4, <2>1, InHandKept DEF Carried
    <2>4. InHand(d)'
      BY <1>0, <1>4 DEF InHand
    <2> QED BY <1>1, <2>2, <2>3, <2>4 DEF Carried
  <1>5. ASSUME OutboxFor(header[m]) \in at[m], NEW a,
               at' = [at EXCEPT ![m] = (@ \ {OutboxFor(header[m])}) \cup {Pending(a)}],
               job'[d] = [job[d] EXCEPT !.cur = m, !.owner = a], pc'[d] = "bundle"
        PROVE  Carried'
    <2>1. at[m] = {OutboxFor(header[m])} /\ header[m] # None
      BY <1>3, <1>5 DEF Sound, OnceInv, OneFile
    <2>2. at'[m] = {Pending(a)} /\ \A n \in Msg \ {m} : at'[n] = at[n]
      BY <1>0, <1>3, <1>5, <2>1
    <2>3. job'[d].cur = m /\ job'[d].owner = a
      BY <1>0, <1>5 DEF Job
    <2>4. \A e \in Daemon \ {d} : pc[e] \in {"bundle", "stage"} => job[e].cur # m
      BY <2>1, InHandAt, PlacesDiffer
    <2>5. /\ \A n \in Msg \ {m} : BundleFollows(n)'
          /\ \A e \in Daemon \ {d} : InHand(e)'
      BY <1>0, <1>1, <1>3, <2>2, <2>4, OthersCarried
    <2>6. BundleFollows(m)'
      <3>1. OutboxFor(header[m]) \notin at'[m]
        BY <2>2, PlacesDiffer
      <3>2. Carries(d, m)'
        BY <1>5, <2>3 DEF Carries
      <3> QED BY <1>1, <3>1, <3>2 DEF BundleFollows, OutboxFor
    <2>7. InHand(d)'
      <3>1. header[m].files => OutboxFor(header[m]) \in bundleAt[m]
        BY <1>3, <2>1 DEF Carried, BundleFollows
      <3> QED BY <1>1, <1>5, <2>1, <2>2, <2>3, <3>1 DEF InHand, OutboxFor, Pending
    <2> QED BY <1>1, <2>5, <2>6, <2>7 DEF Carried
  <1> QED BY <1>2, <1>4, <1>5

LEMMA IngestBundleCarries ==
  ASSUME OwnBoxes, Sound, Sound', ScopeInv, Carried, NEW d \in Daemon, IngestBundle(d)
  PROVE  Carried'
  <1>0. PICK m \in Msg : m = job[d].cur
    BY JobOf DEF IngestBundle, Sound
  <1>1. /\ pc[d] = "bundle" /\ pc'[d] = "scan" /\ Route(d)
        /\ UNCHANGED <<header, at, bare>>
        /\ \A n \in Msg \ {m} : at'[n] = at[n] /\ bundleAt'[n] = bundleAt[n]
        /\ bundleAt'[m] = IF OutboxFor(header[m]) \in bundleAt[m]
                          THEN (bundleAt[m] \ {OutboxFor(header[m])}) \cup {Pending(job[d].owner)}
                          ELSE bundleAt[m]
    BY ZenonT(40), <1>0, JobAfter DEF IngestBundle, Route, history, Sound, Typed, TypeOK
  <1>2. /\ at[m] = {Pending(job[d].owner)} /\ header[m] # None /\ job[d].owner \in Agent
        /\ header[m].files => OutboxFor(header[m]) \in bundleAt[m]
    BY <1>0, <1>1, JobOf DEF Carried, InHand, Sound
  <1>3. ASSUME NEW e \in Daemon \ {d}, pc[e] \in {"bundle", "stage"} PROVE job[e].cur # m
    <2>1. CASE pc[e] = "stage"
      BY <1>2, <2>1, InHandAt, PlacesDiffer
    <2>2. CASE pc[e] = "bundle"
      <3>1. job[e].owner \in Agent /\ at[job[e].cur] = {Pending(job[e].owner)}
        BY <2>2, InHandAt
      <3>2. job[d].owner # job[e].owner
        BY <1>2, <3>1, OwnersDiffer, RoutingAssumption
      <3>3. Pending(job[d].owner) # Pending(job[e].owner)
        BY <3>2, PlacesDiffer
      <3> QED BY <1>2, <3>1, <3>3
    <2> QED BY <1>3, <2>1, <2>2
  <1>4. /\ \A n \in Msg \ {m} : BundleFollows(n)'
        /\ \A e \in Daemon \ {d} : InHand(e)'
    BY <1>0, <1>1, <1>3, OthersCarried
  <1>5. BundleFollows(m)'
    <2>1. OutboxFor(header[m]) \notin at[m]
      BY <1>2, PlacesDiffer
    <2>2. \A a \in Agent : Pending(a) \in at[m] => Pending(a) = Pending(job[d].owner)
      BY <1>2
    <2> QED BY <1>1, <1>2, <2>1, <2>2 DEF BundleFollows, OutboxFor, Pending
  <1>6. InHand(d)'
    BY <1>1 DEF InHand
  <1> QED BY <1>1, <1>4, <1>5, <1>6 DEF Carried

LEMMA ClaimCarries ==
  ASSUME OwnBoxes, Sound, Sound', ScopeInv, Carried, NEW d \in Daemon, Claim(d)
  PROVE  Carried'
  <1>0. at \in [Msg -> SUBSET Place] /\ job[d] \in Job /\ pc[d] = "turn"
    BY JobOf DEF Claim, Sound, Typed, TypeOK
  <1>1. UNCHANGED <<header, bundleAt, bare>> /\ Route(d)
    BY DEF Claim, history, Route
  <1>2. PICK m \in job[d].queue :
          \/ UNCHANGED <<at, pc>>
          \/ /\ Pending(job[d].owner) \in at[m]
             /\ at' = [at EXCEPT ![m] = (@ \ {Pending(job[d].owner)})
                                          \cup {Sending(job[d].owner)}]
             /\ job'[d] = Fresh([job[d] EXCEPT !.queue = @ \ {m}], m)
             /\ pc'[d] = "stage"
    BY JobAfter DEF Claim, Earliest, MoveFile
  <1>3. m \in Msg /\ job[d].owner \in Agent
    BY <1>0, JobOf DEF Job, Sound, Typed, HandsFull, Hands
  <1>4. CASE UNCHANGED <<at, pc>>
    <2>1. /\ \A n \in Msg, e \in Daemon : Carries(e, n) => Carries(e, n)'
          /\ \A e \in Daemon \ {d} : pc'[e] = pc[e] /\ job'[e] = job[e]
      BY <1>0, <1>1, <1>4, OthersKept DEF Carries
    <2>2. \A n \in Msg : BundleFollows(n)'
      BY <1>1, <1>4, <2>1, BundleKept DEF Carried
    <2>3. \A e \in Daemon \ {d} : InHand(e)'
      BY <1>1, <1>4, <2>1, InHandKept DEF Carried
    <2>4. InHand(d)'
      BY <1>0, <1>4 DEF InHand
    <2> QED BY <1>1, <2>2, <2>3, <2>4 DEF Carried
  <1>5. CASE /\ Pending(job[d].owner) \in at[m]
             /\ at' = [at EXCEPT ![m] = (@ \ {Pending(job[d].owner)})
                                          \cup {Sending(job[d].owner)}]
             /\ job'[d] = Fresh([job[d] EXCEPT !.queue = @ \ {m}], m)
             /\ pc'[d] = "stage"
    <2>1. at[m] = {Pending(job[d].owner)} /\ header[m] # None
      BY <1>3, <1>5 DEF Sound, OnceInv, OneFile
    <2>2. at'[m] = {Sending(job[d].owner)} /\ \A n \in Msg \ {m} : at'[n] = at[n]
      BY <1>0, <1>3, <1>5, <2>1
    <2>3. job'[d].cur = m /\ job'[d].owner = job[d].owner
      <3> DEFINE k == [job[d] EXCEPT !.queue = @ \ {m}]
      <3>1. k \in Job /\ k.owner = job[d].owner
        BY <1>0 DEF Job
      <3>2. job'[d] = Fresh(k, m)
        BY <1>5
      <3> HIDE DEF k
      <3> QED BY <3>1, <3>2, FreshKeeps
    <2>4. ASSUME NEW e \in Daemon \ {d}, pc[e] \in {"bundle", "stage"} PROVE job[e].cur # m
      <3>1. CASE pc[e] = "stage"
        BY <2>1, <3>1, InHandAt, PlacesDiffer
      <3>2. CASE pc[e] = "bundle"
        <4>1. job[e].owner \in Agent /\ at[job[e].cur] = {Pending(job[e].owner)}
          BY <3>2, InHandAt
        <4>2. job[d].owner # job[e].owner
          BY <1>3, <4>1, OwnersDiffer, RoutingAssumption
        <4>3. Pending(job[d].owner) # Pending(job[e].owner)
          BY <4>2, PlacesDiffer
        <4> QED BY <2>1, <4>1, <4>3
      <3> QED BY <2>4, <3>1, <3>2
    <2>5. /\ \A n \in Msg \ {m} : BundleFollows(n)'
          /\ \A e \in Daemon \ {d} : InHand(e)'
      BY <1>0, <1>1, <1>3, <2>2, <2>4, OthersCarried
    <2>6. BundleFollows(m)'
      <3>1. OutboxFor(header[m]) \notin at'[m] /\ \A a \in Agent : Pending(a) \notin at'[m]
        BY <2>2, PlacesDiffer
      <3> QED BY <1>1, <3>1 DEF BundleFollows, OutboxFor, Pending
    <2>7. header[m].files => Pending(job[d].owner) \in bundleAt[m]
      <3>1. \A e \in Daemon : ~Carries(e, m)
        BY <1>0, <2>4 DEF Carries
      <3> QED BY <1>3, <2>1, <3>1 DEF Carried, BundleFollows
    <2>8. InHand(d)'
      BY <1>1, <1>5, <2>3, <2>7 DEF InHand, Pending
    <2> QED BY <1>1, <2>5, <2>6, <2>8 DEF Carried
  <1> QED BY <1>2, <1>4, <1>5

LEMMA SettleCarries ==
  ASSUME Sound, Sound', Carried, NEW d \in Daemon, Settle(d)
  PROVE  Carried'
  <1>0. PICK m \in Msg : m = job[d].cur
    BY JobOf DEF Settle, InFlight, Sound
  <1>1. /\ pc[d] = "settle" /\ pc'[d] = "turn" /\ Route(d) /\ pc[d] \in InFlight
        /\ UNCHANGED <<header, bare>>
        /\ \A n \in Msg \ {m} : at'[n] = at[n] /\ bundleAt'[n] = bundleAt[n]
        /\ at'[m] \subseteq at[m] \cup {Trash(job[d].owner)}
    BY <1>0, JobAfter DEF Settle, Route, history, InFlight, Sound, Typed, TypeOK
  <1>2. at[m] = {Sending(job[d].owner)}
    BY <1>0, <1>1, HeldIsOpen DEF Sending
  <1>3. ASSUME NEW e \in Daemon \ {d}, pc[e] \in {"bundle", "stage"} PROVE job[e].cur # m
    <2>1. CASE pc[e] = "stage"
      BY <1>0, <1>1, <2>1, OthersElsewhere DEF Sound, InFlight
    <2>2. CASE pc[e] = "bundle"
      BY <1>2, <2>2, InHandAt, PlacesDiffer
    <2> QED BY <1>3, <2>1, <2>2
  <1>4. /\ \A n \in Msg \ {m} : BundleFollows(n)'
        /\ \A e \in Daemon \ {d} : InHand(e)'
    BY <1>0, <1>1, <1>3, OthersCarried
  <1>5. BundleFollows(m)'
    <2>1. OutboxFor(header[m]) \notin at'[m] /\ \A a \in Agent : Pending(a) \notin at'[m]
      BY <1>1, <1>2, PlacesDiffer
    <2> QED BY <1>1, <2>1 DEF BundleFollows, OutboxFor, Pending
  <1>6. InHand(d)'
    BY <1>1 DEF InHand
  <1> QED BY <1>1, <1>4, <1>5, <1>6 DEF Carried

\* The other steps move no file; staging copies the bundle, a commit shows it.
LEMMA RestCarries ==
  ASSUME Sound, Sound', Carried, NEW d \in Daemon,
         \/ StartPass(d) \/ ScanOutbox(d) \/ ScanDone(d) \/ StartTurn(d) \/ EndPass(d)
         \/ Unroutable(d) \/ NotLocal(d) \/ Stage(d) \/ Commit(d) \/ Delivered(d)
         \/ Offer(d) \/ Publish(d) \/ Published(d) \/ Outcome(d)
  PROVE  Carried'
  <1>0. job[d] \in Job /\ Route(d)
    BY JobOf DEF Route, Sound
  <1>1. /\ UNCHANGED <<header, at, bundleAt>>
        /\ \A e \in Daemon \ {d} : pc'[e] = pc[e] /\ job'[e] = job[e]
    <2>1. UNCHANGED <<header, at, bundleAt>>
      BY DEF StartPass, ScanOutbox, ScanDone, StartTurn, EndPass, Unroutable, NotLocal,
             Stage, Commit, Delivered, Offer, Publish, Published, Outcome, mail
    <2> QED BY <1>0, <2>1, OthersKept
  <1>2. pc[d] # "bundle"
    BY DEF StartPass, ScanOutbox, ScanDone, StartTurn, EndPass, Unroutable, NotLocal,
           Stage, Commit, Delivered, Offer, Publish, Published, Outcome
  <1>3. \A n \in Msg : BundleFollows(n)'
    <2>1. \A n \in Msg, e \in Daemon : Carries(e, n) => Carries(e, n)'
      BY <1>1, <1>2 DEF Carries
    <2> QED BY <1>1, <2>1, BundleKept DEF Carried
  <1>4. \A e \in Daemon \ {d} : InHand(e)'
    BY <1>1, InHandKept DEF Carried
  <1>5. InHand(d)' /\ bare' = {}
    <2>1. CASE Stage(d)
      <3>1. pc[d] = "stage" /\ bare' = bare /\ pc'[d] \in {"commit", "remote"}
        BY <2>1, JobAfter DEF Stage, history
      <3>2. pc'[d] = "commit" => job'[d].whole
        <4>1. pc'[d] = "commit" =>
                job'[d] = [job[d] EXCEPT
                  !.staged = {r \in Recipients(d) : job[d].cur \notin inbox[r]},
                  !.whole = (Envelope(d).files => Pending(job[d].owner) \in bundleAt[job[d].cur])]
          BY <2>1, JobAfter DEF Stage
        <4>2. Envelope(d).files => Pending(job[d].owner) \in bundleAt[job[d].cur]
          BY <3>1 DEF Carried, InHand, Envelope
        <4> QED BY <1>0, <4>1, <4>2 DEF Job
      <3> QED BY <3>1, <3>2 DEF InHand, Carried
    <2>2. CASE Commit(d)
      <3>1. pc[d] = "commit" /\ pc'[d] = "commit" /\ job[d].whole
        BY <2>2 DEF Commit, Carried, InHand
      <3>2. bare' = {}
        BY <2>2, <3>1 DEF Commit, Carried
      <3>3. PICK r : \/ job'[d] = [[job[d] EXCEPT !.staged = @ \ {r}] EXCEPT !.committed = @ \cup {r}]
                     \/ job'[d] = [[job[d] EXCEPT !.staged = @ \ {r}] EXCEPT !.missed = @ \cup {r}]
        BY <2>2, JobAfter DEF Commit
      <3>4. job'[d].whole = job[d].whole
        BY <1>0, <3>3 DEF Job
      <3> QED BY <3>1, <3>2, <3>4 DEF InHand
    <2>3. CASE \/ StartPass(d) \/ ScanOutbox(d) \/ ScanDone(d) \/ StartTurn(d) \/ EndPass(d)
               \/ Unroutable(d) \/ NotLocal(d) \/ Delivered(d)
               \/ Offer(d) \/ Publish(d) \/ Published(d) \/ Outcome(d)
      <3>1. pc'[d] \notin {"bundle", "stage", "commit"} /\ bare' = bare
        BY <2>3, JobAfter
        DEF StartPass, ScanOutbox, ScanDone, StartTurn, EndPass, Unroutable, NotLocal,
            Delivered, Offer, Publish, Published, Outcome, history
      <3> QED BY <3>1 DEF InHand, Carried
    <2> QED BY <2>1, <2>2, <2>3
  <1> QED BY <1>3, <1>4, <1>5 DEF Carried

LEMMA NextCarry ==
  ASSUME CrossDevice = {}, OwnBoxes
  PROVE  Sound /\ ScopeInv /\ CarryInv /\ [Next]_vars => CarryInv'
  <1> SUFFICES ASSUME Sound, ScopeInv, CarryInv, [Next]_vars, crashes' = 0
               PROVE  Carried'
    BY DEF CarryInv
  <1>1. Sound'
    BY NextSound
  <1>2. Carried /\ \A d \in Daemon : ~Crash(d)
    <2>1. crashes \in Nat
      BY DEF Sound, Typed, TypeOK
    <2>2. ASSUME NEW d \in Daemon, Crash(d) PROVE FALSE
      BY <2>1, <2>2 DEF Crash
    <2>3. crashes = 0
      <3>1. ASSUME NEW d \in Daemon, Route(d) PROVE crashes' = crashes
        BY <3>1 DEF Route, StartPass, ScanOutbox, ScanDone, IngestFile, UnlinkCopied,
           IngestBundle, StartTurn, EndPass, Claim, Unroutable, NotLocal, Stage, Commit,
           Delivered, Offer, Publish, Published, Outcome, Settle
      <3> QED BY <2>2, <3>1 DEF Next, Tell, Read, vars
    <2> QED BY <2>2, <2>3 DEF CarryInv
  <1>3. CASE \E m \in Msg, h \in Headers : Tell(m, h)
    BY <1>1, <1>2, <1>3, TellCarries
  <1>4. CASE (\E a \in Agent, n \in Msg : Read(a, n)) \/ UNCHANGED vars
    <2>1. UNCHANGED <<header, at, bundleAt, pc, job, bare>>
      BY <1>4 DEF Read, vars, mail, history
    <2>2. \A n \in Msg, e \in Daemon : Carries(e, n) => Carries(e, n)'
      BY <2>1 DEF Carries
    <2>3. \A n \in Msg : BundleFollows(n)'
      BY <1>2, <2>1, <2>2, BundleKept DEF Carried
    <2>4. \A e \in Daemon : InHand(e)'
      BY <1>2, <2>1, InHandKept DEF Carried
    <2> QED BY <1>2, <2>1, <2>3, <2>4 DEF Carried
  <1>5. ASSUME NEW d \in Daemon, Route(d) PROVE Carried'
    <2>1. CASE UnlinkCopied(d)
      BY <1>1, <2>1, UnclaimedOnce DEF Sound
    <2> QED
      BY <1>1, <1>2, <1>5, <2>1, IngestFileCarries, IngestBundleCarries, ClaimCarries,
         SettleCarries, RestCarries
      DEF Route
  <1> QED BY <1>2, <1>3, <1>4, <1>5 DEF Next

\* A recipient of a message with attachments gets them, as long as no handler
\* dies (one may do so between the renames of the envelope and of its bundle): for
\* any number of messages, agents that share an outbox and failing steps. Assumed:
\* each outbox is served by one handler (where two serve it, the second may claim
\* the envelope while the first still carries the bundle), on the filesystem of
\* the state root.
THEOREM AttachmentTravels ==
  ASSUME CrossDevice = {}, OwnBoxes
  PROVE  Spec => []AttachmentArrives
  <1>1. Init => Sound /\ ScopeInv /\ CarryInv
    BY InitSound, InitCarry
  <1>2. Sound /\ ScopeInv /\ CarryInv /\ [Next]_vars => Sound' /\ ScopeInv' /\ CarryInv'
    BY NextSound, NextScope, NextCarry
  <1>3. CarryInv => AttachmentArrives
    BY DEF CarryInv, Carried, AttachmentArrives
  <1> QED BY <1>1, <1>2, <1>3, PTL DEF Spec
=============================================================================
