------------------------- MODULE WakeLifecycleProofs -------------------------
(***************************************************************************)
(* Proofs about WakeLifecycle, for any handlers, agents, messages, events  *)
(* and requests, where a message comes once (Renewed is for the checking   *)
(* of liveness): no taken mail is out of sight, no message is judged       *)
(* twice, a force stop leaves nothing behind, and spares the wakes of      *)
(* others; a session's failure stays the outcome.                          *)
(***************************************************************************)
EXTENDS WakeLifecycle, FiniteSetTheorems, TLAPS

\* The types, in three parts.
MailTypes ==
  /\ inbox \in [Agent -> Seq(Msg)] /\ sent \subseteq Msg /\ trash \subseteq sent
  /\ acked \subseteq trash /\ dead \subseteq trash /\ last \in [Agent -> {"none", "ok", "failed"}]
  /\ record \in [Agent -> [unit : Unit, born : BOOLEAN]]
  /\ owner \in [Agent -> Handler \cup {None}]
  /\ request \in [Agent -> {"none", "detach", "kill"}]
LoopTypes ==
  /\ wakes \subseteq [unit : Unit, by : Handler, st : States]
  /\ children \subseteq Unit /\ outcomes \subseteq Unit
  /\ pc \in [Handler -> LoopSteps \cup {"unborn", "gone"}] /\ names \in [Handler -> SUBSET Agent]
  /\ rr \in [Handler -> Nat] /\ pos \in [Handler -> Nat]
  /\ slot \in [Handler -> Unit] /\ cur \in [Handler -> Unit]
  /\ signals \in [Handler -> 0 .. 2] /\ frozen \subseteq Handler
StopTypes ==
  /\ kpc \in StopSteps /\ target \in Handler \cup {None} /\ scope \subseteq Agent
  /\ own \subseteq Agent /\ left \subseteq scope /\ looks \in Agent \cup {None}
  /\ unit \in Unit /\ sure \in BOOLEAN
  /\ events \in 0 .. MaxEvents
  /\ excused \subseteq Msg /\ tainted \subseteq Agent /\ newest \in [Agent -> Unit]
  /\ reported \subseteq Unit /\ caught \subseteq Msg

LEMMA TypesSplit == TypeOK <=> MailTypes /\ LoopTypes /\ StopTypes
BY DEF TypeOK, MailTypes, LoopTypes, StopTypes

\* What waits in an inbox is its agent's, once, and not taken yet.
InboxInv ==
  \A a \in Agent : \A i \in 1 .. Len(inbox[a]) :
    /\ inbox[a][i] \in sent \ trash /\ To[inbox[a][i]] = a
    /\ \A j \in 1 .. Len(inbox[a]) : inbox[a][i] = inbox[a][j] => i = j

\* The units in sight are taken mail of one agent each, settled as a whole, and no two
\* share a message.
Units ==
  {slot[h] : h \in Handler} \cup {cur[h] : h \in Handler} \cup {record[a].unit : a \in Agent}
  \cup {w.unit : w \in wakes} \cup children \cup reported \cup {newest[a] : a \in Agent}
  \cup {unit}
Whole(u) ==
  /\ u \subseteq trash /\ \A m, n \in u : To[m] = To[n]
  /\ u \subseteq dead \/ u \cap dead = {}
UnitInv == \A u \in Units : Whole(u) /\ \A v \in Units : u = v \/ u \cap v = {}

PlaceInv ==
  /\ \A a \in Agent : \A m \in record[a].unit \cup newest[a] : To[m] = a
  /\ \A m \in unit : To[m] = looks
  /\ \A u \in children \cup reported : u # {}
  /\ outcomes \subseteq reported /\ reported \cap children = {}

\* Where a handler has a unit in hand besides the one of its slot.
Starting == {"trashed", "claimed", "spawned", "unspawned"}
Clearing == {"unrecord", "finUnrecord"}
LoopInv ==
  \A h \in Handler :
    /\ Live(h) \/ (slot[h] = {} /\ names[h] = {})
    /\ cur[h] # {} <=> pc[h] \in Starting \cup Clearing
    /\ pc[h] \in Starting => \A m \in cur[h] : To[m] \in names[h]
    /\ pc[h] \in Clearing => slot[h] = {} /\ cur[h] \subseteq acked \cup dead
    /\ pc[h] \notin Clearing => Hand(h) \cap acked = {}
    /\ slot[h] \cap cur[h] = {}
    /\ pc[h] \in Starting \ {"spawned"} => cur[h] \notin children \cup reported
    /\ \A g \in Handler \ {h} : Hand(h) \cap Hand(g) = {}
    /\ \A a \in Agent : owner[a] = h <=> a \in names[h]

WakeInv ==
  \A w \in wakes :
    /\ w.unit # {} /\ pc[w.by] # "unborn"
    /\ w.st = "running" => w.unit \cap acked = {}
    /\ Live(w.by) =>
         w.unit = slot[w.by] \/ (pc[w.by] = "spawned" /\ w.unit = cur[w.by])
    /\ w.st # "running" => Live(w.by)
    /\ \A h \in Handler, m \in w.unit : m \in Hand(h) => h = w.by

\* A force stop has a handler that was attached.
TargetInv == kpc # "idle" => target \in Handler /\ pc[target] # "unborn"

Tidy ==
  TypeOK /\ InboxInv /\ UnitInv /\ PlaceInv /\ LoopInv /\ WakeInv /\ TargetInv

(***************************************************************************)
(* Units.                                                                  *)
(***************************************************************************)
\* The agent of a unit is the agent of each of its messages.
LEMMA UnitAgent ==
  ASSUME Tidy, NEW u \in Units, NEW m \in u
  PROVE  AgentOf(u) = To[m] /\ AgentOf(u) \in Agent /\ u \subseteq Msg
<1>1. Whole(u)
  BY DEF Tidy, UnitInv
<1>2. u \subseteq Msg
  BY <1>1 DEF Whole, Tidy, TypeOK
<1>3. (CHOOSE n \in u : TRUE) \in u
  OBVIOUS
<1> QED
  BY <1>1, <1>2, <1>3, WakeAssumption DEF Whole, AgentOf

\* The units that the handlers, the records, the wakes, ... have are Units.
LEMMA InSight ==
  /\ \A h \in Handler : slot[h] \in Units /\ cur[h] \in Units
  /\ \A a \in Agent : record[a].unit \in Units /\ newest[a] \in Units
  /\ \A w \in wakes : w.unit \in Units
  /\ children \subseteq Units /\ reported \subseteq Units /\ unit \in Units
BY DEF Units

\* What the next wake takes: the first messages of the inbox.
LEMMA NextTaken ==
  ASSUME TypeOK, NEW a \in Agent, inbox[a] # <<>>
  PROVE  /\ NextUnit(a) \in Seq(Msg) /\ Len(NextUnit(a)) \in 1 .. Len(inbox[a])
         /\ \A i \in 1 .. Len(NextUnit(a)) : NextUnit(a)[i] = inbox[a][i]
         /\ ToSet(NextUnit(a)) = {inbox[a][i] : i \in 1 .. Len(NextUnit(a))}
<1> DEFINE s == inbox[a]
           k == IF Len(s) < BatchLimit THEN Len(s) ELSE BatchLimit
<1>1. s \in Seq(Msg) /\ Len(s) \in Nat \ {0} /\ s[1] \in Msg
  BY DEF TypeOK
<1>2. /\ NextUnit(a) \in Seq(Msg) /\ Len(NextUnit(a)) \in 1 .. Len(s)
      /\ \A i \in 1 .. Len(NextUnit(a)) : NextUnit(a)[i] = s[i]
  <2>1. CASE a \in Batch /\ Len(s) >= 2
    <3>1. k \in 1 .. Len(s)
      BY <1>1, <2>1, WakeAssumption
    <3>2. NextUnit(a) = SubSeq(s, 1, k)
      BY <2>1 DEF NextUnit
    <3> HIDE DEF k, s
    <3> QED
      BY <1>1, <3>1, <3>2
  <2>2. CASE ~(a \in Batch /\ Len(s) >= 2)
    <3>1. NextUnit(a) = <<s[1]>>
      BY <2>2 DEF NextUnit
    <3> HIDE DEF s
    <3> QED
      BY <1>1, <3>1
  <2> QED
    BY <2>1, <2>2
<1>3. DOMAIN NextUnit(a) = 1 .. Len(NextUnit(a))
  BY <1>2
<1> QED
  BY <1>2, <1>3 DEF ToSet

(***************************************************************************)
(* What a step does to the wakes and to the settled mail.                  *)
(***************************************************************************)
\* No wake is new; one may have ended under a live handler.
Calm ==
  \A w \in wakes' : \E v \in wakes :
    w.unit = v.unit /\ w.by = v.by /\ (w = v \/ (w.st \in {"ok", "failed"} /\ Live(v.by)))

LEMMA EndedCalm ==
  ASSUME TypeOK, NEW W \in SUBSET wakes, NEW code \in {"ok", "failed"},
         wakes' = Ended(W, code)
  PROVE  /\ Calm /\ wakes' \subseteq [unit : Unit, by : Handler, st : States]
         /\ \A w \in wakes : w \in wakes' \/ w \in W
         /\ \A w \in wakes' : w.st = "running" => w \in wakes \ W
<1>1. \A v \in wakes : v \in [unit : Unit, by : Handler, st : States]
  BY DEF TypeOK
<1> DEFINE end(v) == [v EXCEPT !.st = code]
<1>2. \A v \in wakes : /\ end(v) \in [unit : Unit, by : Handler, st : States]
                       /\ end(v).unit = v.unit /\ end(v).by = v.by /\ end(v).st = code
  BY <1>1 DEF States
<1>3. \A w \in wakes' : w \in wakes \ W \/ \E v \in W : Live(v.by) /\ w = end(v)
  BY DEF Ended
<1>4. \A w \in wakes : w \in wakes' \/ w \in W
  BY DEF Ended
<1> HIDE DEF end
<1> QED
  BY <1>1, <1>2, <1>3, <1>4 DEF Calm

LEMMA SlotKilledCalm ==
  ASSUME TypeOK, NEW h \in Handler, SlotKilled(h) \/ wakes' = wakes
  PROVE  /\ Calm /\ wakes' \subseteq [unit : Unit, by : Handler, st : States]
         /\ \A w \in wakes : w \in wakes' \/ (w.unit = slot[h] /\ w.st = "running")
         /\ \A w \in wakes' : w.st = "running" => w \in wakes
<1>1. CASE wakes' = wakes
  BY <1>1 DEF Calm, TypeOK
<1>2. CASE SlotKilled(h)
  <2> DEFINE W == {w \in wakes : w.unit = slot[h] /\ w.st = "running"}
  <2>1. PICK code \in {"ok", "failed"} : wakes' = Ended(W, code)
    BY <1>2 DEF SlotKilled
  <2>2. W \in SUBSET wakes
    OBVIOUS
  <2> HIDE DEF W
  <2>3. /\ Calm /\ wakes' \subseteq [unit : Unit, by : Handler, st : States]
        /\ \A w \in wakes : w \in wakes' \/ w \in W
        /\ \A w \in wakes' : w.st = "running" => w \in wakes \ W
    BY <2>1, <2>2, EndedCalm
  <2> QED
    BY <2>3 DEF W
<1> QED
  BY <1>1, <1>2

LEMMA StepCalm ==
  ASSUME TypeOK, TargetInv, Next
  PROVE  (Calm /\ wakes' \subseteq [unit : Unit, by : Handler, st : States])
           \/ \E h \in Handler : Spawn(h)
<1> DEFINE Fine == Calm /\ wakes' \subseteq [unit : Unit, by : Handler, st : States]
<1>0. wakes' \subseteq wakes => Fine
  BY DEF Calm, TypeOK
<1>1. ASSUME NEW m \in Msg, Arrive(m)
      PROVE  Fine
  BY <1>0, <1>1 DEF Arrive, procs
<1>2. ASSUME NEW w \in wakes, Exit(w)
      PROVE  Fine
  <2>1. PICK code \in {"ok", "failed"} : wakes' = Ended({w}, code)
    BY <1>2 DEF Exit
  <2> QED
    BY <2>1, EndedCalm
<1>3. ASSUME NEW u \in children, SessionEnds(u)
      PROVE  Fine
  BY <1>0, <1>3 DEF SessionEnds
<1>4. ASSUME NEW h \in Handler, TimesUp(h) \/ Signal(h)
      PROVE  Fine
  BY <1>4, SlotKilledCalm DEF TimesUp, Signal, Signalled
<1>5. ASSUME NEW h \in Handler, Die(h)
      PROVE  Fine
  BY <1>0, <1>5 DEF Die, Dies
<1>6. ASSUME NEW h \in Handler, NEW a \in Agent, Yield(h, a)
      PROVE  Fine
  BY <1>6, SlotKilledCalm DEF Yield
<1>7. ASSUME NEW h \in Handler,
             \/ Begin(h) \/ Service(h) \/ Unrecord(h) \/ Consume(h) \/ Proxies(h)
             \/ PassEnds(h) \/ NextAgent(h) \/ Take(h) \/ Abort(h) \/ Claim(h)
             \/ SpawnFails(h) \/ Unspawned(h) \/ Release(h)
      PROVE  Fine
  BY <1>0, <1>7 DEF Begin, Service, Unrecord, Consume, Proxies, PassEnds, NextAgent, Take,
     Abort, Claim, SpawnFails, Unspawned, Release, Fails, procs
<1>8. ASSUME NEW h \in Handler, Settle(h) \/ Note(h)
      PROVE  Fine
  BY <1>0, <1>8 DEF Settle, Note
<1>9. ASSUME NEW h \in Handler, NEW S \in SUBSET Agent, Attach(h, S)
      PROVE  Fine
  BY <1>0, <1>9 DEF Attach, procs
<1>10. ASSUME NEW r \in Asked, Ask(r[1], r[2])
       PROVE  Fine
  BY <1>0, <1>10 DEF Ask, procs
<1>11. ASSUME NEW a \in Agent, ForceStop(a)
       PROVE  Fine
  BY <1>11, SlotKilledCalm DEF ForceStop, Signalled, TypeOK
<1>12. CASE SecondTerm
  BY <1>0, <1>12, SlotKilledCalm DEF SecondTerm, Signalled, TargetInv
<1>13. CASE KillRecorded
  <2>1. Named \in SUBSET wakes
    BY DEF Named
  <2> QED
    BY <1>13, <2>1, EndedCalm DEF KillRecorded
<1>14. CASE KillChildren
  <2>1. OfTarget \in SUBSET wakes
    BY DEF OfTarget
  <2> QED
    BY <1>14, <2>1, EndedCalm DEF KillChildren
<1>15. CASE KillHandler
  BY <1>0, <1>15 DEF KillHandler, Dies
<1>16. CASE \/ Wait \/ Freeze \/ (\E a \in Agent : Look(a)) \/ Check \/ Clear \/ Mark \/ Finish
  BY <1>0, <1>16 DEF Wait, Freeze, Look, Check, Clear, Mark, Finish, procs
<1> QED
  BY <1>1, <1>2, <1>3, <1>4, <1>5, <1>6, <1>7, <1>8, <1>9, <1>10, <1>11, <1>12, <1>13,
     <1>14, <1>15, <1>16 DEF Next, Loop, Command

\* Taking failure records makes mail of reported units dead.
LEMMA ConsumedMail ==
  ASSUME Tidy, NEW S \in SUBSET Agent, NEW me \in Handler \cup {None}, Consumed(S, me)
  PROVE  /\ outcomes' \subseteq outcomes /\ dead \subseteq dead' /\ dead' \subseteq trash
         /\ last' \in [Agent -> {"none", "ok", "failed"}]
         /\ \A a \in Agent : last'[a] = last[a] \/ last'[a] = "failed"
         /\ \A u \in outcomes \ outcomes' :
              /\ u \subseteq dead' /\ AgentOf(u) \in S /\ MayTake(me, AgentOf(u))
              /\ u \subseteq dead \/ last'[AgentOf(u)] = "failed"
         /\ \A m \in dead' \ dead : \E u \in outcomes \ outcomes' : m \in u
<1> DEFINE taken == {u \in outcomes : AgentOf(u) \in S /\ MayTake(me, AgentOf(u))}
<1>1. /\ outcomes' = outcomes \ taken /\ dead' = dead \cup UNION taken
      /\ last' = [a \in Agent |->
                   IF \E u \in taken : AgentOf(u) = a /\ ~(u \subseteq dead)
                     THEN "failed" ELSE last[a]]
  BY DEF Consumed
<1>2. \A u \in taken : u \in outcomes /\ u \subseteq trash /\ AgentOf(u) \in S
                       /\ MayTake(me, AgentOf(u))
  BY InSight DEF Tidy, PlaceInv, UnitInv, Whole
<1>3. last \in [Agent -> {"none", "ok", "failed"}] /\ dead \subseteq trash
  BY DEF Tidy, TypeOK
<1> HIDE DEF taken
<1> QED
  BY <1>1, <1>2, <1>3

\* The mail that is in hand is taken, and its units have an agent.
LEMMA HandTaken ==
  ASSUME Tidy, NEW h \in Handler
  PROVE  /\ slot[h] \subseteq trash /\ cur[h] \subseteq trash
         /\ slot[h] # {} => AgentOf(slot[h]) \in Agent
         /\ cur[h] # {} => AgentOf(cur[h]) \in Agent
         /\ \A m \in slot[h] : To[m] = AgentOf(slot[h])
         /\ \A m \in cur[h] : To[m] = AgentOf(cur[h])
<1>1. slot[h] \in Units /\ cur[h] \in Units
  BY InSight
<1>2. \A u \in Units : u \subseteq trash /\ \A m \in u : To[m] = AgentOf(u) /\ AgentOf(u) \in Agent
  BY UnitAgent DEF Tidy, UnitInv, Whole
<1> QED
  BY <1>1, <1>2

\* Between taking mail and starting its wake a handler has a unit in hand.
LEMMA StartingHas ==
  ASSUME Tidy, NEW h \in Handler, pc[h] \in Starting \cup Clearing
  PROVE  cur[h] # {} /\ AgentOf(cur[h]) \in Agent /\ cur[h] \subseteq trash
BY HandTaken DEF Tidy, LoopInv

(***************************************************************************)
(* Types.                                                                  *)
(***************************************************************************)
LEMMA MailTypesStep ==
  ASSUME Tidy, Renewed = {}, Next
  PROVE  MailTypes'
<1> USE DEF MailTypes
<1>0. MailTypes
  BY TypesSplit DEF Tidy
<1>1. ASSUME NEW m \in Msg, Arrive(m)
      PROVE  MailTypes'
  <2>1. m \notin sent
    BY <1>1 DEF Arrive
  <2>2. inbox' \in [Agent -> Seq(Msg)]
    BY <1>0, <1>1, WakeAssumption DEF Arrive
  <2> QED
    BY <1>0, <1>1, <2>1, <2>2 DEF Arrive, disk
<1>2. ASSUME \/ \E w \in wakes : Exit(w)
             \/ \E u \in children : SessionEnds(u)
             \/ \E h \in Handler : \/ TimesUp(h) \/ Signal(h) \/ Begin(h) \/ Service(h)
                                   \/ PassEnds(h) \/ NextAgent(h) \/ Spawn(h)
             \/ \E a \in Agent : ForceStop(a) \/ Look(a)
             \/ SecondTerm \/ Wait \/ Freeze \/ KillRecorded \/ KillChildren \/ Check
      PROVE  MailTypes'
  BY <1>0, <1>2 DEF Exit, SessionEnds, TimesUp, Signal, Begin, Service, PassEnds, NextAgent,
     Spawn, ForceStop, Look, SecondTerm, Wait, Freeze, KillRecorded, KillChildren, Check,
     mail, disk
<1>3. ASSUME NEW h \in Handler, NEW S \in SUBSET Agent, Attach(h, S)
      PROVE  MailTypes'
  BY <1>0, <1>3 DEF Attach, mail
<1>4. ASSUME NEW r \in Asked, Ask(r[1], r[2])
      PROVE  MailTypes'
  BY <1>0, <1>4, WakeAssumption DEF Ask, mail
<1>5. ASSUME NEW h \in Handler, NEW a \in Agent, Yield(h, a)
      PROVE  MailTypes'
  <2>1. /\ dead' \subseteq trash /\ last' \in [Agent -> {"none", "ok", "failed"}]
    BY <1>0, <1>5, ConsumedMail DEF Yield
  <2> QED
    BY <1>0, <1>5, <2>1 DEF Yield
<1>6. ASSUME NEW h \in Handler, Settle(h)
      PROVE  MailTypes'
  BY <1>0, <1>6, HandTaken DEF Settle, Marked, disk
<1>7. ASSUME NEW h \in Handler, Unrecord(h) \/ SpawnFails(h)
      PROVE  MailTypes'
  <2>1. NoRecord \in [unit : Unit, born : BOOLEAN]
    BY DEF NoRecord, Unit
  <2>2. Cleared(AgentOf(cur[h])) \in [Agent -> [unit : Unit, born : BOOLEAN]]
    BY <1>0, <2>1 DEF Cleared
  <2> QED
    BY <1>0, <1>7, <2>2 DEF Unrecord, SpawnFails, mail
<1>8. ASSUME NEW h \in Handler, Consume(h) \/ Release(h)
      PROVE  MailTypes'
  <2>1. names[h] \in SUBSET Agent
    BY DEF Tidy, TypeOK
  <2>2. /\ dead' \subseteq trash /\ last' \in [Agent -> {"none", "ok", "failed"}]
    BY <1>8, <2>1, ConsumedMail DEF Consume, Release
  <2>3. CASE Consume(h)
    BY <1>0, <2>2, <2>3 DEF Consume, disk
  <2>4. CASE Release(h)
    BY <1>0, <2>2, <2>4 DEF Release, Ends
  <2> QED
    BY <1>8, <2>3, <2>4
<1>9. ASSUME NEW h \in Handler, Proxies(h)
      PROVE  MailTypes'
  BY <1>0, <1>9 DEF Proxies, disk
<1>10. ASSUME NEW h \in Handler, Take(h)
       PROVE  MailTypes'
  <2>1. PICK a \in Turn(h) : /\ Ready(a) /\ trash' = trash \cup ToSet(NextUnit(a))
                             /\ inbox' = [inbox EXCEPT ![a] = SubSeq(@, Len(NextUnit(a)) + 1, Len(@))]
    BY <1>10 DEF Take
  <2>2. a \in Agent /\ inbox[a] # <<>>
    BY <2>1 DEF Turn, Ready, Tidy, TypeOK
  <2>3. /\ Len(NextUnit(a)) \in 1 .. Len(inbox[a])
        /\ ToSet(NextUnit(a)) = {inbox[a][i] : i \in 1 .. Len(NextUnit(a))}
    BY <2>2, NextTaken DEF Tidy
  <2>4. ToSet(NextUnit(a)) \subseteq sent
    BY <2>2, <2>3 DEF Tidy, InboxInv
  <2>5. \A i, j \in Nat : i >= 1 => SubSeq(inbox[a], i, Len(inbox[a])) \in Seq(Msg)
    BY <1>0, <2>2
  <2>6. inbox' \in [Agent -> Seq(Msg)]
    BY <1>0, <2>1, <2>2, <2>3, <2>5
  <2> QED
    BY <1>0, <1>10, <2>1, <2>4, <2>6 DEF Take, disk
<1>11. ASSUME NEW h \in Handler, Abort(h) \/ Unspawned(h)
       PROVE  MailTypes'
  <2>1. pc[h] \in Starting /\ Fails(h)
    BY <1>11 DEF Abort, Unspawned, At, Starting
  <2> QED
    BY <1>0, <2>1, StartingHas DEF Fails, Marked, disk
<1>12. ASSUME NEW h \in Handler, Claim(h) \/ Note(h)
       PROVE  MailTypes'
  <2>1. cur[h] \in Unit
    BY DEF Tidy, TypeOK
  <2>2. \A b \in BOOLEAN : [unit |-> cur[h], born |-> b] \in [unit : Unit, born : BOOLEAN]
    BY <2>1
  <2>3. record' \in [Agent -> [unit : Unit, born : BOOLEAN]]
    BY <1>0, <1>12, <2>2 DEF Claim, Note
  <2> QED
    BY <1>0, <1>12, <2>3 DEF Claim, Note, mail
<1>13. ASSUME NEW h \in Handler, Die(h)
       PROVE  MailTypes'
  BY <1>0, <1>13 DEF Die, Dies, Ends, mail
<1>14. CASE KillHandler
  BY <1>0, <1>14 DEF KillHandler, Dies, Ends, mail
<1>15. CASE Clear
  BY <1>0, <1>15 DEF Clear, Cleared, NoRecord, Unit, mail
<1>16. CASE Mark
  <2>1. unit \subseteq trash
    BY InSight DEF Tidy, UnitInv, Whole
  <2> QED
    BY <1>0, <1>16, <2>1 DEF Mark, Marked, disk
<1>17. CASE Finish
  <2>1. scope \in SUBSET Agent
    BY DEF Tidy, TypeOK
  <2>2. /\ dead' \subseteq trash /\ last' \in [Agent -> {"none", "ok", "failed"}]
    BY <1>17, <2>1, ConsumedMail DEF Finish
  <2> QED
    BY <1>0, <1>17, <2>2 DEF Finish, disk
<1> QED
  BY <1>1, <1>2, <1>3, <1>4, <1>5, <1>6, <1>7, <1>8, <1>9, <1>10, <1>11, <1>12, <1>13,
     <1>14, <1>15, <1>16, <1>17 DEF Next, Loop, Command

LEMMA LoopTypesStep ==
  ASSUME Tidy, Renewed = {}, Next
  PROVE  LoopTypes'
<1> USE DEF LoopTypes
<1>0. LoopTypes
  BY TypesSplit DEF Tidy
<1>a. wakes' \subseteq [unit : Unit, by : Handler, st : States]
  <2>1. ASSUME NEW h \in Handler, Spawn(h)
        PROVE  wakes' \subseteq [unit : Unit, by : Handler, st : States]
    <3>1. [unit |-> cur[h], by |-> h, st |-> "running"] \in [unit : Unit, by : Handler, st : States]
      BY <1>0 DEF States
    <3> QED
      BY <1>0, <2>1, <3>1 DEF Spawn
  <2> QED
    BY <2>1, StepCalm DEF Tidy
<1>b. \A t \in LoopSteps \cup {"unborn", "gone"}, h \in Handler :
        Go(h, t) => pc' \in [Handler -> LoopSteps \cup {"unborn", "gone"}]
  BY <1>0 DEF Go
<1>c. \A h \in Handler :
        Signalled(h) => signals' \in [Handler -> 0 .. 2]
  BY <1>0 DEF Signalled
<1>d. ASSUME NEW h \in Handler, Ends(h)
      PROVE  /\ pc' \in [Handler -> LoopSteps \cup {"unborn", "gone"}]
             /\ names' \in [Handler -> SUBSET Agent] /\ rr' \in [Handler -> Nat]
             /\ pos' \in [Handler -> Nat] /\ slot' \in [Handler -> Unit]
             /\ cur' \in [Handler -> Unit] /\ signals' \in [Handler -> 0 .. 2]
  <2>1. {} \in Unit /\ "gone" \in {"unborn", "gone"}
    BY DEF Unit
  <2>2. pc' \in [Handler -> LoopSteps \cup {"unborn", "gone"}]
    BY <1>b, <1>d, <2>1 DEF Ends
  <2>3. names' \in [Handler -> SUBSET Agent] /\ rr' \in [Handler -> Nat]
    BY <1>0, <1>d DEF Ends
  <2>4. pos' \in [Handler -> Nat] /\ slot' \in [Handler -> Unit]
    BY <1>0, <1>d, <2>1 DEF Ends
  <2>5. cur' \in [Handler -> Unit] /\ signals' \in [Handler -> 0 .. 2]
    BY <1>0, <1>d, <2>1 DEF Ends
  <2> QED
    BY <2>2, <2>3, <2>4, <2>5
<1>1. ASSUME NEW m \in Msg, Arrive(m)
      PROVE  LoopTypes'
  BY <1>0, <1>a, <1>1 DEF Arrive, procs, loop, stop
<1>2. ASSUME NEW w \in wakes, Exit(w)
      PROVE  LoopTypes'
  BY <1>0, <1>a, <1>2 DEF Exit, loop, stop
<1>3. ASSUME NEW u \in children, SessionEnds(u)
      PROVE  LoopTypes'
  BY <1>0, <1>a, <1>3 DEF SessionEnds, loop, stop
<1>4. ASSUME NEW h \in Handler, TimesUp(h) \/ Signal(h)
      PROVE  LoopTypes'
  BY <1>0, <1>a, <1>c, <1>4 DEF TimesUp, Signal, loop, stop
<1>5. ASSUME NEW h \in Handler, NEW S \in SUBSET Agent, Attach(h, S)
      PROVE  LoopTypes'
  BY <1>0, <1>a, <1>b, <1>5 DEF Attach, procs, stop, LoopSteps
<1>6. ASSUME NEW h \in Handler, NEW a \in Agent, Yield(h, a)
      PROVE  LoopTypes'
  BY <1>0, <1>a, <1>6, ConsumedMail DEF Yield, stop
<1>7. ASSUME NEW h \in Handler, Begin(h) \/ Service(h) \/ PassEnds(h)
      PROVE  LoopTypes'
  BY <1>0, <1>a, <1>b, <1>7 DEF Begin, Service, PassEnds, procs, loop, stop, LoopSteps
<1>8. ASSUME NEW h \in Handler, Settle(h)
      PROVE  LoopTypes'
  BY <1>0, <1>a, <1>b, <1>8 DEF Settle, stop, LoopSteps, Unit
<1>9. ASSUME NEW h \in Handler, Unrecord(h)
      PROVE  LoopTypes'
  BY <1>0, <1>a, <1>b, <1>9 DEF Unrecord, procs, stop, LoopSteps, Unit
<1>10. ASSUME NEW h \in Handler, Consume(h)
       PROVE  LoopTypes'
  <2>1. names[h] \in SUBSET Agent
    BY <1>0
  <2>2. outcomes' \subseteq outcomes
    BY <1>10, <2>1, ConsumedMail DEF Consume
  <2> QED
    BY <1>0, <1>a, <1>b, <1>10, <2>2 DEF Consume, loop, stop, LoopSteps
<1>11. ASSUME NEW h \in Handler, Proxies(h) \/ NextAgent(h)
       PROVE  LoopTypes'
  BY <1>0, <1>a, <1>b, <1>11 DEF Proxies, NextAgent, procs, stop, LoopSteps
<1>12. ASSUME NEW h \in Handler, Take(h)
       PROVE  LoopTypes'
  <2>1. PICK a \in Turn(h) : /\ Ready(a)
                             /\ cur' = [cur EXCEPT ![h] = ToSet(NextUnit(a))]
    BY <1>12 DEF Take
  <2>2. a \in Agent /\ inbox[a] # <<>>
    BY <2>1 DEF Turn, Ready, Tidy, TypeOK
  <2>3. NextUnit(a) \in Seq(Msg)
    BY <2>2, NextTaken DEF Tidy
  <2>4. ToSet(NextUnit(a)) \in Unit
    BY <2>3 DEF ToSet, Unit
  <2> QED
    BY <1>0, <1>a, <1>b, <1>12, <2>1, <2>4 DEF Take, procs, stop, LoopSteps
<1>13. ASSUME NEW h \in Handler, Abort(h) \/ Unspawned(h)
       PROVE  LoopTypes'
  BY <1>0, <1>a, <1>b, <1>13 DEF Abort, Unspawned, Fails, procs, stop, LoopSteps, Unit
<1>14. ASSUME NEW h \in Handler, Claim(h) \/ SpawnFails(h)
       PROVE  LoopTypes'
  BY <1>0, <1>a, <1>b, <1>14 DEF Claim, SpawnFails, procs, loop, stop, LoopSteps
<1>15. ASSUME NEW h \in Handler, Spawn(h)
       PROVE  LoopTypes'
  BY <1>0, <1>a, <1>b, <1>15 DEF Spawn, loop, stop, LoopSteps
<1>16. ASSUME NEW h \in Handler, Note(h)
       PROVE  LoopTypes'
  <2>1. cur[h] # {} /\ \A m \in cur[h] : To[m] \in names[h]
    BY <1>16 DEF Tidy, LoopInv, Note, At, Starting
  <2>2. Ring(h) \in Nat /\ Ring(h) > 0
    <3>1. names[h] # {} /\ names[h] \subseteq Agent
      BY <1>0, <2>1
    <3>2. IsFiniteSet(names[h])
      BY <3>1, FS_Subset, WakeAssumption
    <3> QED
      BY <3>1, <3>2, FS_EmptySet, FS_CardinalityType DEF Ring
  <2>3. (rr[h] % Ring(h)) + pos[h] + 1 \in Nat
    BY <1>0, <2>2
  <2>4. rr' \in [Handler -> Nat]
    BY <1>0, <1>16, <2>3 DEF Note, Advance
  <2> QED
    BY <1>0, <1>a, <1>b, <1>16, <2>4 DEF Note, stop, LoopSteps, Unit
<1>17. ASSUME NEW h \in Handler, Release(h)
       PROVE  LoopTypes'
  <2>1. names[h] \in SUBSET Agent
    BY <1>0
  <2>2. outcomes' \subseteq outcomes
    BY <1>17, <2>1, ConsumedMail DEF Release
  <2> QED
    BY <1>0, <1>a, <1>d, <1>17, <2>2 DEF Release, stop
<1>18. ASSUME NEW h \in Handler, Die(h)
       PROVE  LoopTypes'
  BY <1>0, <1>a, <1>d, <1>18 DEF Die, Dies, stop
<1>19. ASSUME NEW r \in Asked, Ask(r[1], r[2])
       PROVE  LoopTypes'
  BY <1>0, <1>a, <1>19 DEF Ask, procs, loop, stop
<1>20. ASSUME NEW a \in Agent, ForceStop(a)
       PROVE  LoopTypes'
  <2>1. owner[a] \in Handler
    BY <1>20 DEF ForceStop, Tidy, TypeOK
  <2> QED
    BY <1>0, <1>a, <1>c, <1>20, <2>1 DEF ForceStop
<1>21. CASE SecondTerm
  <2>1. target \in Handler
    BY <1>21 DEF SecondTerm, Tidy, TargetInv
  <2> QED
    BY <1>0, <1>a, <1>c, <1>21, <2>1 DEF SecondTerm
<1>22. CASE Freeze
  BY <1>0, <1>a, <1>22 DEF Freeze, procs, loop, Tidy, TargetInv
<1>23. CASE KillRecorded \/ KillChildren
  BY <1>0, <1>a, <1>23 DEF KillRecorded, KillChildren, loop
<1>24. CASE KillHandler
  <2>1. target \in Handler
    BY <1>24 DEF KillHandler, Tidy, TargetInv
  <2>2. CASE Live(target)
    BY <1>0, <1>a, <1>d, <1>24, <2>1, <2>2 DEF KillHandler, Dies
  <2>3. CASE ~Live(target)
    BY <1>0, <1>a, <1>24, <2>3 DEF KillHandler, loop
  <2> QED
    BY <2>2, <2>3
<1>25. CASE Wait \/ (\E a \in Agent : Look(a)) \/ Check \/ Clear \/ Mark
  BY <1>0, <1>25 DEF Wait, Look, Check, Clear, Mark, procs, loop
<1>26. CASE Finish
  <2>1. scope \in SUBSET Agent
    BY DEF Tidy, TypeOK
  <2>2. outcomes' \subseteq outcomes
    BY <1>26, <2>1, ConsumedMail DEF Finish
  <2> QED
    BY <1>0, <1>a, <1>26, <2>2 DEF Finish, loop
<1> QED
  BY <1>1, <1>2, <1>3, <1>4, <1>5, <1>6, <1>7, <1>8, <1>9, <1>10, <1>11, <1>12, <1>13,
     <1>14, <1>15, <1>16, <1>17, <1>18, <1>19, <1>20, <1>21, <1>22, <1>23, <1>24, <1>25,
     <1>26 DEF Next, Loop, Command

LEMMA StopTypesStep ==
  ASSUME Tidy, Renewed = {}, Next
  PROVE  StopTypes'
<1> USE DEF StopTypes
<1>0. StopTypes
  BY TypesSplit DEF Tidy
<1>1. ASSUME NEW m \in Msg, Arrive(m)
      PROVE  StopTypes'
  BY <1>0, <1>1 DEF Arrive, stop, Unit
<1>2. ASSUME \/ \E w \in wakes : Exit(w)
             \/ \E h \in Handler :
                  \/ TimesUp(h) \/ (\E a \in Agent : Yield(h, a)) \/ Begin(h) \/ Service(h)
                  \/ Settle(h) \/ Unrecord(h) \/ Consume(h) \/ Proxies(h) \/ PassEnds(h)
                  \/ NextAgent(h) \/ Take(h) \/ Abort(h) \/ Spawn(h) \/ SpawnFails(h)
                  \/ Unspawned(h) \/ Release(h)
      PROVE  StopTypes'
  <2>1. CASE \/ \E w \in wakes : Exit(w)
             \/ \E h \in Handler :
                  \/ TimesUp(h) \/ (\E a \in Agent : Yield(h, a)) \/ Begin(h) \/ Service(h)
                  \/ Settle(h) \/ Unrecord(h) \/ Consume(h)
    <3>1. UNCHANGED <<stop, events, history>>
      BY <2>1 DEF Exit, TimesUp, Yield, Begin, Service, Settle, Unrecord, Consume
    <3> QED
      BY <1>0, <3>1 DEF stop, history
  <2>2. CASE \E h \in Handler :
                  \/ Proxies(h) \/ PassEnds(h) \/ NextAgent(h) \/ Take(h) \/ Abort(h)
                  \/ Spawn(h) \/ SpawnFails(h) \/ Unspawned(h) \/ Release(h)
    <3>1. UNCHANGED <<stop, events, history>>
      BY <2>2 DEF Proxies, PassEnds, NextAgent, Take, Abort, Fails, Spawn, SpawnFails,
         Unspawned, Release
    <3> QED
      BY <1>0, <3>1 DEF stop, history
  <2> QED
    BY <1>2, <2>1, <2>2
<1>3. ASSUME NEW u \in children, SessionEnds(u)
      PROVE  StopTypes'
  BY <1>0, <1>3 DEF SessionEnds, stop, Tidy, TypeOK
<1>4. ASSUME NEW h \in Handler, Signal(h)
      PROVE  StopTypes'
  BY <1>0, <1>4, WakeAssumption DEF Signal, stop, history
<1>5. ASSUME NEW h \in Handler, NEW S \in SUBSET Agent, Attach(h, S)
      PROVE  StopTypes'
  BY <1>0, <1>5 DEF Attach, stop
<1>6. ASSUME NEW r \in Asked, Ask(r[1], r[2])
      PROVE  StopTypes'
  BY <1>0, <1>6, WakeAssumption DEF Ask, stop, history
<1>7. ASSUME NEW h \in Handler, Claim(h)
      PROVE  StopTypes'
  <2>1. AgentOf(cur[h]) \in Agent
    BY <1>7, StartingHas DEF Claim, At, Starting
  <2>2. record[AgentOf(cur[h])].unit \in Unit
    BY <2>1 DEF Tidy, TypeOK
  <2> QED
    BY <1>0, <1>7, <2>2 DEF Claim, stop, Unit
<1>8. ASSUME NEW h \in Handler, Note(h)
      PROVE  StopTypes'
  BY <1>0, <1>8 DEF Note, stop, Tidy, TypeOK
<1>9. ASSUME NEW h \in Handler, Dies(h), UNCHANGED <<tainted, newest, reported>>
      PROVE  /\ excused' \subseteq Msg /\ tainted' \subseteq Agent /\ newest' \in [Agent -> Unit]
             /\ reported' \subseteq Unit
  <2>1. cur[h] \in Unit
    BY DEF Tidy, TypeOK
  <2> QED
    BY <1>0, <1>9, <2>1 DEF Dies, Unit
<1>10. ASSUME NEW h \in Handler, Die(h)
       PROVE  StopTypes'
  BY <1>0, <1>9, <1>10, WakeAssumption DEF Die, stop
<1>11. ASSUME NEW a \in Agent, ForceStop(a)
       PROVE  StopTypes'
  <2>1. owner[a] \in Handler
    BY <1>11 DEF ForceStop, Tidy, TypeOK
  <2> QED
    BY <1>0, <1>11, <2>1, WakeAssumption DEF ForceStop, Then, StopSteps, history
<1>12. CASE SecondTerm \/ Wait \/ KillRecorded \/ KillChildren \/ Check \/ Clear
  BY <1>0, <1>12 DEF SecondTerm, Wait, KillRecorded, KillChildren, Check, Clear, Then,
     StopSteps, history
<1>13. CASE Freeze
  <2>1. sure' = FALSE \/ sure' = Live(target)
    BY <1>13 DEF Freeze
  <2>2. Live(target) = TRUE \/ Live(target) = FALSE
    BY DEF Live
  <2>3. sure' \in BOOLEAN
    BY <2>1, <2>2
  <2>4. UNCHANGED <<target, scope, left, looks, unit, events, history>>
    BY <1>13 DEF Freeze
  <2>5. kpc' \in StopSteps /\ own' \subseteq Agent
    BY <1>0, <1>13 DEF Freeze, Then, StopSteps
  <2> QED
    BY <1>0, <2>3, <2>4, <2>5 DEF history
<1>14. CASE KillHandler
  <2>1. target \in Handler
    BY <1>14 DEF KillHandler, Tidy, TargetInv
  <2>2. excused' \subseteq Msg
    BY <1>0, <1>9, <1>14, <2>1 DEF KillHandler
  <2>3. caught' \subseteq Msg
    BY <1>14 DEF KillHandler, Tidy, TypeOK
  <2> QED
    BY <1>0, <1>14, <2>2, <2>3 DEF KillHandler, Then, StopSteps
<1>15. ASSUME NEW a \in Agent, Look(a)
       PROVE  StopTypes'
  BY <1>0, <1>15 DEF Look, Then, StopSteps, history, Tidy, TypeOK
<1>16. CASE Mark
  BY <1>0, <1>16 DEF Mark, Then, StopSteps, history, Unit
<1>17. CASE Finish
  BY <1>0, <1>17 DEF Finish, Then, StopSteps, Unit
<1> QED
  BY <1>1, <1>2, <1>3, <1>4, <1>5, <1>6, <1>7, <1>8, <1>10, <1>11, <1>12, <1>13,
     <1>14, <1>15, <1>16, <1>17 DEF Next, Loop, Command

(***************************************************************************)
(* The actions in groups: those that touch no handler's loop, the steps of *)
(* a loop that touch no wake, and the ends of a handler.                   *)
(***************************************************************************)
Deaf == KillHandler /\ ~Live(target)
Stopping ==
  \/ \E a \in Agent : ForceStop(a) \/ Look(a)
  \/ SecondTerm \/ Wait \/ Freeze \/ KillRecorded \/ KillChildren \/ Deaf \/ Check \/ Clear
  \/ Mark \/ Finish
Outside ==
  \/ \E m \in Msg : Arrive(m)
  \/ \E w \in wakes : Exit(w)
  \/ \E u \in children : SessionEnds(u)
  \/ \E h \in Handler : TimesUp(h) \/ Signal(h)
  \/ \E r \in Asked : Ask(r[1], r[2])
  \/ Stopping
Turning(h) ==
  Begin(h) \/ Service(h) \/ Consume(h) \/ Proxies(h) \/ PassEnds(h) \/ NextAgent(h)
Failing(h) == Abort(h) \/ Unspawned(h)
Ending(h) == Release(h) \/ Die(h) \/ (KillHandler /\ h = target /\ Live(h))
Working(h) ==
  \/ Turning(h) \/ (\E a \in Agent : Yield(h, a)) \/ (\E S \in SUBSET Agent : Attach(h, S))
  \/ Settle(h) \/ Unrecord(h) \/ Take(h) \/ Failing(h) \/ Claim(h) \/ Spawn(h)
  \/ SpawnFails(h) \/ Note(h) \/ Ending(h)

LEMMA NextSplit ==
  ASSUME TargetInv, Next
  PROVE  Outside \/ \E h \in Handler : Working(h)
<1>1. CASE Command
  <2>1. CASE KillHandler
    <3>1. target \in Handler
      BY <2>1 DEF KillHandler, TargetInv
    <3> QED
      BY <2>1, <3>1 DEF Outside, Stopping, Deaf, Working, Ending
  <2> QED
    BY <1>1, <2>1 DEF Command, Outside, Stopping
<1>2. ASSUME NEW h \in Handler, Loop(h)
      PROVE  Working(h)
  BY <1>2 DEF Loop, Working, Turning, Failing, Ending
<1>3. CASE (\E h \in Handler : TimesUp(h) \/ Signal(h)) \/ \E a \in Agent : ForceStop(a)
  BY <1>3 DEF Outside, Stopping
<1>4. CASE (\E h \in Handler : Die(h)) \/ \E h \in Handler, S \in SUBSET Agent : Attach(h, S)
  BY <1>4 DEF Working, Ending
<1> QED
  BY <1>1, <1>2, <1>3, <1>4 DEF Next, Outside

LEMMA StoppingKeeps ==
  ASSUME Stopping
  PROVE  /\ UNCHANGED <<inbox, sent, trash, acked, owner, children, pc, names, rr, pos, slot, cur>>
         /\ UNCHANGED <<excused, tainted, newest, reported>>
<1>1. CASE \E a \in Agent : ForceStop(a) \/ Look(a)
  BY <1>1 DEF ForceStop, Look, mail, disk, procs, loop, history
<1>2. CASE SecondTerm \/ Wait \/ Freeze
  BY <1>2 DEF SecondTerm, Wait, Freeze, mail, disk, procs, loop, history
<1>3. CASE KillRecorded \/ KillChildren \/ Deaf
  BY <1>3 DEF KillRecorded, KillChildren, Deaf, KillHandler, mail, disk, procs, loop, history
<1>4. CASE Check \/ Clear
  BY <1>4 DEF Check, Clear, mail, disk, procs, loop, history
<1>5. CASE Mark \/ Finish
  BY <1>5 DEF Mark, Finish, disk, procs, loop, history
<1> QED
  BY <1>1, <1>2, <1>3, <1>4, <1>5 DEF Stopping

\* Mail that arrives is new.
LEMMA ArriveKeeps ==
  ASSUME Tidy, Renewed = {}, NEW m \in Msg, Arrive(m)
  PROVE  /\ m \notin sent /\ sent' = sent \cup {m} /\ inbox' = [inbox EXCEPT ![To[m]] = Append(@, m)]
         /\ UNCHANGED <<trash, acked, dead, newest, reported, last, record, owner, wakes, children>>
         /\ UNCHANGED <<outcomes, pc, names, rr, pos, slot, cur, stop, excused, tainted, caught>>
<1>1. m \notin sent
  BY DEF Arrive
<1>2. m \notin trash /\ \A u \in Units : m \notin u
  BY <1>1 DEF Tidy, TypeOK, UnitInv, Whole
<1>3. trash' = trash /\ acked' = acked /\ dead' = dead
  BY <1>2 DEF Arrive, Tidy, TypeOK
<1>4. newest' = newest
  <2>1. \A a \in Agent : m \notin newest[a]
    BY <1>2, InSight
  <2>2. newest \in [Agent -> Unit]
    BY DEF Tidy, TypeOK
  <2> QED
    BY <2>1, <2>2 DEF Arrive
<1>5. reported' = reported
  <2>1. \A u \in reported : m \notin u
    BY <1>2, InSight
  <2> QED
    BY <2>1 DEF Arrive
<1>6. UNCHANGED <<last, record, owner, wakes, children, outcomes, pc, names, rr, pos, slot>>
  BY DEF Arrive, disk, procs, loop
<1>7. UNCHANGED <<cur, stop, excused, tainted, caught>>
  BY DEF Arrive, loop
<1> QED
  BY <1>1, <1>3, <1>4, <1>5, <1>6, <1>7 DEF Arrive

LEMMA OutsideKeeps ==
  ASSUME Tidy, Renewed = {}, Outside
  PROVE  /\ UNCHANGED <<trash, acked, owner, pc, names, rr, pos, slot, cur>>
         /\ UNCHANGED <<excused, tainted, newest>>
<1>1. ASSUME NEW m \in Msg, Arrive(m)
      PROVE  UNCHANGED <<trash, acked, owner, pc, names, rr, pos, slot, cur, excused, tainted, newest>>
  BY <1>1, ArriveKeeps
<1>2. CASE \E w \in wakes : Exit(w)
  BY <1>2 DEF Exit, mail, disk, loop, history
<1>3. CASE \E u \in children : SessionEnds(u)
  BY <1>3 DEF SessionEnds, mail, disk, loop
<1>4. CASE \E h \in Handler : TimesUp(h) \/ Signal(h)
  BY <1>4 DEF TimesUp, Signal, mail, disk, loop, history
<1>5. CASE \E r \in Asked : Ask(r[1], r[2])
  BY <1>5 DEF Ask, mail, procs, loop, history
<1> QED
  BY <1>1, <1>2, <1>3, <1>4, <1>5, StoppingKeeps DEF Outside

\* The step of a loop that touches no wake.
Between == {"top", "service", "consume", "proxies", "dispatch", "fin"}
LEMMA TurningKeeps ==
  ASSUME Tidy, NEW h \in Handler, Turning(h)
  PROVE  /\ UNCHANGED <<sent, trash, acked, record, owner, wakes, children, names, rr, slot, cur>>
         /\ UNCHANGED <<kpc, target, scope, own, left, looks, unit, sure, frozen>>
         /\ UNCHANGED <<excused, tainted, newest, reported, caught>>
         /\ pc[h] \in Between /\ pc'[h] \in Between
         /\ \A g \in Handler \ {h} : pc'[g] = pc[g]
<1>0. pc \in [Handler -> LoopSteps \cup {"unborn", "gone"}]
  BY DEF Tidy, TypeOK
<1>1. CASE Begin(h) \/ Service(h) \/ PassEnds(h)
  BY <1>0, <1>1 DEF Begin, Service, PassEnds, At, Passing, Go, Between, mail, disk, procs, loop,
     stop, history
<1>2. CASE Consume(h)
  BY <1>0, <1>2 DEF Consume, At, Go, Between, disk, loop, stop, history
<1>3. CASE Proxies(h)
  BY <1>0, <1>3 DEF Proxies, At, Go, Between, disk, procs, stop, history
<1>4. CASE NextAgent(h)
  BY <1>0, <1>4 DEF NextAgent, Passing, At, Between, mail, disk, procs, stop, history
<1> QED
  BY <1>1, <1>2, <1>3, <1>4 DEF Turning

\* The end of a handler: what it had in hand is nobody's any more.
LEMMA EndingDoes ==
  ASSUME Tidy, NEW h \in Handler, Ending(h)
  PROVE  /\ Live(h) /\ pc' = [pc EXCEPT ![h] = "gone"]
         /\ owner' = [a \in Agent |-> IF owner[a] = h THEN None ELSE owner[a]]
         /\ names' = [names EXCEPT ![h] = {}] /\ slot' = [slot EXCEPT ![h] = {}]
         /\ cur' = [cur EXCEPT ![h] = {}]
         /\ UNCHANGED <<inbox, sent, trash, acked, record, children, tainted, newest, reported>>
         /\ wakes' \subseteq wakes
         /\ \A w \in wakes' : w.by = h => w.st = "running" \/ (slot[h] = {} /\ cur[h] = {})
         /\ excused' = excused \/ excused' = excused \cup cur[h]
         /\ Hand(h) = {} \/ pc[h] \notin Windows \/ excused' = excused \cup cur[h]
<1>0. pc[h] \in LoopSteps => Live(h)
  BY DEF Live
<1>1. CASE Release(h)
  <2>1. slot[h] = {} /\ cur[h] = {}
    BY <1>1 DEF Release, At, Tidy, LoopInv, Starting, Clearing
  <2> QED
    BY <1>0, <1>1, <2>1 DEF Release, Ends, Go, At, LoopSteps, Hand, history
<1>2. CASE Die(h) \/ (KillHandler /\ h = target /\ Live(h))
  <2>1. Dies(h) /\ Live(h)
    BY <1>2 DEF Die, KillHandler
  <2>2. UNCHANGED <<inbox, sent, trash, acked, record, children, tainted, newest, reported>>
    BY <1>2 DEF Die, KillHandler, mail
  <2>3. Ends(h) /\ wakes' = {w \in wakes : w.by # h \/ w.st = "running"}
        /\ excused' = excused \cup (IF pc[h] \in Windows THEN cur[h] ELSE {})
    BY <2>1 DEF Dies
  <2>4. excused' = excused \/ excused' = excused \cup cur[h]
    BY <2>3
  <2>5. pc[h] \notin Windows \/ excused' = excused \cup cur[h]
    BY <2>3
  <2> QED
    BY <2>1, <2>2, <2>3, <2>4, <2>5 DEF Ends, Go
<1> QED
  BY <1>1, <1>2 DEF Ending

(***************************************************************************)
(* Units stay units.                                                       *)
(***************************************************************************)
Known(u) == u = {} \/ u \in Units

\* What Take takes is new mail of one agent of the handler.
LEMMA TakeDoes ==
  ASSUME Tidy, NEW h \in Handler, Take(h)
  PROVE  /\ cur' = [cur EXCEPT ![h] = cur'[h]] /\ trash' = trash \cup cur'[h]
         /\ cur'[h] # {} /\ cur'[h] \subseteq sent /\ cur'[h] \cap trash = {}
         /\ \A m, n \in cur'[h] : To[m] = To[n] /\ To[m] \in names[h]
         /\ pc[h] = "dispatch" /\ pc' = [pc EXCEPT ![h] = "trashed"]
         /\ UNCHANGED <<sent, acked, dead, last, record, owner, request, wakes, children, outcomes>>
         /\ UNCHANGED <<names, rr, slot, signals, kpc, target, scope, own, left, looks, unit, sure, frozen>>
         /\ UNCHANGED <<excused, tainted, newest, reported, caught>>
<1>1. PICK a \in Turn(h) : /\ Ready(a) /\ cur' = [cur EXCEPT ![h] = ToSet(NextUnit(a))]
                           /\ trash' = trash \cup ToSet(NextUnit(a))
  BY DEF Take
<1>2. a \in Agent /\ a \in names[h] /\ inbox[a] # <<>> /\ cur \in [Handler -> Unit]
  BY <1>1 DEF Turn, Ready, Tidy, TypeOK
<1>3. /\ Len(NextUnit(a)) \in 1 .. Len(inbox[a]) /\ Len(inbox[a]) \in Nat
      /\ ToSet(NextUnit(a)) = {inbox[a][i] : i \in 1 .. Len(NextUnit(a))}
  BY <1>2, NextTaken DEF Tidy, TypeOK
<1>4. /\ ToSet(NextUnit(a)) # {} /\ ToSet(NextUnit(a)) \subseteq sent \ trash
      /\ \A m \in ToSet(NextUnit(a)) : To[m] = a
  BY <1>2, <1>3 DEF Tidy, InboxInv
<1>5. cur'[h] = ToSet(NextUnit(a))
  BY <1>1, <1>2
<1>6. pc[h] = "dispatch" /\ pc' = [pc EXCEPT ![h] = "trashed"]
  BY DEF Take, Passing, At, Go
<1>7. UNCHANGED <<sent, acked, dead, last, record, owner, request, wakes, children, outcomes>>
  BY DEF Take, disk, procs
<1>8. /\ UNCHANGED <<names, rr, slot, signals, kpc, target, scope, own, left, looks, unit, sure, frozen>>
      /\ UNCHANGED <<excused, tainted, newest, reported, caught>>
  BY DEF Take, stop, history
<1> QED
  BY <1>1, <1>2, <1>4, <1>5, <1>6, <1>7, <1>8

LEMMA SlotKnown ==
  ASSUME Tidy, Renewed = {}, Next, NEW h \in Handler
  PROVE  Known(slot'[h])
<1>0. slot \in [Handler -> Unit] /\ \A g \in Handler : Known(slot[g]) /\ Known(cur[g])
  BY InSight DEF Known, Tidy, TypeOK
<1>1. CASE Outside
  BY <1>0, <1>1, OutsideKeeps
<1>2. ASSUME NEW g \in Handler, Turning(g) \/ Take(g)
      PROVE  Known(slot'[h])
  BY <1>0, <1>2, TurningKeeps, TakeDoes
<1>3. ASSUME NEW g \in Handler, Settle(g) \/ Note(g)
      PROVE  Known(slot'[h])
  BY <1>0, <1>3 DEF Settle, Note, Known
<1>4. ASSUME NEW g \in Handler, Ending(g)
      PROVE  Known(slot'[h])
  BY <1>0, <1>4, EndingDoes DEF Known
<1>5. ASSUME NEW g \in Handler,
             \/ \E a \in Agent : Yield(g, a)
             \/ \E S \in SUBSET Agent : Attach(g, S)
             \/ Unrecord(g) \/ Failing(g) \/ Claim(g) \/ Spawn(g) \/ SpawnFails(g)
      PROVE  Known(slot'[h])
  BY <1>0, <1>5 DEF Yield, Attach, Unrecord, Failing, Abort, Unspawned, Fails, Claim, Spawn,
     SpawnFails, loop
<1> QED
  BY <1>1, <1>2, <1>3, <1>4, <1>5, NextSplit DEF Working, Tidy

LEMMA CurKnown ==
  ASSUME Tidy, Renewed = {}, Next, NEW h \in Handler
  PROVE  Known(cur'[h]) \/ Take(h)
<1>0. cur \in [Handler -> Unit] /\ \A g \in Handler : Known(slot[g]) /\ Known(cur[g])
  BY InSight DEF Known, Tidy, TypeOK
<1>1. CASE Outside
  BY <1>0, <1>1, OutsideKeeps
<1>2. ASSUME NEW g \in Handler, Turning(g)
      PROVE  Known(cur'[h])
  BY <1>0, <1>2, TurningKeeps
<1>3. ASSUME NEW g \in Handler, Settle(g) \/ Note(g) \/ Unrecord(g) \/ Failing(g)
      PROVE  Known(cur'[h])
  BY <1>0, <1>3 DEF Settle, Note, Unrecord, Failing, Abort, Unspawned, Fails, Known
<1>4. ASSUME NEW g \in Handler, Ending(g)
      PROVE  Known(cur'[h])
  BY <1>0, <1>4, EndingDoes DEF Known
<1>5. ASSUME NEW g \in Handler, Take(g)
      PROVE  Known(cur'[h]) \/ Take(h)
  BY <1>0, <1>5 DEF Take
<1>6. ASSUME NEW g \in Handler,
             \/ \E a \in Agent : Yield(g, a)
             \/ \E S \in SUBSET Agent : Attach(g, S)
             \/ Claim(g) \/ Spawn(g) \/ SpawnFails(g)
      PROVE  Known(cur'[h])
  BY <1>0, <1>6 DEF Yield, Attach, Claim, Spawn, SpawnFails, loop
<1> QED
  BY <1>1, <1>2, <1>3, <1>4, <1>5, <1>6, NextSplit DEF Working, Tidy

\* A record comes to name what is in hand, or nothing.
LEMMA RecordAfter ==
  ASSUME Tidy, Renewed = {}, Next, NEW a \in Agent
  PROVE  \/ record'[a] = record[a]
         \/ record'[a].unit = {} /\ (Clear \/ \E h \in Handler : Unrecord(h) \/ SpawnFails(h))
         \/ \E h \in Handler :
              /\ Claim(h) \/ Note(h)
              /\ cur[h] # {} /\ a = AgentOf(cur[h]) /\ record'[a].unit = cur[h]
<1>0. record \in [Agent -> [unit : Unit, born : BOOLEAN]]
  BY DEF Tidy, TypeOK
<1>1. ASSUME NEW r, r.unit = {}, NEW b \in Agent, record' = [record EXCEPT ![b] = r]
      PROVE  record'[a] = record[a] \/ record'[a].unit = {}
  BY <1>0, <1>1
<1>2. \A b : Cleared(b)[a] = record[a] \/ Cleared(b)[a].unit = {}
  BY <1>0 DEF Cleared, NoRecord
<1>3. ASSUME NEW h \in Handler, Claim(h) \/ Note(h)
      PROVE  \/ record'[a] = record[a]
             \/ cur[h] # {} /\ a = AgentOf(cur[h]) /\ record'[a].unit = cur[h]
  <2>1. cur[h] # {} /\ AgentOf(cur[h]) \in Agent
    BY <1>3, StartingHas DEF Claim, Note, At, Starting
  <2>2. PICK b \in BOOLEAN :
          record' = [record EXCEPT ![AgentOf(cur[h])] = [unit |-> cur[h], born |-> b]]
    BY <1>3 DEF Claim, Note
  <2> QED
    BY <1>0, <2>1, <2>2
<1>4. CASE Outside
  <2>1. CASE Clear
    BY <1>2, <2>1 DEF Clear
  <2>2. CASE ~Clear
    <3>1. record' = record
      BY <1>4, <2>2, ArriveKeeps DEF Outside, Stopping, Exit, SessionEnds, TimesUp, Signal, Ask,
         ForceStop, Look, SecondTerm, Wait, Freeze, KillRecorded, KillChildren, Deaf, KillHandler,
         Check, Mark, Finish, disk
    <3> QED
      BY <3>1
  <2> QED
    BY <2>1, <2>2
<1>5. ASSUME NEW h \in Handler, Unrecord(h) \/ SpawnFails(h)
      PROVE  record'[a] = record[a] \/ record'[a].unit = {}
  BY <1>2, <1>5 DEF Unrecord, SpawnFails
<1>6. ASSUME NEW h \in Handler,
             \/ \E b \in Agent : Yield(h, b)
             \/ \E S \in SUBSET Agent : Attach(h, S)
             \/ Turning(h) \/ Take(h) \/ Settle(h) \/ Failing(h) \/ Spawn(h) \/ Ending(h)
      PROVE  record' = record
  BY <1>6, TurningKeeps, TakeDoes, EndingDoes DEF Yield, Attach, Settle, Failing, Abort,
     Unspawned, Fails, Spawn, disk
<1> QED
  BY <1>3, <1>4, <1>5, <1>6, NextSplit DEF Working, Tidy

LEMMA ChildrenAfter ==
  ASSUME Tidy, Renewed = {}, Next
  PROVE  /\ children' \subseteq children \/ \E h \in Handler : Spawn(h)
         /\ \A u \in children' : u \in children \/ \E h \in Handler : Spawn(h) /\ u = cur[h]
<1>1. ASSUME NEW h \in Handler, Spawn(h)
      PROVE  \A u \in children' : u \in children \/ u = cur[h]
  BY <1>1 DEF Spawn
<1>2. CASE Outside
  BY <1>2, ArriveKeeps, StoppingKeeps DEF Outside, Exit, SessionEnds, TimesUp, Signal, Ask, procs
<1>3. ASSUME NEW h \in Handler,
             \/ \E b \in Agent : Yield(h, b)
             \/ \E S \in SUBSET Agent : Attach(h, S)
             \/ Turning(h) \/ Take(h) \/ Settle(h) \/ Failing(h) \/ Ending(h)
             \/ Unrecord(h) \/ SpawnFails(h) \/ Claim(h) \/ Note(h)
      PROVE  children' = children
  BY <1>3, TurningKeeps, TakeDoes, EndingDoes DEF Yield, Attach, Settle, Failing, Abort,
     Unspawned, Fails, Unrecord, SpawnFails, Claim, Note, procs
<1> QED
  BY <1>1, <1>2, <1>3, NextSplit DEF Working, Tidy

LEMMA ReportedAfter ==
  ASSUME Tidy, Renewed = {}, Next
  PROVE  \/ reported' = reported
         \/ \E u \in children : /\ SessionEnds(u) /\ reported' = reported \cup {u}
                                /\ children' = children \ {u} /\ outcomes' = outcomes \cup {u}
<1>1. CASE Outside
  BY <1>1, ArriveKeeps, StoppingKeeps DEF Outside, Exit, SessionEnds, TimesUp, Signal, Ask, history
<1>2. ASSUME NEW h \in Handler,
             \/ \E b \in Agent : Yield(h, b)
             \/ \E S \in SUBSET Agent : Attach(h, S)
             \/ Turning(h) \/ Take(h) \/ Settle(h) \/ Failing(h) \/ Ending(h)
             \/ Unrecord(h) \/ SpawnFails(h) \/ Spawn(h) \/ Claim(h) \/ Note(h)
      PROVE  reported' = reported
  BY <1>2, TurningKeeps, TakeDoes, EndingDoes DEF Yield, Attach, Settle, Failing, Abort,
     Unspawned, Fails, Unrecord, SpawnFails, Spawn, Claim, Note, history
<1> QED
  BY <1>1, <1>2, NextSplit DEF Working, Tidy

LEMMA NewestAfter ==
  ASSUME Tidy, Renewed = {}, Next, NEW a \in Agent
  PROVE  \/ newest'[a] = newest[a]
         \/ \E h \in Handler : Note(h) /\ a = AgentOf(cur[h]) /\ newest'[a] = cur[h]
<1>0. newest \in [Agent -> Unit]
  BY DEF Tidy, TypeOK
<1>1. CASE Outside
  BY <1>1, OutsideKeeps
<1>2. ASSUME NEW h \in Handler, Note(h)
      PROVE  newest'[a] = newest[a] \/ (a = AgentOf(cur[h]) /\ newest'[a] = cur[h])
  BY <1>0, <1>2 DEF Note
<1>3. ASSUME NEW h \in Handler,
             \/ \E b \in Agent : Yield(h, b)
             \/ \E S \in SUBSET Agent : Attach(h, S)
             \/ Turning(h) \/ Take(h) \/ Settle(h) \/ Failing(h) \/ Ending(h)
             \/ Unrecord(h) \/ SpawnFails(h) \/ Spawn(h) \/ Claim(h)
      PROVE  newest' = newest
  BY <1>3, TurningKeeps, TakeDoes, EndingDoes DEF Yield, Attach, Settle, Failing, Abort,
     Unspawned, Fails, Unrecord, SpawnFails, Spawn, Claim, history
<1> QED
  BY <1>1, <1>2, <1>3, NextSplit DEF Working, Tidy

\* What a force stop knows changes with its own steps only.
LEMMA WorkingKeeps ==
  ASSUME Tidy, NEW h \in Handler, Working(h)
  PROVE  /\ UNCHANGED <<target, scope, own, left, looks, unit, sure>>
         /\ (kpc' = kpc /\ frozen' = frozen) \/ KillHandler
<1>1. CASE \/ \E b \in Agent : Yield(h, b)
           \/ \E S \in SUBSET Agent : Attach(h, S)
           \/ Turning(h) \/ Take(h) \/ Settle(h) \/ Failing(h)
           \/ Unrecord(h) \/ SpawnFails(h) \/ Spawn(h) \/ Claim(h) \/ Note(h)
  BY <1>1, TurningKeeps, TakeDoes DEF Yield, Attach, Settle, Failing, Abort, Unspawned, Fails,
     Unrecord, SpawnFails, Spawn, Claim, Note, stop
<1>2. CASE Ending(h)
  BY <1>2 DEF Ending, Release, Die, KillHandler, stop
<1> QED
  BY <1>1, <1>2 DEF Working

LEMMA UnitAfter ==
  ASSUME Tidy, Renewed = {}, Next
  PROVE  \/ unit' = unit
         \/ unit' = {} /\ Mark
         \/ \E a \in Agent : Look(a) /\ unit' = record[a].unit
<1>1. CASE Outside
  BY <1>1, ArriveKeeps DEF Outside, Stopping, Exit, SessionEnds, TimesUp, Signal, Ask,
     ForceStop, Look, SecondTerm, Wait, Freeze, KillRecorded, KillChildren, Deaf, KillHandler,
     Check, Clear, Mark, Finish, stop
<1> QED
  BY <1>1, WorkingKeeps, NextSplit DEF Tidy

LEMMA WakesAfter ==
  ASSUME Tidy, Next, NEW w \in wakes'
  PROVE  (\E v \in wakes : w.unit = v.unit /\ w.by = v.by) \/ \E h \in Handler : Spawn(h) /\ w.unit = cur[h] /\ w.by = h
<1>1. CASE Calm
  BY <1>1 DEF Calm
<1>2. ASSUME NEW h \in Handler, Spawn(h)
      PROVE  (\E v \in wakes : w.unit = v.unit /\ w.by = v.by) \/ (w.unit = cur[h] /\ w.by = h)
  BY <1>2 DEF Spawn
<1> QED
  BY <1>1, <1>2, StepCalm DEF Tidy

\* A unit in sight is one that was, or what a handler has just taken.
LEMMA UnitsAfter ==
  ASSUME Tidy, Renewed = {}, Next, NEW u \in Units'
  PROVE  Known(u) \/ \E h \in Handler : Take(h) /\ u = cur'[h]
<1>0. /\ \A h \in Handler : slot[h] \in Units /\ cur[h] \in Units
      /\ \A a \in Agent : record[a].unit \in Units /\ newest[a] \in Units
      /\ \A w \in wakes : w.unit \in Units
      /\ children \subseteq Units /\ reported \subseteq Units /\ unit \in Units
  BY InSight
<1>1. \/ \E h \in Handler : u = slot'[h] \/ u = cur'[h]
      \/ \E a \in Agent : u = record'[a].unit \/ u = newest'[a]
      \/ \E w \in wakes' : u = w.unit
      \/ u \in children' \/ u \in reported' \/ u = unit'
  BY DEF Units
<1>2. CASE \E h \in Handler : u = slot'[h] \/ u = cur'[h]
  BY <1>2, SlotKnown, CurKnown
<1>3. CASE \E a \in Agent : u = record'[a].unit \/ u = newest'[a]
  BY <1>0, <1>3, RecordAfter, NewestAfter DEF Known
<1>4. CASE \E w \in wakes' : u = w.unit
  BY <1>0, <1>4, WakesAfter DEF Known
<1>5. CASE u \in children' \/ u \in reported' \/ u = unit'
  BY <1>0, <1>5, ChildrenAfter, ReportedAfter, UnitAfter DEF Known
<1> QED
  BY <1>1, <1>2, <1>3, <1>4, <1>5

(***************************************************************************)
(* Mail that is settled stays so, and is settled by whole units.           *)
(***************************************************************************)
LEMMA TrashGrows ==
  ASSUME Tidy, Renewed = {}, Next
  PROVE  trash' = trash \/ \E h \in Handler : Take(h) /\ trash' = trash \cup cur'[h]
<1>1. ASSUME NEW h \in Handler,
             \/ \E b \in Agent : Yield(h, b)
             \/ \E S \in SUBSET Agent : Attach(h, S)
             \/ Turning(h) \/ Settle(h) \/ Failing(h) \/ Ending(h)
             \/ Unrecord(h) \/ SpawnFails(h) \/ Spawn(h) \/ Claim(h) \/ Note(h)
      PROVE  trash' = trash
  BY <1>1, TurningKeeps, EndingDoes DEF Yield, Attach, Settle, Failing, Abort,
     Unspawned, Fails, Unrecord, SpawnFails, Spawn, Claim, Note, mail
<1> QED
  BY <1>1, OutsideKeeps, TakeDoes, NextSplit DEF Working, Tidy

LEMMA AckedAfter ==
  ASSUME Tidy, Renewed = {}, Next
  PROVE  \/ acked' = acked
         \/ \E h \in Handler : Settle(h) /\ acked' = acked \cup slot[h] /\ dead' = dead
<1>1. ASSUME NEW h \in Handler,
             \/ \E b \in Agent : Yield(h, b)
             \/ \E S \in SUBSET Agent : Attach(h, S)
             \/ Turning(h) \/ Failing(h) \/ Ending(h)
             \/ Unrecord(h) \/ SpawnFails(h) \/ Spawn(h) \/ Claim(h) \/ Note(h)
      PROVE  acked' = acked
  BY <1>1, TurningKeeps, EndingDoes DEF Yield, Attach, Failing, Abort,
     Unspawned, Fails, Unrecord, SpawnFails, Spawn, Claim, Note, mail
<1>2. ASSUME NEW h \in Handler, Settle(h)
      PROVE  acked' = acked \/ (acked' = acked \cup slot[h] /\ dead' = dead)
  BY <1>2 DEF Settle
<1> QED
  BY <1>1, <1>2, OutsideKeeps, TakeDoes, NextSplit DEF Working, Tidy

\* Who makes mail dead: a settling, a start that fails, the end of a force stop, or the
\* taking of a failure record.
LEMMA DeadAfter ==
  ASSUME Tidy, Renewed = {}, Next
  PROVE  \/ dead' = dead
         \/ \E h \in Handler : Settle(h) /\ dead' = dead \cup slot[h] /\ acked' = acked
         \/ \E h \in Handler : Failing(h) /\ pc[h] \in Starting /\ dead' = dead \cup cur[h]
         \/ Mark /\ owner[looks] = None /\ dead' = dead \cup unit
         \/ \E S \in SUBSET Agent, me \in Handler \cup {None} : Consumed(S, me)
<1>1. ASSUME NEW h \in Handler, NEW a \in Agent, Yield(h, a)
      PROVE  dead' = dead \/ Consumed({a}, h)
  BY <1>1 DEF Yield
<1>2. ASSUME NEW h \in Handler, Turning(h) \/ Ending(h)
      PROVE  dead' = dead \/ Consumed(names[h], h)
  BY <1>2 DEF Turning, Begin, Service, Consume, Proxies, PassEnds, NextAgent, Ending, Release,
     Die, KillHandler, mail
<1>3. ASSUME NEW h \in Handler,
             \/ \E S \in SUBSET Agent : Attach(h, S)
             \/ Unrecord(h) \/ SpawnFails(h) \/ Spawn(h) \/ Claim(h) \/ Note(h)
      PROVE  dead' = dead
  BY <1>3 DEF Attach, Unrecord, SpawnFails, Spawn, Claim, Note, mail
<1>4. ASSUME NEW h \in Handler, Settle(h)
      PROVE  dead' = dead \/ (dead' = dead \cup slot[h] /\ acked' = acked)
  BY <1>4 DEF Settle, Marked
<1>5. ASSUME NEW h \in Handler, Failing(h)
      PROVE  pc[h] \in Starting /\ dead' = dead \cup cur[h]
  BY <1>5 DEF Failing, Abort, Unspawned, Fails, Marked, At, Starting
<1>6. ASSUME Outside
      PROVE  dead' = dead \/ (Mark /\ owner[looks] = None /\ dead' = dead \cup unit)
               \/ Consumed(scope, None)
  <2>1. CASE Mark \/ Finish
    BY <2>1 DEF Mark, Finish, Marked
  <2>2. CASE ~(Mark \/ Finish)
    BY <1>6, <2>2, ArriveKeeps DEF Outside, Stopping, Exit, SessionEnds, TimesUp, Signal, Ask,
       ForceStop, Look, SecondTerm, Wait, Freeze, KillRecorded, KillChildren, Deaf, KillHandler,
       Check, Clear, mail
  <2> QED
    BY <2>1, <2>2
<1>7. names \in [Handler -> SUBSET Agent] /\ scope \in SUBSET Agent
  BY DEF Tidy, TypeOK
<1> QED
  BY <1>1, <1>2, <1>3, <1>4, <1>5, <1>6, <1>7, TakeDoes, NextSplit DEF Working, Tidy

LEMMA DeadWhole ==
  ASSUME Tidy, Renewed = {}, Next
  PROVE  /\ dead \subseteq dead'
         /\ \E D \in SUBSET Units : dead' = dead \cup UNION D
<1>0. unit \in Units /\ \A h \in Handler : slot[h] \in Units /\ cur[h] \in Units
  BY InSight
<1>1. ASSUME NEW u \in Units, dead' = dead \cup u
      PROVE  \E D \in SUBSET Units : dead' = dead \cup UNION D
  <2>1. {u} \in SUBSET Units /\ UNION {u} = u
    OBVIOUS
  <2> QED
    BY <1>1, <2>1
<1>2. ASSUME NEW S \in SUBSET Agent, NEW me \in Handler \cup {None}, Consumed(S, me)
      PROVE  dead \subseteq dead' /\ \E D \in SUBSET Units : dead' = dead \cup UNION D
  <2>1. /\ dead \subseteq dead'
        /\ \A u \in outcomes \ outcomes' : u \subseteq dead'
        /\ \A m \in dead' \ dead : \E u \in outcomes \ outcomes' : m \in u
    BY <1>2, ConsumedMail
  <2>2. outcomes \ outcomes' \in SUBSET Units
    BY InSight DEF Tidy, PlaceInv
  <2>3. dead' = dead \cup UNION (outcomes \ outcomes')
    BY <2>1
  <2> QED
    BY <2>1, <2>2, <2>3
<1>3. CASE dead' = dead
  <2>1. {} \in SUBSET Units /\ UNION {} = {}
    OBVIOUS
  <2> QED
    BY <1>3, <2>1
<1> QED
  BY <1>0, <1>1, <1>2, <1>3, DeadAfter

LEMMA UnitStep ==
  ASSUME Tidy, Renewed = {}, Next
  PROVE  UnitInv'
<1>1. \A u \in Units : Whole(u) /\ \A v \in Units : u = v \/ u \cap v = {}
  BY DEF Tidy, UnitInv
<1>2. trash \subseteq trash' /\ dead \subseteq trash
  BY TrashGrows DEF Tidy, TypeOK
<1>3. PICK D \in SUBSET Units : dead' = dead \cup UNION D
  BY DeadWhole
<1>4. ASSUME NEW u \in Units
      PROVE  Whole(u)'
  <2>1. u \subseteq trash /\ (u \subseteq dead \/ u \cap dead = {}) /\ \A m, n \in u : To[m] = To[n]
    BY <1>1 DEF Whole
  <2>2. \A v \in D : u = v \/ u \cap v = {}
    BY <1>1
  <2>3. u \subseteq dead' \/ u \cap dead' = {}
    <3>1. CASE u \in D \/ u \subseteq dead
      BY <1>3, <3>1
    <3>2. CASE u \notin D /\ u \cap dead = {}
      BY <1>3, <2>2, <3>2
    <3> QED
      BY <2>1, <3>1, <3>2
  <2> QED
    BY <1>2, <2>1, <2>3 DEF Whole
<1>5. ASSUME NEW h \in Handler, Take(h), NEW u, u = cur'[h]
      PROVE  Whole(u)' /\ \A v \in Units : u \cap v = {}
  <2>1. /\ trash' = trash \cup u /\ u \cap trash = {} /\ dead' = dead
        /\ \A m, n \in u : To[m] = To[n]
    BY <1>5, TakeDoes
  <2>2. \A v \in Units : v \subseteq trash
    BY <1>1 DEF Whole
  <2> QED
    BY <1>2, <2>1, <2>2 DEF Whole
<1>6. ASSUME NEW u \in Units', NEW v \in Units'
      PROVE  Whole(u)' /\ (u = v \/ u \cap v = {})
  <2>1. Known(u) \/ \E h \in Handler : Take(h) /\ u = cur'[h]
    BY UnitsAfter
  <2>2. Known(v) \/ \E h \in Handler : Take(h) /\ v = cur'[h]
    BY UnitsAfter
  <2>3. \A g, h \in Handler : Take(g) /\ Take(h) => g = h
    <3>1. pc \in [Handler -> LoopSteps \cup {"unborn", "gone"}]
      BY DEF Tidy, TypeOK
    <3> QED
      BY <3>1, TakeDoes
  <2>4. CASE u = {}
    BY <2>4 DEF Whole
  <2>5. CASE v = {}
    BY <1>4, <1>5, <2>1, <2>4, <2>5 DEF Known
  <2>6. CASE u # {} /\ v # {}
    BY <1>1, <1>4, <1>5, <2>1, <2>2, <2>3, <2>6 DEF Known
  <2> QED
    BY <2>4, <2>5, <2>6
<1> QED
  BY <1>6 DEF UnitInv

(***************************************************************************)
(* Inboxes, and where units are.                                           *)
(***************************************************************************)
LEMMA InboxStep ==
  ASSUME Tidy, Renewed = {}, Next
  PROVE  InboxInv'
<1>0. InboxInv /\ inbox \in [Agent -> Seq(Msg)] /\ trash \subseteq sent
  BY DEF Tidy, TypeOK
<1>1. ASSUME NEW m \in Msg, Arrive(m)
      PROVE  InboxInv'
  <2>1. /\ m \notin sent /\ sent' = sent \cup {m} /\ trash' = trash
        /\ inbox' = [inbox EXCEPT ![To[m]] = Append(@, m)]
    BY <1>1, ArriveKeeps
  <2>2. SUFFICES ASSUME NEW a \in Agent, NEW i \in 1 .. Len(inbox'[a])
                 PROVE  /\ inbox'[a][i] \in sent' \ trash' /\ To[inbox'[a][i]] = a
                        /\ \A j \in 1 .. Len(inbox'[a]) : inbox'[a][i] = inbox'[a][j] => i = j
    BY DEF InboxInv
  <2>3. CASE a # To[m]
    BY <1>0, <2>1, <2>3 DEF InboxInv
  <2>4. CASE a = To[m]
    <3>1. inbox'[a] = Append(inbox[a], m) /\ inbox[a] \in Seq(Msg)
      BY <1>0, <2>1, <2>4
    <3>2. /\ Len(inbox'[a]) = Len(inbox[a]) + 1 /\ inbox'[a][Len(inbox[a]) + 1] = m
          /\ \A k \in 1 .. Len(inbox[a]) : inbox'[a][k] = inbox[a][k]
      BY <3>1
    <3>3. \A k \in 1 .. Len(inbox[a]) :
            /\ inbox[a][k] \in sent \ trash /\ To[inbox[a][k]] = a
            /\ \A j \in 1 .. Len(inbox[a]) : inbox[a][k] = inbox[a][j] => k = j
      BY <1>0 DEF InboxInv
    <3>4. m \notin trash /\ Len(inbox[a]) \in Nat
      BY <1>0, <2>1, <3>1
    <3> QED
      BY <2>1, <2>4, <3>2, <3>3, <3>4
  <2> QED
    BY <2>3, <2>4
<1>2. ASSUME NEW h \in Handler, Proxies(h)
      PROVE  InboxInv'
  <2>1. UNCHANGED <<sent, trash>>
        /\ inbox' = [a \in Agent |-> IF a \in Delivered(h) THEN <<>> ELSE inbox[a]]
    BY <1>2 DEF Proxies
  <2>2. \A a \in Agent : inbox'[a] = <<>> \/ inbox'[a] = inbox[a]
    BY <2>1
  <2> QED
    BY <1>0, <2>1, <2>2 DEF InboxInv
<1>3. ASSUME NEW h \in Handler, Take(h)
      PROVE  InboxInv'
  <2>1. PICK a \in Turn(h) : /\ Ready(a) /\ trash' = trash \cup ToSet(NextUnit(a))
                             /\ inbox' = [inbox EXCEPT ![a] = SubSeq(@, Len(NextUnit(a)) + 1, Len(@))]
    BY <1>3 DEF Take
  <2>2. a \in Agent /\ inbox[a] # <<>>
    BY <2>1 DEF Turn, Ready, Tidy, TypeOK
  <2> DEFINE k == Len(NextUnit(a))
  <2>3. /\ k \in 1 .. Len(inbox[a]) /\ Len(inbox[a]) \in Nat
        /\ ToSet(NextUnit(a)) = {inbox[a][i] : i \in 1 .. k}
    BY <1>0, <2>2, NextTaken DEF Tidy
  <2>4. /\ inbox'[a] = SubSeq(inbox[a], k + 1, Len(inbox[a]))
        /\ \A b \in Agent \ {a} : inbox'[b] = inbox[b]
        /\ trash' = trash \cup {inbox[a][i] : i \in 1 .. k} /\ sent' = sent
    BY <1>0, <1>3, <2>1, <2>2, <2>3 DEF Take
  <2> HIDE DEF k
  <2>5. /\ Len(inbox'[a]) = Len(inbox[a]) - k
        /\ \A i \in 1 .. Len(inbox'[a]) : inbox'[a][i] = inbox[a][k + i]
    BY <1>0, <2>2, <2>3, <2>4
  <2>6. ASSUME NEW b \in Agent \ {a}, NEW i \in 1 .. Len(inbox[b]), NEW j \in 1 .. k
        PROVE  inbox[b][i] # inbox[a][j]
    BY <1>0, <2>2, <2>3 DEF InboxInv
  <2>7. ASSUME NEW i \in 1 .. Len(inbox'[a])
        PROVE  /\ inbox'[a][i] \in sent' \ trash' /\ To[inbox'[a][i]] = a
               /\ \A j \in 1 .. Len(inbox'[a]) : inbox'[a][i] = inbox'[a][j] => i = j
    <3>1. /\ k + i \in 1 .. Len(inbox[a]) /\ k + i > k /\ \A j \in 1 .. k : j # k + i
          /\ \A j \in 1 .. Len(inbox'[a]) : k + j \in 1 .. Len(inbox[a])
      BY <2>3, <2>5
    <3>2. /\ inbox[a][k + i] \in sent \ trash /\ To[inbox[a][k + i]] = a
          /\ \A j \in 1 .. Len(inbox[a]) : inbox[a][k + i] = inbox[a][j] => k + i = j
      BY <1>0, <2>2, <3>1 DEF InboxInv
    <3>3. \A j \in 1 .. k : inbox[a][k + i] # inbox[a][j]
      BY <2>3, <3>1, <3>2
    <3>4. \A j \in 1 .. Len(inbox'[a]) : inbox[a][k + i] = inbox[a][k + j] => i = j
      BY <2>3, <2>5, <3>1, <3>2
    <3>5. inbox'[a][i] = inbox[a][k + i]
      BY <2>5
    <3>6. inbox'[a][i] \in sent' \ trash'
      BY <2>4, <3>2, <3>3, <3>5
    <3>7. \A j \in 1 .. Len(inbox'[a]) : inbox'[a][i] = inbox'[a][j] => i = j
      BY <2>5, <3>4
    <3> QED
      BY <3>2, <3>5, <3>6, <3>7
  <2>8. ASSUME NEW b \in Agent \ {a}, NEW i \in 1 .. Len(inbox[b])
        PROVE  /\ inbox'[b][i] \in sent' \ trash' /\ To[inbox'[b][i]] = b
               /\ \A j \in 1 .. Len(inbox'[b]) : inbox'[b][i] = inbox'[b][j] => i = j
    BY <1>0, <2>4, <2>6 DEF InboxInv
  <2> QED
    BY <2>4, <2>7, <2>8 DEF InboxInv
<1>4. ASSUME UNCHANGED <<inbox, trash, sent>>
      PROVE  InboxInv'
  BY <1>0, <1>4 DEF InboxInv
<1>5. ASSUME NEW h \in Handler,
             \/ \E b \in Agent : Yield(h, b)
             \/ \E S \in SUBSET Agent : Attach(h, S)
             \/ Settle(h) \/ Failing(h) \/ Ending(h)
             \/ Unrecord(h) \/ SpawnFails(h) \/ Spawn(h) \/ Claim(h) \/ Note(h)
      PROVE  UNCHANGED <<inbox, trash, sent>>
  BY <1>5, EndingDoes DEF Yield, Attach, Settle, Failing, Abort,
     Unspawned, Fails, Unrecord, SpawnFails, Spawn, Claim, Note, mail
<1>6. ASSUME NEW h \in Handler, Turning(h), ~Proxies(h)
      PROVE  UNCHANGED <<inbox, trash, sent>>
  BY <1>6 DEF Turning, Begin, Service, Consume, PassEnds, NextAgent, mail
<1>7. ASSUME Outside, \A m \in Msg : ~Arrive(m)
      PROVE  UNCHANGED <<inbox, trash, sent>>
  BY <1>7, StoppingKeeps DEF Outside, Exit, SessionEnds, TimesUp, Signal, Ask, mail
<1> QED
  BY <1>1, <1>2, <1>3, <1>4, <1>5, <1>6, <1>7, NextSplit DEF Working, Tidy

LEMMA OutcomesAfter ==
  ASSUME Tidy, Renewed = {}, Next
  PROVE  outcomes' \subseteq outcomes \/ \E u \in children : SessionEnds(u)
<1>0. names \in [Handler -> SUBSET Agent] /\ scope \in SUBSET Agent
  BY DEF Tidy, TypeOK
<1>1. ASSUME NEW h \in Handler, NEW a \in Agent, Yield(h, a)
      PROVE  outcomes' \subseteq outcomes
  BY <1>1, ConsumedMail DEF Yield
<1>2. ASSUME NEW h \in Handler, Consume(h) \/ Release(h)
      PROVE  outcomes' \subseteq outcomes
  <2>1. names[h] \in SUBSET Agent /\ Consumed(names[h], h)
    BY <1>0, <1>2 DEF Consume, Release
  <2> QED
    BY <2>1, ConsumedMail
<1>3. CASE Finish
  BY <1>0, <1>3, ConsumedMail DEF Finish
<1>4. ASSUME NEW h \in Handler,
             \/ \E S \in SUBSET Agent : Attach(h, S)
             \/ Settle(h) \/ Failing(h) \/ Take(h)
             \/ Unrecord(h) \/ SpawnFails(h) \/ Spawn(h) \/ Claim(h) \/ Note(h)
      PROVE  outcomes' = outcomes
  BY <1>4, TakeDoes DEF Attach, Settle, Failing, Abort, Unspawned, Fails, Unrecord, SpawnFails,
     Spawn, Claim, Note, procs
<1>5. ASSUME NEW h \in Handler, Turning(h), ~Consume(h)
      PROVE  outcomes' = outcomes
  BY <1>5 DEF Turning, Begin, Service, Proxies, PassEnds, NextAgent, procs
<1>6. ASSUME NEW h \in Handler, Ending(h), ~Release(h)
      PROVE  outcomes' = outcomes
  BY <1>6 DEF Ending, Die, KillHandler
<1>7. ASSUME Outside, ~Finish, \A u \in children : ~SessionEnds(u)
      PROVE  outcomes' = outcomes
  BY <1>7, ArriveKeeps DEF Outside, Stopping, Exit, TimesUp, Signal, Ask,
       ForceStop, Look, SecondTerm, Wait, Freeze, KillRecorded, KillChildren, Deaf, KillHandler,
       Check, Clear, Mark, procs
<1> QED
  BY <1>1, <1>2, <1>3, <1>4, <1>5, <1>6, <1>7, NextSplit DEF Working, Tidy

LEMMA SpawnFresh ==
  ASSUME Tidy, NEW h \in Handler, Spawn(h)
  PROVE  /\ cur[h] # {} /\ cur[h] \notin children \cup reported
         /\ pc[h] = "claimed" /\ pc' = [pc EXCEPT ![h] = "spawned"]
         /\ wakes' = wakes \cup {[unit |-> cur[h], by |-> h, st |-> "running"]}
         /\ UNCHANGED <<trash, acked, dead, sent, record, owner, names, slot, cur, outcomes>>
         /\ UNCHANGED <<excused, tainted, newest, reported, last>>
BY DEF Spawn, At, Go, Tidy, LoopInv, Starting, mail, disk, loop, history

LEMMA PlaceStep ==
  ASSUME Tidy, Renewed = {}, Next
  PROVE  PlaceInv'
<1>0. PlaceInv
  BY DEF Tidy
<1>1. ASSUME NEW a \in Agent, NEW m \in record'[a].unit \cup newest'[a]
      PROVE  To[m] = a
  <2>1. ASSUME NEW h \in Handler, m \in cur[h], a = AgentOf(cur[h])
        PROVE  To[m] = a
    BY <2>1, HandTaken
  <2>2. m \in record[a].unit \cup newest[a] => To[m] = a
    BY <1>0 DEF PlaceInv
  <2> QED
    BY <1>1, <2>1, <2>2, RecordAfter, NewestAfter
<1>2. ASSUME NEW m \in unit'
      PROVE  To[m] = looks'
  <2>1. ASSUME NEW a \in Agent, Look(a), m \in record[a].unit
        PROVE  To[m] = looks'
    BY <1>0, <2>1 DEF PlaceInv, Look
  <2>2. ASSUME unit' = unit
        PROVE  To[m] = looks'
    <3>1. CASE looks' = looks
      BY <1>0, <1>2, <2>2, <3>1 DEF PlaceInv
    <3>2. CASE looks' # looks
      <4>1. Mark \/ \E a \in Agent : Look(a)
        <5>1. CASE Outside
          BY <3>2, <5>1, ArriveKeeps DEF Outside, Stopping, Exit, SessionEnds, TimesUp, Signal, Ask,
             ForceStop, SecondTerm, Wait, Freeze, KillRecorded, KillChildren, Deaf, KillHandler,
             Check, Clear, Finish, stop
        <5> QED
          BY <3>2, <5>1, WorkingKeeps, NextSplit DEF Tidy
      <4>2. CASE Mark
        BY <1>2, <4>2 DEF Mark
      <4>3. ASSUME NEW a \in Agent, Look(a)
            PROVE  To[m] = looks'
        BY <1>0, <1>2, <4>3 DEF Look, PlaceInv
      <4> QED
        BY <4>1, <4>2, <4>3
    <3> QED
      BY <3>1, <3>2
  <2> QED
    BY <1>2, <2>1, <2>2, UnitAfter
<1>3. \A u \in children' \cup reported' : u # {}
  BY <1>0, ChildrenAfter, ReportedAfter, SpawnFresh DEF PlaceInv
<1>4. outcomes' \subseteq reported' /\ reported' \cap children' = {}
  <2>1. ASSUME NEW u \in children, SessionEnds(u)
        PROVE  outcomes' \subseteq reported' /\ reported' \cap children' = {}
    BY <1>0, <2>1 DEF SessionEnds, PlaceInv
  <2>2. ASSUME NEW h \in Handler, Spawn(h)
        PROVE  outcomes' \subseteq reported' /\ reported' \cap children' = {}
    <3>1. UNCHANGED <<outcomes, reported>> /\ cur[h] \notin reported
      BY <2>2, SpawnFresh
    <3>2. children' \subseteq children \cup {cur[h]}
      BY <2>2 DEF Spawn
    <3> QED
      BY <1>0, <3>1, <3>2 DEF PlaceInv
  <2>3. ASSUME ~\E u \in children : SessionEnds(u), ~\E h \in Handler : Spawn(h)
        PROVE  outcomes' \subseteq reported' /\ reported' \cap children' = {}
    BY <1>0, <2>3, OutcomesAfter, ReportedAfter, ChildrenAfter DEF PlaceInv
  <2> QED
    BY <2>1, <2>2, <2>3
<1> QED
  BY <1>1, <1>2, <1>3, <1>4 DEF PlaceInv

(***************************************************************************)
(* The loops.                                                              *)
(***************************************************************************)
\* What a handler has in hand, it had or has just taken.
LEMMA HandAfter ==
  ASSUME Tidy, Renewed = {}, Next, NEW h \in Handler
  PROVE  \/ Hand(h)' \subseteq Hand(h)
         \/ Take(h) /\ Hand(h)' \subseteq Hand(h) \cup cur'[h]
<1>0. slot \in [Handler -> Unit] /\ cur \in [Handler -> Unit]
  BY DEF Tidy, TypeOK
<1>1. CASE Outside
  BY <1>1, OutsideKeeps DEF Hand
<1>2. ASSUME NEW g \in Handler, Turning(g)
      PROVE  Hand(h)' \subseteq Hand(h)
  BY <1>2, TurningKeeps DEF Hand
<1>3. ASSUME NEW g \in Handler, Settle(g)
      PROVE  Hand(h)' \subseteq Hand(h)
  BY <1>0, <1>3 DEF Settle, Hand
<1>4. ASSUME NEW g \in Handler, Note(g)
      PROVE  Hand(h)' \subseteq Hand(h)
  BY <1>0, <1>4 DEF Note, Hand
<1>5. ASSUME NEW g \in Handler, Unrecord(g) \/ Failing(g)
      PROVE  Hand(h)' \subseteq Hand(h)
  BY <1>0, <1>5 DEF Unrecord, Failing, Abort, Unspawned, Fails, Hand
<1>6. ASSUME NEW g \in Handler, Ending(g)
      PROVE  Hand(h)' \subseteq Hand(h)
  BY <1>0, <1>6, EndingDoes DEF Hand
<1>7. ASSUME NEW g \in Handler,
             \/ \E a \in Agent : Yield(g, a)
             \/ \E S \in SUBSET Agent : Attach(g, S)
             \/ Claim(g) \/ Spawn(g) \/ SpawnFails(g)
      PROVE  Hand(h)' \subseteq Hand(h)
  BY <1>7 DEF Yield, Attach, Claim, Spawn, SpawnFails, loop, Hand
<1>8. ASSUME NEW g \in Handler, Take(g)
      PROVE  Hand(h)' \subseteq Hand(h) \/ (g = h /\ Hand(h)' \subseteq Hand(h) \cup cur'[h])
  BY <1>0, <1>8, TakeDoes DEF Hand
<1> QED
  BY <1>1, <1>2, <1>3, <1>4, <1>5, <1>6, <1>7, <1>8, NextSplit DEF Working, Tidy

Apart == \A h \in Handler : \A g \in Handler \ {h} : Hand(h) \cap Hand(g) = {}
LEMMA ApartStep ==
  ASSUME Tidy, Renewed = {}, Next
  PROVE  Apart'
<1>1. SUFFICES ASSUME NEW h \in Handler, NEW g \in Handler \ {h}, NEW m \in Hand(h)' \cap Hand(g)'
               PROVE  FALSE
  BY DEF Apart
<1>2. Hand(h) \cap Hand(g) = {}
  BY DEF Tidy, LoopInv
<1>3. ~(Take(h) /\ Take(g))
  <2>1. pc \in [Handler -> LoopSteps \cup {"unborn", "gone"}]
    BY DEF Tidy, TypeOK
  <2> QED
    BY <2>1, TakeDoes
<1>4. Hand(h) \subseteq trash /\ Hand(g) \subseteq trash
  BY HandTaken DEF Hand
<1>5. /\ Take(h) => cur'[h] \cap trash = {}
      /\ Take(g) => cur'[g] \cap trash = {}
  BY TakeDoes
<1>6. (Hand(h)' \subseteq Hand(h)) \/ (Take(h) /\ (Hand(h)' \subseteq Hand(h) \cup cur'[h]))
  BY HandAfter
<1>7. (Hand(g)' \subseteq Hand(g)) \/ (Take(g) /\ (Hand(g)' \subseteq Hand(g) \cup cur'[g]))
  BY HandAfter
<1> QED
  BY <1>1, <1>2, <1>3, <1>4, <1>5, <1>6, <1>7

Owned == \A h \in Handler : \A a \in Agent : owner[a] = h <=> a \in names[h]
LEMMA OwnedStep ==
  ASSUME Tidy, Renewed = {}, Next
  PROVE  Owned'
<1>0. /\ Owned /\ owner \in [Agent -> Handler \cup {None}] /\ names \in [Handler -> SUBSET Agent]
      /\ None \notin Handler
  BY WakeAssumption DEF Tidy, LoopInv, Owned, TypeOK
<1>1. ASSUME UNCHANGED <<owner, names>>
      PROVE  Owned'
  BY <1>0, <1>1 DEF Owned
<1>2. ASSUME NEW h \in Handler, NEW S \in SUBSET Agent, Attach(h, S)
      PROVE  Owned'
  <2>1. names[h] = {}
    BY <1>2 DEF Attach, Tidy, LoopInv, Live, LoopSteps
  <2>2. /\ names' = [names EXCEPT ![h] = S] /\ \A a \in S : owner[a] = None
        /\ owner' = [a \in Agent |-> IF a \in S THEN h ELSE owner[a]]
    BY <1>2 DEF Attach
  <2> QED
    BY <1>0, <2>1, <2>2 DEF Owned
<1>3. ASSUME NEW h \in Handler, NEW a \in Agent, Yield(h, a)
      PROVE  Owned'
  <2>1. /\ names' = [names EXCEPT ![h] = @ \ {a}] /\ owner' = [owner EXCEPT ![a] = None]
        /\ a \in names[h]
    BY <1>3 DEF Yield
  <2> QED
    BY <1>0, <2>1 DEF Owned
<1>4. ASSUME NEW h \in Handler, Ending(h)
      PROVE  Owned'
  <2>1. /\ names' = [names EXCEPT ![h] = {}]
        /\ owner' = [a \in Agent |-> IF owner[a] = h THEN None ELSE owner[a]]
    BY <1>4, EndingDoes
  <2> QED
    BY <1>0, <2>1 DEF Owned
<1>5. ASSUME NEW h \in Handler, \/ Turning(h) \/ Settle(h) \/ Failing(h) \/ Take(h)
             \/ Unrecord(h) \/ SpawnFails(h) \/ Spawn(h) \/ Claim(h) \/ Note(h)
      PROVE  UNCHANGED <<owner, names>>
  BY <1>5, TakeDoes, TurningKeeps DEF Settle, Failing, Abort, Unspawned, Fails, Unrecord,
     SpawnFails, Spawn, Claim, Note, disk, loop
<1> QED
  BY <1>1, <1>2, <1>3, <1>4, <1>5, OutsideKeeps, NextSplit DEF Working, Tidy

\* The loop of one handler.
LoopAt(h) ==
  /\ Live(h) \/ (slot[h] = {} /\ names[h] = {})
  /\ cur[h] # {} <=> pc[h] \in Starting \cup Clearing
  /\ pc[h] \in Starting => \A m \in cur[h] : To[m] \in names[h]
  /\ pc[h] \in Clearing => slot[h] = {} /\ cur[h] \subseteq acked \cup dead
  /\ pc[h] \notin Clearing => Hand(h) \cap acked = {}
  /\ slot[h] \cap cur[h] = {}
  /\ pc[h] \in Starting \ {"spawned"} => cur[h] \notin children \cup reported

LEMMA LoopParts == LoopInv <=> (\A h \in Handler : LoopAt(h)) /\ Apart /\ Owned
BY DEF LoopInv, LoopAt, Apart, Owned

\* A handler whose loop stands still stays in order.
LEMMA StandStill ==
  ASSUME Tidy, Renewed = {}, Next, NEW h \in Handler, ~Settle(h),
         pc'[h] = pc[h] \/ (pc[h] \in Between /\ pc'[h] \in Between), names'[h] = names[h],
         slot'[h] = slot[h], cur'[h] = cur[h], ~Spawn(h)
  PROVE  LoopAt(h)'
<1>0. LoopAt(h) /\ Apart
  BY LoopParts DEF Tidy
<1>a. \A s \in Between : s \in LoopSteps /\ s \notin Starting \cup Clearing
  BY DEF Between, LoopSteps, Starting, Clearing
<1>1. acked \subseteq acked' /\ dead \subseteq dead'
  BY AckedAfter, DeadWhole
<1>2. (Hand(h) \cap acked = {}) => (Hand(h)' \cap acked' = {})
  <2>1. \A g \in Handler : Settle(g) => g # h
    OBVIOUS
  <2>2. \A g \in Handler \ {h} : Hand(h) \cap slot[g] = {}
    BY <1>0 DEF Apart, Hand
  <2> QED
    BY <2>1, <2>2, AckedAfter DEF Hand
<1>3. cur[h] # {} /\ (cur[h] \notin (children \cup reported)) => (cur'[h] \notin (children' \cup reported'))
  <2>1. \A g \in Handler : Spawn(g) => cur[g] # cur[h] \/ cur[h] = {}
    BY <1>0 DEF Apart, Hand
  <2> QED
    BY <2>1, ChildrenAfter, ReportedAfter
<1>4. pc'[h] \in Starting => pc'[h] = pc[h]
  BY <1>a
<1>5. pc'[h] \in Clearing <=> pc[h] \in Clearing
  BY <1>a
<1>6. pc[h] \in Starting <=> pc'[h] \in Starting
  BY <1>a
<1>7. Live(h) => Live(h)'
  BY <1>a DEF Live
<1> QED
  BY <1>0, <1>1, <1>2, <1>3, <1>4, <1>5, <1>6, <1>7 DEF LoopAt

LEMMA LoopStep ==
  ASSUME Tidy, Renewed = {}, Next
  PROVE  LoopInv'
<1>0. /\ pc \in [Handler -> LoopSteps \cup {"unborn", "gone"}] /\ names \in [Handler -> SUBSET Agent]
      /\ slot \in [Handler -> Unit] /\ cur \in [Handler -> Unit]
      /\ \A h \in Handler : LoopAt(h)
  BY LoopParts DEF Tidy, TypeOK
<1>a. acked \subseteq acked' /\ dead \subseteq dead'
  BY AckedAfter, DeadWhole
<1>1. SUFFICES ASSUME NEW h \in Handler
               PROVE  LoopAt(h)'
  <2>1. (\A h \in Handler : LoopAt(h))' /\ Apart' /\ Owned' => LoopInv'
    BY LoopParts, PTL
  <2> QED
    BY <2>1, ApartStep, OwnedStep
<1>2. CASE Outside
  <2>1. ~Settle(h) /\ ~Spawn(h)
    BY <1>0, <1>2, OutsideKeeps DEF Settle, Spawn, Go, At
  <2> QED
    BY <1>2, <2>1, OutsideKeeps, StandStill
<1>3. ASSUME NEW g \in Handler, Working(g), g # h
      PROVE  LoopAt(h)'
  <2>1. /\ pc'[h] = pc[h] /\ names'[h] = names[h] /\ slot'[h] = slot[h] /\ cur'[h] = cur[h]
    <3>1. CASE Turning(g) \/ Take(g) \/ Ending(g)
      BY <1>0, <1>3, <3>1, TurningKeeps, TakeDoes, EndingDoes
    <3>2. CASE (\E a \in Agent : Yield(g, a)) \/ \E S \in SUBSET Agent : Attach(g, S)
      BY <1>0, <1>3, <3>2 DEF Yield, Attach, Go
    <3>3. CASE Settle(g) \/ Unrecord(g) \/ Failing(g) \/ Note(g)
      BY <1>0, <1>3, <3>3 DEF Settle, Unrecord, Failing, Abort, Unspawned, Fails, Note, Go
    <3>4. CASE Claim(g) \/ Spawn(g) \/ SpawnFails(g)
      BY <1>0, <1>3, <3>4 DEF Claim, Spawn, SpawnFails, Go, loop
    <3> QED
      BY <1>3, <3>1, <3>2, <3>3, <3>4 DEF Working
  <2>2. ~Settle(h) /\ ~Spawn(h)
    BY <1>0, <2>1 DEF Settle, Spawn, Go, At
  <2> QED
    BY <2>1, <2>2, StandStill
<1>4. CASE Turning(h)
  <2>1. ~Settle(h) /\ ~Spawn(h)
    BY <1>0, <1>4, TurningKeeps DEF Settle, Spawn, Go, At, Between, LoopAt
  <2> QED
    BY <1>4, <2>1, TurningKeeps, StandStill
<1>5. ASSUME NEW a \in Agent, Yield(h, a)
      PROVE  LoopAt(h)'
  <2>1. /\ UNCHANGED <<pc, slot, cur, acked>> /\ pc[h] = "top"
    BY <1>5 DEF Yield, At
  <2> QED
    BY <1>0, <2>1 DEF LoopAt, Starting, Clearing, Live, LoopSteps, Hand
<1>6. ASSUME NEW S \in SUBSET Agent, Attach(h, S)
      PROVE  LoopAt(h)'
  <2>1. /\ UNCHANGED <<slot, cur, acked>> /\ pc'[h] = "top" /\ pc[h] = "unborn"
    BY <1>0, <1>6 DEF Attach, Go, mail
  <2> QED
    BY <1>0, <2>1 DEF LoopAt, Starting, Clearing, Live, LoopSteps, Hand
<1>7. CASE Settle(h)
  <2>1. /\ cur'[h] = slot[h] /\ slot'[h] = {} /\ slot[h] # {} /\ names' = names
        /\ pc'[h] \in Clearing /\ slot[h] \subseteq acked' \cup dead'
    BY <1>0, <1>7 DEF Settle, Go, Clearing, Marked, At
  <2> QED
    BY <2>1 DEF LoopAt, Starting, Clearing, Live, LoopSteps, Hand
<1>8. CASE Unrecord(h)
  <2>1. /\ cur'[h] = {} /\ slot' = slot /\ names' = names /\ pc'[h] \in {"consume", "fin"}
        /\ pc[h] \in Clearing
    BY <1>0, <1>8 DEF Unrecord, Go, At, Clearing
  <2> QED
    BY <1>0, <2>1 DEF LoopAt, Starting, Clearing, Live, LoopSteps, Hand
<1>9. CASE Take(h)
  <2>1. /\ UNCHANGED <<slot, names, acked, children, reported>> /\ pc'[h] = "trashed" /\ pc[h] = "dispatch"
        /\ cur'[h] # {} /\ cur'[h] \cap trash = {} /\ \A m \in cur'[h] : To[m] \in names[h]
    BY <1>0, <1>9, TakeDoes
  <2>2. slot[h] \subseteq trash /\ acked \subseteq trash /\ \A u \in children \cup reported : u \subseteq trash
    BY InSight DEF Tidy, TypeOK, UnitInv, Whole
  <2> QED
    BY <1>0, <2>1, <2>2 DEF LoopAt, Starting, Clearing, Live, LoopSteps, Hand
<1>10. CASE Failing(h)
  <2>1. /\ UNCHANGED <<slot, names, acked>> /\ pc'[h] = "dispatch" /\ cur'[h] = {} /\ pc[h] \in Starting
    BY <1>0, <1>10 DEF Failing, Abort, Unspawned, Fails, Go, At, Starting
  <2> QED
    BY <1>0, <2>1 DEF LoopAt, Starting, Clearing, Live, LoopSteps, Hand
<1>11. CASE Claim(h) \/ SpawnFails(h)
  <2>1. /\ UNCHANGED <<slot, names, acked, cur, children, reported>> /\ pc'[h] \in {"claimed", "unspawned"}
        /\ pc[h] \in {"trashed", "claimed"}
    BY <1>0, <1>11 DEF Claim, SpawnFails, Go, At, mail, loop, procs, history
  <2> QED
    BY <1>0, <2>1 DEF LoopAt, Starting, Clearing, Live, LoopSteps, Hand
<1>12. CASE Spawn(h)
  <2>1. /\ UNCHANGED <<slot, names, acked, cur>> /\ pc'[h] = "spawned" /\ pc[h] = "claimed"
    BY <1>0, <1>12, SpawnFresh
  <2> QED
    BY <1>0, <2>1 DEF LoopAt, Starting, Clearing, Live, LoopSteps, Hand
<1>13. CASE Note(h)
  <2>1. /\ UNCHANGED <<names, acked>> /\ pc'[h] = "top" /\ pc[h] = "spawned"
        /\ slot'[h] = cur[h] /\ cur'[h] = {}
    BY <1>0, <1>13 DEF Note, Go, At, mail
  <2> QED
    BY <1>0, <2>1 DEF LoopAt, Starting, Clearing, Live, LoopSteps, Hand
<1>14. CASE Ending(h)
  <2>1. pc'[h] = "gone" /\ slot'[h] = {} /\ cur'[h] = {} /\ names'[h] = {}
    BY <1>0, <1>14, EndingDoes
  <2> QED
    BY <2>1 DEF LoopAt, Starting, Clearing, Live, LoopSteps, Hand
<1> QED
  BY <1>2, <1>3, <1>4, <1>5, <1>6, <1>7, <1>8, <1>9, <1>10, <1>11, <1>12, <1>13, <1>14,
     NextSplit DEF Working, Tidy

(***************************************************************************)
(* The wakes.                                                              *)
(***************************************************************************)
WakeAt(w) ==
  /\ w.unit # {} /\ pc[w.by] # "unborn"
  /\ w.st = "running" => w.unit \cap acked = {}
  /\ Live(w.by) => w.unit = slot[w.by] \/ (pc[w.by] = "spawned" /\ w.unit = cur[w.by])
  /\ w.st # "running" => Live(w.by)
  /\ \A h \in Handler, m \in w.unit : m \in Hand(h) => h = w.by

\* The wake of a unit that a handler has in hand is that handler's, and the unit is in
\* its slot or about to be.
LEMMA HandWake ==
  ASSUME Tidy, NEW h \in Handler, NEW w \in wakes, w.unit \in {slot[h], cur[h]}
  PROVE  /\ w.by = h /\ Live(h)
         /\ w.unit = slot[h] \/ pc[h] = "spawned"
<1>1. WakeAt(w) /\ LoopAt(h)
  BY LoopParts DEF Tidy, WakeInv, WakeAt
<1>2. w.by = h
  BY <1>1 DEF WakeAt, Hand
<1>3. Live(h)
  BY <1>1 DEF LoopAt, Live, Starting, Clearing, LoopSteps, WakeAt
<1> QED
  BY <1>1, <1>2, <1>3 DEF WakeAt

\* A wake that may have ended, whose handler and unit stand still.
LEMMA WakeStill ==
  ASSUME Tidy, Renewed = {}, Next, NEW v \in wakes, NEW w \in wakes',
         w.unit = v.unit, w.by = v.by,
         w = v \/ (w.st \in {"ok", "failed"} /\ Live(v.by)),
         Live(v.by) => Live(v.by)' /\ slot'[v.by] = slot[v.by],
         pc[v.by] = "spawned" => pc'[v.by] = "spawned" /\ cur'[v.by] = cur[v.by],
         pc[v.by] # "unborn" => (Live(v.by)' <=> Live(v.by)) /\ pc'[v.by] # "unborn",
         acked' = acked \/ w.st # "running"
  PROVE  WakeAt(w)'
<1>1. WakeAt(v) /\ v.unit \subseteq trash
  BY InSight DEF Tidy, WakeInv, WakeAt, UnitInv, Whole
<1>2. \A h \in Handler, m \in w.unit : m \in Hand(h)' => h = w.by
  <2>1. ASSUME NEW h \in Handler, NEW m \in w.unit, m \in Hand(h)'
        PROVE  m \in Hand(h)
    BY <1>1, <2>1, HandAfter, TakeDoes
  <2> QED
    BY <1>1, <2>1 DEF WakeAt
<1>3. w.st = "running" => w.unit \cap acked' = {}
  BY <1>1 DEF WakeAt
<1> QED
  BY <1>1, <1>2, <1>3 DEF WakeAt

LEMMA WakeStep ==
  ASSUME Tidy, Renewed = {}, Next
  PROVE  WakeInv'
<1>0. /\ pc \in [Handler -> LoopSteps \cup {"unborn", "gone"}]
      /\ slot \in [Handler -> Unit] /\ cur \in [Handler -> Unit]
      /\ \A w \in wakes : w \in [unit : Unit, by : Handler, st : States]
  BY DEF Tidy, TypeOK
<1>1. SUFFICES ASSUME NEW w \in wakes'
               PROVE  WakeAt(w)'
  BY DEF WakeInv, WakeAt
<1>2. ASSUME NEW h \in Handler, Spawn(h)
      PROVE  WakeAt(w)'
  <2>1. /\ cur[h] # {} /\ pc[h] = "claimed" /\ pc' = [pc EXCEPT ![h] = "spawned"]
        /\ wakes' = wakes \cup {[unit |-> cur[h], by |-> h, st |-> "running"]}
        /\ UNCHANGED <<trash, acked, slot, cur>>
    BY <1>2, SpawnFresh
  <2>2. CASE w \in wakes
    <3>1. Live(w.by) => Live(w.by)' /\ slot'[w.by] = slot[w.by]
      BY <1>0, <2>1, <2>2 DEF Live, LoopSteps
    <3>2. pc[w.by] = "spawned" => pc'[w.by] = "spawned" /\ cur'[w.by] = cur[w.by]
      BY <1>0, <2>1, <2>2
    <3>3. pc[w.by] # "unborn" => (Live(w.by)' <=> Live(w.by)) /\ pc'[w.by] # "unborn"
      BY <1>0, <2>1, <2>2 DEF Live, LoopSteps
    <3> QED
      BY <2>1, <2>2, <3>1, <3>2, <3>3, WakeStill
  <2>3. CASE w \notin wakes
    <3>1. w.unit = cur[h] /\ w.by = h /\ w.st = "running"
      BY <2>1, <2>3
    <3>2. LoopAt(h) /\ Apart
      BY LoopParts DEF Tidy
    <3>3. cur[h] \cap acked = {}
      BY <2>1, <3>2 DEF LoopAt, Clearing, Hand
    <3>4. \A g \in Handler, m \in w.unit : m \in Hand(g)' => g = h
      BY <2>1, <3>1, <3>2 DEF Apart, Hand
    <3> QED
      BY <1>0, <2>1, <3>1, <3>3, <3>4 DEF WakeAt, Live, LoopSteps
  <2> QED
    BY <2>2, <2>3
<1>3. ASSUME Calm
      PROVE  \E v \in wakes : /\ w.unit = v.unit /\ w.by = v.by
                              /\ w = v \/ (w.st \in {"ok", "failed"} /\ Live(v.by))
  BY <1>3 DEF Calm
<1>4. CASE Outside /\ Calm
  <2>1. UNCHANGED <<pc, slot, cur, acked>>
    BY <1>4, OutsideKeeps
  <2>2. PICK v \in wakes : /\ w.unit = v.unit /\ w.by = v.by
                           /\ w = v \/ (w.st \in {"ok", "failed"} /\ Live(v.by))
    BY <1>3, <1>4
  <2>3. Live(v.by)' <=> Live(v.by)
    BY <2>1 DEF Live
  <2> QED
    BY <2>1, <2>2, <2>3, WakeStill
<1>5. ASSUME NEW h \in Handler, Calm,
             \/ Turning(h) \/ (\E a \in Agent : Yield(h, a)) \/ (\E S \in SUBSET Agent : Attach(h, S))
             \/ Unrecord(h) \/ Take(h) \/ Failing(h) \/ Claim(h) \/ SpawnFails(h)
      PROVE  WakeAt(w)'
  <2>1. /\ acked' = acked /\ slot' = slot
        /\ pc[h] \notin {"spawned", "gone"} /\ pc'[h] \in LoopSteps
        /\ \A g \in Handler \ {h} : pc'[g] = pc[g] /\ cur'[g] = cur[g]
    <3>1. CASE Turning(h) \/ Take(h)
      BY <1>0, <3>1, TurningKeeps, TakeDoes DEF Between, LoopSteps
    <3>2. CASE (\E a \in Agent : Yield(h, a)) \/ (\E S \in SUBSET Agent : Attach(h, S))
      BY <1>0, <3>2 DEF Yield, Attach, Go, At, LoopSteps, mail
    <3>3. CASE Unrecord(h) \/ Failing(h) \/ Claim(h) \/ SpawnFails(h)
      BY <1>0, <3>3 DEF Unrecord, Failing, Abort, Unspawned, Fails, Claim, SpawnFails, Go, At,
         LoopSteps, mail, loop
    <3> QED
      BY <1>5, <3>1, <3>2, <3>3
  <2>2. PICK v \in wakes : /\ w.unit = v.unit /\ w.by = v.by
                           /\ w = v \/ (w.st \in {"ok", "failed"} /\ Live(v.by))
    BY <1>3, <1>5
  <2>3. v.by \in Handler
    BY <1>0
  <2>4. Live(v.by) => Live(v.by)'
    BY <2>1, <2>3 DEF Live
  <2>5. pc[v.by] # "unborn" => (Live(v.by)' <=> Live(v.by)) /\ pc'[v.by] # "unborn"
    BY <1>0, <2>1, <2>3 DEF Live, LoopSteps
  <2>6. pc[v.by] = "spawned" => pc'[v.by] = "spawned" /\ cur'[v.by] = cur[v.by]
    BY <2>1, <2>3
  <2> QED
    BY <2>1, <2>2, <2>4, <2>5, <2>6, WakeStill
<1>6. ASSUME NEW h \in Handler, Settle(h)
      PROVE  WakeAt(w)'
  <2>1. /\ wakes' = {v \in wakes : v.unit # slot[h]} /\ slot[h] # {} /\ slot' = [slot EXCEPT ![h] = {}]
        /\ acked' = acked \/ acked' = acked \cup slot[h]
        /\ cur' = [cur EXCEPT ![h] = slot[h]] /\ pc[h] \in {"service", "fin"}
        /\ pc'[h] \in Clearing /\ \A g \in Handler \ {h} : pc'[g] = pc[g]
    BY <1>0, <1>6 DEF Settle, Go, At, Clearing
  <2>2. w \in wakes /\ w.unit # slot[h] /\ WakeAt(w) /\ w.by \in Handler
    BY <1>0, <2>1 DEF Tidy, WakeInv, WakeAt
  <2>3. w.by # h
    BY <2>1, <2>2 DEF WakeAt, Live, LoopSteps
  <2>4. w.unit \cap slot[h] = {}
    BY <2>2, <2>3 DEF WakeAt, Hand
  <2>5. \A g \in Handler, m \in w.unit : m \in Hand(g)' => g = w.by
    <3>1. \A g \in Handler : Hand(g)' \subseteq Hand(g)
      BY <1>0, <2>1 DEF Hand
    <3> QED
      BY <2>2, <3>1 DEF WakeAt
  <2>6. Live(w.by)' <=> Live(w.by)
    BY <2>1, <2>2, <2>3 DEF Live
  <2> QED
    BY <1>0, <2>1, <2>2, <2>3, <2>4, <2>5, <2>6 DEF WakeAt
<1>7. ASSUME NEW h \in Handler, Note(h)
      PROVE  WakeAt(w)'
  <2>1. /\ wakes' = {v \in wakes : slot[h] = {} \/ v.unit # slot[h]}
        /\ slot' = [slot EXCEPT ![h] = cur[h]] /\ acked' = acked
        /\ cur' = [cur EXCEPT ![h] = {}] /\ pc[h] = "spawned" /\ pc' = [pc EXCEPT ![h] = "top"]
    BY <1>0, <1>7 DEF Note, Go, At, mail
  <2>2. w \in wakes /\ (slot[h] = {} \/ w.unit # slot[h]) /\ WakeAt(w) /\ w.by \in Handler
    BY <1>0, <2>1 DEF Tidy, WakeInv, WakeAt
  <2>3. \A g \in Handler, m \in w.unit : m \in Hand(g)' => g = w.by
    <3>1. \A g \in Handler : Hand(g)' \subseteq Hand(g)
      BY <1>0, <2>1 DEF Hand
    <3> QED
      BY <2>2, <3>1 DEF WakeAt
  <2>4. (Live(w.by)' <=> Live(w.by)) /\ pc'[w.by] # "unborn"
    BY <1>0, <2>1, <2>2 DEF WakeAt, Live, LoopSteps
  <2>5. Live(w.by) => w.unit = slot'[w.by] \/ (pc'[w.by] = "spawned" /\ w.unit = cur'[w.by])
    BY <1>0, <2>1, <2>2 DEF WakeAt
  <2> QED
    BY <2>1, <2>2, <2>3, <2>4, <2>5 DEF WakeAt
<1>8. ASSUME NEW h \in Handler, Ending(h)
      PROVE  WakeAt(w)'
  <2>1. /\ wakes' \subseteq wakes /\ pc' = [pc EXCEPT ![h] = "gone"] /\ Live(h)
        /\ slot' = [slot EXCEPT ![h] = {}] /\ acked' = acked /\ cur' = [cur EXCEPT ![h] = {}]
        /\ w.by = h => w.st = "running" \/ (slot[h] = {} /\ cur[h] = {})
    BY <1>8, EndingDoes
  <2>2. w \in wakes /\ WakeAt(w) /\ w.by \in Handler
    BY <1>0, <2>1 DEF Tidy, WakeInv, WakeAt
  <2>3. \A g \in Handler, m \in w.unit : m \in Hand(g)' => g = w.by
    <3>1. \A g \in Handler : Hand(g)' \subseteq Hand(g)
      BY <1>0, <2>1 DEF Hand
    <3> QED
      BY <2>2, <3>1 DEF WakeAt
  <2>4. CASE w.by = h
    <3>1. pc'[h] = "gone" /\ ~Live(h)'
      BY <1>0, <2>1 DEF Live, LoopSteps
    <3>2. w.st = "running"
      BY <2>1, <2>2, <2>4 DEF WakeAt
    <3> QED
      BY <2>1, <2>2, <2>3, <2>4, <3>1, <3>2 DEF WakeAt
  <2>5. CASE w.by # h
    <3>1. /\ pc'[w.by] = pc[w.by] /\ slot'[w.by] = slot[w.by] /\ cur'[w.by] = cur[w.by]
          /\ Live(w.by)' <=> Live(w.by)
      BY <1>0, <2>1, <2>2, <2>5 DEF Live
    <3> QED
      BY <2>1, <2>2, <2>3, <3>1 DEF WakeAt
  <2> QED
    BY <2>4, <2>5
<1>9. Calm \/ \E h \in Handler : Spawn(h)
  BY StepCalm DEF Tidy
<1> QED
  BY <1>2, <1>4, <1>5, <1>6, <1>7, <1>8, <1>9, NextSplit DEF Working, Tidy

LEMMA TargetStep ==
  ASSUME Tidy, Renewed = {}, Next
  PROVE  TargetInv'
<1>0. pc \in [Handler -> LoopSteps \cup {"unborn", "gone"}] /\ TargetInv /\ None \notin Handler
      /\ owner \in [Agent -> Handler \cup {None}]
  BY WakeAssumption DEF Tidy, TypeOK
<1>1. \A h \in Handler : pc[h] # "unborn" => pc'[h] # "unborn"
  <2>1. ASSUME NEW h \in Handler, NEW s \in LoopSteps, Go(h, s)
        PROVE  \A g \in Handler : pc[g] # "unborn" => pc'[g] # "unborn"
    BY <1>0, <2>1 DEF Go, LoopSteps
  <2>2. ASSUME NEW h \in Handler, Turning(h) \/ Ending(h) \/ Take(h)
        PROVE  \A g \in Handler : pc[g] # "unborn" => pc'[g] # "unborn"
    BY <1>0, <2>2, TurningKeeps, EndingDoes, TakeDoes DEF Between
  <2>3. ASSUME NEW h \in Handler,
               \/ (\E S \in SUBSET Agent : Attach(h, S)) \/ Settle(h) \/ Unrecord(h) \/ Failing(h)
               \/ Claim(h) \/ Spawn(h) \/ SpawnFails(h) \/ Note(h)
        PROVE  \E s \in LoopSteps : Go(h, s)
    BY <2>3 DEF Attach, Settle, Unrecord, Failing, Abort, Unspawned, Fails, Claim, Spawn,
       SpawnFails, Note, LoopSteps
  <2>4. ASSUME NEW h \in Handler, NEW a \in Agent, Yield(h, a)
        PROVE  pc' = pc
    BY <2>4 DEF Yield
  <2> QED
    BY <2>1, <2>2, <2>3, <2>4, OutsideKeeps, NextSplit DEF Working, Tidy
<1>2. ASSUME NEW a \in Agent, ForceStop(a)
      PROVE  TargetInv'
  <2>1. target' = owner[a] /\ owner[a] \in Handler /\ a \in names[owner[a]]
    BY <1>0, <1>2 DEF ForceStop, Tidy, LoopInv
  <2>2. Live(owner[a])
    BY <2>1 DEF Tidy, LoopInv
  <2> QED
    BY <1>0, <1>1, <2>1, <2>2 DEF TargetInv, Live, LoopSteps
<1>3. CASE Finish
  BY <1>3 DEF Finish, Then, TargetInv
<1>4. ASSUME Outside, ~Finish, \A a \in Agent : ~ForceStop(a)
      PROVE  target' = target /\ (kpc' # "idle" => kpc # "idle")
  BY <1>4, ArriveKeeps DEF Outside, Stopping, Exit, SessionEnds, TimesUp, Signal, Ask,
       Look, SecondTerm, Wait, Freeze, KillRecorded, KillChildren, Deaf, KillHandler,
       Check, Clear, Mark, stop
<1>5. ASSUME NEW h \in Handler, Working(h)
      PROVE  target' = target /\ (kpc' # "idle" => kpc # "idle")
  BY <1>5, WorkingKeeps DEF KillHandler
<1>6. ASSUME target' = target, kpc' # "idle" => kpc # "idle"
      PROVE  TargetInv'
  BY <1>0, <1>1, <1>6 DEF TargetInv
<1> QED
  BY <1>2, <1>3, <1>4, <1>5, <1>6, NextSplit DEF Tidy

LEMMA TidyStep ==
  ASSUME Tidy, Renewed = {}, [Next]_vars
  PROVE  Tidy'
<1>1. CASE Next
  <2>1. MailTypes' /\ LoopTypes' /\ StopTypes'
    BY <1>1, MailTypesStep, LoopTypesStep, StopTypesStep
  <2>2. MailTypes' /\ LoopTypes' /\ StopTypes' => TypeOK'
    BY TypesSplit, PTL
  <2> QED
    BY <1>1, <2>1, <2>2, InboxStep, UnitStep, PlaceStep, LoopStep, WakeStep, TargetStep DEF Tidy
<1>2. CASE UNCHANGED vars
  <2>1. TypeOK' /\ InboxInv'
    BY <1>2 DEF vars, Tidy, TypeOK, InboxInv
  <2>2. UnitInv' /\ PlaceInv'
    <3>1. Units' = Units
      BY <1>2 DEF vars, Units
    <3> QED
      BY <1>2, <3>1 DEF vars, Tidy, UnitInv, Whole, PlaceInv
  <2>3. LoopInv'
    BY <1>2 DEF vars, Tidy, LoopInv, Live, Hand
  <2>4. WakeInv' /\ TargetInv'
    BY <1>2 DEF vars, Tidy, WakeInv, TargetInv, Live, Hand
  <2> QED
    BY <2>1, <2>2, <2>3, <2>4 DEF Tidy
<1> QED
  BY <1>1, <1>2

LEMMA TidyInit == Init => Tidy
<1> SUFFICES ASSUME Init
             PROVE  Tidy
  OBVIOUS
<1>1. TypeOK
  <2>1. {} \in Unit
    BY DEF Unit
  <2>2. MailTypes
    BY <2>1 DEF Init, MailTypes, NoRecord
  <2>3. LoopTypes
    BY <2>1 DEF Init, LoopTypes
  <2>4. StopTypes
    <3>1. 0 \in 0 .. MaxEvents /\ "idle" \in StopSteps
      BY WakeAssumption DEF StopSteps
    <3> QED
      BY <2>1, <3>1 DEF Init, StopTypes
  <2> QED
    BY <2>2, <2>3, <2>4, TypesSplit
<1>2. Units \subseteq {{}}
  BY DEF Init, Units, NoRecord
<1>3. UnitInv
  BY <1>2 DEF UnitInv, Whole
<1> QED
  BY <1>1, <1>3, WakeAssumption DEF Init, Tidy, InboxInv, PlaceInv, LoopInv, WakeInv, TargetInv, Live,
     LoopSteps, Starting, Clearing, Hand, NoRecord

\* The types hold, whatever handlers, wakes and a force stop do.
THEOREM TypesHold ==
  ASSUME Renewed = {}
  PROVE  Spec => []TypeOK
<1>1. Tidy => TypeOK
  BY DEF Tidy
<1> QED
  BY <1>1, TidyInit, TidyStep, PTL DEF Spec

(***************************************************************************)
(* Who has an agent's mail in hand, and what a force stop holds.           *)
(***************************************************************************)
\* The mail of an agent that nobody attached to beside a wake or a stop is in the hands
\* of one handler at most, and that one still has the agent or has let it go.
HolderInv ==
  \A h \in Handler : \A m \in Hand(h) :
    To[m] \notin tainted =>
      /\ owner[To[m]] \in {h, None}
      /\ \A g \in Handler \ {h} : \A n \in Hand(g) : To[n] # To[m]

\* The agents of a force stop are its handler's or free, and their mail is in no other
\* hands.
ScopeInv ==
  kpc # "idle" =>
    \A a \in scope \ tainted :
      /\ owner[a] \in {target, None}
      /\ \A h \in Handler \ {target} : \A m \in Hand(h) : To[m] # a

StopBefore == {"term", "wait", "freeze", "recorded", "children", "handler"}
StopAfter == {"late", "settle", "check", "clear", "mark", "end"}
StopInv ==
  /\ kpc = "idle" => target = None /\ scope = {} /\ own = {}
  /\ kpc \in StopAfter => ~Live(target)
  /\ IF kpc \in {"check", "clear", "mark"} THEN looks \in left ELSE unit = {}
  /\ kpc \in StopBefore => left = scope
  /\ frozen = IF sure /\ kpc \in {"recorded", "children", "handler"} THEN {target} ELSE {}
  /\ sure => kpc \in {"recorded", "children", "handler"} \cup (StopAfter \ {"late"})
  /\ frozen # {} => Live(target)
  /\ kpc = "end" /\ sure => left = {}
  /\ own \subseteq scope

Firm == Tidy /\ HolderInv /\ ScopeInv /\ StopInv

LEMMA TaintedGrows ==
  ASSUME Tidy, Renewed = {}, Next
  PROVE  tainted \subseteq tainted'
<1>1. ASSUME NEW h \in Handler, \/ (\E a \in Agent : Yield(h, a)) \/ Settle(h) \/ Unrecord(h)
             \/ Failing(h) \/ Claim(h) \/ Spawn(h) \/ SpawnFails(h) \/ Note(h)
             \/ \E S \in SUBSET Agent : Attach(h, S)
      PROVE  tainted \subseteq tainted'
  BY <1>1 DEF Yield, Settle, Unrecord, Failing, Abort, Unspawned, Fails, Claim, Spawn, SpawnFails,
     Note, Attach, history
<1> QED
  BY <1>1, TurningKeeps, TakeDoes, EndingDoes, OutsideKeeps, NextSplit DEF Working, Tidy

\* An agent changes hands only by attaching, and beside a wake that leaves a trace.
LEMMA OwnerAfter ==
  ASSUME Tidy, Renewed = {}, Next, NEW a \in Agent
  PROVE  \/ owner'[a] \in {owner[a], None}
         \/ owner[a] = None /\ owner'[a] \in Handler /\ (Unsettled(a) => a \in tainted')
<1>0. owner \in [Agent -> Handler \cup {None}]
  BY DEF Tidy, TypeOK
<1>1. ASSUME NEW h \in Handler, NEW S \in SUBSET Agent, Attach(h, S)
      PROVE  \/ owner'[a] = owner[a]
             \/ owner[a] = None /\ owner'[a] \in Handler /\ (Unsettled(a) => a \in tainted')
  <2>1. /\ owner' = [b \in Agent |-> IF b \in S THEN h ELSE owner[b]] /\ \A b \in S : owner[b] = None
        /\ tainted' = tainted \cup {b \in S : Unsettled(b)}
    BY <1>1 DEF Attach
  <2> HIDE DEF Unsettled
  <2> QED
    BY <2>1
<1>2. ASSUME NEW h \in Handler, NEW b \in Agent, Yield(h, b)
      PROVE  owner'[a] \in {owner[a], None}
  BY <1>0, <1>2 DEF Yield
<1>3. ASSUME NEW h \in Handler, Ending(h)
      PROVE  owner'[a] \in {owner[a], None}
  BY <1>0, <1>3, EndingDoes
<1>4. ASSUME NEW h \in Handler, \/ Turning(h) \/ Settle(h) \/ Failing(h) \/ Take(h)
             \/ Unrecord(h) \/ SpawnFails(h) \/ Spawn(h) \/ Claim(h) \/ Note(h)
      PROVE  owner' = owner
  BY <1>4, TakeDoes, TurningKeeps DEF Settle, Failing, Abort, Unspawned, Fails, Unrecord,
     SpawnFails, Spawn, Claim, Note, disk
<1> QED
  BY <1>1, <1>2, <1>3, <1>4, OutsideKeeps, NextSplit DEF Working, Tidy

\* Mail comes into a handler's hands only where the agent is its own.
LEMMA HandNew ==
  ASSUME Tidy, Renewed = {}, Next, NEW h \in Handler, NEW m \in Hand(h)', m \notin Hand(h)
  PROVE  owner[To[m]] = h /\ owner' = owner /\ tainted' = tainted /\ kpc' = kpc
           /\ To[m] \in Agent /\ \A g \in Handler \ {h} : Hand(g)' \subseteq Hand(g)
           /\ target' = target /\ scope' = scope
<1>1. Take(h) /\ m \in cur'[h]
  BY HandAfter
<1>2. To[m] \in names[h] /\ UNCHANGED <<owner, tainted, kpc, target, scope>> /\ cur'[h] \subseteq sent
  BY <1>1, TakeDoes
<1>3. To[m] \in Agent
  BY <1>1, <1>2, WakeAssumption DEF Tidy, TypeOK
<1>4. owner[To[m]] = h
  BY <1>2, <1>3 DEF Tidy, LoopInv
<1>5. \A g \in Handler \ {h} : ~Take(g)
  <2>1. pc \in [Handler -> LoopSteps \cup {"unborn", "gone"}]
    BY DEF Tidy, TypeOK
  <2> QED
    BY <1>1, <2>1, TakeDoes
<1>6. \A g \in Handler \ {h} : Hand(g)' \subseteq Hand(g)
  BY <1>5, HandAfter
<1> QED
  BY <1>2, <1>3, <1>4, <1>6

LEMMA HeldIsLive ==
  ASSUME Tidy, NEW h \in Handler, NEW m \in Hand(h)
  PROVE  Live(h) /\ To[m] \in Agent /\ m \in trash /\ Unsettled(To[m])
<1>1. LoopAt(h) /\ m \in trash
  BY LoopParts, HandTaken DEF Tidy, Hand
<1>2. Live(h)
  BY <1>1 DEF LoopAt, Hand, Live, Starting, Clearing, LoopSteps
<1> QED
  BY <1>1, <1>2, WakeAssumption DEF Tidy, TypeOK, Unsettled

LEMMA HolderStep ==
  ASSUME Firm, Renewed = {}, Next
  PROVE  HolderInv'
<1>0. Tidy /\ HolderInv /\ None \notin Handler
  BY WakeAssumption DEF Firm
<1>1. SUFFICES ASSUME NEW h \in Handler, NEW m \in Hand(h)', To[m] \notin tainted'
               PROVE  /\ owner'[To[m]] \in {h, None}
                      /\ \A g \in Handler \ {h} : \A n \in Hand(g)' : To[n] # To[m]
  BY DEF HolderInv
<1>2. To[m] \notin tainted
  BY <1>0, <1>1, TaintedGrows
<1>3. CASE m \notin Hand(h)
  <2>1. owner[To[m]] = h /\ owner' = owner /\ \A g \in Handler \ {h} : Hand(g)' \subseteq Hand(g)
    BY <1>0, <1>1, <1>3, HandNew
  <2>2. ASSUME NEW g \in Handler \ {h}, NEW n \in Hand(g)', To[n] = To[m]
        PROVE  FALSE
    BY <1>0, <1>2, <2>1, <2>2 DEF HolderInv
  <2> QED
    BY <2>1, <2>2
<1>4. CASE m \in Hand(h)
  <2>1. owner[To[m]] \in {h, None} /\ \A g \in Handler \ {h} : \A n \in Hand(g) : To[n] # To[m]
    BY <1>0, <1>2, <1>4 DEF HolderInv
  <2>2. To[m] \in Agent /\ Unsettled(To[m])
    BY <1>0, <1>4, HeldIsLive
  <2>3. owner'[To[m]] \in {h, None}
    BY <1>0, <1>1, <2>1, <2>2, OwnerAfter
  <2>4. ASSUME NEW g \in Handler \ {h}, NEW n \in Hand(g)', To[n] = To[m]
        PROVE  FALSE
    <3>1. n \notin Hand(g)
      BY <2>1, <2>4
    <3>2. owner[To[m]] = g
      BY <1>0, <2>4, <3>1, HandNew
    <3> QED
      BY <1>0, <2>1, <3>2
  <2> QED
    BY <2>3, <2>4
<1> QED
  BY <1>3, <1>4

\* The agents and the handler of a force stop stay while it runs.
LEMMA ScopeKept ==
  ASSUME Tidy, Renewed = {}, Next, kpc' # "idle"
  PROVE  \/ kpc # "idle" /\ scope' = scope /\ target' = target
         \/ \E a \in Agent : ForceStop(a)
<1>1. ASSUME NEW h \in Handler, Working(h)
      PROVE  kpc # "idle" /\ scope' = scope /\ target' = target
  BY <1>1, WorkingKeeps DEF KillHandler
<1>2. ASSUME Outside, \A a \in Agent : ~ForceStop(a)
      PROVE  kpc # "idle" /\ scope' = scope /\ target' = target
  BY <1>2, ArriveKeeps DEF Outside, Stopping, Exit, SessionEnds, TimesUp, Signal, Ask,
       Look, SecondTerm, Wait, Freeze, KillRecorded, KillChildren, Deaf, KillHandler,
       Check, Clear, Mark, Finish, Then, stop
<1> QED
  BY <1>1, <1>2, NextSplit DEF Tidy

LEMMA ScopeStep ==
  ASSUME Firm, Renewed = {}, Next
  PROVE  ScopeInv'
<1>0. Tidy /\ HolderInv /\ ScopeInv /\ None \notin Handler
  BY WakeAssumption DEF Firm
<1>1. SUFFICES ASSUME kpc' # "idle", NEW a \in scope' \ tainted'
               PROVE  /\ owner'[a] \in {target', None}
                      /\ \A h \in Handler \ {target'} : \A m \in Hand(h)' : To[m] # a
  BY DEF ScopeInv
<1>2. a \notin tainted
  BY <1>0, <1>1, TaintedGrows
<1>3. ASSUME NEW b \in Agent, ForceStop(b)
      PROVE  /\ owner'[a] \in {target', None}
             /\ \A h \in Handler \ {target'} : \A m \in Hand(h)' : To[m] # a
  <2>1. /\ target' = owner[b] /\ owner[b] # None /\ scope' = {c \in Agent : owner[c] = owner[b]}
        /\ UNCHANGED <<owner, slot, cur>>
    BY <1>3, OutsideKeeps, <1>0 DEF ForceStop, Outside, Stopping
  <2>2. owner[a] = target'
    BY <1>1, <2>1
  <2>3. ASSUME NEW h \in Handler \ {target'}, NEW m \in Hand(h)', To[m] = a
        PROVE  FALSE
    <3>1. m \in Hand(h)
      BY <2>1 DEF Hand
    <3> QED
      BY <1>0, <1>2, <2>1, <2>2, <2>3, <3>1 DEF HolderInv
  <2> QED
    BY <2>1, <2>2, <2>3
<1>4. CASE kpc # "idle" /\ scope' = scope /\ target' = target
  <2>1. owner[a] \in {target, None} /\ \A h \in Handler \ {target} : \A m \in Hand(h) : To[m] # a
    BY <1>0, <1>1, <1>2, <1>4 DEF ScopeInv
  <2>2. a \in Agent /\ Unsettled(a)
    BY <1>0, <1>1, <1>4 DEF Unsettled, Tidy, TypeOK
  <2>3. owner'[a] \in {target, None}
    BY <1>0, <1>1, <2>1, <2>2, OwnerAfter
  <2>4. ASSUME NEW h \in Handler \ {target}, NEW m \in Hand(h)', To[m] = a
        PROVE  FALSE
    <3>1. m \notin Hand(h)
      BY <2>1, <2>4
    <3>2. owner[a] = h
      BY <1>0, <2>4, <3>1, HandNew
    <3> QED
      BY <1>0, <2>1, <3>2
  <2> QED
    BY <1>4, <2>3, <2>4
<1> QED
  BY <1>0, <1>1, <1>3, <1>4, ScopeKept

\* A handler that is gone stays gone, and one that is frozen does nothing.
LEMMA GoneStays ==
  ASSUME Tidy, Renewed = {}, Next, NEW h \in Handler, pc[h] # "unborn", ~Live(h)
  PROVE  ~Live(h)'
<1>0. pc \in [Handler -> LoopSteps \cup {"unborn", "gone"}]
  BY DEF Tidy, TypeOK
<1>1. pc[h] = "gone"
  BY <1>0 DEF Live
<1>2. \A g \in Handler : Working(g) => g # h \/ pc'[h] = pc[h]
  <2>1. ASSUME Working(h)
        PROVE  FALSE
    <3>1. CASE Turning(h) \/ Take(h) \/ Ending(h)
      BY <1>1, <3>1, TurningKeeps, TakeDoes, EndingDoes DEF Between, Live, LoopSteps
    <3>2. CASE \/ (\E a \in Agent : Yield(h, a)) \/ (\E S \in SUBSET Agent : Attach(h, S))
               \/ Settle(h) \/ Unrecord(h)
      BY <1>1, <3>2 DEF Yield, Attach, Settle, Unrecord, At
    <3>3. CASE Failing(h) \/ Claim(h) \/ Spawn(h) \/ SpawnFails(h) \/ Note(h)
      BY <1>1, <3>3 DEF Failing, Abort, Unspawned, Claim, Spawn, SpawnFails, Note, At
    <3> QED
      BY <2>1, <3>1, <3>2, <3>3 DEF Working
  <2> QED
    BY <2>1
<1>3. ASSUME NEW g \in Handler \ {h}, Working(g)
      PROVE  pc'[h] = pc[h]
  <2>1. CASE Turning(g) \/ Take(g) \/ Ending(g)
    BY <1>0, <2>1, TurningKeeps, TakeDoes, EndingDoes
  <2>2. CASE \/ (\E a \in Agent : Yield(g, a)) \/ (\E S \in SUBSET Agent : Attach(g, S))
             \/ Settle(g) \/ Unrecord(g) \/ Failing(g)
    BY <1>0, <2>2 DEF Yield, Attach, Settle, Unrecord, Failing, Abort, Unspawned, Fails, Go
  <2>3. CASE Claim(g) \/ Spawn(g) \/ SpawnFails(g) \/ Note(g)
    BY <1>0, <2>3 DEF Claim, Spawn, SpawnFails, Note, Go
  <2> QED
    BY <1>3, <2>1, <2>2, <2>3 DEF Working
<1>4. pc'[h] = pc[h]
  BY <1>2, <1>3, OutsideKeeps, NextSplit DEF Tidy
<1> QED
  BY <1>1, <1>4 DEF Live, LoopSteps

LEMMA FrozenStands ==
  ASSUME Tidy, Renewed = {}, Next, NEW h \in frozen, Live(h), ~KillHandler
  PROVE  Live(h)' /\ \A g \in Handler : Working(g) => g # h
<1>0. pc \in [Handler -> LoopSteps \cup {"unborn", "gone"}] /\ h \in Handler
  BY DEF Tidy, TypeOK
<1>1. ASSUME Working(h)
      PROVE  FALSE
  <2>1. CASE Turning(h) \/ Take(h)
    BY <2>1 DEF Turning, Begin, Service, Consume, Proxies, PassEnds, NextAgent, Take, Passing, At
  <2>2. CASE \/ (\E a \in Agent : Yield(h, a)) \/ Settle(h) \/ Unrecord(h) \/ Ending(h)
    BY <2>2 DEF Yield, Settle, Unrecord, Ending, Release, Die, At
  <2>3. CASE Failing(h) \/ Claim(h) \/ Spawn(h) \/ SpawnFails(h) \/ Note(h)
    BY <2>3 DEF Failing, Abort, Unspawned, Claim, Spawn, SpawnFails, Note, At
  <2>4. CASE \E S \in SUBSET Agent : Attach(h, S)
    BY <2>4 DEF Attach, Live, LoopSteps
  <2> QED
    BY <1>1, <2>1, <2>2, <2>3, <2>4 DEF Working
<1>2. ASSUME NEW g \in Handler \ {h}, Working(g)
      PROVE  pc'[h] = pc[h]
  <2>1. CASE Turning(g) \/ Take(g) \/ Ending(g)
    BY <1>0, <2>1, TurningKeeps, TakeDoes, EndingDoes
  <2>2. CASE \/ (\E a \in Agent : Yield(g, a)) \/ (\E S \in SUBSET Agent : Attach(g, S))
             \/ Settle(g) \/ Unrecord(g) \/ Failing(g)
    BY <1>0, <2>2 DEF Yield, Attach, Settle, Unrecord, Failing, Abort, Unspawned, Fails, Go
  <2>3. CASE Claim(g) \/ Spawn(g) \/ SpawnFails(g) \/ Note(g)
    BY <1>0, <2>3 DEF Claim, Spawn, SpawnFails, Note, Go
  <2> QED
    BY <1>2, <2>1, <2>2, <2>3 DEF Working
<1>3. pc'[h] = pc[h]
  BY <1>1, <1>2, OutsideKeeps, NextSplit DEF Tidy
<1> QED
  BY <1>1, <1>3 DEF Live

\* What a step that is not the stop's does to it: nothing.
LEMMA StopOthers ==
  ASSUME Tidy, Renewed = {}, Next, ~Stopping, ~KillHandler
  PROVE  UNCHANGED <<kpc, target, scope, own, left, looks, unit, sure, frozen, caught>>
<1>1. ASSUME NEW h \in Handler, Working(h)
      PROVE  UNCHANGED <<kpc, target, scope, own, left, looks, unit, sure, frozen, caught>>
  <2>1. CASE Turning(h) \/ Take(h)
    BY <2>1, TurningKeeps, TakeDoes
  <2>2. CASE \/ (\E a \in Agent : Yield(h, a)) \/ (\E S \in SUBSET Agent : Attach(h, S))
             \/ Settle(h) \/ Unrecord(h) \/ Failing(h)
    BY <2>2 DEF Yield, Attach, Settle, Unrecord, Failing, Abort, Unspawned, Fails, stop, history
  <2>3. CASE Claim(h) \/ Spawn(h) \/ SpawnFails(h) \/ Note(h) \/ Ending(h)
    BY <2>3 DEF Claim, Spawn, SpawnFails, Note, Ending, Release, Die, stop, history
  <2> QED
    BY <1>1, <2>1, <2>2, <2>3 DEF Working
<1>2. CASE Outside
  BY <1>2, ArriveKeeps DEF Outside, Exit, SessionEnds, TimesUp, Signal, Ask, stop, history
<1> QED
  BY <1>1, <1>2, NextSplit DEF Tidy

LEMMA StopStep ==
  ASSUME Firm, Renewed = {}, Next
  PROVE  StopInv'
<1>0. Tidy /\ StopInv /\ kpc \in StopSteps /\ unit \in Unit /\ left \subseteq scope
      /\ TargetInv /\ Live(target) \in BOOLEAN
  BY DEF Firm, Tidy, TypeOK, Live
<1> USE DEF StopBefore, StopAfter
<1>1. CASE ~Stopping /\ ~KillHandler
  <2>1. UNCHANGED <<kpc, target, scope, own, left, looks, unit, sure, frozen>>
    BY <1>0, <1>1, StopOthers
  <2>2. kpc \in StopAfter => ~Live(target)'
    <3>1. kpc \in StopAfter => target \in Handler /\ pc[target] # "unborn" /\ ~Live(target)
      BY <1>0 DEF StopInv, TargetInv
    <3>2. kpc \in StopAfter => ~Live(target)'
      <4>1. SUFFICES ASSUME kpc \in StopAfter
                     PROVE  ~Live(target)'
        OBVIOUS
      <4>2. PICK h \in Handler : h = target /\ pc[h] # "unborn" /\ ~Live(h)
        BY <3>1, <4>1
      <4>3. ~Live(h)'
        BY <1>0, <4>2, GoneStays
      <4> QED
        BY <2>1, <4>2, <4>3 DEF Live
    <3> QED
      BY <3>2
  <2>3. frozen # {} => Live(target)'
    <3>1. SUFFICES ASSUME frozen # {}
                   PROVE  Live(target)'
      OBVIOUS
    <3>2. PICK h \in frozen : h = target /\ Live(h)
      BY <1>0, <3>1 DEF StopInv
    <3>3. Live(h)'
      BY <1>0, <1>1, <3>2, FrozenStands
    <3> QED
      BY <2>1, <3>2, <3>3 DEF Live
  <2> QED
    BY <1>0, <2>1, <2>2, <2>3 DEF StopInv
<1>2. ASSUME Stopping
      PROVE  (Live(target)' <=> pc[target'] \in LoopSteps) /\ \A h \in Handler : Live(h)' <=> Live(h)
  BY <1>2, StoppingKeeps DEF Live
<1>3. ASSUME NEW a \in Agent, ForceStop(a)
      PROVE  StopInv'
  <2>1. /\ kpc = "idle" /\ kpc' = "term" /\ left' = scope' /\ own' \subseteq left'
        /\ UNCHANGED <<unit, sure, frozen>>
    BY <1>3 DEF ForceStop, Then
  <2> QED
    BY <1>0, <2>1 DEF StopInv
<1>4. CASE SecondTerm \/ Wait
  <2>1. /\ kpc \in {"term", "wait"} /\ kpc' \in {"wait", "freeze", "end"}
        /\ kpc' = "end" => ~Live(target)
        /\ UNCHANGED <<target, scope, own, left, looks, unit, sure, frozen>>
    BY <1>4 DEF SecondTerm, Wait, Then
  <2>2. Live(target)' <=> Live(target)
    BY <1>2, <1>4, <2>1 DEF Stopping, Live
  <2> QED
    BY <1>0, <2>1, <2>2 DEF StopInv
<1>5. CASE Freeze
  <2>1. /\ kpc = "freeze" /\ kpc' = (IF Live(target) THEN "recorded" ELSE "settle")
        /\ own' \subseteq own \cup left /\ sure' \in {FALSE, Live(target)}
        /\ frozen' = (IF sure' THEN {target} ELSE {})
        /\ UNCHANGED <<target, scope, left, looks, unit>>
    BY <1>5 DEF Freeze, Then
  <2>2. Live(target)' <=> Live(target)
    BY <1>2, <1>5, <2>1 DEF Stopping, Live
  <2>3. CASE Live(target)
    <3>1. kpc' = "recorded" /\ Live(target)'
      BY <2>1, <2>2, <2>3
    <3> QED
      BY <1>0, <2>1, <3>1 DEF StopInv
  <2>4. CASE ~Live(target)
    <3>1. kpc' = "settle" /\ ~Live(target)' /\ ~sure'
      BY <1>0, <2>1, <2>2, <2>4
    <3> QED
      BY <1>0, <2>1, <3>1 DEF StopInv
  <2> QED
    BY <2>3, <2>4
<1>6. CASE KillRecorded \/ KillChildren
  <2>1. /\ \/ kpc = "recorded" /\ kpc' = (IF sure THEN "children" ELSE "handler")
           \/ kpc = "late" /\ kpc' = "settle"
           \/ kpc = "children" /\ kpc' = "handler"
        /\ UNCHANGED <<target, scope, own, left, looks, unit, sure, frozen>>
    BY <1>6 DEF KillRecorded, KillChildren, Then
  <2>2. Live(target)' <=> Live(target)
    BY <1>2, <1>6, <2>1 DEF Stopping, Live
  <2> QED
    BY <1>0, <2>1, <2>2 DEF StopInv
<1>7. CASE KillHandler
  <2>1. /\ kpc = "handler" /\ kpc' = (IF sure THEN "settle" ELSE "late")
        /\ UNCHANGED <<target, scope, own, left, looks, unit, sure>>
    BY <1>7 DEF KillHandler, Then
  <2>2. target \in Handler
    BY <1>0, <2>1 DEF TargetInv
  <2>3. frozen' = {} /\ ~Live(target)'
    <3>1. CASE Live(target)
      <4>1. frozen' = {} /\ Ending(target)
        BY <1>7, <3>1 DEF KillHandler, Ending
      <4>2. pc'[target] = "gone"
        BY <1>0, <2>2, <4>1, EndingDoes DEF Tidy, TypeOK
      <4> QED
        BY <2>1, <4>1, <4>2 DEF Live, LoopSteps
    <3>2. CASE ~Live(target)
      BY <1>0, <1>7, <2>1, <3>2 DEF KillHandler, Live, StopInv
    <3> QED
      BY <3>1, <3>2
  <2> QED
    BY <1>0, <2>1, <2>3 DEF StopInv
<1>8. ASSUME NEW a \in Agent, Look(a)
      PROVE  StopInv'
  <2>1. /\ kpc = "settle" /\ kpc' = "check" /\ a \in left /\ looks' = a
        /\ UNCHANGED <<target, scope, own, left, sure, frozen>>
    BY <1>8 DEF Look, Then
  <2>2. Live(target)' <=> Live(target)
    BY <1>2, <1>8, <2>1 DEF Stopping, Live
  <2> QED
    BY <1>0, <2>1, <2>2 DEF StopInv
<1>9. CASE Check \/ Clear
  <2>1. /\ kpc \in {"check", "clear"} /\ kpc' \in {"clear", "mark"}
        /\ UNCHANGED <<target, scope, own, left, looks, unit, sure, frozen>>
    BY <1>9 DEF Check, Clear, Then
  <2>2. Live(target)' <=> Live(target)
    BY <1>2, <1>9, <2>1 DEF Stopping, Live
  <2> QED
    BY <1>0, <2>1, <2>2 DEF StopInv
<1>10. CASE Mark
  <2>1. /\ kpc = "mark" /\ kpc' = (IF left = {looks} THEN "end" ELSE "settle")
        /\ left' = left \ {looks} /\ unit' = {} /\ UNCHANGED <<target, scope, own, sure, frozen>>
    BY <1>10 DEF Mark, Then
  <2>2. Live(target)' <=> Live(target)
    BY <1>2, <1>10, <2>1 DEF Stopping, Live
  <2> QED
    BY <1>0, <2>1, <2>2 DEF StopInv
<1>11. CASE Finish
  <2>1. /\ kpc = "end" /\ kpc' = "idle" /\ target' = None /\ scope' = {} /\ own' = {} /\ ~sure'
        /\ UNCHANGED <<unit, frozen>>
    BY <1>11 DEF Finish, Then
  <2> QED
    BY <1>0, <2>1 DEF StopInv
<1> QED
  BY <1>1, <1>3, <1>4, <1>5, <1>6, <1>7, <1>8, <1>9, <1>10, <1>11 DEF Stopping, Deaf

LEMMA FirmStep ==
  ASSUME Firm, Renewed = {}, [Next]_vars
  PROVE  Firm'
<1>1. CASE Next
  BY <1>1, TidyStep, HolderStep, ScopeStep, StopStep DEF Firm
<1>2. CASE UNCHANGED vars
  <2>1. Tidy'
    BY <1>2, TidyStep DEF Firm
  <2>2. HolderInv' /\ ScopeInv'
    BY <1>2 DEF vars, Firm, HolderInv, ScopeInv, Hand
  <2>3. StopInv'
    BY <1>2 DEF vars, Firm, StopInv, Live
  <2> QED
    BY <2>1, <2>2, <2>3 DEF Firm
<1> QED
  BY <1>1, <1>2

LEMMA FirmInit == Init => Firm
BY TidyInit DEF Init, Firm, HolderInv, ScopeInv, StopInv, StopBefore, StopAfter, Hand


(***************************************************************************)
(* What the files name, and what is in sight.                              *)
(***************************************************************************)
\* The record of an agent changes with the end of a force stop, or with a step of a
\* handler that has mail of the agent in hand.
LEMMA RecordMoves ==
  ASSUME Tidy, Renewed = {}, Next, NEW a \in Agent
  PROVE  \/ record'[a] = record[a]
         \/ Clear /\ looks = a /\ record'[a].unit = {}
         \/ \E g \in Handler :
              /\ Live(g) /\ \E n \in cur[g] : To[n] = a
              /\ \/ (Unrecord(g) \/ SpawnFails(g)) /\ record'[a].unit = {}
                 \/ (Claim(g) \/ Note(g)) /\ record'[a].unit = cur[g]
<1>0. record \in [Agent -> [unit : Unit, born : BOOLEAN]]
  BY DEF Tidy, TypeOK
<1>1. ASSUME NEW b, Cleared(b)[a] # record[a]
      PROVE  b = a
  BY <1>0, <1>1 DEF Cleared
<1>2. CASE Clear /\ record'[a].unit = {} /\ record'[a] # record[a]
  BY <1>1, <1>2 DEF Clear
<1>3. ASSUME NEW g \in Handler, Unrecord(g) \/ SpawnFails(g), record'[a].unit = {},
             record'[a] # record[a]
      PROVE  Live(g) /\ \E n \in cur[g] : To[n] = a
  <2>1. a = AgentOf(cur[g])
    BY <1>1, <1>3 DEF Unrecord, SpawnFails
  <2>2. pc[g] \in Starting \cup Clearing /\ Live(g)
    BY <1>3 DEF Unrecord, SpawnFails, At, Starting, Clearing, Live, LoopSteps
  <2>3. cur[g] # {} /\ \A m \in cur[g] : To[m] = AgentOf(cur[g])
    BY <2>2, StartingHas, HandTaken
  <2> QED
    BY <2>1, <2>2, <2>3
<1>4. ASSUME NEW g \in Handler, Claim(g) \/ Note(g), cur[g] # {}, a = AgentOf(cur[g])
      PROVE  Live(g) /\ \E n \in cur[g] : To[n] = a
  <2>1. Live(g)
    BY <1>4 DEF Claim, Note, At, Live, LoopSteps
  <2>2. \A m \in cur[g] : To[m] = AgentOf(cur[g])
    BY HandTaken
  <2> QED
    BY <1>4, <2>1, <2>2
<1> QED
  BY <1>2, <1>3, <1>4, RecordAfter

LEMMA ExcusedGrows ==
  ASSUME Tidy, Renewed = {}, Next
  PROVE  excused \subseteq excused'
<1>1. ASSUME NEW h \in Handler, \/ (\E a \in Agent : Yield(h, a)) \/ Settle(h) \/ Unrecord(h)
             \/ Failing(h) \/ Claim(h) \/ Spawn(h) \/ SpawnFails(h) \/ Note(h)
             \/ \E S \in SUBSET Agent : Attach(h, S)
      PROVE  excused \subseteq excused'
  BY <1>1 DEF Yield, Settle, Unrecord, Failing, Abort, Unspawned, Fails, Claim, Spawn, SpawnFails,
     Note, Attach, history
<1> QED
  BY <1>1, TurningKeeps, TakeDoes, EndingDoes, OutsideKeeps, NextSplit DEF Working, Tidy

LEMMA SlotAfter ==
  ASSUME Tidy, Renewed = {}, Next, NEW h \in Handler
  PROVE  slot'[h] \in {slot[h], {}} \/ (Note(h) /\ slot'[h] = cur[h])
<1>0. slot \in [Handler -> Unit]
  BY DEF Tidy, TypeOK
<1>1. ASSUME NEW g \in Handler, Turning(g) \/ Take(g) \/ Ending(g)
      PROVE  slot'[h] \in {slot[h], {}}
  BY <1>0, <1>1, TurningKeeps, TakeDoes, EndingDoes
<1>2. ASSUME NEW g \in Handler, \/ (\E a \in Agent : Yield(g, a)) \/ Settle(g) \/ Unrecord(g)
             \/ Failing(g) \/ Claim(g) \/ Spawn(g) \/ SpawnFails(g)
             \/ \E S \in SUBSET Agent : Attach(g, S)
      PROVE  slot'[h] \in {slot[h], {}}
  BY <1>0, <1>2 DEF Yield, Settle, Unrecord, Failing, Abort, Unspawned, Fails, Claim, Spawn,
     SpawnFails, Attach, loop
<1>3. ASSUME NEW g \in Handler, Note(g)
      PROVE  slot'[h] = slot[h] \/ (g = h /\ slot'[h] = cur[h])
  BY <1>0, <1>3 DEF Note
<1> QED
  BY <1>1, <1>2, <1>3, OutsideKeeps, NextSplit DEF Working, Tidy

\* How the step of a loop is reached.
LEMMA PcAfter ==
  ASSUME Tidy, Renewed = {}, Next, NEW h \in Handler
  PROVE  /\ pc'[h] = "claimed" => Claim(h) \/ (pc[h] = "claimed" /\ cur'[h] = cur[h])
         /\ pc'[h] = "spawned" =>
              (Spawn(h) \/ pc[h] = "spawned") /\ pc[h] \in {"claimed", "spawned"} /\ cur'[h] = cur[h]
         /\ pc'[h] \in Clearing => Settle(h) \/ (pc[h] \in Clearing /\ cur'[h] = cur[h])
         /\ pc[h] \in Clearing /\ pc'[h] \notin Clearing => Hand(h)' = {}
         /\ pc[h] = "claimed" => pc'[h] = "claimed" \/ Spawn(h) \/ SpawnFails(h) \/ Ending(h)
         /\ pc[h] = "spawned" => pc'[h] = "spawned" \/ Note(h) \/ Ending(h)
         /\ pc[h] \in Clearing => pc'[h] \in Clearing \/ Unrecord(h) \/ Ending(h)
         /\ pc'[h] # pc[h] => Working(h)
<1>0. /\ pc \in [Handler -> LoopSteps \cup {"unborn", "gone"}] /\ cur \in [Handler -> Unit]
      /\ slot \in [Handler -> Unit] /\ (pc[h] \in Clearing => slot[h] = {})
  BY DEF Tidy, TypeOK, LoopInv
<1> DEFINE Fine ==
         /\ pc'[h] = "claimed" => Claim(h) \/ (pc[h] = "claimed" /\ cur'[h] = cur[h])
         /\ pc'[h] = "spawned" =>
              (Spawn(h) \/ pc[h] = "spawned") /\ pc[h] \in {"claimed", "spawned"} /\ cur'[h] = cur[h]
         /\ pc'[h] \in Clearing => Settle(h) \/ (pc[h] \in Clearing /\ cur'[h] = cur[h])
         /\ pc[h] \in Clearing /\ pc'[h] \notin Clearing => Hand(h)' = {}
         /\ pc[h] = "claimed" => pc'[h] = "claimed" \/ Spawn(h) \/ SpawnFails(h) \/ Ending(h)
         /\ pc[h] = "spawned" => pc'[h] = "spawned" \/ Note(h) \/ Ending(h)
         /\ pc[h] \in Clearing => pc'[h] \in Clearing \/ Unrecord(h) \/ Ending(h)
         /\ pc'[h] # pc[h] => Working(h)
<1> SUFFICES Fine
  OBVIOUS
<1> USE DEF Clearing
<1>1. CASE Outside
  BY <1>1, OutsideKeeps
<1>2. ASSUME NEW g \in Handler, g # h, Working(g)
      PROVE  Fine
  <2>1. pc'[h] = pc[h] /\ cur'[h] = cur[h]
    <3>1. CASE Turning(g) \/ Take(g) \/ Ending(g)
      BY <1>0, <1>2, <3>1, TurningKeeps, TakeDoes, EndingDoes
    <3>2. CASE \/ (\E a \in Agent : Yield(g, a)) \/ (\E S \in SUBSET Agent : Attach(g, S))
               \/ Settle(g) \/ Unrecord(g) \/ Failing(g)
      BY <1>0, <1>2, <3>2 DEF Yield, Attach, Settle, Unrecord, Failing, Abort, Unspawned, Fails, Go,
         loop
    <3>3. CASE Claim(g) \/ Spawn(g) \/ SpawnFails(g) \/ Note(g)
      BY <1>0, <1>2, <3>3 DEF Claim, Spawn, SpawnFails, Note, Go, loop
    <3> QED
      BY <1>2, <3>1, <3>2, <3>3 DEF Working
  <2> QED
    BY <2>1
<1>3. CASE Turning(h) \/ Take(h)
  <2>1. /\ pc[h] \in Between /\ (pc'[h] \in Between \/ pc'[h] = "trashed") /\ Working(h)
    BY <1>0, <1>3, TurningKeeps, TakeDoes DEF Between, Working
  <2> QED
    BY <2>1 DEF Between
<1>4. CASE Ending(h)
  <2>1. pc'[h] = "gone" /\ slot'[h] = {} /\ cur'[h] = {} /\ Working(h)
    BY <1>0, <1>4, EndingDoes DEF Working
  <2> QED
    BY <1>4, <2>1 DEF Hand
<1>5. CASE (\E a \in Agent : Yield(h, a)) \/ (\E S \in SUBSET Agent : Attach(h, S))
  BY <1>0, <1>5 DEF Yield, Attach, Go, At, Working
<1>6. CASE Settle(h)
  BY <1>0, <1>6 DEF Settle, Go, At, Working
<1>7. CASE Unrecord(h)
  BY <1>0, <1>7 DEF Unrecord, Go, At, Working, Hand
<1>8. CASE Failing(h)
  BY <1>0, <1>8 DEF Failing, Abort, Unspawned, Fails, Go, At, Working
<1>9. CASE Claim(h)
  BY <1>0, <1>9 DEF Claim, Go, At, Working
<1>10. CASE Spawn(h)
  BY <1>0, <1>10 DEF Spawn, Go, At, Working, loop
<1>11. CASE SpawnFails(h)
  BY <1>0, <1>11 DEF SpawnFails, Go, At, Working
<1>12. CASE Note(h)
  BY <1>0, <1>12 DEF Note, Go, At, Working
<1> HIDE DEF Fine
<1> QED
  BY <1>1, <1>2, <1>3, <1>4, <1>5, <1>6, <1>7, <1>8, <1>9, <1>10, <1>11, <1>12, NextSplit
     DEF Working, Tidy

\* Two handlers with mail of one agent in hand: one attached beside the other's wake.
LEMMA Aside ==
  ASSUME Firm, NEW h \in Handler, NEW g \in Handler, g # h, NEW m \in Hand(h), NEW n \in Hand(g),
         To[n] = To[m]
  PROVE  To[m] \in tainted
BY DEF Firm, HolderInv

\* The same where a force stop has seen its handler gone.
LEMMA BesideStop ==
  ASSUME Firm, kpc \in StopAfter, NEW h \in Handler, NEW m \in Hand(h), To[m] \in scope
  PROVE  To[m] \in tainted
<1>1. Live(h)
  BY HeldIsLive DEF Firm
<1>2. kpc # "idle" /\ ~Live(target)
  BY DEF Firm, StopInv, StopAfter
<1> QED
  BY <1>1, <1>2 DEF Firm, ScopeInv

\* The agents of a handler that is gone are free, or were attached beside the stop.
LEMMA FreeOfStop ==
  ASSUME Firm, kpc \in StopAfter, NEW a \in scope, owner[a] # None
  PROVE  a \in tainted
<1>1. kpc # "idle" /\ ~Live(target) /\ target \in Handler /\ a \in Agent
  BY DEF Firm, StopInv, StopAfter, Tidy, TargetInv, TypeOK
<1>2. names[target] = {} /\ (owner[a] = target <=> a \in names[target])
  BY <1>1 DEF Firm, Tidy, LoopInv
<1> QED
  BY <1>1, <1>2 DEF Firm, ScopeInv

\* The record of an agent names the wake of its mail, from the claim to the settling,
\* or the message is out of sight in a known window; a force stop remembers what it
\* has read there.
NamedSlot(h) ==
  \A m \in slot[h] :
    \/ To[m] \in tainted \/ record[To[m]].unit = slot[h]
    \/ /\ m \in excused
       /\ \/ record[To[m]].unit = {}
          \/ pc[h] \in {"claimed", "spawned"} /\ record[To[m]].unit = cur[h]
NamedCur(h) ==
  /\ pc[h] \in {"claimed", "spawned"} =>
       \A m \in cur[h] : To[m] \in tainted \/ record[To[m]].unit = cur[h]
  /\ pc[h] \in Clearing =>
       \A m \in cur[h] : To[m] \in tainted \/ record[To[m]].unit \in {cur[h], {}}
NamedLook == kpc \in {"check", "clear"} => looks \in tainted \/ unit = record[looks].unit
NamedInv == (\A h \in Handler : NamedSlot(h) /\ NamedCur(h)) /\ NamedLook

\* What another handler, or a force stop, does to the record of an agent whose mail
\* this handler has in hand.
LEMMA RecordOfHand ==
  ASSUME Firm, Renewed = {}, Next, NEW h \in Handler, NEW m \in Hand(h), To[m] \notin tainted
  PROVE  \/ record'[To[m]] = record[To[m]]
         \/ /\ \E n \in cur[h] : To[n] = To[m]
            /\ \/ (Unrecord(h) \/ SpawnFails(h)) /\ record'[To[m]].unit = {}
               \/ (Claim(h) \/ Note(h)) /\ record'[To[m]].unit = cur[h]
<1>0. Tidy /\ To[m] \in Agent
  BY HeldIsLive DEF Firm
<1>1. ASSUME NEW g \in Handler, \E n \in cur[g] : To[n] = To[m]
      PROVE  g = h
  BY <1>1, Aside DEF Hand
<1>2. ~(Clear /\ looks = To[m])
  <2>1. SUFFICES ASSUME Clear, looks = To[m]
                 PROVE  FALSE
    OBVIOUS
  <2>2. kpc \in StopAfter /\ looks \in scope
    BY <2>1 DEF Clear, StopAfter, Firm, StopInv, Tidy, TypeOK
  <2> QED
    BY <2>1, <2>2, BesideStop
<1> QED
  BY <1>0, <1>1, <1>2, RecordMoves

LEMMA NamedSlotStep ==
  ASSUME Firm, NamedInv, Renewed = {}, Next, NEW h \in Handler
  PROVE  NamedSlot(h)'
<1>0. Tidy /\ tainted \subseteq tainted' /\ excused \subseteq excused' /\ LoopAt(h)
  BY TaintedGrows, ExcusedGrows, LoopParts DEF Firm, Tidy
<1>1. SUFFICES ASSUME NEW m \in slot'[h], To[m] \notin tainted'
               PROVE  \/ record'[To[m]].unit = slot'[h]
                      \/ /\ m \in excused'
                         /\ \/ record'[To[m]].unit = {}
                            \/ pc'[h] \in {"claimed", "spawned"} /\ record'[To[m]].unit = cur'[h]
  BY DEF NamedSlot
<1>2. CASE Note(h) /\ slot'[h] = cur[h]
  <2>1. AgentOf(cur[h]) = To[m] /\ To[m] \in Agent /\ cur[h] # {}
    BY <1>0, <1>1, <1>2, HandTaken, HeldIsLive DEF Hand
  <2>2. record \in [Agent -> [unit : Unit, born : BOOLEAN]]
    BY <1>0 DEF Tidy, TypeOK
  <2> QED
    BY <1>2, <2>1, <2>2 DEF Note
<1>3. CASE slot'[h] = slot[h] /\ m \in slot[h] /\ ~Note(h)
  <2>1. m \in Hand(h) /\ To[m] \notin tainted /\ slot[h] \cap cur[h] = {} /\ pc[h] \notin Clearing
    BY <1>0, <1>1, <1>3 DEF Hand, LoopAt
  <2>2. \/ record[To[m]].unit = slot[h]
        \/ /\ m \in excused
           /\ \/ record[To[m]].unit = {}
              \/ pc[h] \in {"claimed", "spawned"} /\ record[To[m]].unit = cur[h]
    BY <1>3, <2>1 DEF NamedInv, NamedSlot
  <2>3. ~Ending(h) /\ ~Unrecord(h)
    <3>1. Ending(h) => slot'[h] = {}
      BY <1>0, EndingDoes DEF Tidy, TypeOK
    <3>2. Unrecord(h) => pc[h] \in Clearing
      BY DEF Unrecord, At, Clearing
    <3> QED
      BY <1>1, <2>1, <3>1, <3>2
  <2>4. CASE Claim(h) /\ record'[To[m]] # record[To[m]]
    <3>1. record'[To[m]].unit = cur[h] /\ cur'[h] = cur[h] /\ pc'[h] = "claimed"
      BY <1>0, <2>1, <2>4, RecordOfHand DEF Claim, Go, loop, Unrecord, SpawnFails, Note, At, Tidy, TypeOK
    <3>2. pc[h] = "trashed" /\ AgentOf(cur[h]) = To[m]
      <4>1. \E n \in cur[h] : To[n] = To[m]
        BY <2>1, <2>4, RecordOfHand
      <4> QED
        BY <1>0, <2>4, <4>1, HandTaken DEF Claim, At
    <3>3. m \in excused'
      BY <1>0, <2>2, <2>4, <3>2, <1>3 DEF Claim
    <3> QED
      BY <3>1, <3>3
  <2>5. CASE SpawnFails(h) /\ record'[To[m]] # record[To[m]]
    <3>1. record'[To[m]].unit = {} /\ pc[h] = "claimed" /\ \E n \in cur[h] : To[n] = To[m]
      BY <2>1, <2>5, RecordOfHand DEF SpawnFails, At, Claim, Note
    <3>2. PICK n \in cur[h] : To[n] = To[m]
      BY <3>1
    <3>3. record[To[m]].unit = cur[h]
      BY <2>1, <3>1, <3>2 DEF NamedInv, NamedCur
    <3>4. m \in excused
      BY <1>3, <2>1, <2>2, <3>3
    <3> QED
      BY <1>0, <3>1, <3>4
  <2>6. CASE record'[To[m]] = record[To[m]]
    <3>1. CASE record[To[m]].unit = slot[h] \/ record[To[m]].unit = {}
      BY <1>0, <1>3, <2>2, <2>6, <3>1
    <3>2. CASE pc[h] \in {"claimed", "spawned"} /\ record[To[m]].unit = cur[h] /\ m \in excused
      <4>1. CASE pc'[h] \in {"claimed", "spawned"}
        <5>1. cur'[h] = cur[h] \/ Claim(h)
          BY <1>0, <4>1, PcAfter
        <5>2. ~Claim(h)
          BY <3>2 DEF Claim, At
        <5> QED
          BY <1>0, <2>6, <3>2, <4>1, <5>1, <5>2
      <4>2. CASE pc'[h] \notin {"claimed", "spawned"}
        <5>1. SpawnFails(h) \/ Spawn(h)
          BY <1>0, <1>3, <2>3, <3>2, <4>2, PcAfter
        <5>2. ~Spawn(h)
          BY <1>0, <4>2 DEF Spawn, Go, Tidy, TypeOK
        <5>3. cur[h] # {} /\ \A n \in cur[h] : To[n] = AgentOf(cur[h]) /\ AgentOf(cur[h]) \in Agent
          BY <1>0, <3>2, HandTaken DEF LoopAt, Starting
        <5>4. To[m] = AgentOf(cur[h])
          <6>1. PICK n \in cur[h] : n \in cur[h]
            BY <5>3
          <6>2. record[To[m]].unit \in Units /\ n \in record[To[m]].unit /\ To[m] \in Agent
            BY <1>0, <2>1, <3>2, <6>1, HeldIsLive, InSight
          <6>3. To[n] = To[m]
            BY <1>0, <6>2 DEF Tidy, PlaceInv
          <6> QED
            BY <5>3, <6>1, <6>3
        <5>5. record'[To[m]].unit = {}
          BY <1>0, <5>1, <5>2, <5>3, <5>4 DEF SpawnFails, Cleared, NoRecord, Tidy, TypeOK
        <5> QED
          BY <1>0, <3>2, <5>5
      <4> QED
        BY <4>1, <4>2
    <3> QED
      BY <2>2, <3>1, <3>2
  <2> QED
    BY <1>3, <2>1, <2>3, <2>4, <2>5, <2>6, RecordOfHand
<1>4. slot'[h] \in {slot[h], {}} \/ (Note(h) /\ slot'[h] = cur[h])
  BY <1>0, SlotAfter
<1>5. CASE Note(h) /\ slot'[h] # cur[h]
  BY <1>0, <1>5 DEF Note, Tidy, TypeOK
<1> QED
  BY <1>1, <1>2, <1>3, <1>4, <1>5

LEMMA NamedCurStep ==
  ASSUME Firm, NamedInv, Renewed = {}, Next, NEW h \in Handler
  PROVE  NamedCur(h)'
<1>0. /\ Tidy /\ tainted \subseteq tainted' /\ excused \subseteq excused' /\ LoopAt(h)
      /\ record \in [Agent -> [unit : Unit, born : BOOLEAN]]
      /\ pc \in [Handler -> LoopSteps \cup {"unborn", "gone"}]
  BY TaintedGrows, ExcusedGrows, LoopParts DEF Firm, Tidy, TypeOK
<1>1. ASSUME pc'[h] \in {"claimed", "spawned"}, NEW m \in cur'[h], To[m] \notin tainted'
      PROVE  record'[To[m]].unit = cur'[h]
  <2>1. CASE Claim(h)
    <3>1. cur'[h] = cur[h] /\ AgentOf(cur[h]) = To[m] /\ To[m] \in Agent
      BY <1>0, <1>1, <2>1, HandTaken DEF Claim, loop
    <3> QED
      BY <1>0, <2>1, <3>1 DEF Claim
  <2>2. CASE ~Claim(h)
    <3>1. pc[h] \in {"claimed", "spawned"} /\ cur'[h] = cur[h] /\ m \in Hand(h)
      BY <1>0, <1>1, <2>2, PcAfter DEF Hand
    <3>2. record[To[m]].unit = cur[h]
      BY <1>0, <1>1, <3>1 DEF NamedInv, NamedCur
    <3>3. ~Unrecord(h) /\ ~SpawnFails(h)
      BY <1>0, <1>1, <3>1 DEF Unrecord, SpawnFails, At, Go
    <3> QED
      BY <1>0, <1>1, <3>1, <3>2, <3>3, RecordOfHand
  <2> QED
    BY <2>1, <2>2
<1>2. ASSUME pc'[h] \in Clearing, NEW m \in cur'[h], To[m] \notin tainted'
      PROVE  record'[To[m]].unit \in {cur'[h], {}}
  <2>1. CASE Settle(h)
    <3>1. /\ cur'[h] = slot[h] /\ record' = record /\ pc[h] \in {"service", "fin"}
          /\ m \in slot[h]
      BY <1>0, <1>2, <2>1 DEF Settle, At, disk, Tidy, TypeOK
    <3> QED
      BY <1>0, <1>2, <3>1 DEF NamedInv, NamedSlot
  <2>2. CASE ~Settle(h)
    <3>1. pc[h] \in Clearing /\ cur'[h] = cur[h] /\ m \in Hand(h)
      BY <1>0, <1>2, <2>2, PcAfter DEF Hand
    <3>2. record[To[m]].unit \in {cur[h], {}}
      BY <1>0, <1>2, <3>1 DEF NamedInv, NamedCur
    <3> QED
      BY <1>0, <1>2, <3>1, <3>2, RecordOfHand
  <2> QED
    BY <2>1, <2>2
<1> QED
  BY <1>1, <1>2 DEF NamedCur

LEMMA NamedLookStep ==
  ASSUME Firm, NamedInv, Renewed = {}, Next
  PROVE  NamedLook'
<1>0. Tidy /\ StopInv /\ tainted \subseteq tainted'
  BY TaintedGrows DEF Firm
<1>1. SUFFICES ASSUME kpc' \in {"check", "clear"}, looks' \notin tainted'
               PROVE  unit' = record'[looks'].unit
  BY DEF NamedLook
<1>2. ASSUME NEW a \in Agent, Look(a)
      PROVE  unit' = record'[looks'].unit
  BY <1>2 DEF Look, disk
<1>3. CASE \A a \in Agent : ~Look(a)
  <2>1. /\ kpc \in {"check", "clear"} /\ looks' = looks /\ unit' = unit /\ ~Clear
    <3>1. CASE Stopping \/ KillHandler
      BY <1>1, <1>3, <3>1 DEF Stopping, Deaf, ForceStop, SecondTerm, Wait, Freeze, KillRecorded,
         KillChildren, KillHandler, Check, Clear, Mark, Finish, Then
    <3>2. CASE ~Stopping /\ ~KillHandler
      BY <1>0, <1>1, <3>2, StopOthers DEF Stopping
    <3> QED
      BY <3>1, <3>2
  <2>2. looks \in scope /\ looks \in Agent /\ kpc \in StopAfter /\ looks \notin tainted
    BY <1>0, <1>1, <2>1 DEF StopInv, StopAfter, Tidy, TypeOK
  <2>3. ASSUME NEW g \in Handler, NEW n \in cur[g], To[n] = looks
        PROVE  FALSE
    BY <2>2, <2>3, BesideStop DEF Hand
  <2>4. record'[looks] = record[looks]
    BY <1>0, <2>1, <2>2, <2>3, RecordMoves
  <2> QED
    BY <2>1, <2>2, <2>4 DEF NamedInv, NamedLook
<1> QED
  BY <1>2, <1>3

LEMMA NamedStep ==
  ASSUME Firm, NamedInv, Renewed = {}, [Next]_vars
  PROVE  NamedInv'
<1>1. CASE Next
  BY <1>1, NamedSlotStep, NamedCurStep, NamedLookStep DEF NamedInv
<1>2. CASE UNCHANGED vars
  BY <1>2 DEF vars, NamedInv, NamedSlot, NamedCur, NamedLook
<1> QED
  BY <1>1, <1>2

LEMMA NamedInit == Init => NamedInv
BY DEF Init, NamedInv, NamedSlot, NamedCur, NamedLook, Clearing

\* Mail leaves a handler's hands when it is settled, when the slot is taken from under
\* a wake that has exited, or with the handler.
LEMMA HandDrops ==
  ASSUME Tidy, Renewed = {}, Next, NEW h \in Handler, NEW m \in Hand(h), ~(Live(h)' /\ m \in Hand(h)')
  PROVE  \/ m \in acked \cup dead'
         \/ Note(h) /\ m \in slot[h]
         \/ Ending(h)
<1>0. /\ slot \in [Handler -> Unit] /\ cur \in [Handler -> Unit] /\ dead \subseteq dead'
      /\ pc \in [Handler -> LoopSteps \cup {"unborn", "gone"}] /\ LoopAt(h) /\ Live(h)
  BY DeadWhole, LoopParts, HeldIsLive DEF Tidy, TypeOK
<1>1. CASE Outside
  BY <1>0, <1>1, OutsideKeeps DEF Hand, Live
<1>2. ASSUME NEW g \in Handler, g # h, Working(g)
      PROVE  Live(h)' /\ m \in Hand(h)'
  <2>1. CASE Turning(g) \/ Take(g) \/ Ending(g)
    BY <1>0, <1>2, <2>1, TurningKeeps, TakeDoes, EndingDoes DEF Hand, Live
  <2>2. CASE \/ (\E a \in Agent : Yield(g, a)) \/ (\E S \in SUBSET Agent : Attach(g, S))
             \/ Settle(g) \/ Unrecord(g) \/ Failing(g)
    BY <1>0, <1>2, <2>2 DEF Yield, Attach, Settle, Unrecord, Failing, Abort, Unspawned, Fails, Go,
       Hand, Live, loop
  <2>3. CASE Claim(g) \/ Spawn(g) \/ SpawnFails(g) \/ Note(g)
    BY <1>0, <1>2, <2>3 DEF Claim, Spawn, SpawnFails, Note, Go, Hand, Live, loop
  <2> QED
    BY <1>2, <2>1, <2>2, <2>3 DEF Working
<1>3. CASE Turning(h)
  BY <1>0, <1>3, TurningKeeps DEF Hand, Live, Between, LoopSteps
<1>4. CASE Take(h)
  <2>1. cur[h] = {} /\ pc'[h] = "trashed" /\ slot' = slot
    BY <1>0, <1>4, TakeDoes DEF LoopAt, Starting, Clearing
  <2> QED
    BY <1>0, <2>1 DEF Hand, Live, LoopSteps
<1>5. CASE (\E a \in Agent : Yield(h, a)) \/ Claim(h) \/ Spawn(h) \/ SpawnFails(h)
  BY <1>0, <1>5 DEF Yield, Claim, Spawn, SpawnFails, Go, Hand, Live, LoopSteps, loop
<1>6. CASE \E S \in SUBSET Agent : Attach(h, S)
  BY <1>0, <1>6 DEF Attach, Live, LoopSteps
<1>7. CASE Settle(h)
  <2>1. cur[h] = {}
    BY <1>0, <1>7 DEF Settle, At, LoopAt, Starting, Clearing
  <2> QED
    BY <1>0, <1>7, <2>1 DEF Settle, Go, Hand, Live, LoopSteps
<1>8. CASE Unrecord(h)
  <2>1. cur[h] \subseteq acked \cup dead /\ slot[h] = {}
    BY <1>0, <1>8 DEF Unrecord, At, LoopAt, Clearing
  <2> QED
    BY <1>0, <2>1 DEF Hand
<1>9. CASE Failing(h)
  BY <1>0, <1>9 DEF Failing, Abort, Unspawned, Fails, Marked, Go, Hand, Live, LoopSteps
<1>10. CASE Note(h)
  BY <1>0, <1>10 DEF Note, Go, Hand, Live, LoopSteps
<1> QED
  BY <1>1, <1>2, <1>3, <1>4, <1>5, <1>6, <1>7, <1>8, <1>9, <1>10, NextSplit DEF Working, Tidy

LEMMA HeldStep ==
  ASSUME Firm, NamedInv, Renewed = {}, Next, NEW h \in Handler, NEW m \in Hand(h),
         m \notin acked' \cup dead', To[m] \notin tainted'
  PROVE  \/ Held(m)' \/ m \in record'[To[m]].unit \/ m \in excused'
<1>0. /\ Tidy /\ tainted \subseteq tainted' /\ excused \subseteq excused' /\ LoopAt(h)
      /\ To[m] \in Agent /\ acked \subseteq acked' /\ cur \in [Handler -> Unit]
      /\ record \in [Agent -> [unit : Unit, born : BOOLEAN]]
  BY TaintedGrows, ExcusedGrows, LoopParts, HeldIsLive, AckedAfter DEF Firm, Tidy, TypeOK
<1>1. CASE Note(h) /\ m \in slot[h]
  <2>1. pc[h] = "spawned" /\ cur[h] # {} /\ slot[h] \cap cur[h] = {}
    BY <1>0, <1>1 DEF Note, At, LoopAt, Starting
  <2>2. record[To[m]].unit = slot[h] \/ m \in excused
    BY <1>0, <1>1 DEF NamedInv, NamedSlot
  <2>3. \A n \in cur[h] : To[n] # To[m] \/ record[To[m]].unit = cur[h]
    BY <1>0, <2>1 DEF NamedInv, NamedCur
  <2>4. CASE record[To[m]].unit = slot[h]
    <3>1. \A n \in cur[h] : To[n] # To[m]
      BY <2>1, <2>3, <2>4, <1>1
    <3>2. AgentOf(cur[h]) # To[m]
      BY <1>0, <2>1, <3>1, HandTaken
    <3>3. record'[To[m]] = record[To[m]]
      BY <1>0, <1>1, <3>2 DEF Note
    <3> QED
      BY <1>1, <2>4, <3>3
  <2> QED
    BY <1>0, <2>2, <2>4
<1>2. CASE Ending(h)
  <2>1. record' = record /\ (pc[h] \in Windows => cur[h] \subseteq excused')
    BY <1>0, <1>2, EndingDoes DEF Hand
  <2>2. CASE m \in slot[h]
    <3>1. record[To[m]].unit = slot[h] \/ m \in excused
      BY <1>0, <2>2 DEF NamedInv, NamedSlot
    <3> QED
      BY <1>0, <2>1, <2>2, <3>1
  <2>3. CASE m \in cur[h]
    <3>1. pc[h] \in Starting \cup Clearing
      BY <1>0, <2>3 DEF LoopAt
    <3>2. CASE pc[h] \in {"claimed", "spawned"}
      <4>1. record[To[m]].unit = cur[h]
        BY <1>0, <2>3, <3>2 DEF NamedInv, NamedCur
      <4> QED
        BY <2>1, <2>3, <4>1
    <3>3. CASE pc[h] \in Windows
      BY <2>1, <2>3, <3>3
    <3> QED
      BY <3>1, <3>2, <3>3 DEF Starting, Clearing, Windows
  <2> QED
    BY <2>2, <2>3 DEF Hand
<1> QED
  BY <1>0, <1>1, <1>2, HandDrops DEF Held

\* No taken mail gets out of sight.
LEMMA SettledStep ==
  ASSUME Firm, NamedInv, Settled, Renewed = {}, [Next]_vars
  PROVE  Settled'
<1>1. SUFFICES ASSUME Next
               PROVE  Settled'
  <2>1. CASE UNCHANGED vars
    BY <2>1 DEF vars, Settled, Held, Live, Hand
  <2> QED
    BY <1>1, <2>1
<1>0. /\ Tidy /\ tainted \subseteq tainted' /\ excused \subseteq excused' /\ acked \subseteq acked'
      /\ dead \subseteq dead' /\ record \in [Agent -> [unit : Unit, born : BOOLEAN]]
      /\ cur \in [Handler -> Unit] /\ pc \in [Handler -> LoopSteps \cup {"unborn", "gone"}]
  BY <1>1, TaintedGrows, ExcusedGrows, AckedAfter, DeadWhole DEF Firm, Tidy, TypeOK
<1>2. SUFFICES ASSUME NEW m \in trash' \ (acked' \cup dead'), To[m] \notin tainted', m \notin excused'
               PROVE  Held(m)' \/ m \in record'[To[m]].unit \/ m \in unit'
  BY DEF Settled
<1>3. CASE m \notin trash
  <2>1. PICK h \in Handler : Take(h) /\ m \in cur'[h]
    BY <1>0, <1>1, <1>2, <1>3, TrashGrows
  <2>2. pc'[h] = "trashed"
    BY <1>0, <2>1, TakeDoes
  <2> QED
    BY <2>1, <2>2 DEF Held, Live, LoopSteps, Hand
<1>4. CASE m \in trash
  <2>0. m \in trash \ (acked \cup dead) /\ To[m] \notin tainted /\ m \notin excused /\ To[m] \in Agent
    BY <1>0, <1>2, <1>4, WakeAssumption DEF Tidy, TypeOK
  <2>1. CASE Held(m)
    BY <1>0, <1>1, <1>2, <2>1, HeldStep DEF Held
  <2>2. CASE m \in unit
    <3>1. To[m] = looks /\ kpc \in {"check", "clear", "mark"} /\ looks \in scope
      BY <1>0, <2>2 DEF Tidy, TypeOK, PlaceInv, Firm, StopInv
    <3>2. owner[looks] = None
      BY <2>0, <3>1, FreeOfStop DEF StopAfter
    <3>3. Mark => dead' = dead \cup unit
      BY <2>2, <3>2 DEF Mark, Marked
    <3>4. \A a \in Agent : ~Look(a)
      BY <3>1 DEF Look
    <3> QED
      BY <1>0, <1>1, <1>2, <2>2, <3>3, <3>4, UnitAfter
  <2>3. CASE m \in record[To[m]].unit
    <3>1. CASE record'[To[m]] = record[To[m]]
      BY <2>3, <3>1
    <3>2. CASE Clear /\ looks = To[m]
      <4>1. unit = record[looks].unit /\ unit' = unit
        BY <2>0, <3>2 DEF NamedInv, NamedLook, Clear
      <4> QED
        BY <2>3, <3>2, <4>1
    <3>3. ASSUME NEW g \in Handler, NEW n \in cur[g], To[n] = To[m], Live(g), Claim(g)
          PROVE  FALSE
      <4>1. excused' = excused \cup record[To[m]].unit
        BY <1>0, <3>3, HandTaken DEF Claim
      <4> QED
        BY <1>2, <2>3, <4>1
    <3>4. ASSUME NEW g \in Handler, NEW n \in cur[g], To[n] = To[m], Live(g), Note(g)
          PROVE  m \in record'[To[m]].unit
      <4>1. pc[g] = "spawned" /\ record[To[m]].unit = cur[g]
        BY <2>0, <3>4 DEF Note, At, NamedInv, NamedCur
      <4>2. record'[To[m]].unit = cur[g]
        BY <1>0, <2>0, <3>4, HandTaken DEF Note
      <4> QED
        BY <2>3, <4>1, <4>2
    <3>5. ASSUME NEW g \in Handler, NEW n \in cur[g], To[n] = To[m], Unrecord(g)
          PROVE  FALSE
      <4>1. pc[g] \in Clearing /\ LoopAt(g)
        BY <1>0, <3>5, LoopParts DEF Unrecord, At, Clearing, Tidy
      <4>2. record[To[m]].unit \in {cur[g], {}}
        BY <2>0, <3>5, <4>1 DEF NamedInv, NamedCur
      <4> QED
        BY <2>0, <2>3, <4>1, <4>2 DEF LoopAt
    <3>6. ASSUME NEW g \in Handler, NEW n \in cur[g], To[n] = To[m], SpawnFails(g)
          PROVE  Held(m)'
      <4>1. pc[g] = "claimed" /\ cur' = cur /\ pc'[g] = "unspawned"
        BY <1>0, <3>6 DEF SpawnFails, At, Go, loop
      <4>2. record[To[m]].unit = cur[g]
        BY <2>0, <3>6, <4>1 DEF NamedInv, NamedCur
      <4>3. m \in cur'[g]
        BY <2>3, <4>1, <4>2
      <4> QED
        BY <4>1, <4>3 DEF Held, Live, LoopSteps, Hand
    <3> QED
      BY <1>0, <1>1, <2>0, <3>1, <3>2, <3>3, <3>4, <3>5, <3>6, RecordMoves
  <2> QED
    BY <2>0, <2>1, <2>2, <2>3 DEF Settled
<1> QED
  BY <1>3, <1>4

\* The mail of a wake that is not settled yet is in somebody's hands or named by the
\* record, whatever dies and whatever a force stop interrupts, but for the windows of
\* `excused` and the agents a handler attached to beside an unsettled wake or stop.
THEOREM MailStaysInSight ==
  ASSUME Renewed = {}
  PROVE  Spec => []Settled
<1>1. Init => Firm /\ NamedInv /\ Settled
  BY FirmInit, NamedInit DEF Init, Settled
<1>2. Firm /\ NamedInv /\ Settled /\ [Next]_vars => (Firm /\ NamedInv /\ Settled)'
  BY FirmStep, NamedStep, SettledStep
<1> QED
  BY <1>1, <1>2, PTL DEF Spec

(***************************************************************************)
(* One verdict for a message.                                              *)
(***************************************************************************)
\* A failure record is taken by a handler of the agent with no unit in hand but the one
\* in its slot, or at the end of a force stop.
LEMMA TakenBy ==
  ASSUME Tidy, Renewed = {}, Next, NEW u \in outcomes, u \notin outcomes'
  PROVE  /\ u \subseteq dead' /\ (u \subseteq dead \/ last'[AgentOf(u)] = "failed")
         /\ \/ \E g \in Handler : /\ AgentOf(u) \in names[g] /\ cur[g] = {}
                                  /\ MayTake(g, AgentOf(u))
            \/ kpc = "end" /\ AgentOf(u) \in scope
<1>0. names \in [Handler -> SUBSET Agent] /\ scope \in SUBSET Agent /\ \A g \in Handler : LoopAt(g)
  BY LoopParts DEF Tidy, TypeOK
<1>1. ASSUME NEW S \in SUBSET Agent, NEW me \in Handler \cup {None}, Consumed(S, me)
      PROVE  /\ u \subseteq dead' /\ AgentOf(u) \in S /\ MayTake(me, AgentOf(u))
             /\ u \subseteq dead \/ last'[AgentOf(u)] = "failed"
  BY <1>1, ConsumedMail
<1>2. ASSUME NEW g \in Handler, NEW a \in Agent, Yield(g, a)
      PROVE  Consumed({a}, g) /\ a \in names[g] /\ cur[g] = {}
  BY <1>0, <1>2 DEF Yield, At, LoopAt, Starting, Clearing
<1>3. ASSUME NEW g \in Handler, Consume(g) \/ Release(g)
      PROVE  Consumed(names[g], g) /\ names[g] \in SUBSET Agent /\ cur[g] = {}
  BY <1>0, <1>3 DEF Consume, Release, At, LoopAt, Starting, Clearing
<1>4. CASE Finish
  <2>1. Consumed(scope, None) /\ kpc = "end"
    BY <1>4 DEF Finish
  <2> QED
    BY <1>0, <1>1, <2>1
<1>5. ASSUME NEW h \in Handler,
             \/ \E S \in SUBSET Agent : Attach(h, S)
             \/ Settle(h) \/ Failing(h) \/ Take(h)
             \/ Unrecord(h) \/ SpawnFails(h) \/ Spawn(h) \/ Claim(h) \/ Note(h)
      PROVE  outcomes' = outcomes
  BY <1>5, TakeDoes DEF Attach, Settle, Failing, Abort, Unspawned, Fails, Unrecord, SpawnFails,
     Spawn, Claim, Note, procs
<1>6. ASSUME NEW h \in Handler, Turning(h), ~Consume(h)
      PROVE  outcomes' = outcomes
  BY <1>6 DEF Turning, Begin, Service, Proxies, PassEnds, NextAgent, procs
<1>7. ASSUME NEW h \in Handler, Ending(h), ~Release(h)
      PROVE  outcomes' = outcomes
  BY <1>7 DEF Ending, Die, KillHandler
<1>8. ASSUME Outside, ~Finish
      PROVE  outcomes \subseteq outcomes'
  BY <1>8, ArriveKeeps DEF Outside, Stopping, Exit, TimesUp, Signal, Ask, SessionEnds,
       ForceStop, Look, SecondTerm, Wait, Freeze, KillRecorded, KillChildren, Deaf, KillHandler,
       Check, Clear, Mark, procs
<1>9. \/ \E g \in Handler, a \in Agent : Yield(g, a)
      \/ \E g \in Handler : Consume(g) \/ Release(g)
      \/ Finish
  BY <1>5, <1>6, <1>7, <1>8, NextSplit DEF Working, Tidy
<1>10. ASSUME NEW g \in Handler, NEW a \in Agent, Yield(g, a)
       PROVE  /\ u \subseteq dead' /\ (u \subseteq dead \/ last'[AgentOf(u)] = "failed")
              /\ AgentOf(u) \in names[g] /\ cur[g] = {} /\ MayTake(g, AgentOf(u))
  BY <1>1, <1>2, <1>10
<1>11. ASSUME NEW g \in Handler, Consume(g) \/ Release(g)
       PROVE  /\ u \subseteq dead' /\ (u \subseteq dead \/ last'[AgentOf(u)] = "failed")
              /\ AgentOf(u) \in names[g] /\ cur[g] = {} /\ MayTake(g, AgentOf(u))
  BY <1>1, <1>3, <1>11
<1> QED
  BY <1>4, <1>9, <1>10, <1>11

\* While a handler has a unit in hand, its failure record stays.
LEMMA RecordKept ==
  ASSUME Firm, Renewed = {}, Next, NEW h \in Handler, NEW u \in {slot[h], cur[h]},
         u \in outcomes \ outcomes'
  PROVE  AgentOf(u) \in tainted
<1>0. Tidy /\ u # {} /\ u \in Units
  BY InSight DEF Firm, Tidy, PlaceInv
<1>1. PICK m \in u : TRUE
  BY <1>0
<1>2. m \in Hand(h) /\ AgentOf(u) = To[m] /\ To[m] \in Agent
  BY <1>0, <1>1, UnitAgent DEF Hand
<1>3. SUFFICES ASSUME To[m] \notin tainted
               PROVE  FALSE
  BY <1>2
<1>4. CASE kpc = "end" /\ To[m] \in scope
  BY <1>2, <1>3, <1>4, BesideStop DEF StopAfter
<1>5. ASSUME NEW g \in Handler, To[m] \in names[g], cur[g] = {}, MayTake(g, To[m])
      PROVE  FALSE
  <2>1. owner[To[m]] = g
    BY <1>0, <1>2, <1>5 DEF Tidy, LoopInv
  <2>2. g = h
    BY <1>2, <1>3, <2>1, WakeAssumption DEF Firm, HolderInv
  <2>3. u = slot[h] /\ slot[h] # {} /\ h # None
    BY <1>0, <1>5, <2>2, WakeAssumption
  <2> QED
    BY <1>2, <1>5, <2>2, <2>3 DEF MayTake
<1> QED
  BY <1>0, <1>2, <1>4, <1>5, TakenBy

\* Why mail becomes dead, and what last-wake says of it then.
LEMMA NewDead ==
  ASSUME Tidy, Renewed = {}, Next, NEW m \in dead' \ dead
  PROVE  \/ \E h \in Handler : Settle(h) /\ m \in slot[h] /\ acked' = acked
                               /\ last'[AgentOf(slot[h])] = "failed"
         \/ \E h \in Handler : Failing(h) /\ pc[h] \in Starting /\ m \in cur[h]
                               /\ last'[AgentOf(cur[h])] = "failed"
         \/ Mark /\ owner[looks] = None /\ m \in unit /\ last'[looks] = "failed"
         \/ \E u \in outcomes \ outcomes' : m \in u
<1>0. last \in [Agent -> {"none", "ok", "failed"}]
  BY DEF Tidy, TypeOK
<1>1. ASSUME NEW h \in Handler, Settle(h), dead' = dead \cup slot[h]
      PROVE  m \in slot[h] /\ last'[AgentOf(slot[h])] = "failed"
  <2>1. AgentOf(slot[h]) \in Agent
    BY <1>1, HandTaken
  <2> QED
    BY <1>0, <1>1, <2>1 DEF Settle
<1>2. ASSUME NEW h \in Handler, Failing(h), pc[h] \in Starting
      PROVE  last'[AgentOf(cur[h])] = "failed"
  <2>1. AgentOf(cur[h]) \in Agent
    BY <1>2, StartingHas
  <2> QED
    BY <1>0, <1>2, <2>1 DEF Failing, Abort, Unspawned, Fails
<1>3. ASSUME Mark, m \in unit
      PROVE  last'[looks] = "failed"
  <2>1. unit \in Units /\ looks \in Agent
    <3>1. To[m] = looks /\ m \in Msg
      BY <1>3 DEF Tidy, PlaceInv, TypeOK, Unit
    <3> QED
      BY <3>1, InSight, WakeAssumption
  <2> QED
    BY <1>0, <1>3, <2>1 DEF Mark
<1>4. ASSUME NEW S \in SUBSET Agent, NEW me \in Handler \cup {None}, Consumed(S, me)
      PROVE  \E u \in outcomes \ outcomes' : m \in u
  BY <1>4, ConsumedMail
<1> QED
  BY <1>1, <1>2, <1>3, <1>4, DeadAfter

\* The mail in hand has no verdict yet; what the record of an agent names, and what a
\* force stop has read there, was not acked, but for the moment between the ack and
\* the removal of the record.
Unjudged == \A h \in Handler : pc[h] \notin Clearing => \A m \in Hand(h) :
              To[m] \in tainted \/ m \notin dead
RecordUnacked ==
  \A a \in Agent \ tainted : \A m \in record[a].unit \cap acked :
    m \in excused \/ \E h \in Handler : pc[h] \in Clearing /\ m \in cur[h]
LookUnacked == \A m \in unit \cap acked : looks \in tainted \/ m \in excused
VerdictInv == Unjudged /\ RecordUnacked /\ LookUnacked

LEMMA UnjudgedStep ==
  ASSUME Firm, VerdictInv, Renewed = {}, Next
  PROVE  Unjudged'
<1>0. Tidy /\ tainted \subseteq tainted' /\ Apart /\ \A h \in Handler : LoopAt(h)
  BY TaintedGrows, LoopParts DEF Firm, Tidy
<1>1. SUFFICES ASSUME NEW h \in Handler, pc'[h] \notin Clearing, NEW m \in Hand(h)',
                      To[m] \notin tainted', m \in dead'
               PROVE  FALSE
  BY DEF Unjudged
<1>2. CASE m \notin Hand(h)
  <2>1. Take(h) /\ m \in cur'[h]
    BY <1>0, <1>1, <1>2, HandAfter
  <2>2. m \notin trash /\ dead' = dead
    BY <1>0, <2>1, TakeDoes
  <2> QED
    BY <1>0, <1>1, <2>2 DEF Tidy, TypeOK
<1>3. CASE m \in Hand(h)
  <2>1. pc[h] \notin Clearing /\ To[m] \notin tainted
    BY <1>0, <1>1, PcAfter
  <2>2. m \notin dead
    BY <1>3, <2>1 DEF VerdictInv, Unjudged
  <2>3. ASSUME NEW g \in Handler, Settle(g), m \in slot[g]
        PROVE  FALSE
    <3>1. g = h
      BY <1>0, <1>3, <2>3 DEF Apart, Hand
    <3>2. pc'[h] \in Clearing
      BY <1>0, <2>3, <3>1 DEF Settle, At, Go, Clearing, Tidy, TypeOK
    <3> QED
      BY <1>1, <3>2
  <2>4. ASSUME NEW g \in Handler, Failing(g), m \in cur[g]
        PROVE  FALSE
    <3>1. g = h
      BY <1>0, <1>3, <2>4 DEF Apart, Hand
    <3>2. slot' = slot /\ cur'[h] = {}
      BY <1>0, <2>4, <3>1 DEF Failing, Abort, Unspawned, Fails, Tidy, TypeOK
    <3> QED
      BY <1>0, <1>1, <2>4, <3>1, <3>2 DEF Hand, LoopAt
  <2>5. ASSUME Mark, m \in unit
        PROVE  FALSE
    <3>1. To[m] = looks /\ looks \in scope /\ kpc = "mark"
      BY <1>0, <2>5 DEF Tidy, TypeOK, PlaceInv, Firm, StopInv, Mark
    <3> QED
      BY <1>3, <2>1, <3>1, BesideStop DEF StopAfter
  <2>6. ASSUME NEW u \in outcomes \ outcomes', m \in u
        PROVE  FALSE
    <3>1. u \in Units /\ slot[h] \in Units /\ cur[h] \in Units
      BY <1>0, InSight DEF Tidy, PlaceInv
    <3>2. u \in {slot[h], cur[h]}
      BY <1>0, <1>3, <2>6, <3>1 DEF Tidy, UnitInv, Hand
    <3>3. AgentOf(u) = To[m]
      BY <1>0, <2>6, <3>1, UnitAgent
    <3> QED
      BY <2>1, <2>6, <3>2, <3>3, RecordKept
  <2> QED
    BY <1>0, <1>1, <2>2, <2>3, <2>4, <2>5, <2>6, NewDead
<1> QED
  BY <1>2, <1>3

LEMMA RecordUnackedStep ==
  ASSUME Firm, VerdictInv, Renewed = {}, Next
  PROVE  RecordUnacked'
<1>0. /\ Tidy /\ tainted \subseteq tainted' /\ excused \subseteq excused'
      /\ \A h \in Handler : LoopAt(h)
      /\ cur \in [Handler -> Unit] /\ pc \in [Handler -> LoopSteps \cup {"unborn", "gone"}]
  BY TaintedGrows, ExcusedGrows, LoopParts DEF Firm, Tidy, TypeOK
<1>1. SUFFICES ASSUME NEW a \in Agent \ tainted', NEW m \in record'[a].unit \cap acked',
                      m \notin excused'
               PROVE  \E h \in Handler : pc'[h] \in Clearing /\ m \in cur'[h]
  BY DEF RecordUnacked
<1>2. ASSUME NEW h \in Handler, Settle(h), m \in slot[h]
      PROVE  pc'[h] \in Clearing /\ m \in cur'[h]
  BY <1>0, <1>2 DEF Settle, At, Go, Clearing
<1>3. CASE m \in acked /\ record'[a] = record[a]
  <2>1. PICK h \in Handler : pc[h] \in Clearing /\ m \in cur[h]
    BY <1>0, <1>1, <1>3 DEF VerdictInv, RecordUnacked
  <2>2. CASE pc'[h] \in Clearing
    <3>1. ~Settle(h)
      BY <2>1 DEF Settle, At, Clearing
    <3> QED
      BY <1>0, <2>1, <2>2, <3>1, PcAfter
  <2>3. CASE Ending(h)
    <3>1. pc[h] \in Windows /\ Hand(h) # {}
      BY <2>1 DEF Clearing, Windows, Hand
    <3> QED
      BY <1>0, <1>1, <2>1, <2>3, <3>1, EndingDoes
  <2>4. CASE Unrecord(h)
    <3>1. To[m] = a /\ AgentOf(cur[h]) = a
      <4>1. To[m] = a
        BY <1>0, <1>1, <1>3 DEF Tidy, PlaceInv
      <4> QED
        BY <1>0, <2>1, <4>1, HandTaken
    <3>2. record'[a].unit = {}
      BY <1>0, <1>1, <2>4, <3>1 DEF Unrecord, Cleared, NoRecord, Tidy, TypeOK
    <3> QED
      BY <1>1, <3>2
  <2> QED
    BY <1>0, <2>1, <2>2, <2>3, <2>4, PcAfter
<1>4. CASE record'[a] # record[a]
  <2>1. PICK g \in Handler : (Claim(g) \/ Note(g)) /\ record'[a].unit = cur[g]
    BY <1>0, <1>1, <1>4, RecordMoves
  <2>2. acked' = acked /\ pc[g] \notin Clearing
    BY <2>1 DEF Claim, Note, At, Clearing, mail
  <2> QED
    BY <1>0, <1>1, <2>1, <2>2 DEF LoopAt, Hand
<1> QED
  BY <1>0, <1>1, <1>2, <1>3, <1>4, AckedAfter

LEMMA LookUnackedStep ==
  ASSUME Firm, VerdictInv, Renewed = {}, Next
  PROVE  LookUnacked'
<1>0. /\ Tidy /\ tainted \subseteq tainted' /\ excused \subseteq excused' /\ StopInv
      /\ left \subseteq scope
  BY TaintedGrows, ExcusedGrows DEF Firm, Tidy, TypeOK
<1>1. SUFFICES ASSUME NEW m \in unit' \cap acked', looks' \notin tainted', m \notin excused'
               PROVE  FALSE
  BY DEF LookUnacked
<1>2. ASSUME NEW a \in Agent, Look(a)
      PROVE  FALSE
  <2>1. /\ kpc = "settle" /\ a \in scope /\ looks' = a /\ unit' = record[a].unit
        /\ acked' = acked
    BY <1>0, <1>2 DEF Look, mail
  <2>2. PICK h \in Handler : m \in cur[h]
    BY <1>0, <1>1, <2>1 DEF VerdictInv, RecordUnacked
  <2>3. To[m] = a
    BY <1>0, <1>1, <2>1 DEF Tidy, PlaceInv
  <2> QED
    BY <1>0, <1>1, <2>1, <2>2, <2>3, BesideStop DEF StopAfter, Hand
<1>3. CASE unit' = unit
  <2>1. kpc \in {"check", "clear", "mark"} /\ To[m] = looks /\ looks \in scope
    BY <1>0, <1>1, <1>3 DEF StopInv, Tidy, TypeOK, PlaceInv
  <2>2. looks' = looks
    <3>1. ~Mark
      BY <1>1 DEF Mark
    <3> QED
      BY <1>0, <2>1, <3>1, StopOthers DEF Stopping, Deaf, ForceStop, Look, SecondTerm, Wait, Freeze,
         KillRecorded, KillChildren, KillHandler, Check, Clear, Finish
  <2>3. m \notin acked
    BY <1>0, <1>1, <1>3, <2>2 DEF VerdictInv, LookUnacked
  <2>4. PICK h \in Handler : Settle(h) /\ m \in slot[h]
    BY <1>0, <1>1, <2>3, AckedAfter
  <2> QED
    BY <1>0, <1>1, <2>1, <2>2, <2>4, BesideStop DEF StopAfter, Hand
<1> QED
  BY <1>0, <1>1, <1>2, <1>3, UnitAfter

LEMMA VerdictStep ==
  ASSUME Firm, VerdictInv, Renewed = {}, [Next]_vars
  PROVE  VerdictInv'
<1>1. CASE Next
  BY <1>1, UnjudgedStep, RecordUnackedStep, LookUnackedStep DEF VerdictInv
<1>2. CASE UNCHANGED vars
  BY <1>2 DEF vars, VerdictInv, Unjudged, RecordUnacked, LookUnacked, Hand
<1> QED
  BY <1>1, <1>2

LEMMA OneVerdictStep ==
  ASSUME Firm, VerdictInv, OneVerdict, Renewed = {}, [Next]_vars
  PROVE  OneVerdict'
<1>1. SUFFICES ASSUME Next
               PROVE  OneVerdict'
  <2>1. CASE UNCHANGED vars
    BY <2>1 DEF vars, OneVerdict
  <2> QED
    BY <1>1, <2>1
<1>0. /\ Tidy /\ tainted \subseteq tainted' /\ excused \subseteq excused' /\ reported \subseteq reported'
      /\ acked \subseteq acked' /\ dead \subseteq dead' /\ outcomes \subseteq reported
      /\ \A h \in Handler : LoopAt(h)
  BY <1>1, TaintedGrows, ExcusedGrows, ReportedAfter, AckedAfter, DeadWhole, LoopParts
     DEF Firm, Tidy, PlaceInv
<1>2. SUFFICES ASSUME NEW m \in acked' \cap dead', m \notin excused', To[m] \notin tainted'
               PROVE  \E u \in reported' : m \in u
  BY DEF OneVerdict
<1>3. CASE m \in acked /\ m \in dead
  BY <1>0, <1>2, <1>3 DEF OneVerdict
<1>4. CASE m \notin acked
  <2>1. PICK h \in Handler : Settle(h) /\ m \in slot[h] /\ dead' = dead
    BY <1>0, <1>1, <1>2, <1>4, AckedAfter
  <2>2. pc[h] \notin Clearing
    BY <2>1 DEF Settle, At, Clearing
  <2> QED
    BY <1>0, <1>2, <2>1, <2>2 DEF VerdictInv, Unjudged, Hand
<1>5. CASE m \in acked /\ m \notin dead
  <2>1. ASSUME NEW h \in Handler, Settle(h), m \in slot[h]
        PROVE  FALSE
    <3>1. pc[h] \notin Clearing
      BY <2>1 DEF Settle, At, Clearing
    <3> QED
      BY <1>0, <1>5, <2>1, <3>1 DEF LoopAt, Hand
  <2>2. ASSUME NEW h \in Handler, pc[h] \in Starting, m \in cur[h]
        PROVE  FALSE
    BY <1>0, <1>5, <2>2 DEF LoopAt, Hand, Starting, Clearing
  <2>3. ASSUME Mark, m \in unit
        PROVE  FALSE
    <3>1. To[m] = looks
      BY <1>0, <2>3 DEF Tidy, PlaceInv
    <3> QED
      BY <1>0, <1>2, <1>5, <2>3, <3>1 DEF VerdictInv, LookUnacked
  <2> QED
    BY <1>0, <1>1, <1>2, <1>5, <2>1, <2>2, <2>3, NewDead
<1> QED
  BY <1>3, <1>4, <1>5

\* No message is acked and a dead letter too, unless its session reported a failure
\* later: an exit 0 is the last word on the mail of a wake, with the same exceptions.
THEOREM VerdictIsOne ==
  ASSUME Renewed = {}
  PROVE  Spec => []OneVerdict
<1>1. Init => Firm /\ VerdictInv /\ OneVerdict
  BY FirmInit DEF Init, VerdictInv, Unjudged, RecordUnacked, LookUnacked, OneVerdict, Hand
<1>2. Firm /\ VerdictInv /\ OneVerdict /\ [Next]_vars => (Firm /\ VerdictInv /\ OneVerdict)'
  BY FirmStep, VerdictStep, OneVerdictStep
<1> QED
  BY <1>1, <1>2, PTL DEF Spec

(***************************************************************************)
(* The outcome that last-wake shows.                                       *)
(***************************************************************************)
\* The slot holds the newest wake of its agent.
NewestInSlot ==
  \A h \in Handler : \A m \in slot[h] : To[m] \in tainted \/ newest[To[m]] = slot[h]
\* The failure record of a unit in hand has not been taken.
NotedInHand ==
  \A h \in Handler : pc[h] \notin Clearing =>
    \A u \in {slot[h], cur[h]} \cap reported : u \in outcomes \/ AgentOf(u) \in tainted
\* A wake whose mail is dead, or whose session's failure was taken notice of, is out of
\* the slot and its failure is shown.
Failed(a) == newest[a] \subseteq dead \/ newest[a] \in reported \ outcomes
Shown ==
  \A a \in Agent \ tainted : newest[a] # {} /\ Failed(a) =>
    last[a] = "failed" /\ \A h \in Handler : slot[h] # newest[a]
LastInv == NewestInSlot /\ NotedInHand /\ Shown

LEMMA LastAfter ==
  ASSUME Tidy, Renewed = {}, Next, NEW a \in Agent
  PROVE  \/ last'[a] \in {last[a], "failed"}
         \/ \E h \in Handler : Settle(h) /\ slot[h] # {} /\ AgentOf(slot[h]) = a
<1>0. /\ last \in [Agent -> {"none", "ok", "failed"}]
      /\ names \in [Handler -> SUBSET Agent] /\ scope \in SUBSET Agent
  BY DEF Tidy, TypeOK
<1>1. ASSUME NEW S \in SUBSET Agent, NEW me \in Handler \cup {None}, Consumed(S, me)
      PROVE  last'[a] \in {last[a], "failed"}
  BY <1>1, ConsumedMail
<1>2. ASSUME NEW h \in Handler, Settle(h)
      PROVE  last'[a] = last[a] \/ (slot[h] # {} /\ AgentOf(slot[h]) = a)
  BY <1>0, <1>2 DEF Settle
<1>3. ASSUME NEW h \in Handler, Failing(h)
      PROVE  last'[a] \in {last[a], "failed"}
  BY <1>0, <1>3 DEF Failing, Abort, Unspawned, Fails
<1>4. ASSUME NEW h \in Handler, NEW b \in Agent, Yield(h, b)
      PROVE  last' = last \/ Consumed({b}, h)
  BY <1>4 DEF Yield
<1>5. ASSUME NEW h \in Handler, Turning(h) \/ Ending(h)
      PROVE  last' = last \/ Consumed(names[h], h)
  BY <1>5 DEF Turning, Begin, Service, Consume, Proxies, PassEnds, NextAgent, Ending, Release,
     Die, KillHandler, mail
<1>6. ASSUME NEW h \in Handler,
             \/ \E S \in SUBSET Agent : Attach(h, S)
             \/ Unrecord(h) \/ SpawnFails(h) \/ Spawn(h) \/ Claim(h) \/ Note(h) \/ Take(h)
      PROVE  last' = last
  BY <1>6, TakeDoes DEF Attach, Unrecord, SpawnFails, Spawn, Claim, Note, mail
<1>7. ASSUME Outside
      PROVE  last'[a] \in {last[a], "failed"} \/ Consumed(scope, None)
  <2>1. CASE Mark \/ Finish
    BY <1>0, <2>1 DEF Mark, Finish
  <2>2. CASE ~(Mark \/ Finish)
    BY <1>7, <2>2, ArriveKeeps DEF Outside, Stopping, Exit, SessionEnds, TimesUp, Signal, Ask,
       ForceStop, Look, SecondTerm, Wait, Freeze, KillRecorded, KillChildren, Deaf, KillHandler,
       Check, Clear, mail
  <2> QED
    BY <2>1, <2>2
<1>8. ASSUME NEW h \in Handler, Working(h)
      PROVE  \/ last'[a] \in {last[a], "failed"}
             \/ Settle(h) /\ slot[h] # {} /\ AgentOf(slot[h]) = a
  <2>1. CASE Turning(h) \/ Ending(h)
    BY <1>0, <1>1, <1>5, <2>1
  <2>2. ASSUME NEW b \in Agent, Yield(h, b)
        PROVE  last'[a] \in {last[a], "failed"}
    BY <1>1, <1>4, <2>2
  <2> QED
    BY <1>2, <1>3, <1>6, <1>8, <2>1, <2>2 DEF Working
<1> QED
  BY <1>0, <1>1, <1>7, <1>8, NextSplit DEF Tidy

LEMMA NewestStep ==
  ASSUME Firm, NewestInSlot, Renewed = {}, Next
  PROVE  NewestInSlot'
<1>0. Tidy /\ tainted \subseteq tainted' /\ \A h \in Handler : LoopAt(h)
  BY TaintedGrows, LoopParts DEF Firm, Tidy
<1>1. SUFFICES ASSUME NEW h \in Handler, NEW m \in slot'[h], To[m] \notin tainted'
               PROVE  newest'[To[m]] = slot'[h]
  BY DEF NewestInSlot
<1>2. CASE Note(h)
  <2>1. slot'[h] = cur[h] /\ newest' = [newest EXCEPT ![AgentOf(cur[h])] = cur[h]]
    BY <1>0, <1>2 DEF Note, Tidy, TypeOK
  <2>2. AgentOf(cur[h]) = To[m] /\ To[m] \in Agent
    BY <1>0, <1>1, <2>1, HandTaken
  <2> QED
    BY <1>0, <2>1, <2>2 DEF Tidy, TypeOK
<1>3. CASE ~Note(h)
  <2>1. slot'[h] = slot[h]
    BY <1>0, <1>1, <1>3, SlotAfter
  <2>2. newest[To[m]] = slot[h] /\ m \in Hand(h) /\ To[m] \notin tainted
    BY <1>0, <1>1, <2>1 DEF NewestInSlot, Hand
  <2>3. To[m] \in Agent
    BY <1>0, <2>2, HeldIsLive
  <2>4. ASSUME NEW g \in Handler, Note(g), To[m] = AgentOf(cur[g])
        PROVE  FALSE
    <3>1. g # h /\ cur[g] # {}
      BY <1>0, <1>3, <2>4 DEF Note, At, LoopAt, Starting
    <3>2. PICK n \in cur[g] : To[n] = To[m]
      BY <1>0, <2>4, <3>1, HandTaken
    <3> QED
      BY <2>2, <3>1, <3>2, Aside DEF Hand
  <2> QED
    BY <1>0, <2>1, <2>2, <2>3, <2>4, NewestAfter
<1> QED
  BY <1>2, <1>3

LEMMA NotedStep ==
  ASSUME Firm, NotedInHand, Renewed = {}, Next
  PROVE  NotedInHand'
<1>0. Tidy /\ tainted \subseteq tainted' /\ \A h \in Handler : LoopAt(h)
  BY TaintedGrows, LoopParts DEF Firm, Tidy
<1>1. SUFFICES ASSUME NEW h \in Handler, pc'[h] \notin Clearing,
                      NEW u \in {slot'[h], cur'[h]} \cap reported', u \notin outcomes'
               PROVE  AgentOf(u) \in tainted'
  BY DEF NotedInHand
<1>2. u \in reported /\ u # {} /\ u \subseteq trash
  <2>1. u \in reported
    BY <1>0, <1>1, ReportedAfter
  <2> QED
    BY <1>0, <2>1, InSight DEF Tidy, PlaceInv, UnitInv, Whole
<1>3. u \in {slot[h], cur[h]}
  <2>1. CASE u = slot'[h]
    BY <1>0, <1>2, <2>1, SlotAfter
  <2>2. CASE u = cur'[h]
    <3>1. ~Take(h)
      BY <1>0, <1>2, <2>2, TakeDoes
    <3>2. PICK m \in u : m \in u
      BY <1>2
    <3>3. m \in Hand(h)
      BY <1>0, <2>2, <3>1, <3>2, HandAfter DEF Hand
    <3>4. slot[h] \in Units /\ cur[h] \in Units /\ u \in Units
      BY <1>2, InSight
    <3> QED
      BY <1>0, <3>2, <3>3, <3>4 DEF Hand, Tidy, UnitInv
  <2> QED
    BY <1>1, <2>1, <2>2
<1>4. pc[h] \notin Clearing
  <2>1. Hand(h)' # {}
    BY <1>1, <1>2 DEF Hand
  <2> QED
    BY <1>0, <1>1, <2>1, PcAfter
<1>5. u \in outcomes \/ AgentOf(u) \in tainted
  BY <1>2, <1>3, <1>4 DEF NotedInHand
<1> QED
  BY <1>0, <1>1, <1>3, <1>5, RecordKept

LEMMA ShownStep ==
  ASSUME Firm, VerdictInv, LastInv, Renewed = {}, Next
  PROVE  Shown'
<1>0. /\ Tidy /\ tainted \subseteq tainted' /\ Apart /\ \A h \in Handler : LoopAt(h)
      /\ slot \in [Handler -> Unit] /\ cur \in [Handler -> Unit] /\ newest \in [Agent -> Unit]
  BY TaintedGrows, LoopParts DEF Firm, Tidy, TypeOK
<1>1. SUFFICES ASSUME NEW a \in Agent \ tainted', newest'[a] # {}, Failed(a)'
               PROVE  last'[a] = "failed" /\ \A h \in Handler : slot'[h] # newest'[a]
  BY DEF Shown
<1>2. ASSUME NEW h \in Handler, Note(h), a = AgentOf(cur[h]), newest'[a] = cur[h]
      PROVE  FALSE
  <2>1. /\ pc[h] = "spawned" /\ UNCHANGED <<dead, reported, outcomes>>
    BY <1>2 DEF Note, At, mail
  <2>2. PICK m \in cur[h] : To[m] = a /\ m \notin dead
    <3>1. PICK m \in cur[h] : m \in cur[h]
      BY <1>1, <1>2
    <3>2. To[m] = a /\ pc[h] \notin Clearing
      BY <1>0, <1>2, <2>1, <3>1, HandTaken DEF Clearing
    <3> QED
      BY <1>0, <1>1, <3>1, <3>2 DEF VerdictInv, Unjudged, Hand
  <2>3. cur[h] \notin reported \ outcomes
    BY <1>0, <1>1, <1>2, <2>1 DEF LastInv, NotedInHand, Clearing
  <2> QED
    BY <1>1, <1>2, <2>1, <2>2, <2>3 DEF Failed
<1>3. CASE newest'[a] = newest[a] /\ \A h \in Handler : ~(Note(h) /\ newest[a] = cur[h])
  <2> DEFINE n == newest[a]
  <2>a. n \subseteq Msg
    BY <1>0 DEF Unit
  <2>0. n # {} /\ a \notin tainted /\ n \in Units /\ \A m \in n : To[m] = a
    BY <1>0, <1>1, <1>3, InSight DEF Tidy, PlaceInv
  <2>1. AgentOf(n) = a
    BY <1>0, <2>0, UnitAgent
  <2> HIDE DEF n
  <2>2. \A h \in Handler : slot'[h] = n => slot[h] = n
    BY <1>0, <1>3, <2>0, SlotAfter DEF n
  <2>3. CASE Failed(a)
    <3>1. last[a] = "failed" /\ \A h \in Handler : slot[h] # n
      BY <1>0, <1>1, <2>0, <2>3 DEF LastInv, Shown, n
    <3>2. ASSUME NEW h \in Handler, slot[h] # {}, AgentOf(slot[h]) = a
          PROVE  FALSE
      <4>1. PICK m \in slot[h] : To[m] = a
        BY <1>0, <3>2, HandTaken
      <4> QED
        BY <2>0, <3>1, <4>1 DEF LastInv, NewestInSlot, n
    <3> QED
      BY <1>0, <1>3, <2>2, <3>1, <3>2, LastAfter DEF n
  <2>4. ASSUME ~(n \subseteq dead), n \subseteq dead'
        PROVE  last'[a] = "failed" /\ \A h \in Handler : slot'[h] # n
    <3>1. PICK m \in n : m \in dead' \ dead
      BY <2>4
    <3>2. To[m] = a
      BY <2>0, <3>1
    <3>3. ASSUME NEW h \in Handler, Settle(h), m \in slot[h], last'[AgentOf(slot[h])] = "failed"
          PROVE  last'[a] = "failed" /\ \A g \in Handler : slot'[g] # n
      <4>1. slot[h] = n
        BY <1>0, <2>0, <3>1, <3>3, InSight DEF Tidy, UnitInv
      <4>2. slot'[h] = {}
        BY <1>0, <3>3 DEF Settle
      <4>3. \A g \in Handler \ {h} : slot[g] # n
        BY <1>0, <2>0, <4>1 DEF Apart, Hand
      <4> QED
        BY <2>0, <2>1, <2>2, <3>3, <4>1, <4>2, <4>3
    <3>4. ASSUME NEW h \in Handler, pc[h] \in Starting, m \in cur[h], last'[AgentOf(cur[h])] = "failed"
          PROVE  last'[a] = "failed" /\ \A g \in Handler : slot'[g] # n
      <4>1. cur[h] = n
        BY <1>0, <2>0, <3>1, <3>4, InSight DEF Tidy, UnitInv
      <4>2. \A g \in Handler \ {h} : slot[g] # n
        BY <1>0, <2>0, <4>1 DEF Apart, Hand
      <4>3. slot[h] # n
        BY <1>0, <2>0, <4>1 DEF LoopAt
      <4> QED
        BY <2>1, <2>2, <3>4, <4>1, <4>2, <4>3
    <3>5. ASSUME Mark, m \in unit, last'[looks] = "failed"
          PROVE  last'[a] = "failed" /\ \A g \in Handler : slot'[g] # n
      <4>1. looks = a /\ looks \in scope /\ kpc = "mark"
        BY <1>0, <3>2, <3>5 DEF Tidy, PlaceInv, TypeOK, Firm, StopInv, Mark
      <4>2. ASSUME NEW g \in Handler, slot[g] = n
            PROVE  FALSE
        BY <2>0, <3>1, <3>2, <4>1, <4>2, BesideStop DEF StopAfter, Hand
      <4> QED
        BY <2>2, <3>5, <4>1, <4>2
    <3>6. ASSUME NEW u \in outcomes \ outcomes', m \in u
          PROVE  last'[a] = "failed" /\ \A g \in Handler : slot'[g] # n
      <4>1. u = n
        BY <1>0, <2>0, <3>1, <3>6, InSight DEF Tidy, UnitInv, PlaceInv
      <4>2. last'[a] = "failed"
        BY <1>0, <2>1, <2>4, <3>6, <4>1, TakenBy
      <4>3. \A g \in Handler : slot[g] # n
        BY <2>0, <2>1, <3>6, <4>1, RecordKept
      <4> QED
        BY <2>2, <4>2, <4>3
    <3> QED
      BY <1>0, <3>1, <3>3, <3>4, <3>5, <3>6, NewDead
  <2>5. ASSUME n \notin reported \ outcomes, n \in reported' \ outcomes', ~(n \subseteq dead)
        PROVE  last'[a] = "failed" /\ \A h \in Handler : slot'[h] # n
    <3>1. n \in outcomes \ outcomes'
      BY <1>0, <2>5, ReportedAfter
    <3>2. last'[a] = "failed"
      BY <1>0, <2>1, <2>5, <3>1, TakenBy
    <3>3. \A g \in Handler : slot[g] # n
      BY <2>0, <2>1, <3>1, RecordKept
    <3> QED
      BY <2>2, <3>2, <3>3
  <2> QED
    BY <1>1, <1>3, <2>3, <2>4, <2>5 DEF Failed, n
<1>4. ASSUME NEW h \in Handler, Note(h), newest[a] = cur[h], newest'[a] = newest[a]
      PROVE  FALSE
  <2>1. newest[a] \in Units
    BY <1>0, InSight
  <2>2. PICK m \in cur[h] : To[m] = a
    BY <1>0, <1>1, <1>4 DEF Tidy, PlaceInv
  <2>3. AgentOf(cur[h]) = a
    BY <1>0, <2>2, HandTaken
  <2> QED
    BY <1>2, <1>4, <2>3
<1> QED
  BY <1>0, <1>2, <1>3, <1>4, NewestAfter

LEMMA LastStep ==
  ASSUME Firm, VerdictInv, LastInv, Renewed = {}, [Next]_vars
  PROVE  LastInv'
<1>1. CASE Next
  BY <1>1, NewestStep, NotedStep, ShownStep DEF LastInv
<1>2. CASE UNCHANGED vars
  BY <1>2 DEF vars, LastInv, NewestInSlot, NotedInHand, Shown, Failed
<1> QED
  BY <1>1, <1>2

\* The failure of the newest wake's session, once it is taken notice of, is the outcome
\* last-wake shows: the exit 0 that enqueued the turn does not replace it, unless a handler
\* attached to the agent beside an unsettled wake or stop.
THEOREM FailureIsShown ==
  ASSUME Renewed = {}
  PROVE  Spec => []LastWakeHonest
<1>1. Init => Firm /\ VerdictInv /\ LastInv
  BY FirmInit DEF Init, VerdictInv, Unjudged, RecordUnacked, LookUnacked, Hand, LastInv,
     NewestInSlot, NotedInHand, Shown
<1>2. Firm /\ VerdictInv /\ LastInv /\ [Next]_vars => (Firm /\ VerdictInv /\ LastInv)'
  BY FirmStep, VerdictStep, LastStep
<1>3. Firm /\ LastInv => LastWakeHonest
  BY DEF Firm, Tidy, PlaceInv, LastInv, Shown, Failed, LastWakeHonest
<1> QED
  BY <1>1, <1>2, <1>3, PTL DEF Spec

(***************************************************************************)
(* What a force stop leaves behind.                                        *)
(***************************************************************************)
\* The mail a killed handler leaves is settled, agent by agent: until its agent's turn
\* the record names it, and then what the stop has read there.
LookSteps == {"check", "clear", "mark"}
Left(m) ==
  /\ kpc # "end" /\ To[m] \in left
  /\ m \in IF kpc \in LookSteps /\ looks = To[m] THEN unit ELSE record[To[m]].unit
CaughtInv ==
  /\ kpc \in {"idle"} \cup StopBefore => caught = {}
  /\ \A m \in caught : m \in acked \cup dead \/ To[m] \in tainted \/ Left(m)

\* A wake of the handler that was frozen and killed is not running any more.
CleanInv ==
  sure /\ kpc \in {"handler", "settle", "check", "clear", "mark", "end"} =>
    \A w \in wakes : w.by = target => w.st # "running"

LEMMA CaughtAfter ==
  ASSUME Firm, Renewed = {}, Next, ~KillHandler, ~Finish
  PROVE  /\ caught' = caught
         /\ kpc' \in {"idle"} \cup StopBefore => kpc \in {"idle"} \cup StopBefore
<1>1. CASE ~Stopping
  BY <1>1, StopOthers DEF Firm
<1>2. CASE Stopping
  BY <1>2 DEF Stopping, Deaf, ForceStop, Look, SecondTerm, Wait, Freeze, KillRecorded, KillChildren,
     Check, Clear, Mark, Then, StopBefore, history
<1> QED
  BY <1>1, <1>2

LEMMA LookMoves ==
  ASSUME Firm, Renewed = {}, Next, kpc \in StopAfter, ~Mark, ~Finish, \A a \in Agent : ~Look(a)
  PROVE  /\ UNCHANGED <<left, looks, unit>> /\ kpc' \in StopAfter /\ (kpc' = "end" <=> kpc = "end")
         /\ kpc' \in LookSteps <=> kpc \in LookSteps
<1>1. CASE ~Stopping /\ ~KillHandler
  BY <1>1, StopOthers DEF Firm
<1>2. CASE KillHandler
  BY <1>2 DEF KillHandler, StopAfter
<1>3. CASE Stopping /\ ~KillHandler
  BY <1>3 DEF Stopping, Deaf, ForceStop, SecondTerm, Wait, Freeze, KillRecorded, KillChildren,
     Check, Clear, Then, StopAfter, LookSteps
<1> QED
  BY <1>1, <1>2, <1>3

LEMMA CaughtByKill ==
  ASSUME Firm, Firm', Settled', KillHandler
  PROVE  CaughtInv'
<1>1. /\ kpc = "handler" /\ kpc' \in {"settle", "late"} /\ UNCHANGED <<trash, acked, dead, left, scope, target>>
      /\ caught' = {m \in trash \ (acked \cup dead \cup excused') : To[m] \in scope}
  BY DEF KillHandler, Then, mail
<1>2. left' = scope' /\ unit' = {} /\ ~Live(target)' /\ kpc' \notin LookSteps /\ kpc' # "end"
      /\ kpc' \notin {"idle"} \cup StopBefore
  BY <1>1 DEF Firm, StopInv, StopBefore, StopAfter, LookSteps
<1>3. ASSUME NEW m \in caught', To[m] \notin tainted'
      PROVE  m \in record'[To[m]].unit
  <2>1. Held(m)' \/ m \in record'[To[m]].unit
    BY <1>1, <1>2, <1>3 DEF Settled
  <2>2. ASSUME NEW h \in Handler, Live(h)', m \in Hand(h)'
        PROVE  FALSE
    <3>1. h # target' /\ To[m] \in scope' \ tainted' /\ kpc' # "idle"
      BY <1>1, <1>2, <1>3, <2>2 DEF Live
    <3> QED
      BY <2>2, <3>1 DEF Firm, ScopeInv
  <2> QED
    BY <2>1, <2>2 DEF Held
<1> QED
  BY <1>1, <1>2, <1>3 DEF CaughtInv, Left

LEMMA CaughtStep ==
  ASSUME Firm, NamedInv, CaughtInv, Renewed = {}, Next, Firm', Settled'
  PROVE  CaughtInv'
<1>0. /\ Tidy /\ StopInv /\ tainted \subseteq tainted' /\ acked \subseteq acked' /\ dead \subseteq dead'
      /\ left \subseteq scope /\ scope \subseteq Agent
  BY TaintedGrows, AckedAfter, DeadWhole DEF Firm, Tidy, TypeOK
<1>1. CASE KillHandler
  BY <1>1, CaughtByKill
<1>2. CASE Finish
  <2>1. caught' = {}
    BY <1>2 DEF Finish
  <2> QED
    BY <2>1 DEF CaughtInv
<1>3. CASE ~KillHandler /\ ~Finish
  <2>1. caught' = caught /\ (kpc' \in {"idle"} \cup StopBefore => caught' = {})
    BY <1>3, CaughtAfter DEF CaughtInv
  <2>2. SUFFICES ASSUME NEW m \in caught, m \notin acked' \cup dead', To[m] \notin tainted'
                 PROVE  Left(m)'
    BY <2>1 DEF CaughtInv
  <2>3. /\ Left(m) /\ m \notin dead /\ To[m] \notin tainted /\ kpc \in StopAfter
        /\ To[m] \in scope /\ To[m] \in Agent
    <3>1. kpc \in StopSteps /\ kpc \notin {"idle"} \cup StopBefore
      BY <1>0, <2>2 DEF CaughtInv, Tidy, TypeOK
    <3> QED
      BY <1>0, <2>2, <3>1 DEF CaughtInv, StopSteps, StopBefore, StopAfter, Left
  <2>4. ASSUME NEW a \in Agent, Look(a)
        PROVE  Left(m)'
    BY <2>3, <2>4 DEF Look, Then, disk, Left, LookSteps
  <2>5. CASE Mark
    <3>1. kpc = "mark" /\ looks \in scope
      BY <1>0, <2>5 DEF Mark, StopInv
    <3>2. CASE looks = To[m]
      <4>1. owner[looks] = None /\ m \in unit
        BY <2>3, <3>1, <3>2, FreeOfStop DEF Left, LookSteps
      <4>2. m \in dead'
        BY <2>5, <4>1 DEF Mark, Marked
      <4> QED
        BY <2>2, <4>2
    <3>3. CASE looks # To[m]
      <4>1. m \in record[To[m]].unit /\ To[m] \in left
        BY <2>3, <3>3 DEF Left
      <4>2. kpc' = "settle" /\ record' = record /\ left' = left \ {looks}
        BY <2>5, <3>3, <4>1 DEF Mark, Then, disk
      <4> QED
        BY <3>3, <4>1, <4>2 DEF Left, LookSteps
    <3> QED
      BY <3>2, <3>3
  <2>6. CASE ~Mark /\ \A a \in Agent : ~Look(a)
    <3>1. /\ UNCHANGED <<left, looks, unit>> /\ kpc' # "end"
          /\ kpc' \in LookSteps <=> kpc \in LookSteps
      BY <1>3, <2>3, <2>6, LookMoves DEF Left
    <3>2. CASE kpc \in LookSteps /\ looks = To[m]
      BY <2>3, <3>1, <3>2 DEF Left
    <3>3. CASE ~(kpc \in LookSteps /\ looks = To[m])
      <4>1. ~(Clear /\ looks = To[m])
        BY <3>3 DEF Clear, LookSteps
      <4>2. ASSUME NEW g \in Handler, NEW n \in cur[g], To[n] = To[m]
            PROVE  FALSE
        BY <2>3, <4>2, BesideStop DEF Hand
      <4>3. record'[To[m]] = record[To[m]]
        BY <1>0, <2>3, <4>1, <4>2, RecordMoves
      <4> QED
        BY <2>3, <3>1, <3>3, <4>3 DEF Left
    <3> QED
      BY <3>2, <3>3
  <2> QED
    BY <2>4, <2>5, <2>6
<1> QED
  BY <1>1, <1>2, <1>3

\* A wake that runs ran before, or has just been started.
LEMMA RunningAfter ==
  ASSUME Tidy, Next, NEW w \in wakes', w.st = "running"
  PROVE  w \in wakes \/ \E h \in Handler : Spawn(h) /\ w.unit = cur[h] /\ w.by = h
<1>1. CASE Calm
  BY <1>1 DEF Calm
<1>2. ASSUME NEW h \in Handler, Spawn(h)
      PROVE  w \in wakes \/ (w.unit = cur[h] /\ w.by = h)
  BY <1>2 DEF Spawn
<1> QED
  BY <1>1, <1>2, StepCalm DEF Tidy

LEMMA CleanStep ==
  ASSUME Firm, CleanInv, Renewed = {}, Next
  PROVE  CleanInv'
<1>0. Tidy /\ StopInv
  BY DEF Firm
<1>1. SUFFICES ASSUME sure', kpc' \in {"handler", "settle", "check", "clear", "mark", "end"},
                      NEW w \in wakes', w.by = target', w.st = "running"
               PROVE  FALSE
  BY DEF CleanInv
<1>2. CASE KillChildren
  <2>1. OfTarget \in SUBSET wakes /\ target' = target /\ wakes' = Ended(OfTarget, "failed")
    BY <1>2 DEF OfTarget, KillChildren
  <2>2. w \in wakes \ OfTarget
    BY <1>0, <1>1, <2>1, EndedCalm DEF Tidy
  <2> QED
    BY <1>1, <2>1, <2>2 DEF OfTarget
<1>3. CASE ~KillChildren
  <2>1. /\ sure /\ kpc \in {"handler", "settle", "check", "clear", "mark", "end"} /\ target' = target
    <3>1. CASE Freeze
      <4>1. CASE Live(target)
        BY <1>1, <3>1, <4>1 DEF Freeze, Then
      <4>2. CASE ~Live(target)
        <5>1. ~sure'
          BY <3>1, <4>2 DEF Freeze
        <5> QED
          BY <1>1, <5>1
      <4> QED
        BY <4>1, <4>2
    <3>2. CASE KillHandler
      BY <1>1, <3>2 DEF KillHandler
    <3>3. CASE ~Stopping /\ ~KillHandler
      BY <1>0, <1>1, <3>3, StopOthers
    <3>4. CASE Stopping /\ ~Freeze /\ ~KillHandler
      <4>1. sure /\ target' = target
        <5>1. ~Finish
          BY <1>1 DEF Finish
        <5>2. \A a \in Agent : ~ForceStop(a)
          BY <1>1 DEF ForceStop, Then
        <5> QED
          BY <1>1, <3>4, <5>1, <5>2 DEF Stopping, Deaf, Look, SecondTerm, Wait, KillRecorded, KillChildren,
             Check, Clear, Mark
      <4>2. kpc \in {"recorded", "children", "handler"} \cup (StopAfter \ {"late"})
        BY <1>0, <4>1 DEF StopInv
      <4>3. ~KillRecorded
        BY <1>1, <4>1, <4>2 DEF KillRecorded, Then, StopAfter
      <4> QED
        BY <1>1, <1>3, <3>4, <4>1, <4>2, <4>3 DEF Stopping, Deaf, ForceStop, Look, SecondTerm, Wait,
           Check, Clear, Mark, Finish, Then, StopAfter
    <3> QED
      BY <3>1, <3>2, <3>3, <3>4
  <2>2. w \notin wakes
    BY <1>1, <2>1 DEF CleanInv
  <2>3. Spawn(target) /\ target \in Handler
    BY <1>0, <1>1, <2>1, <2>2, RunningAfter
  <2>4. At(target, "claimed")
    BY <2>3 DEF Spawn
  <2>5. target \notin frozen /\ Live(target)
    BY <2>4 DEF At, Live, LoopSteps
  <2> QED
    BY <1>0, <2>1, <2>5 DEF StopInv, StopAfter
<1> QED
  BY <1>2, <1>3

\* A force stop that has frozen and killed its handler leaves nothing of it suspended or
\* running, and every message it had in hand settled, with that exception.
THEOREM StopIsClean ==
  ASSUME Renewed = {}
  PROVE  Spec => []KillIsClean
<1> DEFINE Inv == Firm /\ NamedInv /\ Settled /\ CaughtInv /\ CleanInv
<1>1. Init => Inv
  BY FirmInit, NamedInit DEF Init, Settled, CaughtInv, CleanInv
<1>2. Inv /\ [Next]_vars => Inv'
  <2>1. SUFFICES ASSUME Inv, [Next]_vars
                 PROVE  CaughtInv' /\ CleanInv'
    BY FirmStep, NamedStep, SettledStep
  <2>2. CASE Next
    BY <2>1, <2>2, CaughtStep, CleanStep, FirmStep, SettledStep
  <2>3. CASE UNCHANGED vars
    BY <2>1, <2>3 DEF vars, CaughtInv, Left, CleanInv
  <2> QED
    BY <2>1, <2>2, <2>3
<1>3. Inv => KillIsClean
  BY DEF Firm, StopInv, CaughtInv, Left, CleanInv, KillIsClean
<1> QED
  BY <1>1, <1>2, <1>3, PTL DEF Spec

(***************************************************************************)
(* Whose wakes a force stop ends.                                          *)
(***************************************************************************)
\* A running wake that the record of an agent names: if its handler is gone, the agent is
\* free, or the mail is dead already; a force stop that holds the agent is its handler's,
\* or the handler is gone and the mail is dead.
OrphanInv ==
  \A w \in wakes : w.st = "running" =>
    \A a \in Agent \ tainted : record[a].unit = w.unit =>
      /\ ~Live(w.by) => owner[a] = None \/ w.unit \subseteq dead
      /\ kpc # "idle" /\ a \in scope /\ w.by # target => ~Live(w.by) /\ w.unit \subseteq dead

\* Only an end takes a handler out of its loop.
LEMMA LiveStays ==
  ASSUME Tidy, Renewed = {}, Next, NEW h \in Handler, Live(h), ~Live(h)'
  PROVE  Ending(h)
<1>0. pc \in [Handler -> LoopSteps \cup {"unborn", "gone"}] /\ pc'[h] \notin LoopSteps
  BY DEF Tidy, TypeOK, Live
<1>1. Working(h)
  BY <1>0, PcAfter DEF Live
<1>2. CASE Turning(h) \/ Take(h)
  BY <1>0, <1>2, TurningKeeps, TakeDoes DEF Between, LoopSteps
<1>3. CASE \/ (\E a \in Agent : Yield(h, a)) \/ (\E S \in SUBSET Agent : Attach(h, S))
           \/ Settle(h) \/ Unrecord(h) \/ Failing(h)
  BY <1>0, <1>3 DEF Yield, Attach, Settle, Unrecord, Failing, Abort, Unspawned, Fails, Go, Live,
     LoopSteps
<1>4. CASE Claim(h) \/ Spawn(h) \/ SpawnFails(h) \/ Note(h)
  BY <1>0, <1>4 DEF Claim, Spawn, SpawnFails, Note, Go, LoopSteps
<1> QED
  BY <1>1, <1>2, <1>3, <1>4 DEF Working

\* The wake that a live handler runs is in its hands.
LEMMA InHand ==
  ASSUME Tidy, NEW w \in wakes, Live(w.by)
  PROVE  w.by \in Handler /\ w.unit \subseteq Hand(w.by) /\ w.unit # {}
<1>1. WakeAt(w) /\ w.by \in Handler
  BY DEF Tidy, WakeInv, WakeAt, TypeOK
<1> QED
  BY <1>1 DEF WakeAt, Hand

\* The wake of a handler that has mail of the agent in hand: it is live, and holds the
\* agent if a force stop does.
LEMMA HeldWake ==
  ASSUME Firm, Renewed = {}, Next, NEW h \in Handler, NEW m \in cur[h], To[m] \notin tainted,
         Claim(h) \/ Note(h) \/ Spawn(h)
  PROVE  /\ Live(h)'
         /\ kpc' # "idle" /\ To[m] \in scope' => h = target'
<1>1. Live(h) /\ Tidy
  BY HeldIsLive DEF Firm, Hand
<1>2. ~Live(h)' => FALSE
  <2>1. pc' [h] \in LoopSteps
    BY <1>1 DEF Claim, Note, Spawn, Go, LoopSteps, Tidy, TypeOK
  <2> QED
    BY <2>1 DEF Live
<1>3. UNCHANGED <<kpc, target, scope>>
  BY DEF Claim, Note, Spawn, stop
<1> QED
  BY <1>1, <1>2, <1>3 DEF Firm, ScopeInv, Hand, Live

LEMMA OrphanStep ==
  ASSUME Firm, OrphanInv, Renewed = {}, Next
  PROVE  OrphanInv'
<1>0. /\ Tidy /\ tainted \subseteq tainted' /\ dead \subseteq dead' /\ None \notin Handler
      /\ \A w \in wakes : w.by \in Handler /\ WakeAt(w)
  BY TaintedGrows, DeadWhole, WakeAssumption DEF Firm, Tidy, TypeOK, WakeInv, WakeAt
<1>1. SUFFICES ASSUME NEW w \in wakes', w.st = "running", NEW a \in Agent \ tainted',
                      record'[a].unit = w.unit
               PROVE  /\ ~Live(w.by)' => owner'[a] = None \/ w.unit \subseteq dead'
                      /\ kpc' # "idle" /\ a \in scope' /\ w.by # target' =>
                           ~Live(w.by)' /\ w.unit \subseteq dead'
  BY DEF OrphanInv, Live
<1>2. a \notin tainted
  BY <1>0, <1>1
<1>3. ASSUME NEW h \in Handler, Spawn(h), w.unit = cur[h], w.by = h
      PROVE  Live(w.by)' /\ (kpc' # "idle" /\ a \in scope' => w.by = target')
  <2>1. cur[h] # {} /\ record' = record
    BY <1>0, <1>3, SpawnFresh
  <2>2. PICK m \in cur[h] : To[m] = a
    BY <1>0, <1>1, <1>3, <2>1 DEF Tidy, PlaceInv
  <2> QED
    BY <1>2, <1>3, <2>2, HeldWake
<1>4. ASSUME NEW h \in Handler, Claim(h) \/ Note(h), w.unit = cur[h], w \in wakes,
             NEW n \in cur[h], To[n] = a
      PROVE  Live(w.by)' /\ (kpc' # "idle" /\ a \in scope' => w.by = target')
  <2>1. w.by = h
    BY <1>0, <1>4, HandWake
  <2> QED
    BY <1>2, <1>4, <2>1, HeldWake
<1>5. CASE w \in wakes /\ record'[a] = record[a]
  <2>0. w.unit # {} /\ w.unit \cap acked = {} /\ w.unit \subseteq Msg /\ record[a].unit = w.unit
        /\ w.by \in Handler /\ pc[w.by] # "unborn"
    <3>1. w.unit \subseteq Msg
      BY <1>5 DEF Firm, Tidy, TypeOK, Unit
    <3> QED
      BY <1>0, <1>1, <1>5, <3>1 DEF WakeAt
  <2>1. PICK m \in w.unit : To[m] = a
    BY <1>0, <1>1, <1>5, <2>0 DEF Tidy, PlaceInv
  <2>2. /\ ~Live(w.by) => owner[a] = None \/ w.unit \subseteq dead
        /\ kpc # "idle" /\ a \in scope /\ w.by # target => ~Live(w.by) /\ w.unit \subseteq dead
    BY <1>1, <1>2, <1>5, <2>0 DEF OrphanInv
  <2>3. Live(w.by) => owner[a] \in {w.by, None}
    <3>1. Live(w.by) => m \in Hand(w.by)
      BY <1>0, <1>5, <2>1, InHand
    <3> QED
      BY <1>2, <2>0, <2>1, <3>1 DEF Firm, HolderInv
  <2>4. ASSUME ~Live(w.by)'
        PROVE  owner'[a] = None \/ w.unit \subseteq dead'
    <3>1. CASE ~Live(w.by) /\ owner[a] = None
      <4>1. CASE owner'[a] = None
        BY <4>1
      <4>2. CASE owner'[a] # None
        <5>1. ~Unsettled(a)
          BY <1>0, <1>1, <3>1, <4>2, OwnerAfter
        <5>2. record[a].unit \subseteq acked \cup dead
          BY <5>1 DEF Unsettled
        <5> QED
          BY <1>0, <2>0, <5>2
      <4> QED
        BY <4>1, <4>2
    <3>2. CASE ~Live(w.by) /\ w.unit \subseteq dead
      BY <1>0, <3>2
    <3>3. CASE Live(w.by)
      <4>1. Ending(w.by)
        BY <1>0, <2>0, <2>4, <3>3, LiveStays
      <4>2. owner'[a] = IF owner[a] = w.by THEN None ELSE owner[a]
        BY <1>0, <2>0, <4>1, EndingDoes
      <4> QED
        BY <2>3, <3>3, <4>2
    <3> QED
      BY <2>2, <3>1, <3>2, <3>3
  <2>5. ASSUME kpc' # "idle", a \in scope', w.by # target'
        PROVE  ~Live(w.by)' /\ w.unit \subseteq dead'
    <3>1. ASSUME NEW b \in Agent, ForceStop(b)
          PROVE  ~Live(w.by) /\ w.unit \subseteq dead
      <4>1. target' = owner[b] /\ owner[b] # None /\ owner[a] = owner[b]
        BY <2>5, <3>1 DEF ForceStop
      <4> QED
        BY <2>2, <2>3, <2>5, <4>1
    <3>2. ASSUME kpc # "idle", scope' = scope, target' = target
          PROVE  ~Live(w.by) /\ w.unit \subseteq dead
      BY <2>2, <2>5, <3>2
    <3>3. ~Live(w.by) /\ w.unit \subseteq dead
      BY <1>0, <2>5, <3>1, <3>2, ScopeKept
    <3> QED
      BY <1>0, <2>0, <3>3, GoneStays
  <2> QED
    BY <2>4, <2>5
<1>6. CASE w \in wakes /\ record'[a] # record[a]
  <2>1. w.unit # {}
    BY <1>0, <1>6 DEF WakeAt
  <2>2. PICK h \in Handler : /\ \E n \in cur[h] : To[n] = a
                             /\ Claim(h) \/ Note(h)
                             /\ w.unit = cur[h]
    BY <1>0, <1>1, <1>6, <2>1, RecordMoves
  <2> QED
    BY <1>4, <1>6, <2>2
<1> QED
  BY <1>0, <1>1, <1>3, <1>5, <1>6, RunningAfter

\* The action of SparesOthers.
Spares ==
  \A w \in wakes :
    w.st = "running" /\ w \notin wakes' /\ kpc # kpc' => Spared(w) \/ AgentOf(w.unit) \in tainted

LEMMA SparesStep ==
  ASSUME Firm, OrphanInv, Renewed = {}, [Next]_vars
  PROVE  Spares
<1>0. Tidy
  BY DEF Firm
<1>1. SUFFICES ASSUME NEW w \in wakes, w.st = "running", w \notin wakes', kpc # kpc',
                      w.by \notin {target, target'}
               PROVE  (~Live(w.by) /\ w.unit \subseteq dead) \/ AgentOf(w.unit) \in tainted
  BY DEF Spares, Spared
<1>2. Next /\ (Stopping \/ KillHandler)
  <2>1. Next
    BY <1>1 DEF vars
  <2> QED
    BY <1>0, <1>1, <2>1, StopOthers
<1>3. ASSUME NEW h \in Handler, SlotKilled(h) \/ wakes' = wakes
      PROVE  w.by = h
  <2>1. w.unit = slot[h]
    BY <1>0, <1>1, <1>3, SlotKilledCalm DEF Tidy
  <2> QED
    BY <1>0, <2>1, HandWake
<1>4. ASSUME NEW a \in Agent, ForceStop(a)
      PROVE  FALSE
  <2>1. owner[a] \in Handler /\ target' = owner[a] /\ Signalled(owner[a])
    BY <1>0, <1>4 DEF ForceStop, Tidy, TypeOK
  <2> QED
    BY <1>1, <1>3, <2>1 DEF Signalled
<1>5. CASE SecondTerm
  <2>1. target \in Handler /\ (Signalled(target) \/ wakes' = wakes)
    BY <1>0, <1>5 DEF SecondTerm, Tidy, TargetInv
  <2> QED
    BY <1>1, <1>3, <2>1 DEF Signalled
<1>6. CASE KillRecorded
  <2>1. Named \in SUBSET wakes /\ wakes' = Ended(Named, "failed") /\ kpc # "idle"
    BY <1>6 DEF Named, KillRecorded
  <2>2. w \in Named
    BY <1>0, <1>1, <2>1, EndedCalm DEF Tidy
  <2>3. PICK a \in own : record[a] = [unit |-> w.unit, born |-> TRUE]
    BY <2>2 DEF Named
  <2>4. a \in scope /\ a \in Agent /\ record[a].unit = w.unit
    BY <1>0, <2>3 DEF Firm, StopInv, Tidy, TypeOK
  <2>5. AgentOf(w.unit) = a
    <3>1. w.unit # {} /\ w.unit \in Units
      BY <1>0, InSight DEF Tidy, WakeInv
    <3> QED
      BY <1>0, <2>4, <3>1, UnitAgent DEF Tidy, PlaceInv
  <2> QED
    BY <1>1, <2>1, <2>4, <2>5 DEF OrphanInv
<1>7. CASE KillChildren
  <2>1. OfTarget \in SUBSET wakes /\ wakes' = Ended(OfTarget, "failed")
    BY <1>7 DEF OfTarget, KillChildren
  <2>2. w \in OfTarget
    BY <1>0, <1>1, <2>1, EndedCalm DEF Tidy
  <2> QED
    BY <1>1, <2>2 DEF OfTarget
<1>8. CASE KillHandler
  BY <1>1, <1>8 DEF KillHandler, Dies
<1>9. CASE Wait \/ Freeze \/ (\E a \in Agent : Look(a)) \/ Check \/ Clear \/ Mark \/ Finish
  BY <1>1, <1>9 DEF Wait, Freeze, Look, Check, Clear, Mark, Finish, procs
<1> QED
  BY <1>2, <1>4, <1>5, <1>6, <1>7, <1>8, <1>9 DEF Stopping, Deaf

\* A force stop ends no wake of another handler, but for an orphan whose mail is dead
\* letters already and the wakes of an agent with that exception.
THEOREM StopSparesOthers ==
  ASSUME Renewed = {}
  PROVE  Spec => SparesOthers
<1>1. Init => Firm /\ OrphanInv
  BY FirmInit DEF Init, OrphanInv
<1>2. Firm /\ OrphanInv /\ [Next]_vars => (Firm /\ OrphanInv)'
  <2>1. ASSUME OrphanInv, UNCHANGED vars
        PROVE  OrphanInv'
    BY <2>1 DEF vars, OrphanInv, Live
  <2> QED
    BY <2>1, FirmStep, OrphanStep
<1>3. Firm /\ OrphanInv /\ [Next]_vars => Spares
  BY SparesStep
<1>4. Spec => [][Spares]_vars
  BY <1>1, <1>2, <1>3, PTL DEF Spec
<1> QED
  BY <1>4 DEF SparesOthers, Spares
=============================================================================
