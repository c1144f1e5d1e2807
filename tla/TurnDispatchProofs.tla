-------------------------- MODULE TurnDispatchProofs --------------------------
(***************************************************************************)
(* Proofs about TurnDispatch, for any processes, members, messages and     *)
(* deaths: while no lock file of a live process is unlinked by another, no *)
(* two processes are in a turn, and no accepted message is ever lost track *)
(* of, run twice or reported twice but by two processes that have it in    *)
(* hand or by a turn that finds it left over.                              *)
(***************************************************************************)
EXTENDS TurnDispatch, TLAPS

Job == [who : Member \cup {None}, on : Lock, tries : Nat, batch : SUBSET Msg,
        cohort : SUBSET Member, aged : UNION {[S -> Nat] : S \in SUBSET Member},
        ran : BOOLEAN, begun : BOOLEAN, end : Outcome \cup {"none"}, orphans : SUBSET Msg,
        living : SUBSET Member]

\* The part of the types that the proofs need.
TurnTypes ==
  /\ queue \subseteq Msg /\ inflight \subseteq Msg /\ dead \subseteq Msg /\ spent \subseteq Msg
  /\ sent \subseteq Msg /\ mixed \subseteq Msg
  /\ lock \in [Lock -> [by : Proc \cup {None, Gone}, told : BOOLEAN]]
  /\ passes \in [Member -> Nat] /\ pc \in [Proc -> Steps] /\ job \in [Proc -> Job]

\* The steps that are no process's.
Elsewhere == (\E k \in Bucket : Earn(k)) \/ \E a \in Member : HarnessEnds(a)

Burying == {"bury", "drop", "notify"}
\* Whom a process is at, and how its turn ended.
AtInv ==
  \A p \in Proc :
    /\ pc[p] \in {"try", "unlink", "write", "live", "charge", "unadmit", "claim", "launch",
                  "running", "settle", "park", "unlock"} => Who(p) \in Member
    /\ pc[p] \in {"try", "unlink", "write"} => job[p].on \in {Admission, Who(p)}
    /\ pc[p] = "live" => job[p].on = Admission
    /\ job[p].end # "none" =>
         pc[p] \in Burying \cup {"settle", "park", "unlock"} /\ Who(p) \in Member

\* The steps at which a process has the admission lock, and those between its look at
\* the live turns and its own.
HasAdmission(p) == \/ pc[p] \in {"write", "live", "leave", "charge", "unadmit"}
                   \/ pc[p] \in {"try", "unlink"} /\ job[p].on # Admission
Admitted(p) == \/ pc[p] \in {"charge", "unadmit"}
               \/ pc[p] \in {"try", "unlink", "write"} /\ job[p].on # Admission
HasOwn(p) == InTurn(p) \/ pc[p] \in {"charge", "unadmit"}

\* While no lock is stolen.
Holds(p) ==
  /\ HasAdmission(p) => lock[Admission].by = p
  /\ pc[p] = "write" => lock[job[p].on].by = p
  /\ HasOwn(p) => lock[Who(p)].by = p /\ lock[Who(p)].told
LockInv == ~stolen => \A p \in Proc : Holds(p)

AloneInv ==
  ~stolen => \A p, q \in Proc : InTurn(q) => ~Admitted(p) /\ (InTurn(p) => p = q)

\* What is in a queue, in flight or in hand was accepted, and what a burial is about to
\* drop is on record.
MailInv ==
  /\ queue \cup inflight \cup dead \cup spent \cup mixed \subseteq sent
  /\ \A p \in Proc : InHand(p) \subseteq sent /\ (pc[p] = "drop" => job[p].batch \subseteq dead)

\* The steps of a burial.
LEMMA BurialSteps == ToSet(Burial) = Burying /\ Burial[1] = "bury"
BY DEF Burial, Burying, ToSet

\* What follows a step of a burial.
LEMMA OnwardSteps ==
  ASSUME TurnTypes, NEW p \in Proc
  PROVE  /\ Onward(p, "bury") => pc' = [pc EXCEPT ![p] = "drop"] /\ job' = job
         /\ Onward(p, "drop") => pc' = [pc EXCEPT ![p] = "notify"] /\ job' = job
         /\ Onward(p, "notify") =>
              \/ /\ job[p].end # "none" /\ job' = [job EXCEPT ![p].batch = {}]
                 /\ \E s \in {"park", "unlock"} : pc' = [pc EXCEPT ![p] = s]
              \/ /\ job[p].end = "none" /\ pc' = [pc EXCEPT ![p] = "bury"]
                 /\ \E S \in SUBSET job[p].orphans, a \in Member :
                      /\ S \cap job[p].batch = {}
                      /\ job' = [job EXCEPT ![p].orphans = S, ![p].who = a, ![p].batch = Of(a, S)]
              \/ /\ job[p].end = "none" /\ pc' = [pc EXCEPT ![p] = "probe"]
                 /\ job' = [job EXCEPT ![p] = Idle]
<1>1. Burial[1] = "bury" /\ Burial[2] = "drop" /\ Burial[3] = "notify"
  BY DEF Burial
<1>2. \A n \in 1 .. 3 : n = 1 \/ n = 2 \/ n = 3
  OBVIOUS
<1>3. Place("bury") < 3 /\ Burial[Place("bury") + 1] = "drop"
  <2>1. Place("bury") = 1 BY <1>1, <1>2 DEF Place
  <2>2. QED BY <1>1, <2>1
<1>4. Place("drop") < 3 /\ Burial[Place("drop") + 1] = "notify"
  <2>1. Place("drop") = 2 BY <1>1, <1>2 DEF Place
  <2>2. QED BY <1>1, <2>1
<1>5. ~(Place("notify") < 3)
  <2>1. Place("notify") = 3 BY <1>1, <1>2 DEF Place
  <2>2. QED BY <2>1
<1>6. Onward(p, "bury") => pc' = [pc EXCEPT ![p] = "drop"] /\ job' = job
  BY <1>1, <1>3 DEF Onward, Go
<1>7. Onward(p, "drop") => pc' = [pc EXCEPT ![p] = "notify"] /\ job' = job
  BY <1>1, <1>4 DEF Onward, Go
<1>8. ASSUME Onward(p, "notify")
      PROVE  \/ /\ job[p].end # "none" /\ job' = [job EXCEPT ![p].batch = {}]
                /\ \E s \in {"park", "unlock"} : pc' = [pc EXCEPT ![p] = s]
             \/ /\ job[p].end = "none" /\ pc' = [pc EXCEPT ![p] = "bury"]
                /\ \E S \in SUBSET job[p].orphans, a \in Member :
                     /\ S \cap job[p].batch = {}
                     /\ job' = [job EXCEPT ![p].orphans = S, ![p].who = a, ![p].batch = Of(a, S)]
             \/ /\ job[p].end = "none" /\ pc' = [pc EXCEPT ![p] = "probe"]
                /\ job' = [job EXCEPT ![p] = Idle]
  <2>. DEFINE rest == job[p].orphans \ job[p].batch
              m == CHOOSE x \in rest : TRUE
  <2>1. CASE job[p].end # "none"
    BY <1>5, <1>8, <2>1 DEF Onward, Go
  <2>2. CASE job[p].end = "none" /\ rest = {}
    BY <1>5, <1>8, <2>2 DEF Onward, Go
  <2>3. CASE job[p].end = "none" /\ rest # {}
    <3>1. m \in rest
      BY <2>3
    <3>2. rest \subseteq Msg
      BY DEF TurnTypes, Job
    <3>3. To[m] \in Member
      BY <3>1, <3>2, DispatchAssumption
    <3>4. /\ pc' = [pc EXCEPT ![p] = "bury"]
          /\ job' = [job EXCEPT ![p].orphans = rest, ![p].who = To[m], ![p].batch = Of(To[m], rest)]
      BY <1>1, <1>5, <1>8, <2>3 DEF Onward, Go
    <3>5. rest \in SUBSET job[p].orphans /\ rest \cap job[p].batch = {}
      OBVIOUS
    <3>. HIDE DEF rest, m
    <3>6. QED BY <2>3, <3>3, <3>4, <3>5
  <2>4. QED BY <2>1, <2>2, <2>3
<1>9. QED BY <1>6, <1>7, <1>8

\* What the actions do to a process's variables keeps their types: a record of the type ...
LEMMA JobSet ==
  ASSUME TurnTypes, NEW p \in Proc, NEW j \in Job
  PROVE  [job EXCEPT ![p] = j] \in [Proc -> Job]
BY DEF TurnTypes

LEMMA NoneAged == <<>> \in UNION {[S -> Nat] : S \in SUBSET Member}
<1>1. <<>> \in [{} -> Nat] OBVIOUS
<1>2. QED BY <1>1

LEMMA JobIdle ==
  ASSUME TurnTypes, NEW p \in Proc
  PROVE  [job EXCEPT ![p] = Idle] \in [Proc -> Job]
<1>1. Idle \in Job
  BY NoneAged, DispatchAssumption DEF Idle, Job, Lock
<1>2. QED BY <1>1, JobSet

\* ... and a field at a time, by the actions that set it.
LEMMA JobTries ==
  ASSUME TurnTypes, NEW p \in Proc
  PROVE  [job EXCEPT ![p].tries = job[p].tries + 1] \in [Proc -> Job]
<1>1. job[p] \in Job /\ job \in [Proc -> Job]
  BY DEF TurnTypes
<1>2. [job[p] EXCEPT !.tries = job[p].tries + 1] \in Job
  <2>1. job[p].tries \in Nat BY <1>1 DEF Job
  <2>2. job[p].tries + 1 \in Nat BY <2>1
  <2>3. QED BY <1>1, <2>2 DEF Job
<1>3. [job EXCEPT ![p].tries = job[p].tries + 1] = [job EXCEPT ![p] = [job[p] EXCEPT !.tries =
        job[p].tries + 1]]
  BY <1>1
<1>4. QED BY <1>2, <1>3, JobSet

LEMMA JobBatch ==
  ASSUME TurnTypes, NEW p \in Proc
  PROVE  [job EXCEPT ![p].batch = {}] \in [Proc -> Job]
<1>1. job[p] \in Job /\ job \in [Proc -> Job]
  BY DEF TurnTypes
<1>2. [job[p] EXCEPT !.batch = {}] \in Job
  BY <1>1, DispatchAssumption DEF Job, Lock
<1>3. [job EXCEPT ![p].batch = {}] = [job EXCEPT ![p] = [job[p] EXCEPT !.batch = {}]]
  BY <1>1
<1>4. QED BY <1>2, <1>3, JobSet

LEMMA JobLiving ==
  ASSUME TurnTypes, NEW p \in Proc, NEW S \in SUBSET Member
  PROVE  [job EXCEPT ![p].living = S] \in [Proc -> Job]
<1>1. job[p] \in Job /\ job \in [Proc -> Job]
  BY DEF TurnTypes
<1>2. [job[p] EXCEPT !.living = S] \in Job
  BY <1>1, DispatchAssumption DEF Job, Lock
<1>3. [job EXCEPT ![p].living = S] = [job EXCEPT ![p] = [job[p] EXCEPT !.living = S]]
  BY <1>1
<1>4. QED BY <1>2, <1>3, JobSet

LEMMA JobLook ==
  ASSUME TurnTypes, NEW p \in Proc, NEW S \in SUBSET Member
  PROVE  [job EXCEPT ![p].cohort = S, ![p].ran = FALSE] \in [Proc -> Job]
<1>1. job[p] \in Job /\ job \in [Proc -> Job]
  BY DEF TurnTypes
<1>2. [job[p] EXCEPT !.cohort = S, !.ran = FALSE] \in Job
  BY <1>1, DispatchAssumption DEF Job, Lock
<1>3. [job EXCEPT ![p].cohort = S, ![p].ran = FALSE] = [job EXCEPT ![p] = [job[p] EXCEPT
        !.cohort = S, !.ran = FALSE]]
  BY <1>1
<1>4. QED BY <1>2, <1>3, JobSet

LEMMA JobClaim ==
  ASSUME TurnTypes, NEW p \in Proc, NEW S \in SUBSET Msg
  PROVE  [job EXCEPT ![p].batch = S, ![p].begun = TRUE] \in [Proc -> Job]
<1>1. job[p] \in Job /\ job \in [Proc -> Job]
  BY DEF TurnTypes
<1>2. [job[p] EXCEPT !.batch = S, !.begun = TRUE] \in Job
  BY <1>1, DispatchAssumption DEF Job, Lock
<1>3. [job EXCEPT ![p].batch = S, ![p].begun = TRUE] = [job EXCEPT ![p] = [job[p] EXCEPT !.batch
        = S, !.begun = TRUE]]
  BY <1>1
<1>4. QED BY <1>2, <1>3, JobSet

LEMMA JobEnd ==
  ASSUME TurnTypes, NEW p \in Proc, NEW e \in Outcome
  PROVE  [job EXCEPT ![p].end = e] \in [Proc -> Job]
<1>1. job[p] \in Job /\ job \in [Proc -> Job]
  BY DEF TurnTypes
<1>2. [job[p] EXCEPT !.end = e] \in Job
  BY <1>1, DispatchAssumption DEF Job, Lock
<1>3. [job EXCEPT ![p].end = e] = [job EXCEPT ![p] = [job[p] EXCEPT !.end = e]]
  BY <1>1
<1>4. QED BY <1>2, <1>3, JobSet

LEMMA JobOn ==
  ASSUME TurnTypes, NEW p \in Proc, NEW a \in Member
  PROVE  [job EXCEPT ![p].on = a, ![p].tries = 0] \in [Proc -> Job]
<1>1. job[p] \in Job /\ job \in [Proc -> Job]
  BY DEF TurnTypes
<1>2. [job[p] EXCEPT !.on = a, !.tries = 0] \in Job
  BY <1>1, DispatchAssumption DEF Job, Lock
<1>3. [job EXCEPT ![p].on = a, ![p].tries = 0] = [job EXCEPT ![p] = [job[p] EXCEPT !.on = a,
        !.tries = 0]]
  BY <1>1
<1>4. QED BY <1>2, <1>3, JobSet

LEMMA JobRead ==
  ASSUME TurnTypes, NEW p \in Proc, NEW S \in SUBSET Msg, NEW B \in SUBSET Msg, NEW a \in Member
         \cup {None}
  PROVE  [job EXCEPT ![p].orphans = S, ![p].living = {}, ![p].who = a, ![p].batch = B] \in [Proc
           -> Job]
<1>1. job[p] \in Job /\ job \in [Proc -> Job]
  BY DEF TurnTypes
<1>2. [job[p] EXCEPT !.orphans = S, !.living = {}, !.who = a, !.batch = B] \in Job
  BY <1>1, DispatchAssumption DEF Job, Lock
<1>3. [job EXCEPT ![p].orphans = S, ![p].living = {}, ![p].who = a, ![p].batch = B] = [job
        EXCEPT ![p] = [job[p] EXCEPT !.orphans = S, !.living = {}, !.who = a, !.batch = B]]
  BY <1>1
<1>4. QED BY <1>2, <1>3, JobSet

LEMMA JobNext ==
  ASSUME TurnTypes, NEW p \in Proc, NEW S \in SUBSET Msg, NEW B \in SUBSET Msg, NEW a \in Member
  PROVE  [job EXCEPT ![p].orphans = S, ![p].who = a, ![p].batch = B] \in [Proc -> Job]
<1>1. job[p] \in Job /\ job \in [Proc -> Job]
  BY DEF TurnTypes
<1>2. [job[p] EXCEPT !.orphans = S, !.who = a, !.batch = B] \in Job
  BY <1>1, DispatchAssumption DEF Job, Lock
<1>3. [job EXCEPT ![p].orphans = S, ![p].who = a, ![p].batch = B] = [job EXCEPT ![p] = [job[p]
        EXCEPT !.orphans = S, !.who = a, !.batch = B]]
  BY <1>1
<1>4. QED BY <1>2, <1>3, JobSet

LEMMA JobUnlock ==
  ASSUME TurnTypes, NEW p \in Proc
  PROVE  [job EXCEPT ![p].end = "none", ![p].batch = {}, ![p].aged = <<>>, ![p].who = None,
           ![p].on = Admission, ![p].tries = 0, ![p].ran = TRUE] \in [Proc -> Job]
<1>1. job[p] \in Job /\ job \in [Proc -> Job]
  BY DEF TurnTypes
<1>2. [job[p] EXCEPT !.end = "none", !.batch = {}, !.aged = <<>>, !.who = None, !.on =
        Admission, !.tries = 0, !.ran = TRUE] \in Job
  BY <1>1, NoneAged, DispatchAssumption DEF Job, Lock
<1>3. [job EXCEPT ![p].end = "none", ![p].batch = {}, ![p].aged = <<>>, ![p].who = None, ![p].on
        = Admission, ![p].tries = 0, ![p].ran = TRUE] = [job EXCEPT ![p] = [job[p] EXCEPT !.end
        = "none", !.batch = {}, !.aged = <<>>, !.who = None, !.on = Admission, !.tries = 0,
        !.ran = TRUE]]
  BY <1>1
<1>4. QED BY <1>2, <1>3, JobSet

LEMMA JobPick ==
  ASSUME TurnTypes, NEW p \in Proc, NEW a \in Member, NEW S \in SUBSET Member, NEW f \in [S ->
         Nat]
  PROVE  [job EXCEPT ![p].who = a, ![p].on = Admission, ![p].tries = 0, ![p].cohort =
           job[p].cohort \ {a}, ![p].aged = f] \in [Proc -> Job]
<1>1. job[p] \in Job /\ job \in [Proc -> Job]
  BY DEF TurnTypes
<1>2. [job[p] EXCEPT !.who = a, !.on = Admission, !.tries = 0, !.cohort = job[p].cohort \ {a},
        !.aged = f] \in Job
  <2>1. f \in UNION {[T -> Nat] : T \in SUBSET Member} OBVIOUS
  <2>2. QED BY <1>1, <2>1 DEF Job, Lock
<1>3. [job EXCEPT ![p].who = a, ![p].on = Admission, ![p].tries = 0, ![p].cohort = job[p].cohort
        \ {a}, ![p].aged = f] = [job EXCEPT ![p] = [job[p] EXCEPT !.who = a, !.on = Admission,
        !.tries = 0, !.cohort = job[p].cohort \ {a}, !.aged = f]]
  BY <1>1
<1>4. QED BY <1>2, <1>3, JobSet

\* The types.
LEMMA NextTypes == TurnTypes /\ AtInv /\ [Next]_vars => TurnTypes'
<1>. SUFFICES ASSUME TurnTypes, AtInv, [Next]_vars PROVE TurnTypes'
  OBVIOUS
<1>. USE DispatchAssumption DEF TurnTypes, Steps, mail, sched, counts
<1>1. ASSUME NEW p \in Proc, Sweep(p) PROVE TurnTypes'
  <2>1. job' \in [Proc -> Job]
    BY <1>1, JobLiving DEF Sweep, LiveTurns
  <2>2. QED BY <1>1, <2>1 DEF Sweep, Prune, Go, NoFile
<1>2. ASSUME NEW p \in Proc, Read(p) PROVE TurnTypes'
  <2>1. job' \in [Proc -> Job]
    <3>1. CASE Left(p) = {}
      <4>1. job' = [job EXCEPT ![p].orphans = {}, ![p].living = {}, ![p].who = None,
                               ![p].batch = Of(None, {})]
        BY <1>2, <3>1 DEF Read
      <4>2. Of(None, {}) = {} BY DEF Of
      <4>. HIDE DEF TurnTypes
      <4>3. QED BY <4>1, <4>2, JobRead
    <3>2. CASE Left(p) # {}
      <4>. DEFINE m == CHOOSE x \in Left(p) : TRUE
      <4>1. m \in Left(p) BY <3>2
      <4>2. Left(p) \subseteq Msg BY DEF Left
      <4>3. To[m] \in Member BY <4>1, <4>2
      <4>4. Of(To[m], Left(p)) \subseteq Msg BY <4>2 DEF Of
      <4>5. job' = [job EXCEPT ![p].orphans = Left(p), ![p].living = {}, ![p].who = To[m],
                               ![p].batch = Of(To[m], Left(p))]
        BY <1>2, <3>2 DEF Read
      <4>6. To[m] \in Member \cup {None} BY <4>3
      <4>. HIDE DEF m, TurnTypes
      <4>7. QED BY <4>2, <4>4, <4>5, <4>6, JobRead
    <3>3. QED BY <3>1, <3>2
  <2>2. mixed' \subseteq Msg
    BY <1>2 DEF Read, Left
  <2>3. QED BY <1>2, <2>1, <2>2, BurialSteps DEF Read, Go
<1>3. ASSUME NEW p \in Proc, Bury(p) PROVE TurnTypes'
  <2>1. job[p].batch \subseteq Msg BY DEF Job
  <2>2. QED BY <1>3, <2>1, OnwardSteps DEF Bury
<1>4. ASSUME NEW p \in Proc, Drop(p) PROVE TurnTypes'
  <2>1. pc' = [pc EXCEPT ![p] = "notify"] /\ job' = job
    BY <1>4, OnwardSteps DEF Drop
  <2>2. QED BY <1>4, <2>1 DEF Drop, Of
<1>5. ASSUME NEW p \in Proc, Notify(p) PROVE TurnTypes'
  <2>1. job' \in [Proc -> Job]
    <3>1. CASE job[p].end # "none"
      <4>1. job' = [job EXCEPT ![p].batch = {}]
        BY <1>5, <3>1, OnwardSteps DEF Notify
      <4>2. QED BY <4>1, JobBatch
    <3>2. CASE job[p].end = "none"
      <4>1. job[p].orphans \subseteq Msg BY DEF Job
      <4>2. \A S \in SUBSET job[p].orphans, a \in Member : Of(a, S) \subseteq Msg
        BY <4>1 DEF Of
      <4>3. CASE job' = [job EXCEPT ![p] = Idle]
        BY <4>3, JobIdle
      <4>4. CASE job' # [job EXCEPT ![p] = Idle]
        <5>1. PICK S \in SUBSET job[p].orphans, a \in Member :
                job' = [job EXCEPT ![p].orphans = S, ![p].who = a, ![p].batch = Of(a, S)]
          BY <1>5, <3>2, <4>4, OnwardSteps DEF Notify
        <5>2. S \in SUBSET Msg /\ Of(a, S) \in SUBSET Msg BY <4>1, <4>2
        <5>. HIDE DEF TurnTypes
        <5>3. QED BY <5>1, <5>2, JobNext
      <4>5. QED BY <4>3, <4>4
    <3>3. QED BY <3>1, <3>2
  <2>2. pc' \in [Proc -> Steps]
    <3>1. Onward(p, "notify") BY <1>5 DEF Notify
    <3>2. \E step \in {"park", "unlock", "bury", "probe"} : pc' = [pc EXCEPT ![p] = step]
      BY <3>1, OnwardSteps
    <3>3. QED BY <3>2
  <2>3. {Notice[m] : m \in job[p].batch} \ ({None} \cup sent) \subseteq Msg
    BY DEF Job
  <2>4. QED BY <1>5, <2>1, <2>2, <2>3 DEF Notify
<1>6. ASSUME NEW p \in Proc, NEW back \in SUBSET parked, Probe(p, back) PROVE TurnTypes'
  BY <1>6 DEF Probe, Prune, Go, NoFile
<1>7. ASSUME NEW p \in Proc, Look(p) PROVE TurnTypes'
  <2>1. job' \in [Proc -> Job]
    BY <1>7, JobLook DEF Look
  <2>2. QED BY <1>7, <2>1 DEF Look, Go
<1>8. ASSUME NEW p \in Proc, Pick(p) PROVE TurnTypes'
  <2>1. job' \in [Proc -> Job]
    <3>1. PICK a \in job[p].cohort \cap ReadyNow :
            job' = [job EXCEPT ![p].who = a, ![p].on = Admission, ![p].tries = 0,
                               ![p].cohort = job[p].cohort \ {a}, ![p].aged = [b \in ReadyNow |-> passes[b]]]
      BY <1>8 DEF Pick
    <3>2. ReadyNow \in SUBSET Member BY DEF ReadyNow
    <3>3. [b \in ReadyNow |-> passes[b]] \in [ReadyNow -> Nat]
      BY <3>2
    <3>4. a \in Member BY <3>2
    <3>. HIDE DEF TurnTypes
    <3>5. QED BY <3>1, <3>2, <3>3, <3>4, JobPick
  <2>2. QED BY <1>8, <2>1 DEF Pick, Go
<1>9. ASSUME NEW p \in Proc, EndPass(p) PROVE TurnTypes'
  <2>1. job' = job \/ job' = [job EXCEPT ![p] = Idle]
    BY <1>9 DEF EndPass
  <2>2. job' \in [Proc -> Job]
    <3>1. [job EXCEPT ![p] = Idle] \in [Proc -> Job] BY JobIdle
    <3>2. QED BY <2>1, <3>1
  <2>3. QED BY <1>9, <2>2 DEF EndPass, Go
<1>10. ASSUME NEW p \in Proc, OutOfTime(p) PROVE TurnTypes'
  <2>1. job' \in [Proc -> Job]
    BY <1>10, JobIdle DEF OutOfTime
  <2>2. QED BY <1>10, <2>1 DEF OutOfTime, Go
<1>11. ASSUME NEW p \in Proc, Create(p) PROVE TurnTypes'
  <2>1. job[p].on \in Lock BY DEF Job
  <2>2. QED BY <1>11, <2>1 DEF Create, Go
<1>12. ASSUME NEW p \in Proc, Write(p) PROVE TurnTypes'
  <2>1. job[p].on \in Lock BY DEF Job
  <2>2. lock' \in [Lock -> [by : Proc \cup {None, Gone}, told : BOOLEAN]]
    <3>1. [lock[job[p].on] EXCEPT !.told = TRUE] \in [by : Proc \cup {None, Gone}, told : BOOLEAN]
      <4>1. lock[job[p].on] \in [by : Proc \cup {None, Gone}, told : BOOLEAN] BY <2>1
      <4>. HIDE DEF TurnTypes
      <4>2. QED BY <4>1
    <3>2. [lock EXCEPT ![job[p].on].told = TRUE]
            = [lock EXCEPT ![job[p].on] = [lock[job[p].on] EXCEPT !.told = TRUE]]
      BY <2>1
    <3>3. lock' = lock \/ lock' = [lock EXCEPT ![job[p].on].told = TRUE]
      BY <1>12 DEF Write
    <3>4. QED BY <2>1, <3>1, <3>2, <3>3
  <2>3. QED BY <1>12, <2>2 DEF Write, Go
<1>13. ASSUME NEW p \in Proc, FindStale(p) PROVE TurnTypes'
  BY <1>13 DEF FindStale, Go
<1>14. ASSUME NEW p \in Proc, Unlink(p) PROVE TurnTypes'
  <2>1. job[p].on \in Lock BY DEF Job
  <2>2. job' \in [Proc -> Job]
    <3>1. job' = job \/ job' = [job EXCEPT ![p].tries = job[p].tries + 1]
      BY <1>14 DEF Unlink
    <3>2. [job EXCEPT ![p].tries = job[p].tries + 1] \in [Proc -> Job] BY JobTries
    <3>3. QED BY <3>1, <3>2
  <2>3. lock' \in [Lock -> [by : Proc \cup {None, Gone}, told : BOOLEAN]]
    <3>1. NoFile \in [by : Proc \cup {None, Gone}, told : BOOLEAN]
      BY DEF NoFile
    <3>2. lock' = lock \/ lock' = [lock EXCEPT ![job[p].on] = NoFile]
      BY <1>14 DEF Unlink
    <3>3. QED BY <2>1, <3>1, <3>2
  <2>4. pc' \in [Proc -> Steps]
    BY <1>14 DEF Unlink, Go, Refusal
  <2>5. QED BY <1>14, <2>2, <2>3, <2>4 DEF Unlink
<1>15. ASSUME NEW p \in Proc, Locked(p) PROVE TurnTypes'
  BY <1>15 DEF Locked, Go, Refusal
<1>16. ASSUME NEW p \in Proc, Live(p) PROVE TurnTypes'
  <2>1. CASE Admits(p)
    <3>1. job' \in [Proc -> Job]
      <4>1. job' = [job EXCEPT ![p].on = job[p].who, ![p].tries = 0]
        BY <1>16, <2>1 DEF Live, Who
      <4>2. job[p].who \in Member
        BY <1>16 DEF Live, AtInv, Who
      <4>3. QED BY <4>1, <4>2, JobOn
    <3>2. QED BY <1>16, <2>1, <3>1 DEF Live, Prune, Go, NoFile
  <2>2. CASE ~Admits(p)
    BY <1>16, <2>2 DEF Live, Prune, Go, NoFile
  <2>3. QED BY <2>1, <2>2
<1>17. ASSUME NEW p \in Proc, Leave(p) PROVE TurnTypes'
  BY <1>17 DEF Leave, Released, Go, NoFile
<1>18. ASSUME NEW p \in Proc, Charge(p) PROVE TurnTypes'
  BY <1>18 DEF Charge, Go
<1>19. ASSUME NEW p \in Proc, Unaffordable(p) PROVE TurnTypes'
  BY <1>19 DEF Unaffordable, Released, Go, NoFile
<1>20. ASSUME NEW p \in Proc, Unadmit(p) PROVE TurnTypes'
  BY <1>20 DEF Unadmit, Released, Go, NoFile
<1>21. ASSUME NEW p \in Proc, Claim(p) PROVE TurnTypes'
  <2>1. job' \in [Proc -> Job]
    BY <1>21, JobClaim DEF Claim, Of
  <2>2. QED BY <1>21, <2>1 DEF Claim, Go, Of, Moved
<1>22. ASSUME NEW p \in Proc, Launch(p) PROVE TurnTypes'
  BY <1>22 DEF Launch, Go
<1>23. ASSUME NEW p \in Proc, PutBack(p) PROVE TurnTypes'
  <2>1. job' \in [Proc -> Job]
    BY <1>23, JobIdle DEF PutBack
  <2>2. QED BY <1>23, <2>1 DEF PutBack, Go, Of, Released, NoFile
<1>24. ASSUME NEW p \in Proc, NEW end \in Outcome, NEW staged \in SUBSET (Msg \ Ingress),
               Return(p, end, staged)
       PROVE  TurnTypes'
  <2>1. job' \in [Proc -> Job]
    BY <1>24, JobEnd DEF Return
  <2>2. QED BY <1>24, <2>1, BurialSteps DEF Return, Go, Ingest
<1>25. ASSUME NEW p \in Proc, Settle(p) PROVE TurnTypes'
  <2>1. job' \in [Proc -> Job]
    BY <1>25, JobBatch DEF Settle
  <2>2. job[p].batch \subseteq Msg BY DEF Job
  <2>3. QED BY <1>25, <2>1, <2>2 DEF Settle, Go, Of
<1>26. ASSUME NEW p \in Proc, Park(p) PROVE TurnTypes'
  BY <1>26 DEF Park, Go
<1>27. ASSUME NEW p \in Proc, Unlock(p) PROVE TurnTypes'
  <2>1. job' \in [Proc -> Job]
    BY <1>27, JobUnlock DEF Unlock
  <2>2. passes' \in [Member -> Nat]
    <3>1. PICK S \in SUBSET Member : job[p].aged \in [S -> Nat]
      <4>1. job[p] \in Job BY DEF TurnTypes
      <4>2. job[p].aged \in UNION {[S -> Nat] : S \in SUBSET Member} BY <4>1 DEF Job
      <4>3. PICK T \in {[S -> Nat] : S \in SUBSET Member} : job[p].aged \in T
        BY <4>2
      <4>4. QED BY <4>3
    <3>2. \A b \in S : job[p].aged[b] + 1 \in Nat
      <4>1. \A b \in S : job[p].aged[b] \in Nat BY <3>1
      <4>2. QED BY <4>1
    <3>3. QED BY <1>27, <3>1, <3>2 DEF Unlock, Aged
  <2>3. QED BY <1>27, <2>1, <2>2 DEF Unlock, Released, Go, NoFile
<1>28. ASSUME NEW p \in Proc, BeginIdle(p) \/ Skip(p) PROVE TurnTypes'
  BY <1>28 DEF BeginIdle, Skip, Go
<1>29. ASSUME NEW p \in Proc, Die(p) PROVE TurnTypes'
  <2>1. job' \in [Proc -> Job]
    BY <1>29, JobIdle DEF Die
  <2>2. QED BY <1>29, <2>1 DEF Die, Go
<1>30. ASSUME NEW p \in Proc, NEW m \in Ingress, Dispatch(p, m) PROVE TurnTypes'
  BY <1>30 DEF Dispatch, Go, Ingest
<1>31. ASSUME Elsewhere PROVE TurnTypes'
  BY <1>31 DEF Elsewhere, Earn, HarnessEnds, mail, counts
<1>32. CASE UNCHANGED vars
  BY <1>32 DEF vars, mail, sched, counts
<1>. HIDE DEF TurnTypes
<1>33. ASSUME NEW p \in Proc, Walk(p) PROVE TurnTypes'
  BY <1>1, <1>2, <1>3, <1>4, <1>5, <1>6, <1>7, <1>8, <1>9, <1>10, <1>11, <1>12, <1>13,
     <1>14, <1>15, <1>16, <1>17, <1>18, <1>19, <1>20, <1>21, <1>22, <1>23, <1>24, <1>25,
     <1>26, <1>27, <1>33
  DEF Walk
<1>34. QED BY <1>28, <1>29, <1>30, <1>31, <1>32, <1>33 DEF Next, Elsewhere

\* Whom a process is at.
LEMMA NextAt == TurnTypes /\ AtInv /\ [Next]_vars => AtInv'
<1>. SUFFICES ASSUME TurnTypes, AtInv, [Next]_vars PROVE AtInv'
  OBVIOUS
<1>. USE DispatchAssumption DEF TurnTypes, Job, AtInv, Who, Burying, Idle
<1>1. ASSUME NEW p \in Proc, Sweep(p) PROVE AtInv'
  BY <1>1 DEF Sweep, Go
<1>2. ASSUME NEW p \in Proc, Read(p) PROVE AtInv'
  <2>. DEFINE a == IF Left(p) = {} THEN None ELSE To[CHOOSE m \in Left(p) : TRUE]
  <2>0. job' = [job EXCEPT ![p].orphans = Left(p), ![p].living = {}, ![p].who = a, ![p].batch = Of(a, Left(p))]
    BY <1>2 DEF Read
  <2>. HIDE DEF a
  <2>1. /\ pc[p] = "read" /\ pc'[p] \in {"probe", "bury"}
        /\ \A q \in Proc \ {p} : pc'[q] = pc[q] /\ job'[q] = job[q]
    <3>1. pc[p] = "read" /\ \E s \in {"probe", "bury"} : pc' = [pc EXCEPT ![p] = s]
      <4>. HIDE DEF Job
      <4>1. QED BY <1>2, BurialSteps DEF Read, Go
    <3>2. \A q \in Proc \ {p} : job'[q] = job[q] BY <2>0
    <3>3. QED BY <3>1, <3>2
  <2>2. job'[p].end = "none"
    <3>1. job[p].end = "none" BY <2>1
    <3>2. job'[p].end = job[p].end BY <2>0
    <3>3. QED BY <3>1, <3>2
  <2>. HIDE DEF Job, TurnTypes
  <2>3. QED BY <2>1, <2>2
<1>3. ASSUME NEW p \in Proc, Bury(p) PROVE AtInv'
  <2>1. pc[p] = "bury" /\ pc' = [pc EXCEPT ![p] = "drop"] /\ job' = job
    BY <1>3, OnwardSteps DEF Bury
  <2>2. QED BY <2>1
<1>4. ASSUME NEW p \in Proc, Drop(p) PROVE AtInv'
  <2>1. pc[p] = "drop" /\ pc' = [pc EXCEPT ![p] = "notify"] /\ job' = job
    BY <1>4, OnwardSteps DEF Drop
  <2>2. QED BY <2>1
<1>5. ASSUME NEW p \in Proc, Notify(p) PROVE AtInv'
  <2>1. CASE job[p].end # "none"
    <3>1. /\ job' = [job EXCEPT ![p].batch = {}] /\ pc[p] = "notify"
          /\ \E s \in {"park", "unlock"} : pc' = [pc EXCEPT ![p] = s]
      BY <1>5, <2>1, OnwardSteps DEF Notify
    <3>2. \A q \in Proc : job'[q].who = job[q].who /\ job'[q].on = job[q].on /\ job'[q].end = job[q].end
      BY <3>1
    <3>3. pc'[p] \in {"park", "unlock"} /\ \A q \in Proc \ {p} : pc'[q] = pc[q]
      BY <3>1
    <3>. HIDE DEF Job, TurnTypes
    <3>4. QED BY <2>1, <3>1, <3>2, <3>3
  <2>2. CASE job[p].end = "none"
    <3>1. /\ pc[p] = "notify" /\ pc'[p] \in {"bury", "probe"}
          /\ \A q \in Proc \ {p} : pc'[q] = pc[q]
      <4>1. pc[p] = "notify" BY <1>5 DEF Notify
      <4>2. \E s \in {"bury", "probe"} : pc' = [pc EXCEPT ![p] = s]
        <5>1. Onward(p, "notify") BY <1>5 DEF Notify
        <5>. HIDE DEF Job, TurnTypes
        <5>2. QED BY <2>2, <5>1, OnwardSteps
      <4>3. QED BY <4>1, <4>2
    <3>2. (\A q \in Proc \ {p} : job'[q] = job[q]) /\ job'[p].end = "none"
      <4>1. CASE job' = [job EXCEPT ![p] = Idle]
        BY <4>1
      <4>2. CASE job' # [job EXCEPT ![p] = Idle]
        <5>. HIDE DEF TurnTypes, Job
        <5>1. Onward(p, "notify")
          BY <1>5 DEF Notify
        <5>2. PICK S \in SUBSET job[p].orphans, a \in Member :
                /\ S \cap job[p].batch = {}
                /\ job' = [job EXCEPT ![p].orphans = S, ![p].who = a, ![p].batch = Of(a, S)]
          BY <2>2, <4>2, <5>1, OnwardSteps
        <5>3. QED BY <2>2, <5>2 DEF TurnTypes, Job
      <4>3. QED BY <4>1, <4>2
    <3>. HIDE DEF Job, TurnTypes
    <3>3. QED BY <3>1, <3>2
  <2>3. QED BY <2>1, <2>2
<1>6. ASSUME NEW p \in Proc, NEW back \in SUBSET parked, Probe(p, back) PROVE AtInv'
  BY <1>6 DEF Probe, Go
<1>7. ASSUME NEW p \in Proc, Look(p) PROVE AtInv'
  BY <1>7 DEF Look, Go
<1>8. ASSUME NEW p \in Proc, Pick(p) PROVE AtInv'
  BY <1>8 DEF Pick, Go
<1>9. ASSUME NEW p \in Proc, EndPass(p) PROVE AtInv'
  BY <1>9 DEF EndPass, Go
<1>10. ASSUME NEW p \in Proc, OutOfTime(p) PROVE AtInv'
  BY <1>10 DEF OutOfTime, Go
<1>11. ASSUME NEW p \in Proc, Create(p) PROVE AtInv'
  BY <1>11 DEF Create, Go
<1>12. ASSUME NEW p \in Proc, Write(p) PROVE AtInv'
  BY <1>12 DEF Write, Go
<1>13. ASSUME NEW p \in Proc, FindStale(p) PROVE AtInv'
  BY <1>13 DEF FindStale, Go
<1>14. ASSUME NEW p \in Proc, Unlink(p) PROVE AtInv'
  <2>0. job' = job \/ job' = [job EXCEPT ![p].tries = job[p].tries + 1]
    BY <1>14 DEF Unlink
  <2>1. \A q \in Proc : job'[q].who = job[q].who /\ job'[q].on = job[q].on /\ job'[q].end = job[q].end
    BY <2>0
  <2>2. /\ pc[p] = "unlink" /\ pc'[p] \in {"try", "pick", "leave"}
        /\ \A q \in Proc \ {p} : pc'[q] = pc[q]
    BY <1>14 DEF Unlink, Go, Refusal
  <2>. HIDE DEF Job, TurnTypes
  <2>3. QED BY <2>1, <2>2
<1>15. ASSUME NEW p \in Proc, Locked(p) PROVE AtInv'
  BY <1>15 DEF Locked, Go, Refusal
<1>16. ASSUME NEW p \in Proc, Live(p) PROVE AtInv'
  BY <1>16 DEF Live, Go
<1>17. ASSUME NEW p \in Proc, Leave(p) PROVE AtInv'
  BY <1>17 DEF Leave, Go
<1>18. ASSUME NEW p \in Proc, Charge(p) PROVE AtInv'
  BY <1>18 DEF Charge, Go
<1>19. ASSUME NEW p \in Proc, Unaffordable(p) PROVE AtInv'
  BY <1>19 DEF Unaffordable, Go
<1>20. ASSUME NEW p \in Proc, Unadmit(p) PROVE AtInv'
  BY <1>20 DEF Unadmit, Go
<1>21. ASSUME NEW p \in Proc, Claim(p) PROVE AtInv'
  BY <1>21 DEF Claim, Go
<1>22. ASSUME NEW p \in Proc, Launch(p) PROVE AtInv'
  BY <1>22 DEF Launch, Go
<1>23. ASSUME NEW p \in Proc, PutBack(p) PROVE AtInv'
  BY <1>23 DEF PutBack, Go
<1>24. ASSUME NEW p \in Proc, NEW end \in Outcome, NEW staged \in SUBSET (Msg \ Ingress),
               Return(p, end, staged)
       PROVE  AtInv'
  BY <1>24, BurialSteps DEF Return, Go
<1>25. ASSUME NEW p \in Proc, Settle(p) PROVE AtInv'
  BY <1>25 DEF Settle, Go
<1>26. ASSUME NEW p \in Proc, Park(p) PROVE AtInv'
  BY <1>26 DEF Park, Go
<1>27. ASSUME NEW p \in Proc, Unlock(p) PROVE AtInv'
  BY <1>27 DEF Unlock, Go
<1>28. ASSUME NEW p \in Proc, BeginIdle(p) \/ Skip(p) PROVE AtInv'
  BY <1>28 DEF BeginIdle, Skip, Go
<1>29. ASSUME NEW p \in Proc, Die(p) PROVE AtInv'
  BY <1>29 DEF Die, Go
<1>30. ASSUME NEW p \in Proc, NEW m \in Ingress, Dispatch(p, m) PROVE AtInv'
  BY <1>30 DEF Dispatch, Go
<1>31. ASSUME Elsewhere PROVE AtInv'
  BY <1>31 DEF Elsewhere, Earn, HarnessEnds, mail, counts
<1>32. CASE UNCHANGED vars
  BY <1>32 DEF vars, mail, sched, counts
<1>. HIDE DEF AtInv
<1>33. ASSUME NEW p \in Proc, Walk(p) PROVE AtInv'
  BY <1>1, <1>2, <1>3, <1>4, <1>5, <1>6, <1>7, <1>8, <1>9, <1>10, <1>11, <1>12, <1>13,
     <1>14, <1>15, <1>16, <1>17, <1>18, <1>19, <1>20, <1>21, <1>22, <1>23, <1>24, <1>25,
     <1>26, <1>27, <1>33
  DEF Walk
<1>34. QED BY <1>28, <1>29, <1>30, <1>31, <1>32, <1>33 DEF Next, Elsewhere

\* What a process may do.
Acts(p) == Walk(p) \/ BeginIdle(p) \/ Skip(p) \/ Die(p) \/ \E m \in Ingress : Dispatch(p, m)
\* It moves no other process, and leaves the locks of others alone, or steals one.
OneMoves(p) == \A q \in Proc \ {p} : pc'[q] = pc[q] /\ job'[q] = job[q]
KeepsOut(p) ==
  ~stolen' => ~stolen /\ \A q \in Proc \ {p}, l \in Lock : lock[l].by = q => lock'[l] = lock[l]

\* Every action is one process's.
LEMMA Others ==
  ASSUME TurnTypes, NEW p \in Proc, Acts(p)
  PROVE  OneMoves(p)
<1>. USE DispatchAssumption DEF TurnTypes, OneMoves
<1>1. CASE Sweep(p)
  BY <1>1 DEF Sweep, Go
<1>2. CASE Read(p)
  BY <1>2 DEF Read, Go
<1>3. CASE Bury(p)
  <2>1. pc' = [pc EXCEPT ![p] = "drop"] /\ job' = job
    BY <1>3, OnwardSteps DEF Bury
  <2>2. QED BY <2>1
<1>4. CASE Drop(p)
  <2>1. pc' = [pc EXCEPT ![p] = "notify"] /\ job' = job
    BY <1>4, OnwardSteps DEF Drop
  <2>2. QED BY <2>1
<1>5. CASE Notify(p)
  <2>1. Onward(p, "notify") BY <1>5 DEF Notify
  <2>2. \E s \in Steps : pc' = [pc EXCEPT ![p] = s]
    BY <2>1, OnwardSteps DEF Steps
  <2>3. CASE job' = [job EXCEPT ![p].batch = {}]
    BY <2>2, <2>3
  <2>4. CASE job' = [job EXCEPT ![p] = Idle]
    BY <2>2, <2>4
  <2>5. CASE \E S \in SUBSET job[p].orphans, a \in Member :
               job' = [job EXCEPT ![p].orphans = S, ![p].who = a, ![p].batch = Of(a, S)]
    BY <2>2, <2>5
  <2>6. QED BY <2>1, <2>3, <2>4, <2>5, OnwardSteps
<1>6. ASSUME NEW back \in SUBSET parked, Probe(p, back) PROVE OneMoves(p)
  BY <1>6 DEF Probe, Go
<1>7. CASE Look(p)
  BY <1>7 DEF Look, Go
<1>8. CASE Pick(p)
  BY <1>8 DEF Pick, Go
<1>9. CASE EndPass(p)
  BY <1>9 DEF EndPass, Go
<1>10. CASE OutOfTime(p)
  BY <1>10 DEF OutOfTime, Go
<1>11. CASE Create(p)
  BY <1>11 DEF Create, Go
<1>12. CASE Write(p)
  BY <1>12 DEF Write, Go
<1>13. CASE FindStale(p)
  BY <1>13 DEF FindStale, Go
<1>14. CASE Unlink(p)
  BY <1>14 DEF Unlink, Go
<1>15. CASE Locked(p)
  BY <1>15 DEF Locked, Go
<1>16. CASE Live(p)
  BY <1>16 DEF Live, Go
<1>17. CASE Leave(p)
  BY <1>17 DEF Leave, Go
<1>18. CASE Charge(p)
  BY <1>18 DEF Charge, Go
<1>19. CASE Unaffordable(p)
  BY <1>19 DEF Unaffordable, Go
<1>20. CASE Unadmit(p)
  BY <1>20 DEF Unadmit, Go
<1>21. CASE Claim(p)
  BY <1>21 DEF Claim, Go
<1>22. CASE Launch(p)
  BY <1>22 DEF Launch, Go
<1>23. CASE PutBack(p)
  BY <1>23 DEF PutBack, Go
<1>24. ASSUME NEW end \in Outcome, NEW staged \in SUBSET (Msg \ Ingress),
               Return(p, end, staged)
       PROVE  OneMoves(p)
  BY <1>24 DEF Return, Go
<1>25. CASE Settle(p)
  BY <1>25 DEF Settle, Go
<1>26. CASE Park(p)
  BY <1>26 DEF Park, Go
<1>27. CASE Unlock(p)
  BY <1>27 DEF Unlock, Go
<1>28. CASE BeginIdle(p) \/ Skip(p)
  BY <1>28 DEF BeginIdle, Skip, Go
<1>29. CASE Die(p)
  BY <1>29 DEF Die, Go
<1>30. ASSUME NEW m \in Ingress, Dispatch(p, m) PROVE OneMoves(p)
  BY <1>30 DEF Dispatch, Go
<1>. HIDE DEF OneMoves
<1>31. CASE Walk(p)
  BY <1>1, <1>2, <1>3, <1>4, <1>5, <1>6, <1>7, <1>8, <1>9, <1>10, <1>11, <1>12, <1>13,
     <1>14, <1>15, <1>16, <1>17, <1>18, <1>19, <1>20, <1>21, <1>22, <1>23, <1>24, <1>25,
     <1>26, <1>27, <1>31
  DEF Walk
<1>32. QED BY <1>28, <1>29, <1>30, <1>31 DEF Acts

\* No action takes another's lock but as a theft.
LEMMA TheirLocks ==
  ASSUME TurnTypes, NEW p \in Proc, Acts(p)
  PROVE  KeepsOut(p)
<1>. USE DispatchAssumption DEF TurnTypes, mail, sched, counts, KeepsOut
<1>1. CASE Sweep(p)
  <2>1. Prune
    BY <1>1 DEF Sweep
  <2>2. QED BY <2>1 DEF Prune, Stale, Held
<1>2. CASE Read(p)
  BY <1>2 DEF Read
<1>3. CASE Bury(p)
  BY <1>3 DEF Bury
<1>4. CASE Drop(p)
  BY <1>4 DEF Drop
<1>5. CASE Notify(p)
  BY <1>5 DEF Notify
<1>6. ASSUME NEW back \in SUBSET parked, Probe(p, back) PROVE KeepsOut(p)
  <2>1. Prune
    BY <1>6 DEF Probe
  <2>2. QED BY <2>1 DEF Prune, Stale, Held
<1>7. CASE Look(p)
  BY <1>7 DEF Look
<1>8. CASE Pick(p)
  BY <1>8 DEF Pick
<1>9. CASE EndPass(p)
  BY <1>9 DEF EndPass
<1>10. CASE OutOfTime(p)
  BY <1>10 DEF OutOfTime
<1>11. CASE Create(p)
  BY <1>11 DEF Create, NoFile
<1>12. CASE Write(p)
  BY <1>12 DEF Write
<1>13. CASE FindStale(p)
  BY <1>13 DEF FindStale
<1>14. CASE Unlink(p)
  <2>1. CASE lock[job[p].on] = NoFile
    BY <1>14, <2>1 DEF Unlink
  <2>2. CASE lock[job[p].on] # NoFile
    <3>1. /\ lock' = [lock EXCEPT ![job[p].on] = NoFile]
          /\ stolen' = (stolen \/ lock[job[p].on].by \in Proc)
      BY <1>14, <2>2 DEF Unlink
    <3>2. QED BY <3>1
  <2>3. QED BY <2>1, <2>2
<1>15. CASE Locked(p)
  BY <1>15 DEF Locked
<1>16. CASE Live(p)
  <2>1. Prune
    BY <1>16 DEF Live
  <2>2. QED BY <2>1 DEF Prune, Stale, Held
<1>17. CASE Leave(p)
  <2>1. Released(Admission, p)
    BY <1>17 DEF Leave
  <2>2. QED BY <2>1 DEF Released
<1>18. CASE Charge(p)
  BY <1>18 DEF Charge
<1>19. CASE Unaffordable(p)
  <2>1. Released(Who(p), p)
    BY <1>19 DEF Unaffordable
  <2>2. QED BY <2>1 DEF Released
<1>20. CASE Unadmit(p)
  <2>1. Released(Admission, p)
    BY <1>20 DEF Unadmit
  <2>2. QED BY <2>1 DEF Released
<1>21. CASE Claim(p)
  BY <1>21 DEF Claim
<1>22. CASE Launch(p)
  BY <1>22 DEF Launch
<1>23. CASE PutBack(p)
  <2>1. Released(Who(p), p)
    BY <1>23 DEF PutBack
  <2>2. QED BY <2>1 DEF Released
<1>24. ASSUME NEW end \in Outcome, NEW staged \in SUBSET (Msg \ Ingress),
               Return(p, end, staged)
       PROVE  KeepsOut(p)
  BY <1>24 DEF Return
<1>25. CASE Settle(p)
  BY <1>25 DEF Settle
<1>26. CASE Park(p)
  BY <1>26 DEF Park
<1>27. CASE Unlock(p)
  <2>1. Released(Who(p), p)
    BY <1>27 DEF Unlock
  <2>2. QED BY <2>1 DEF Released
<1>28. CASE BeginIdle(p) \/ Skip(p)
  BY <1>28 DEF BeginIdle, Skip
<1>29. CASE Die(p)
  BY <1>29 DEF Die
<1>30. ASSUME NEW m \in Ingress, Dispatch(p, m) PROVE KeepsOut(p)
  BY <1>30 DEF Dispatch
<1>. HIDE DEF KeepsOut
<1>31. CASE Walk(p)
  BY <1>1, <1>2, <1>3, <1>4, <1>5, <1>6, <1>7, <1>8, <1>9, <1>10, <1>11, <1>12, <1>13,
     <1>14, <1>15, <1>16, <1>17, <1>18, <1>19, <1>20, <1>21, <1>22, <1>23, <1>24, <1>25,
     <1>26, <1>27, <1>31
  DEF Walk
<1>32. QED BY <1>28, <1>29, <1>30, <1>31 DEF Acts

\* What a process holds after a step, it holds by right.
KeepsHold(p) == ~stolen' => Holds(p)'

\* A process that takes a lock has it, and keeps what it has.
LEMMA MyLocks ==
  ASSUME TurnTypes, AtInv, LockInv, NEW p \in Proc, Acts(p)
  PROVE  KeepsHold(p)
<1>. USE DispatchAssumption DEF TurnTypes, Job, AtInv, LockInv, Holds, HasAdmission, HasOwn,
   InTurn, Who, Burying, Idle, mail, sched, counts, Lock, KeepsHold
<1>1. CASE Sweep(p)
  BY <1>1, BurialSteps DEF Sweep, Go, Prune, Stale, Held, NoFile
<1>2. CASE Read(p)
  <2>. DEFINE a == IF Left(p) = {} THEN None ELSE To[CHOOSE m \in Left(p) : TRUE]
  <2>0. job' = [job EXCEPT ![p].orphans = Left(p), ![p].living = {}, ![p].who = a, ![p].batch = Of(a, Left(p))]
    BY <1>2 DEF Read
  <2>. HIDE DEF a
  <2>1. /\ pc[p] = "read" /\ pc'[p] \in {"probe", "bury"}
    <3>1. pc[p] = "read" /\ \E s \in {"probe", "bury"} : pc' = [pc EXCEPT ![p] = s]
      <4>. HIDE DEF Job
      <4>1. QED BY <1>2, BurialSteps DEF Read, Go
    <3>2. QED BY <3>1
  <2>2. job'[p].end = "none"
    <3>1. job[p].end = "none" BY <2>1
    <3>2. job'[p].end = job[p].end BY <2>0
    <3>3. QED BY <3>1, <3>2
  <2>. HIDE DEF Job, TurnTypes
  <2>3. QED BY <2>1, <2>2
<1>3. CASE Bury(p)
  <2>1. pc[p] = "bury" /\ pc' = [pc EXCEPT ![p] = "drop"] /\ UNCHANGED <<job, lock, stolen>>
    BY <1>3, OnwardSteps DEF Bury
  <2>2. pc'[p] = "drop" BY <2>1
  <2>. HIDE DEF Job, TurnTypes
  <2>3. QED BY <2>1, <2>2, BurialSteps
<1>4. CASE Drop(p)
  <2>1. pc[p] = "drop" /\ pc' = [pc EXCEPT ![p] = "notify"] /\ UNCHANGED <<job, lock, stolen>>
    BY <1>4, OnwardSteps DEF Drop
  <2>2. pc'[p] = "notify" BY <2>1
  <2>. HIDE DEF Job, TurnTypes
  <2>3. QED BY <2>1, <2>2, BurialSteps
<1>5. CASE Notify(p)
  <2>1. pc[p] = "notify" /\ Onward(p, "notify") /\ UNCHANGED <<lock, stolen>>
    BY <1>5 DEF Notify
  <2>2. CASE job[p].end # "none"
    <3>1. job' = [job EXCEPT ![p].batch = {}] /\ \E s \in {"park", "unlock"} : pc' = [pc EXCEPT ![p] = s]
      BY <2>1, <2>2, OnwardSteps
    <3>2. job'[p].who = job[p].who /\ job'[p].on = job[p].on /\ job'[p].end = job[p].end
      BY <3>1
    <3>3. pc'[p] \in {"park", "unlock"}
      BY <3>1
    <3>. HIDE DEF Job, TurnTypes
    <3>4. QED BY <2>1, <2>2, <3>2, <3>3, BurialSteps
  <2>3. CASE job[p].end = "none"
    <3>1. pc'[p] \in {"bury", "probe"}
      <4>1. \E s \in {"bury", "probe"} : pc' = [pc EXCEPT ![p] = s]
        BY <2>1, <2>3, OnwardSteps
      <4>2. QED BY <4>1
    <3>2. job'[p].end = "none"
      <4>1. CASE job' = [job EXCEPT ![p] = Idle]
        BY <4>1
      <4>2. CASE job' # [job EXCEPT ![p] = Idle]
        <5>. HIDE DEF TurnTypes, Job
        <5>1. PICK S \in SUBSET job[p].orphans, a \in Member :
                /\ S \cap job[p].batch = {}
                /\ job' = [job EXCEPT ![p].orphans = S, ![p].who = a, ![p].batch = Of(a, S)]
          BY <2>1, <2>3, <4>2, OnwardSteps
        <5>2. QED BY <2>3, <5>1 DEF TurnTypes, Job
      <4>3. QED BY <4>1, <4>2
    <3>. HIDE DEF Job, TurnTypes
    <3>3. QED BY <3>1, <3>2
  <2>4. QED BY <2>2, <2>3
<1>6. ASSUME NEW back \in SUBSET parked, Probe(p, back) PROVE KeepsHold(p)
  BY <1>6, BurialSteps DEF Probe, Go, Prune, Stale, Held, NoFile
<1>7. CASE Look(p)
  BY <1>7, BurialSteps DEF Look, Go
<1>8. CASE Pick(p)
  BY <1>8, BurialSteps DEF Pick, Go
<1>9. CASE EndPass(p)
  BY <1>9, BurialSteps DEF EndPass, Go
<1>10. CASE OutOfTime(p)
  BY <1>10, BurialSteps DEF OutOfTime, Go
<1>11. CASE Create(p)
  BY <1>11, BurialSteps DEF Create, Go, NoFile
<1>12. CASE Write(p)
  BY <1>12, BurialSteps DEF Write, Go
<1>13. CASE FindStale(p)
  BY <1>13, BurialSteps DEF FindStale, Go
<1>14. CASE Unlink(p)
  <2>1. job' = job \/ job' = [job EXCEPT ![p].tries = job[p].tries + 1]
    BY <1>14 DEF Unlink
  <2>2. job'[p].who = job[p].who /\ job'[p].on = job[p].on /\ job'[p].end = job[p].end
    BY <2>1
  <2>3. /\ pc[p] = "unlink" /\ pc'[p] \in {"try", "pick", "leave"}
        /\ job[p].on = Admission => pc'[p] \in {"try", "pick"}
    BY <1>14 DEF Unlink, Go, Refusal
  <2>4. ~stolen' => ~stolen
    BY TheirLocks DEF KeepsOut
  <2>5. job[p].on # Admission => lock'[Admission] = lock[Admission]
    BY <1>14 DEF Unlink
  <2>. HIDE DEF Job, TurnTypes
  <2>6. QED BY <2>2, <2>3, <2>4, <2>5, BurialSteps
<1>15. CASE Locked(p)
  BY <1>15, BurialSteps DEF Locked, Go, Refusal, Held
<1>16. CASE Live(p)
  <2>1. pc[p] = "live" /\ pc'[p] \in {"try", "leave"}
    BY <1>16 DEF Live, Go
  <2>2. pc'[p] = "leave" => job' = job
    BY <1>16 DEF Live, Go
  <2>3. ~stolen' => ~stolen
    BY TheirLocks DEF KeepsOut
  <2>4. lock'[Admission] = lock[Admission]
    BY <1>16 DEF Live, Prune
  <2>. HIDE DEF Job, TurnTypes
  <2>5. QED BY <2>1, <2>2, <2>3, <2>4, BurialSteps
<1>17. CASE Leave(p)
  BY <1>17, BurialSteps DEF Leave, Go, Released, NoFile
<1>18. CASE Charge(p)
  BY <1>18, BurialSteps DEF Charge, Go
<1>19. CASE Unaffordable(p)
  <2>1. pc[p] = "charge" /\ pc'[p] = "leave" /\ job' = job
    BY <1>19 DEF Unaffordable, Go
  <2>2. ~stolen' => ~stolen
    BY TheirLocks DEF KeepsOut
  <2>3. Who(p) \in Member
    BY <2>1
  <2>4. lock' = [lock EXCEPT ![Who(p)] = NoFile]
    BY <1>19 DEF Unaffordable, Released
  <2>5. lock'[Admission] = lock[Admission]
    BY <2>3, <2>4
  <2>. HIDE DEF Job, TurnTypes
  <2>6. QED BY <2>1, <2>2, <2>5, BurialSteps
<1>20. CASE Unadmit(p)
  <2>1. pc[p] = "unadmit" /\ pc'[p] = "claim" /\ job' = job
    BY <1>20 DEF Unadmit, Go
  <2>2. ~stolen' => ~stolen
    BY TheirLocks DEF KeepsOut
  <2>3. Who(p) \in Member
    BY <2>1
  <2>4. lock' = [lock EXCEPT ![Admission] = NoFile]
    BY <1>20 DEF Unadmit, Released
  <2>5. lock'[Who(p)] = lock[Who(p)]
    BY <2>3, <2>4
  <2>. HIDE DEF Job, TurnTypes
  <2>6. QED BY <2>1, <2>2, <2>5, BurialSteps
<1>21. CASE Claim(p)
  BY <1>21, BurialSteps DEF Claim, Go
<1>22. CASE Launch(p)
  BY <1>22, BurialSteps DEF Launch, Go
<1>23. CASE PutBack(p)
  BY <1>23, BurialSteps DEF PutBack, Go, Released, NoFile
<1>24. ASSUME NEW end \in Outcome, NEW staged \in SUBSET (Msg \ Ingress),
               Return(p, end, staged)
       PROVE  KeepsHold(p)
  BY <1>24, BurialSteps DEF Return, Go
<1>25. CASE Settle(p)
  BY <1>25, BurialSteps DEF Settle, Go
<1>26. CASE Park(p)
  BY <1>26, BurialSteps DEF Park, Go
<1>27. CASE Unlock(p)
  <2>1. pc'[p] = "pick"
    BY <1>27 DEF Unlock, Go
  <2>. HIDE DEF Job, TurnTypes
  <2>2. QED BY <2>1, BurialSteps
<1>28. CASE BeginIdle(p) \/ Skip(p)
  BY <1>28, BurialSteps DEF BeginIdle, Skip, Go
<1>29. CASE Die(p)
  BY <1>29, BurialSteps DEF Die, Go
<1>30. ASSUME NEW m \in Ingress, Dispatch(p, m) PROVE KeepsHold(p)
  BY <1>30, BurialSteps DEF Dispatch, Go
<1>. HIDE DEF KeepsHold
<1>31. CASE Walk(p)
  BY <1>1, <1>2, <1>3, <1>4, <1>5, <1>6, <1>7, <1>8, <1>9, <1>10, <1>11, <1>12, <1>13,
     <1>14, <1>15, <1>16, <1>17, <1>18, <1>19, <1>20, <1>21, <1>22, <1>23, <1>24, <1>25,
     <1>26, <1>27, <1>31
  DEF Walk
<1>32. QED BY <1>28, <1>29, <1>30, <1>31 DEF Acts

\* Admission needs that no turn is live; a turn, admission.
EntersAlone(p) ==
  ~stolen' => /\ Admitted(p)' => Admitted(p) \/ \A q \in Proc : ~InTurn(q)
              /\ InTurn(p)' => InTurn(p) \/ Admitted(p)

\* It is admitted when no turn is live, and a turn starts from there.
LEMMA NoTurnStarts ==
  ASSUME TurnTypes, AtInv, LockInv, NEW p \in Proc, Acts(p)
  PROVE  EntersAlone(p)
<1>. USE DispatchAssumption DEF TurnTypes, Job, AtInv, LockInv, Holds, HasOwn, Admitted,
   InTurn, Who, Burying, Idle, mail, sched, counts, EntersAlone
<1>1. CASE Sweep(p)
  BY <1>1, BurialSteps DEF Sweep, Go, Prune
<1>2. CASE Read(p)
  <2>. DEFINE a == IF Left(p) = {} THEN None ELSE To[CHOOSE m \in Left(p) : TRUE]
  <2>0. job' = [job EXCEPT ![p].orphans = Left(p), ![p].living = {}, ![p].who = a, ![p].batch = Of(a, Left(p))]
    BY <1>2 DEF Read
  <2>. HIDE DEF a
  <2>1. /\ pc[p] = "read" /\ pc'[p] \in {"probe", "bury"}
    <3>1. pc[p] = "read" /\ \E s \in {"probe", "bury"} : pc' = [pc EXCEPT ![p] = s]
      <4>. HIDE DEF Job
      <4>1. QED BY <1>2, BurialSteps DEF Read, Go
    <3>2. QED BY <3>1
  <2>2. job'[p].end = "none"
    <3>1. job[p].end = "none" BY <2>1
    <3>2. job'[p].end = job[p].end BY <2>0
    <3>3. QED BY <3>1, <3>2
  <2>. HIDE DEF Job, TurnTypes
  <2>3. QED BY <2>1, <2>2
<1>3. CASE Bury(p)
  <2>1. pc[p] = "bury" /\ pc' = [pc EXCEPT ![p] = "drop"] /\ UNCHANGED <<job, lock, stolen>>
    BY <1>3, OnwardSteps DEF Bury
  <2>2. pc'[p] = "drop" BY <2>1
  <2>. HIDE DEF Job, TurnTypes
  <2>3. QED BY <2>1, <2>2, BurialSteps
<1>4. CASE Drop(p)
  <2>1. pc[p] = "drop" /\ pc' = [pc EXCEPT ![p] = "notify"] /\ UNCHANGED <<job, lock, stolen>>
    BY <1>4, OnwardSteps DEF Drop
  <2>2. pc'[p] = "notify" BY <2>1
  <2>. HIDE DEF Job, TurnTypes
  <2>3. QED BY <2>1, <2>2, BurialSteps
<1>5. CASE Notify(p)
  <2>1. pc[p] = "notify" /\ Onward(p, "notify") /\ UNCHANGED <<lock, stolen>>
    BY <1>5 DEF Notify
  <2>2. CASE job[p].end # "none"
    <3>1. job' = [job EXCEPT ![p].batch = {}] /\ \E s \in {"park", "unlock"} : pc' = [pc EXCEPT ![p] = s]
      BY <2>1, <2>2, OnwardSteps
    <3>2. job'[p].who = job[p].who /\ job'[p].on = job[p].on /\ job'[p].end = job[p].end
      BY <3>1
    <3>3. pc'[p] \in {"park", "unlock"}
      BY <3>1
    <3>. HIDE DEF Job, TurnTypes
    <3>4. QED BY <2>1, <2>2, <3>2, <3>3, BurialSteps
  <2>3. CASE job[p].end = "none"
    <3>1. pc'[p] \in {"bury", "probe"}
      <4>1. \E s \in {"bury", "probe"} : pc' = [pc EXCEPT ![p] = s]
        BY <2>1, <2>3, OnwardSteps
      <4>2. QED BY <4>1
    <3>2. job'[p].end = "none"
      <4>1. CASE job' = [job EXCEPT ![p] = Idle]
        BY <4>1
      <4>2. CASE job' # [job EXCEPT ![p] = Idle]
        <5>. HIDE DEF TurnTypes, Job
        <5>1. PICK S \in SUBSET job[p].orphans, a \in Member :
                /\ S \cap job[p].batch = {}
                /\ job' = [job EXCEPT ![p].orphans = S, ![p].who = a, ![p].batch = Of(a, S)]
          BY <2>1, <2>3, <4>2, OnwardSteps
        <5>2. QED BY <2>3, <5>1 DEF TurnTypes, Job
      <4>3. QED BY <4>1, <4>2
    <3>. HIDE DEF Job, TurnTypes
    <3>3. QED BY <3>1, <3>2
  <2>4. QED BY <2>2, <2>3
<1>6. ASSUME NEW back \in SUBSET parked, Probe(p, back) PROVE EntersAlone(p)
  BY <1>6, BurialSteps DEF Probe, Go, Prune
<1>7. CASE Look(p)
  BY <1>7, BurialSteps DEF Look, Go
<1>8. CASE Pick(p)
  BY <1>8, BurialSteps DEF Pick, Go
<1>9. CASE EndPass(p)
  BY <1>9, BurialSteps DEF EndPass, Go
<1>10. CASE OutOfTime(p)
  BY <1>10, BurialSteps DEF OutOfTime, Go
<1>11. CASE Create(p)
  BY <1>11, BurialSteps DEF Create, Go, NoFile
<1>12. CASE Write(p)
  BY <1>12, BurialSteps DEF Write, Go
<1>13. CASE FindStale(p)
  BY <1>13, BurialSteps DEF FindStale, Go
<1>14. CASE Unlink(p)
  <2>1. job' = job \/ job' = [job EXCEPT ![p].tries = job[p].tries + 1]
    BY <1>14 DEF Unlink
  <2>2. job'[p].who = job[p].who /\ job'[p].on = job[p].on /\ job'[p].end = job[p].end
    BY <2>1
  <2>3. /\ pc[p] = "unlink" /\ pc'[p] \in {"try", "pick", "leave"}
    BY <1>14 DEF Unlink, Go, Refusal
  <2>4. ~stolen' => ~stolen
    BY TheirLocks DEF KeepsOut
  <2>. HIDE DEF Job, TurnTypes
  <2>5. QED BY <2>2, <2>3, <2>4, BurialSteps
<1>15. CASE Locked(p)
  BY <1>15, BurialSteps DEF Locked, Go, Refusal
<1>16. CASE Live(p)
  <2>1. pc[p] = "live" /\ (~stolen' => ~stolen) BY <1>16 DEF Live, Prune
  <2>2. CASE Admits(p)
    <3>1. \A q \in Proc : Who(q) \in Member /\ lock[Who(q)].by = q /\ lock[Who(q)].told => Who(q) \in LiveTurns
      BY DEF LiveTurns, Held
    <3>2. ~stolen => \A q \in Proc : ~InTurn(q)
      <4>. HIDE DEF Job, TurnTypes
      <4>1. QED BY <2>2, <3>1, BurialSteps DEF Admits
    <3>3. pc'[p] = "try" BY <1>16, <2>2 DEF Live, Go
    <3>. HIDE DEF Job, TurnTypes
    <3>4. QED BY <2>1, <3>2, <3>3, BurialSteps
  <2>3. CASE ~Admits(p)
    BY <1>16, <2>3, BurialSteps DEF Live, Go
  <2>4. QED BY <2>2, <2>3
<1>17. CASE Leave(p)
  BY <1>17, BurialSteps DEF Leave, Go, Released
<1>18. CASE Charge(p)
  BY <1>18, BurialSteps DEF Charge, Go
<1>19. CASE Unaffordable(p)
  BY <1>19, BurialSteps DEF Unaffordable, Go, Released
<1>20. CASE Unadmit(p)
  BY <1>20, BurialSteps DEF Unadmit, Go, Released
<1>21. CASE Claim(p)
  BY <1>21, BurialSteps DEF Claim, Go
<1>22. CASE Launch(p)
  BY <1>22, BurialSteps DEF Launch, Go
<1>23. CASE PutBack(p)
  BY <1>23, BurialSteps DEF PutBack, Go, Released
<1>24. ASSUME NEW end \in Outcome, NEW staged \in SUBSET (Msg \ Ingress),
               Return(p, end, staged)
       PROVE  EntersAlone(p)
  BY <1>24, BurialSteps DEF Return, Go
<1>25. CASE Settle(p)
  BY <1>25, BurialSteps DEF Settle, Go
<1>26. CASE Park(p)
  BY <1>26, BurialSteps DEF Park, Go
<1>27. CASE Unlock(p)
  BY <1>27, BurialSteps DEF Unlock, Go, Released
<1>28. CASE BeginIdle(p) \/ Skip(p)
  BY <1>28, BurialSteps DEF BeginIdle, Skip, Go
<1>29. CASE Die(p)
  BY <1>29, BurialSteps DEF Die, Go
<1>30. ASSUME NEW m \in Ingress, Dispatch(p, m) PROVE EntersAlone(p)
  BY <1>30, BurialSteps DEF Dispatch, Go
<1>. HIDE DEF EntersAlone
<1>31. CASE Walk(p)
  BY <1>1, <1>2, <1>3, <1>4, <1>5, <1>6, <1>7, <1>8, <1>9, <1>10, <1>11, <1>12, <1>13,
     <1>14, <1>15, <1>16, <1>17, <1>18, <1>19, <1>20, <1>21, <1>22, <1>23, <1>24, <1>25,
     <1>26, <1>27, <1>31
  DEF Walk
<1>32. QED BY <1>28, <1>29, <1>30, <1>31 DEF Acts

\* Locks stay with whom they belong to.
LEMMA NextLock ==
  ASSUME TurnTypes, AtInv, LockInv, NEW p \in Proc, Acts(p)
  PROVE  LockInv'
<1>1. SUFFICES ASSUME ~stolen' PROVE \A q \in Proc : Holds(q)'
  BY DEF LockInv
<1>2. KeepsHold(p) /\ OneMoves(p) /\ KeepsOut(p)
  BY MyLocks, Others, TheirLocks
<1>3. Holds(p)'
  BY <1>1, <1>2 DEF KeepsHold
<1>4. ASSUME NEW q \in Proc \ {p} PROVE Holds(q)'
  <2>1. pc'[q] = pc[q] /\ job'[q] = job[q]
    BY <1>2 DEF OneMoves
  <2>2. \A l \in Lock : lock[l].by = q => lock'[l] = lock[l]
    BY <1>1, <1>2 DEF KeepsOut
  <2>3. Holds(q)
    BY <1>1, <1>2 DEF KeepsOut, LockInv
  <2>4. Admission \in Lock /\ job[q].on \in Lock
    BY DEF TurnTypes, Job, Lock
  <2>5. HasOwn(q) => Who(q) \in Lock
    BY BurialSteps DEF AtInv, HasOwn, InTurn, Burying, Lock, Who
  <2>6. /\ HasOwn(q)' <=> HasOwn(q)
        /\ HasAdmission(q)' <=> HasAdmission(q)
    BY <2>1 DEF HasOwn, HasAdmission, InTurn, Who
  <2>7. QED BY <2>1, <2>2, <2>3, <2>4, <2>5, <2>6 DEF Holds, Who
<1>5. QED BY <1>3, <1>4

\* One turn at a time is kept: two admitted would both have the admission lock.
LEMMA NextAlone ==
  ASSUME TurnTypes, AtInv, LockInv, AloneInv, NEW p \in Proc, Acts(p)
  PROVE  AloneInv'
<1>1. SUFFICES ASSUME ~stolen' PROVE \A q, r \in Proc : InTurn(r)' => ~Admitted(q)' /\ (InTurn(q)' => q = r)
  BY DEF AloneInv
<1>2. EntersAlone(p) /\ OneMoves(p) /\ ~stolen
  BY <1>1, NoTurnStarts, Others, TheirLocks DEF KeepsOut
<1>3. \A q \in Proc \ {p} : (InTurn(q)' <=> InTurn(q)) /\ (Admitted(q)' <=> Admitted(q))
  BY <1>2 DEF OneMoves, InTurn, Admitted
<1>4. \A q \in Proc : Admitted(q) => lock[Admission].by = q
  BY <1>2 DEF LockInv, Holds, HasAdmission, Admitted
<1>5. InTurn(p)' => ~Admitted(p)'
  BY BurialSteps DEF InTurn, Admitted, Burying
<1>6. Admitted(p)' => Admitted(p) \/ \A q \in Proc : ~InTurn(q)
  BY <1>1, <1>2 DEF EntersAlone
<1>7. InTurn(p)' => InTurn(p) \/ Admitted(p)
  BY <1>1, <1>2 DEF EntersAlone
<1>8. \A q, r \in Proc : InTurn(r) => ~Admitted(q) /\ (InTurn(q) => q = r)
  BY <1>2 DEF AloneInv
<1>9. \A q \in Proc \ {p} : InTurn(p)' => ~Admitted(q)' /\ ~InTurn(q)'
  BY <1>3, <1>4, <1>7, <1>8
<1>10. \A q \in Proc \ {p} : InTurn(q)' => ~Admitted(p)'
  BY <1>3, <1>6, <1>8
<1>11. \A q, r \in Proc \ {p} : InTurn(r)' => ~Admitted(q)' /\ (InTurn(q)' => q = r)
  BY <1>3, <1>8
<1>12. QED BY <1>5, <1>9, <1>10, <1>11

(***************************************************************************)
(* No message is dropped.                                                  *)
(***************************************************************************)
\* What it has in hand comes from the files, and is on record before the claim is dropped.
KeepsHand(p) ==
  /\ InHand(p)' \subseteq InHand(p) \cup queue \cup inflight
  /\ pc'[p] = "drop" => job'[p].batch \subseteq dead'

\* What a process takes in hand it takes from the files.
LEMMA MyHand ==
  ASSUME TurnTypes, NEW p \in Proc, Acts(p)
  PROVE  KeepsHand(p)
<1>. USE DispatchAssumption DEF TurnTypes, Job, InHand, mail, sched, counts, KeepsHand
<1>1. CASE Sweep(p)
  BY <1>1 DEF Sweep, Go
<1>2. CASE Read(p)
  <2>. DEFINE a == IF Left(p) = {} THEN None ELSE To[CHOOSE m \in Left(p) : TRUE]
  <2>1. job' = [job EXCEPT ![p].orphans = Left(p), ![p].living = {}, ![p].who = a,
                           ![p].batch = Of(a, Left(p))]
    BY <1>2 DEF Read
  <2>. HIDE DEF a
  <2>2. job'[p].orphans = Left(p) /\ job'[p].batch = Of(a, Left(p))
    BY <2>1
  <2>3. Of(a, Left(p)) \subseteq Left(p) /\ Left(p) \subseteq inflight
    BY DEF Of, Left
  <2>4. pc'[p] # "drop"
    <3>. HIDE DEF Job
    <3>1. QED BY <1>2, BurialSteps DEF Read, Go
  <2>. HIDE DEF Job, TurnTypes
  <2>5. QED BY <2>2, <2>3, <2>4
<1>3. CASE Bury(p)
  <2>1. pc' = [pc EXCEPT ![p] = "drop"] /\ job' = job /\ dead' = dead \cup job[p].batch
    BY <1>3, OnwardSteps DEF Bury
  <2>2. QED BY <2>1
<1>4. CASE Drop(p)
  <2>1. pc' = [pc EXCEPT ![p] = "notify"] /\ job' = job
    BY <1>4, OnwardSteps DEF Drop
  <2>2. QED BY <2>1
<1>5. CASE Notify(p)
  <2>1. Onward(p, "notify") BY <1>5 DEF Notify
  <2>2. \E s \in {"park", "unlock", "bury", "probe"} : pc' = [pc EXCEPT ![p] = s]
    BY <2>1, OnwardSteps
  <2>3. pc'[p] # "drop"
    BY <2>2
  <2>4. CASE job' = [job EXCEPT ![p].batch = {}]
    BY <2>3, <2>4
  <2>5. CASE job' = [job EXCEPT ![p] = Idle]
    BY <2>3, <2>5 DEF Idle
  <2>6. CASE \E S \in SUBSET job[p].orphans, a \in Member :
               job' = [job EXCEPT ![p].orphans = S, ![p].who = a, ![p].batch = Of(a, S)]
    <3>1. PICK S \in SUBSET job[p].orphans, a \in Member :
            job' = [job EXCEPT ![p].orphans = S, ![p].who = a, ![p].batch = Of(a, S)]
      BY <2>6
    <3>2. job'[p].orphans = S /\ job'[p].batch = Of(a, S)
      BY <3>1
    <3>3. Of(a, S) \subseteq S
      BY DEF Of
    <3>. HIDE DEF Job, TurnTypes
    <3>4. QED BY <2>3, <3>2, <3>3
  <2>7. QED BY <2>1, <2>4, <2>5, <2>6, OnwardSteps
<1>6. ASSUME NEW back \in SUBSET parked, Probe(p, back) PROVE KeepsHand(p)
  BY <1>6 DEF Probe, Go
<1>7. CASE Look(p)
  BY <1>7 DEF Look, Go
<1>8. CASE Pick(p)
  BY <1>8 DEF Pick, Go
<1>9. CASE EndPass(p)
  BY <1>9 DEF EndPass, Go, Idle
<1>10. CASE OutOfTime(p)
  BY <1>10 DEF OutOfTime, Go, Idle
<1>11. CASE Create(p)
  BY <1>11 DEF Create, Go
<1>12. CASE Write(p)
  BY <1>12 DEF Write, Go
<1>13. CASE FindStale(p)
  BY <1>13 DEF FindStale, Go
<1>14. CASE Unlink(p)
  <2>1. job' = job \/ job' = [job EXCEPT ![p].tries = job[p].tries + 1]
    BY <1>14 DEF Unlink
  <2>2. job'[p].batch = job[p].batch /\ job'[p].orphans = job[p].orphans
    BY <2>1
  <2>3. pc'[p] # "drop"
    BY <1>14 DEF Unlink, Go, Refusal
  <2>. HIDE DEF Job, TurnTypes
  <2>4. QED BY <2>2, <2>3
<1>15. CASE Locked(p)
  BY <1>15 DEF Locked, Go, Refusal
<1>16. CASE Live(p)
  <2>1. job' = job \/ job' = [job EXCEPT ![p].on = Who(p), ![p].tries = 0]
    BY <1>16 DEF Live
  <2>2. job'[p].batch = job[p].batch /\ job'[p].orphans = job[p].orphans
    BY <2>1
  <2>3. pc'[p] # "drop"
    BY <1>16 DEF Live, Go
  <2>. HIDE DEF Job, TurnTypes
  <2>4. QED BY <2>2, <2>3
<1>17. CASE Leave(p)
  BY <1>17 DEF Leave, Go
<1>18. CASE Charge(p)
  BY <1>18 DEF Charge, Go
<1>19. CASE Unaffordable(p)
  BY <1>19 DEF Unaffordable, Go
<1>20. CASE Unadmit(p)
  BY <1>20 DEF Unadmit, Go
<1>21. CASE Claim(p)
  <2>1. job'[p].batch = Of(Who(p), queue) /\ job'[p].orphans = job[p].orphans
    BY <1>21 DEF Claim
  <2>2. pc'[p] # "drop"
    BY <1>21 DEF Claim, Go
  <2>3. Of(Who(p), queue) \subseteq queue
    BY DEF Of
  <2>. HIDE DEF Job, TurnTypes
  <2>4. QED BY <2>1, <2>2, <2>3
<1>22. CASE Launch(p)
  BY <1>22 DEF Launch, Go
<1>23. CASE PutBack(p)
  BY <1>23 DEF PutBack, Go, Idle
<1>24. ASSUME NEW end \in Outcome, NEW staged \in SUBSET (Msg \ Ingress),
               Return(p, end, staged)
       PROVE  KeepsHand(p)
  BY <1>24, BurialSteps DEF Return, Go
<1>25. CASE Settle(p)
  BY <1>25 DEF Settle, Go
<1>26. CASE Park(p)
  BY <1>26 DEF Park, Go
<1>27. CASE Unlock(p)
  BY <1>27 DEF Unlock, Go
<1>28. CASE BeginIdle(p) \/ Skip(p)
  BY <1>28 DEF BeginIdle, Skip, Go
<1>29. CASE Die(p)
  BY <1>29 DEF Die, Go, Idle
<1>30. ASSUME NEW m \in Ingress, Dispatch(p, m) PROVE KeepsHand(p)
  BY <1>30 DEF Dispatch, Go
<1>. HIDE DEF KeepsHand
<1>31. CASE Walk(p)
  BY <1>1, <1>2, <1>3, <1>4, <1>5, <1>6, <1>7, <1>8, <1>9, <1>10, <1>11, <1>12, <1>13,
     <1>14, <1>15, <1>16, <1>17, <1>18, <1>19, <1>20, <1>21, <1>22, <1>23, <1>24, <1>25,
     <1>26, <1>27, <1>31
  DEF Walk
<1>32. QED BY <1>28, <1>29, <1>30, <1>31 DEF Acts

\* What a process does to the files leaves every message somewhere, and no burial that
\* is under way loses its record.
KeepsMail(p) ==
  /\ sent \subseteq sent'
  /\ queue' \cup inflight' \cup dead' \cup spent' \cup mixed' \subseteq sent'
  /\ \A q \in Proc \ {p} : InHand(q) \cap dead \subseteq dead'
  /\ NothingDropped => NothingDropped'

\* Mail that comes in is new, or is settled and in nobody's hand.
LEMMA IngestKeeps ==
  ASSUME TurnTypes, MailInv, NEW S \in SUBSET Msg, \A m \in S : Anew(m),
         Ingest(S), inflight' = inflight, NEW p \in Proc
  PROVE  KeepsMail(p)
<1>1. \A m \in S : m \notin sent \/ (m \notin queue \cup inflight /\ \A q \in Proc : m \notin InHand(q))
  BY DEF Anew, Settled
<1>2. \A q \in Proc : InHand(q) \cap S = {}
  BY <1>1 DEF MailInv
<1>3. /\ queue' = queue \cup (S \ Refused) /\ spent' = spent \ S /\ mixed' = mixed \ S
      /\ dead' = (dead \ S) \cup (S \cap Refused) /\ sent' = sent \cup S
  BY DEF Ingest
<1>4. queue' \cup inflight' \cup dead' \cup spent' \cup mixed' \subseteq sent'
  BY <1>3 DEF MailInv
<1>5. \A q \in Proc : InHand(q) \cap dead \subseteq dead'
  BY <1>2, <1>3
<1>6. NothingDropped => NothingDropped'
  BY <1>3 DEF NothingDropped
<1>7. QED BY <1>3, <1>4, <1>5, <1>6 DEF KeepsMail

\* Every action keeps the mail.
LEMMA MyMail ==
  ASSUME TurnTypes, MailInv, NEW p \in Proc, Acts(p)
  PROVE  KeepsMail(p)
<1>. USE DispatchAssumption DEF TurnTypes, MailInv, NothingDropped, mail, sched, counts,
   KeepsMail
<1>1. CASE Sweep(p)
  BY <1>1 DEF Sweep
<1>2. CASE Read(p)
  <2>1. mixed' \subseteq mixed \cup inflight
    BY <1>2 DEF Read, Left
  <2>2. mixed \subseteq mixed' /\ UNCHANGED <<queue, inflight, dead, spent, sent>>
    BY <1>2 DEF Read
  <2>3. QED BY <2>1, <2>2
<1>3. CASE Bury(p)
  <2>1. job[p].batch \subseteq sent BY DEF InHand
  <2>2. QED BY <1>3, <2>1 DEF Bury
<1>4. CASE Drop(p)
  <2>1. job[p].batch \subseteq dead BY <1>4 DEF Drop
  <2>2. QED BY <1>4, <2>1 DEF Drop, Of
<1>5. CASE Notify(p)
  BY <1>5 DEF Notify
<1>6. ASSUME NEW back \in SUBSET parked, Probe(p, back) PROVE KeepsMail(p)
  BY <1>6 DEF Probe
<1>7. CASE Look(p)
  BY <1>7 DEF Look
<1>8. CASE Pick(p)
  BY <1>8 DEF Pick
<1>9. CASE EndPass(p)
  BY <1>9 DEF EndPass
<1>10. CASE OutOfTime(p)
  BY <1>10 DEF OutOfTime
<1>11. CASE Create(p)
  BY <1>11 DEF Create
<1>12. CASE Write(p)
  BY <1>12 DEF Write
<1>13. CASE FindStale(p)
  BY <1>13 DEF FindStale
<1>14. CASE Unlink(p)
  BY <1>14 DEF Unlink
<1>15. CASE Locked(p)
  BY <1>15 DEF Locked
<1>16. CASE Live(p)
  BY <1>16 DEF Live
<1>17. CASE Leave(p)
  BY <1>17 DEF Leave
<1>18. CASE Charge(p)
  BY <1>18 DEF Charge
<1>19. CASE Unaffordable(p)
  BY <1>19 DEF Unaffordable
<1>20. CASE Unadmit(p)
  BY <1>20 DEF Unadmit
<1>21. CASE Claim(p)
  BY <1>21 DEF Claim, Moved, Of
<1>22. CASE Launch(p)
  BY <1>22 DEF Launch
<1>23. CASE PutBack(p)
  BY <1>23 DEF PutBack, Of
<1>24. ASSUME NEW end \in Outcome, NEW staged \in SUBSET (Msg \ Ingress),
               Return(p, end, staged)
       PROVE  KeepsMail(p)
  <2>1. Ingest(staged) /\ inflight' = inflight /\ \A m \in staged : Anew(m)
    BY <1>24 DEF Return
  <2>2. staged \subseteq Msg
    BY <1>24 DEF Return
  <2>3. QED BY <2>1, <2>2, IngestKeeps
<1>25. CASE Settle(p)
  <2>1. job[p].batch \subseteq sent BY DEF InHand
  <2>2. QED BY <1>25, <2>1 DEF Settle, Of
<1>26. CASE Park(p)
  BY <1>26 DEF Park
<1>27. CASE Unlock(p)
  BY <1>27 DEF Unlock
<1>28. CASE BeginIdle(p) \/ Skip(p)
  BY <1>28 DEF BeginIdle, Skip
<1>29. CASE Die(p)
  BY <1>29 DEF Die
<1>30. ASSUME NEW m \in Ingress, Dispatch(p, m) PROVE KeepsMail(p)
  <2>1. Ingest({m}) /\ inflight' = inflight /\ Anew(m) /\ m \in Msg
    BY <1>30 DEF Dispatch
  <2>2. QED BY <2>1, IngestKeeps
<1>. HIDE DEF KeepsMail
<1>31. CASE Walk(p)
  BY <1>1, <1>2, <1>3, <1>4, <1>5, <1>6, <1>7, <1>8, <1>9, <1>10, <1>11, <1>12, <1>13,
     <1>14, <1>15, <1>16, <1>17, <1>18, <1>19, <1>20, <1>21, <1>22, <1>23, <1>24, <1>25,
     <1>26, <1>27, <1>31
  DEF Walk
<1>32. QED BY <1>28, <1>29, <1>30, <1>31 DEF Acts

\* The mail is kept.
LEMMA NextMail ==
  ASSUME TurnTypes, MailInv, NEW p \in Proc, Acts(p)
  PROVE  MailInv' /\ (NothingDropped => NothingDropped')
<1>1. KeepsHand(p) /\ KeepsMail(p) /\ OneMoves(p)
  BY MyHand, MyMail, Others
<1>2. InHand(p)' \subseteq sent' /\ (pc'[p] = "drop" => job'[p].batch \subseteq dead')
  <2>1. InHand(p)' \subseteq sent
    BY <1>1 DEF KeepsHand, MailInv
  <2>2. QED BY <1>1, <2>1 DEF KeepsHand, KeepsMail
<1>3. ASSUME NEW q \in Proc \ {p}
      PROVE  InHand(q)' \subseteq sent' /\ (pc'[q] = "drop" => job'[q].batch \subseteq dead')
  <2>1. pc'[q] = pc[q] /\ job'[q] = job[q] /\ InHand(q)' = InHand(q)
    BY <1>1 DEF OneMoves, InHand
  <2>2. InHand(q) \subseteq sent /\ job[q].batch \subseteq InHand(q)
    BY DEF MailInv, InHand
  <2>3. pc[q] = "drop" => job[q].batch \subseteq dead
    BY DEF MailInv
  <2>4. sent \subseteq sent' /\ InHand(q) \cap dead \subseteq dead'
    BY <1>1 DEF KeepsMail
  <2>5. QED BY <2>1, <2>2, <2>3, <2>4
<1>4. QED BY <1>1, <1>2, <1>3 DEF MailInv, KeepsMail

(***************************************************************************)
(* No message is given to two turns, and nobody is told twice.             *)
(***************************************************************************)
\* What a process has in hand: mail of the member it is at, the orphans of a sweep only
\* while they are buried.
HandAt(p) ==
  /\ \A m \in job[p].batch : To[m] = Who(p)
  /\ pc[p] \notin Burying \cup {"launch", "running", "settle"} => InHand(p) = {}
  /\ pc[p] \in {"launch", "running", "settle"} \/ job[p].end # "none" => job[p].orphans = {}
KeepsHandAt(p) == HandAt(p) => HandAt(p)'

\* It empties its hands before it goes on.
LEMMA MyHandAt ==
  ASSUME TurnTypes, AtInv, NEW p \in Proc, Acts(p)
  PROVE  KeepsHandAt(p)
<1>. USE DispatchAssumption DEF TurnTypes, Job, HandAt, InHand, Who, mail, sched, counts, KeepsHandAt
<1>1. CASE Sweep(p)
  BY <1>1 DEF Sweep, Go, Burying
<1>2. CASE Read(p)
  <2>. DEFINE a == IF Left(p) = {} THEN None ELSE To[CHOOSE m \in Left(p) : TRUE]
  <2>1. job' = [job EXCEPT ![p].orphans = Left(p), ![p].living = {}, ![p].who = a,
                           ![p].batch = Of(a, Left(p))]
    BY <1>2 DEF Read
  <2>2. /\ pc[p] = "read"
        /\ \E s \in {"probe", "bury"} : pc' = [pc EXCEPT ![p] = s] /\ (s = "probe" => Left(p) = {})
    <3>. HIDE DEF Job
    <3>1. QED BY <1>2, BurialSteps DEF Read, Go
  <2>. HIDE DEF a
  <2>3. /\ job'[p].orphans = Left(p) /\ job'[p].who = a /\ job'[p].batch = Of(a, Left(p))
        /\ job'[p].end = job[p].end
    BY <2>1
  <2>4. job[p].end = "none"
    BY <2>2 DEF AtInv, Burying
  <2>5. pc'[p] \in {"probe", "bury"} /\ (pc'[p] = "probe" => Left(p) = {})
    BY <2>2
  <2>6. Of(a, Left(p)) \subseteq Left(p) /\ \A m \in Of(a, Left(p)) : To[m] = a
    BY DEF Of
  <2>. HIDE DEF Job, TurnTypes
  <2>7. QED BY <2>3, <2>4, <2>5, <2>6 DEF Burying
<1>3. CASE Bury(p)
  <2>1. pc[p] = "bury" /\ pc' = [pc EXCEPT ![p] = "drop"] /\ job' = job
    BY <1>3, OnwardSteps DEF Bury
  <2>2. QED BY <2>1 DEF Burying
<1>4. CASE Drop(p)
  <2>1. pc[p] = "drop" /\ pc' = [pc EXCEPT ![p] = "notify"] /\ job' = job
    BY <1>4, OnwardSteps DEF Drop
  <2>2. QED BY <2>1 DEF Burying
<1>5. CASE Notify(p)
  <2>1. pc[p] = "notify" /\ Onward(p, "notify") BY <1>5 DEF Notify
  <2>2. CASE job[p].end # "none"
    <3>1. pc'[p] \in {"park", "unlock"} /\ job' = [job EXCEPT ![p].batch = {}]
      <4>1. \E s \in {"park", "unlock"} : pc' = [pc EXCEPT ![p] = s]
        BY <2>1, <2>2, OnwardSteps
      <4>2. job' = [job EXCEPT ![p].batch = {}]
        BY <2>1, <2>2, OnwardSteps
      <4>3. pc'[p] \in {"park", "unlock"}
        BY <4>1
      <4>4. QED BY <4>2, <4>3
    <3>2. job'[p].batch = {} /\ job'[p].orphans = job[p].orphans
      BY <3>1
    <3>. HIDE DEF Job, TurnTypes
    <3>3. QED BY <2>2, <3>1, <3>2 DEF Burying
  <2>3. CASE job[p].end = "none" /\ job' = [job EXCEPT ![p] = Idle]
    <3>1. job'[p] = Idle
      BY <2>3
    <3>. HIDE DEF Job, TurnTypes
    <3>2. QED BY <3>1 DEF Idle
  <2>4. CASE job[p].end = "none" /\ job' # [job EXCEPT ![p] = Idle]
    <3>1. PICK S \in SUBSET job[p].orphans, a \in Member :
            /\ S \cap job[p].batch = {}
            /\ job' = [job EXCEPT ![p].orphans = S, ![p].who = a, ![p].batch = Of(a, S)]
      BY <2>1, <2>4, OnwardSteps
    <3>2. pc' = [pc EXCEPT ![p] = "bury"]
      BY <2>1, <2>4, OnwardSteps
    <3>3. /\ pc'[p] = "bury" /\ job'[p].orphans = S /\ job'[p].batch = Of(a, S) /\ job'[p].who = a
          /\ job'[p].end = "none"
      BY <2>4, <3>1, <3>2
    <3>4. \A m \in Of(a, S) : To[m] = a
      BY DEF Of
    <3>. HIDE DEF Job, TurnTypes
    <3>5. QED BY <3>3, <3>4 DEF Burying
  <2>5. QED BY <2>2, <2>3, <2>4
<1>6. ASSUME NEW back \in SUBSET parked, Probe(p, back) PROVE KeepsHandAt(p)
  BY <1>6 DEF Probe, Go, Burying
<1>7. CASE Look(p)
  BY <1>7 DEF Look, Go, Burying
<1>8. CASE Pick(p)
  BY <1>8 DEF Pick, Go, Burying
<1>9. CASE EndPass(p)
  BY <1>9 DEF EndPass, Go, Burying, Idle
<1>10. CASE OutOfTime(p)
  BY <1>10 DEF OutOfTime, Go, Burying, Idle
<1>11. CASE Create(p)
  BY <1>11 DEF Create, Go, Burying
<1>12. CASE Write(p)
  BY <1>12 DEF Write, Go, Burying
<1>13. CASE FindStale(p)
  BY <1>13 DEF FindStale, Go, Burying
<1>14. CASE Unlink(p)
  <2>1. job' = job \/ job' = [job EXCEPT ![p].tries = job[p].tries + 1]
    BY <1>14 DEF Unlink
  <2>2. /\ job'[p].batch = job[p].batch /\ job'[p].orphans = job[p].orphans
        /\ job'[p].who = job[p].who /\ job'[p].end = job[p].end
    BY <2>1
  <2>3. pc[p] = "unlink" /\ pc'[p] \in {"try", "pick", "leave"}
    BY <1>14 DEF Unlink, Go, Refusal
  <2>. HIDE DEF Job, TurnTypes
  <2>4. QED BY <2>2, <2>3 DEF Burying
<1>15. CASE Locked(p)
  BY <1>15 DEF Locked, Go, Burying, Refusal
<1>16. CASE Live(p)
  <2>1. job' = job \/ job' = [job EXCEPT ![p].on = Who(p), ![p].tries = 0]
    BY <1>16 DEF Live
  <2>2. /\ job'[p].batch = job[p].batch /\ job'[p].orphans = job[p].orphans
        /\ job'[p].who = job[p].who /\ job'[p].end = job[p].end
    BY <2>1
  <2>3. pc[p] = "live" /\ pc'[p] \in {"try", "leave"}
    BY <1>16 DEF Live, Go
  <2>. HIDE DEF Job, TurnTypes
  <2>4. QED BY <2>2, <2>3 DEF Burying
<1>17. CASE Leave(p)
  BY <1>17 DEF Leave, Go, Burying
<1>18. CASE Charge(p)
  BY <1>18 DEF Charge, Go, Burying
<1>19. CASE Unaffordable(p)
  BY <1>19 DEF Unaffordable, Go, Burying
<1>20. CASE Unadmit(p)
  BY <1>20 DEF Unadmit, Go, Burying
<1>21. CASE Claim(p)
  <2>1. /\ job'[p].batch = Of(Who(p), queue) /\ job'[p].orphans = job[p].orphans
        /\ job'[p].who = job[p].who /\ job'[p].end = job[p].end
    BY <1>21 DEF Claim
  <2>2. /\ pc[p] = "claim" /\ pc'[p] \in {"unlock", "launch"}
        /\ (pc'[p] = "unlock" => Of(Who(p), queue) = {})
    BY <1>21 DEF Claim, Go
  <2>3. \A m \in Of(Who(p), queue) : To[m] = Who(p)
    BY DEF Of
  <2>. HIDE DEF Job, TurnTypes
  <2>4. QED BY <2>1, <2>2, <2>3 DEF Burying
<1>22. CASE Launch(p)
  BY <1>22 DEF Launch, Go, Burying
<1>23. CASE PutBack(p)
  BY <1>23 DEF PutBack, Go, Burying, Idle
<1>24. ASSUME NEW end \in Outcome, NEW staged \in SUBSET (Msg \ Ingress),
               Return(p, end, staged)
       PROVE  KeepsHandAt(p)
  BY <1>24, BurialSteps DEF Return, Go, Burying
<1>25. CASE Settle(p)
  BY <1>25 DEF Settle, Go, Burying
<1>26. CASE Park(p)
  BY <1>26 DEF Park, Go, Burying
<1>27. CASE Unlock(p)
  BY <1>27 DEF Unlock, Go, Burying
<1>28. CASE BeginIdle(p) \/ Skip(p)
  BY <1>28 DEF BeginIdle, Skip, Go, Burying
<1>29. CASE Die(p)
  BY <1>29 DEF Die, Go, Burying, Idle
<1>30. ASSUME NEW m \in Ingress, Dispatch(p, m) PROVE KeepsHandAt(p)
  BY <1>30 DEF Dispatch, Go, Burying
<1>. HIDE DEF KeepsHandAt
<1>31. CASE Walk(p)
  BY <1>1, <1>2, <1>3, <1>4, <1>5, <1>6, <1>7, <1>8, <1>9, <1>10, <1>11, <1>12, <1>13,
     <1>14, <1>15, <1>16, <1>17, <1>18, <1>19, <1>20, <1>21, <1>22, <1>23, <1>24, <1>25,
     <1>26, <1>27, <1>31
  DEF Walk
<1>32. QED BY <1>28, <1>29, <1>30, <1>31 DEF Acts

\* A message is in one place: in a queue and not yet tried, or in flight and in at most
\* one hand, or dropped and in the hand that has yet to tell its sender, or done with.
Apart(m) ==
  m \notin mixed =>
    /\ \A p, q \in Proc : m \in InHand(p) /\ m \in InHand(q) => p = q
    /\ m \in queue => tries[m] = 0 /\ m \notin inflight /\ \A p \in Proc : m \notin InHand(p)
    /\ \A p \in Proc :
         m \in InHand(p) => (m \in inflight <=> ~(pc[p] = "notify" /\ m \in job[p].batch))
    /\ \A p \in Proc : m \in job[p].batch /\ pc[p] = "launch" => tries[m] = 0
    /\ told[m] > 0 => m \notin queue \cup inflight /\ \A p \in Proc : m \notin InHand(p)
    /\ tries[m] < 2 /\ told[m] < 2

TellTypes == tries \in [Msg -> 0..2] /\ told \in [Msg -> 0..2]
\* What was never accepted was never tried.
FreshInv == \A m \in Msg \ sent : tries[m] = 0 /\ told[m] = 0
TellInv ==
  /\ TellTypes /\ FreshInv /\ \A p \in Proc : HandAt(p)
  /\ \A m \in Msg : Apart(m)

\* A step of one process that moves the message nowhere ...
Stays(p, m) ==
  /\ m \in queue' <=> m \in queue
  /\ m \in inflight' <=> m \in inflight
  /\ tries'[m] = tries[m] /\ told'[m] = told[m]
  /\ m \in mixed => m \in mixed'
  /\ m \in InHand(p)' =>
       /\ m \in InHand(p)
       /\ pc'[p] = "notify" /\ m \in job'[p].batch <=> pc[p] = "notify" /\ m \in job[p].batch
       /\ pc'[p] = "launch" /\ m \in job'[p].batch => pc[p] = "launch" /\ m \in job[p].batch

\* ... keeps it apart.
LEMMA StaysApart ==
  ASSUME NEW p \in Proc, NEW m \in Msg, OneMoves(p), Stays(p, m), Apart(m)
  PROVE  Apart(m)'
<1>1. SUFFICES ASSUME m \notin mixed' PROVE Apart(m)'
  BY DEF Apart
<1>2. m \notin mixed
  BY <1>1 DEF Stays
<1>3. \A q \in Proc \ {p} : InHand(q)' = InHand(q) /\ pc'[q] = pc[q] /\ job'[q] = job[q]
  BY DEF OneMoves, InHand
<1>4. \A q \in Proc : m \in InHand(q)' => m \in InHand(q)
  BY <1>3 DEF Stays
<1>5. \A q \in Proc :
        m \in InHand(q)' => (m \in inflight' <=> ~(pc'[q] = "notify" /\ m \in job'[q].batch))
  <2>1. ASSUME NEW q \in Proc, m \in InHand(q)'
        PROVE  m \in inflight' <=> ~(pc'[q] = "notify" /\ m \in job'[q].batch)
    <3>1. m \in InHand(q)
      BY <1>4, <2>1
    <3>2. m \in inflight <=> ~(pc[q] = "notify" /\ m \in job[q].batch)
      BY <1>2, <3>1 DEF Apart
    <3>3. pc'[q] = "notify" /\ m \in job'[q].batch <=> pc[q] = "notify" /\ m \in job[q].batch
      BY <1>3, <2>1 DEF Stays
    <3>4. QED BY <3>2, <3>3 DEF Stays
  <2>2. QED BY <2>1
<1>6. \A q \in Proc : m \in job'[q].batch /\ pc'[q] = "launch" => tries'[m] = 0
  <2>1. ASSUME NEW q \in Proc, m \in job'[q].batch, pc'[q] = "launch"
        PROVE  tries[m] = 0
    <3>1. m \in InHand(q)'
      BY <2>1 DEF InHand
    <3>2. m \in job[q].batch /\ pc[q] = "launch"
      BY <1>3, <2>1, <3>1 DEF Stays
    <3>3. QED BY <1>2, <3>2 DEF Apart
  <2>2. QED BY <2>1 DEF Stays
<1>7. \A q, r \in Proc : m \in InHand(q)' /\ m \in InHand(r)' => q = r
  BY <1>2, <1>4 DEF Apart
<1>8. m \in queue' => tries'[m] = 0 /\ m \notin inflight' /\ \A q \in Proc : m \notin InHand(q)'
  BY <1>2, <1>4 DEF Apart, Stays
<1>9. told'[m] > 0 => m \notin queue' \cup inflight' /\ \A q \in Proc : m \notin InHand(q)'
  BY <1>2, <1>4 DEF Apart, Stays
<1>10. tries'[m] < 2 /\ told'[m] < 2
  BY <1>2 DEF Apart, Stays
<1>11. QED BY <1>5, <1>6, <1>7, <1>8, <1>9, <1>10 DEF Apart

\* Mail that comes in is apart: it is new, or settled and in nobody's hand.
LEMMA IngestApart ==
  ASSUME TurnTypes, TellTypes, MailInv, NEW S \in SUBSET Msg, \A m \in S : Anew(m),
         Ingest(S), inflight' = inflight, NEW p \in Proc, OneMoves(p),
         InHand(p)' = InHand(p), NEW m \in Msg, Apart(m), pc'[p] # "launch",
         pc[p] # "notify" /\ pc'[p] # "notify"
  PROVE  Apart(m)'
<1>1. /\ queue' = queue \cup (S \ Refused) /\ mixed' = mixed \ S
      /\ tries' = [n \in Msg |-> IF n \in S THEN 0 ELSE tries[n]]
      /\ told' = [n \in Msg |-> IF n \in S THEN IF n \in Refused THEN 1 ELSE 0 ELSE told[n]]
  BY DEF Ingest
<1>2. CASE m \notin S
  <2>1. Stays(p, m)
    BY <1>1, <1>2 DEF Stays
  <2>2. QED BY <2>1, StaysApart
<1>3. CASE m \in S
  <2>1. m \notin inflight /\ m \notin queue /\ \A q \in Proc : m \notin InHand(q)
    <3>1. m \notin sent \/ (m \notin queue \cup inflight /\ \A q \in Proc : m \notin InHand(q))
      BY <1>3 DEF Anew, Settled
    <3>2. QED BY <3>1 DEF MailInv
  <2>2. \A q \in Proc : m \notin InHand(q)'
    <3>1. \A q \in Proc \ {p} : InHand(q)' = InHand(q)
      BY DEF OneMoves, InHand
    <3>2. QED BY <2>1, <3>1
  <2>3. \A q \in Proc : m \notin job'[q].batch
    BY <2>2 DEF InHand
  <2>4. tries'[m] = 0 /\ told'[m] \in {0, 1} /\ (told'[m] > 0 => m \notin queue')
    BY <1>1, <1>3, <2>1
  <2>5. QED BY <2>1, <2>2, <2>3, <2>4 DEF Apart
<1>4. QED BY <1>2, <1>3

\* A step that ends with empty hands, and touches no file, moves no message.
LEMMA QuietApart ==
  ASSUME NEW p \in Proc, NEW m \in Msg, OneMoves(p), Apart(m), HandAt(p)',
         pc'[p] \notin Burying \cup {"launch", "running", "settle"},
         UNCHANGED <<queue, inflight, tries, told, mixed>>
  PROVE  Apart(m)'
<1>1. InHand(p)' = {}
  BY DEF HandAt
<1>2. Stays(p, m)
  BY <1>1 DEF Stays
<1>3. QED BY <1>2, StaysApart

\* Every step keeps a message apart.
LEMMA MyApart ==
  ASSUME TurnTypes, AtInv, MailInv, TellInv, NEW p \in Proc, Acts(p), NEW m \in Msg
  PROVE  Apart(m)'
<1>1. HandAt(p) /\ HandAt(p)' /\ OneMoves(p) /\ Apart(m)
  BY MyHandAt, Others DEF KeepsHandAt, TellInv
<1>2. \A q \in Proc \ {p} : InHand(q)' = InHand(q) /\ pc'[q] = pc[q] /\ job'[q] = job[q]
  BY <1>1 DEF OneMoves, InHand
<1>3. TellTypes
  BY DEF TellInv
<1>. DEFINE Quiet == /\ pc'[p] \notin Burying \cup {"launch", "running", "settle"}
                    /\ UNCHANGED <<queue, inflight, tries, told, mixed>>
<1>4. Quiet => Apart(m)'
  BY <1>1, QuietApart
<1>. USE DispatchAssumption DEF mail, sched, counts
<1>5. CASE Sweep(p)
  <2>1. Quiet
    BY <1>5 DEF TurnTypes, Sweep, Go, Burying
  <2>2. QED BY <1>4, <2>1
<1>6. ASSUME NEW back \in SUBSET parked, Probe(p, back) PROVE Apart(m)'
  <2>1. Quiet
    BY <1>6 DEF TurnTypes, Probe, Go, Burying
  <2>2. QED BY <1>4, <2>1
<1>7. CASE Look(p)
  <2>1. Quiet
    BY <1>7 DEF TurnTypes, Look, Go, Burying
  <2>2. QED BY <1>4, <2>1
<1>8. CASE Pick(p)
  <2>1. Quiet
    BY <1>8 DEF TurnTypes, Pick, Go, Burying
  <2>2. QED BY <1>4, <2>1
<1>9. CASE EndPass(p)
  <2>1. Quiet
    BY <1>9 DEF TurnTypes, EndPass, Go, Burying
  <2>2. QED BY <1>4, <2>1
<1>10. CASE OutOfTime(p)
  <2>1. Quiet
    BY <1>10 DEF TurnTypes, OutOfTime, Go, Burying
  <2>2. QED BY <1>4, <2>1
<1>11. CASE Create(p)
  <2>1. Quiet
    BY <1>11 DEF TurnTypes, Create, Go, Burying
  <2>2. QED BY <1>4, <2>1
<1>12. CASE Write(p)
  <2>1. Quiet
    BY <1>12 DEF TurnTypes, Write, Go, Burying
  <2>2. QED BY <1>4, <2>1
<1>13. CASE FindStale(p)
  <2>1. Quiet
    BY <1>13 DEF TurnTypes, FindStale, Go, Burying
  <2>2. QED BY <1>4, <2>1
<1>14. CASE Unlink(p)
  <2>1. Quiet
    BY <1>14 DEF TurnTypes, Unlink, Go, Burying, Refusal
  <2>2. QED BY <1>4, <2>1
<1>15. CASE Locked(p)
  <2>1. Quiet
    BY <1>15 DEF TurnTypes, Locked, Go, Burying, Refusal
  <2>2. QED BY <1>4, <2>1
<1>16. CASE Live(p)
  <2>1. Quiet
    BY <1>16 DEF TurnTypes, Live, Go, Burying
  <2>2. QED BY <1>4, <2>1
<1>17. CASE Leave(p)
  <2>1. Quiet
    BY <1>17 DEF TurnTypes, Leave, Go, Burying
  <2>2. QED BY <1>4, <2>1
<1>18. CASE Charge(p)
  <2>1. Quiet
    BY <1>18 DEF TurnTypes, Charge, Go, Burying
  <2>2. QED BY <1>4, <2>1
<1>19. CASE Unaffordable(p)
  <2>1. Quiet
    BY <1>19 DEF TurnTypes, Unaffordable, Go, Burying
  <2>2. QED BY <1>4, <2>1
<1>20. CASE Unadmit(p)
  <2>1. Quiet
    BY <1>20 DEF TurnTypes, Unadmit, Go, Burying
  <2>2. QED BY <1>4, <2>1
<1>21. CASE Park(p)
  <2>1. Quiet
    BY <1>21 DEF TurnTypes, Park, Go, Burying
  <2>2. QED BY <1>4, <2>1
<1>22. CASE Unlock(p)
  <2>1. Quiet
    BY <1>22 DEF TurnTypes, Unlock, Go, Burying
  <2>2. QED BY <1>4, <2>1
<1>23. CASE BeginIdle(p) \/ Skip(p)
  <2>1. Quiet
    BY <1>23 DEF TurnTypes, BeginIdle, Skip, Go, Burying
  <2>2. QED BY <1>4, <2>1
<1>24. CASE Die(p)
  <2>1. Quiet
    BY <1>24 DEF TurnTypes, Die, Go, Burying
  <2>2. QED BY <1>4, <2>1
<1>25. CASE Read(p)
  <2>. DEFINE a == IF Left(p) = {} THEN None ELSE To[CHOOSE x \in Left(p) : TRUE]
  <2>1. /\ pc[p] = "read" /\ \E s \in {"probe", "bury"} : pc' = [pc EXCEPT ![p] = s]
        /\ UNCHANGED <<queue, inflight, tries, told>>
    BY <1>25, BurialSteps DEF Read, Go
  <2>2. pc'[p] \in {"probe", "bury"}
    BY <2>1 DEF TurnTypes
  <2>3. mixed' = mixed \cup {x \in Left(p) : \E q \in Proc \ {p} : x \in InHand(q)}
    BY <1>25 DEF Read
  <2>4. job' = [job EXCEPT ![p].orphans = Left(p), ![p].living = {}, ![p].who = a,
                           ![p].batch = Of(a, Left(p))]
    BY <1>25 DEF Read
  <2>. HIDE DEF a
  <2>5. job'[p].orphans = Left(p) /\ job'[p].batch = Of(a, Left(p))
    BY <2>4 DEF TurnTypes, Job
  <2>6. InHand(p)' = Left(p)
    BY <2>5 DEF InHand, Of
  <2>7. InHand(p) = {}
    BY <1>1, <2>1 DEF HandAt, Burying
  <2>8. CASE m \notin Left(p)
    <3>1. Stays(p, m)
      BY <2>1, <2>3, <2>6, <2>8 DEF Stays
    <3>2. QED BY <1>1, <3>1, StaysApart
  <2>9. CASE m \in Left(p) /\ m \notin mixed'
    <3>1. m \in inflight /\ m \notin mixed /\ \A q \in Proc \ {p} : m \notin InHand(q)
      BY <2>3, <2>9 DEF Left
    <3>2. \A q \in Proc : m \in InHand(q)' => q = p
      BY <1>2, <3>1
    <3>3. \A q \in Proc : m \in job'[q].batch => q = p
      BY <3>2 DEF InHand
    <3>4. pc'[p] # "notify" /\ pc'[p] # "launch"
      BY <2>2
    <3>5. m \notin queue /\ ~(told[m] > 0) /\ tries[m] < 2 /\ told[m] < 2
      BY <1>1, <3>1 DEF Apart
    <3>6. QED BY <2>1, <3>1, <3>2, <3>3, <3>4, <3>5 DEF Apart
  <2>10. QED BY <2>8, <2>9 DEF Apart
<1>26. CASE Bury(p)
  <2>1. /\ pc[p] = "bury" /\ pc' = [pc EXCEPT ![p] = "drop"] /\ job' = job
        /\ UNCHANGED <<queue, inflight, tries, told, mixed>>
    BY <1>26, OnwardSteps DEF Bury
  <2>2. pc'[p] = "drop"
    BY <2>1 DEF TurnTypes
  <2>3. Stays(p, m)
    BY <2>1, <2>2 DEF Stays, InHand
  <2>4. QED BY <1>1, <2>3, StaysApart
<1>27. CASE Drop(p)
  <2>1. /\ pc[p] = "drop" /\ pc' = [pc EXCEPT ![p] = "notify"] /\ job' = job
        /\ UNCHANGED <<queue, tries, told>>
        /\ inflight' = inflight \ Of(Who(p), inflight)
        /\ mixed' = mixed \cup (Of(Who(p), inflight) \ job[p].batch)
    BY <1>27, OnwardSteps DEF Drop
  <2>2. pc'[p] = "notify" /\ InHand(p)' = InHand(p)
    BY <2>1 DEF TurnTypes, InHand
  <2>3. CASE m \notin job[p].batch /\ m \notin mixed'
    <3>1. m \notin Of(Who(p), inflight)
      BY <2>1, <2>3
    <3>2. Stays(p, m)
      BY <2>1, <2>2, <2>3, <3>1 DEF Stays
    <3>3. QED BY <1>1, <3>2, StaysApart
  <2>4. CASE m \in job[p].batch /\ m \notin mixed'
    <3>1. m \notin mixed /\ m \in InHand(p) /\ To[m] = Who(p)
      BY <1>1, <2>1, <2>4 DEF InHand, HandAt
    <3>2. m \notin inflight'
      BY <2>1, <3>1 DEF Of
    <3>3. m \notin queue' /\ ~(told'[m] > 0) /\ tries'[m] < 2 /\ told'[m] < 2
      BY <1>1, <2>1, <3>1 DEF Apart
    <3>4. \A q \in Proc : m \in InHand(q)' => q = p
      BY <1>1, <1>2, <3>1 DEF Apart
    <3>5. \A q \in Proc : m \in job'[q].batch => q = p
      BY <3>4 DEF InHand
    <3>6. QED BY <2>1, <2>2, <2>4, <3>2, <3>3, <3>4, <3>5 DEF Apart
  <2>5. QED BY <2>3, <2>4 DEF Apart
<1>28. CASE Notify(p)
  <2>. DEFINE note == {Notice[x] : x \in job[p].batch} \ ({None} \cup sent)
  <2>1. /\ pc[p] = "notify" /\ Onward(p, "notify") /\ UNCHANGED <<inflight, tries, mixed>>
        /\ queue' = queue \cup note
        /\ told' = [x \in Msg |-> IF x \in job[p].batch /\ told[x] < 2 THEN told[x] + 1 ELSE told[x]]
    BY <1>28 DEF Notify
  <2>. HIDE DEF note
  <2>2. m \in note => m \notin sent
    BY DEF note
  <2>3. \/ pc' = [pc EXCEPT ![p] = "park"] \/ pc' = [pc EXCEPT ![p] = "unlock"]
        \/ pc' = [pc EXCEPT ![p] = "bury"] \/ pc' = [pc EXCEPT ![p] = "probe"]
    BY <2>1, OnwardSteps
  <2>4. pc'[p] # "notify" /\ pc'[p] # "launch"
    BY <2>3 DEF TurnTypes
  <2>5. InHand(p)' \subseteq InHand(p) \ job[p].batch
    <3>1. CASE job[p].end # "none"
      <4>1. job' = [job EXCEPT ![p].batch = {}]
        BY <2>1, <3>1, OnwardSteps
      <4>2. job'[p].batch = {} /\ job'[p].orphans = job[p].orphans
        BY <4>1 DEF TurnTypes, Job
      <4>3. job[p].orphans = {}
        BY <1>1, <3>1 DEF HandAt
      <4>4. QED BY <4>2, <4>3 DEF InHand
    <3>2. CASE job[p].end = "none" /\ job' = [job EXCEPT ![p] = Idle]
      BY <3>2 DEF TurnTypes, Idle, InHand
    <3>3. CASE job[p].end = "none" /\ job' # [job EXCEPT ![p] = Idle]
      <4>1. PICK S \in SUBSET job[p].orphans, a \in Member :
              /\ S \cap job[p].batch = {}
              /\ job' = [job EXCEPT ![p].orphans = S, ![p].who = a, ![p].batch = Of(a, S)]
        BY <2>1, <3>3, OnwardSteps
      <4>2. job'[p].orphans = S /\ job'[p].batch = Of(a, S)
        BY <4>1 DEF TurnTypes, Job
      <4>3. QED BY <4>1, <4>2 DEF InHand, Of
    <3>4. QED BY <3>1, <3>2, <3>3
  <2>6. CASE m \notin job[p].batch /\ m \notin note
    <3>1. told'[m] = told[m] /\ (m \in queue' <=> m \in queue)
      BY <2>1, <2>6
    <3>2. Stays(p, m)
      BY <2>1, <2>4, <2>5, <2>6, <3>1 DEF Stays
    <3>3. QED BY <1>1, <3>2, StaysApart
  <2>7. CASE m \in note
    <3>1. m \notin sent /\ tries[m] = 0 /\ told[m] = 0
      BY <2>2, <2>7 DEF TellInv, FreshInv
    <3>2. m \notin inflight /\ \A q \in Proc : m \notin InHand(q)
      BY <3>1 DEF MailInv
    <3>3. m \notin job[p].batch
      BY <3>2 DEF InHand
    <3>4. told'[m] = 0 /\ tries'[m] = 0
      BY <2>1, <3>1, <3>3
    <3>5. \A q \in Proc : m \notin InHand(q)'
      BY <1>2, <2>5, <3>2
    <3>6. \A q \in Proc : m \notin job'[q].batch
      BY <3>5 DEF InHand
    <3>7. QED BY <2>1, <3>2, <3>4, <3>5, <3>6 DEF Apart
  <2>8. CASE m \in job[p].batch /\ m \notin mixed
    <3>1. m \in InHand(p)
      BY <2>8 DEF InHand
    <3>2. m \notin inflight /\ m \notin queue
      BY <1>1, <2>1, <2>8, <3>1 DEF Apart
    <3>3. told[m] = 0 /\ tries[m] < 2
      BY <1>1, <1>3, <2>8, <3>1 DEF Apart, TellTypes
    <3>4. m \notin note
      BY <2>2, <3>1 DEF MailInv
    <3>5. told'[m] = 1 /\ m \notin queue' /\ m \notin inflight'
      BY <2>1, <2>8, <3>2, <3>3, <3>4
    <3>6. \A q \in Proc : m \notin InHand(q)'
      BY <1>1, <1>2, <2>5, <2>8, <3>1 DEF Apart
    <3>7. \A q \in Proc : m \notin job'[q].batch
      BY <3>6 DEF InHand
    <3>8. QED BY <2>1, <3>3, <3>5, <3>6, <3>7 DEF Apart
  <2>9. QED BY <2>1, <2>6, <2>7, <2>8 DEF Apart
<1>29. CASE Claim(p)
  <2>1. /\ pc[p] = "claim" /\ UNCHANGED <<tries, told>>
        /\ queue' = queue \ Of(Who(p), queue) /\ inflight' = inflight \cup Of(Who(p), queue)
        /\ mixed' = mixed \cup Of(Who(p), inflight)
    BY <1>29 DEF Claim, Moved
  <2>2. /\ pc'[p] \in {"unlock", "launch"} /\ job'[p].batch = Of(Who(p), queue)
        /\ job'[p].orphans = job[p].orphans
    BY <1>29 DEF Claim, Go, TurnTypes, Job
  <2>3. InHand(p) = {}
    BY <1>1, <2>1 DEF HandAt, Burying
  <2>4. InHand(p)' = Of(Who(p), queue)
    BY <2>2, <2>3 DEF InHand
  <2>5. CASE m \notin Of(Who(p), queue)
    <3>1. Stays(p, m)
      BY <2>1, <2>4, <2>5 DEF Stays
    <3>2. QED BY <1>1, <3>1, StaysApart
  <2>6. CASE m \in Of(Who(p), queue) /\ m \notin mixed'
    <3>1. m \in queue /\ m \notin mixed /\ m \notin queue' /\ m \in inflight'
      BY <2>1, <2>6 DEF Of
    <3>2. tries[m] = 0 /\ (\A q \in Proc : m \notin InHand(q)) /\ ~(told[m] > 0) /\ told[m] < 2
      BY <1>1, <3>1 DEF Apart
    <3>3. \A q \in Proc : m \in InHand(q)' => q = p
      BY <1>2, <3>2
    <3>4. QED BY <2>1, <2>2, <3>1, <3>2, <3>3 DEF Apart
  <2>7. QED BY <2>5, <2>6 DEF Apart
<1>30. CASE Launch(p)
  <2>1. /\ pc[p] = "launch" /\ pc' = [pc EXCEPT ![p] = "running"]
        /\ UNCHANGED <<queue, inflight, job, told, mixed>>
        /\ tries' = [x \in Msg |-> IF x \in job[p].batch /\ tries[x] < 2 THEN tries[x] + 1 ELSE tries[x]]
    BY <1>30 DEF Launch, Go
  <2>2. pc'[p] = "running"
    BY <2>1 DEF TurnTypes
  <2>3. CASE m \notin job[p].batch
    <3>1. Stays(p, m)
      BY <2>1, <2>2, <2>3 DEF Stays, InHand
    <3>2. QED BY <1>1, <3>1, StaysApart
  <2>4. CASE m \in job[p].batch /\ m \notin mixed
    <3>1. m \in InHand(p)
      BY <2>4 DEF InHand
    <3>2. tries[m] = 0 /\ m \in inflight /\ m \notin queue /\ ~(told[m] > 0) /\ told[m] < 2
      BY <1>1, <2>1, <2>4, <3>1 DEF Apart
    <3>3. tries'[m] = 1
      BY <2>1, <2>4, <3>2
    <3>4. \A q \in Proc : m \in InHand(q)' => q = p
      BY <1>1, <1>2, <2>4, <3>1 DEF Apart
    <3>5. \A q \in Proc : m \in job'[q].batch => q = p
      BY <3>4 DEF InHand
    <3>6. QED BY <2>1, <2>2, <3>2, <3>3, <3>4, <3>5 DEF Apart
  <2>5. QED BY <2>1, <2>3, <2>4 DEF Apart
<1>31. CASE PutBack(p)
  <2>. DEFINE back == Of(Who(p), inflight)
  <2>1. /\ pc[p] = "launch" /\ pc' = [pc EXCEPT ![p] = "off"] /\ UNCHANGED <<tries, told>>
        /\ queue' = queue \cup back /\ inflight' = inflight \ back
        /\ mixed' = mixed \cup (back \ job[p].batch) /\ job' = [job EXCEPT ![p] = Idle]
    BY <1>31 DEF PutBack, Go
  <2>2. InHand(p)' = {}
    BY <2>1 DEF InHand, Idle, TurnTypes
  <2>3. CASE m \notin back
    <3>1. Stays(p, m)
      BY <2>1, <2>2, <2>3 DEF Stays
    <3>2. QED BY <1>1, <3>1, StaysApart
  <2>4. CASE m \in back /\ m \notin mixed'
    <3>1. m \in job[p].batch /\ m \notin mixed /\ m \in inflight
      BY <2>1, <2>4 DEF Of
    <3>2. m \in InHand(p)
      BY <3>1 DEF InHand
    <3>3. tries[m] = 0 /\ ~(told[m] > 0) /\ told[m] < 2
      BY <1>1, <2>1, <3>1 DEF Apart
    <3>4. \A q \in Proc : m \notin InHand(q)'
      BY <1>1, <1>2, <2>2, <3>1, <3>2 DEF Apart
    <3>5. \A q \in Proc : m \notin job'[q].batch
      BY <3>4 DEF InHand
    <3>6. m \notin inflight'
      BY <2>1, <2>4
    <3>7. QED BY <2>1, <3>3, <3>4, <3>5, <3>6 DEF Apart
  <2>5. QED BY <2>3, <2>4 DEF Apart
<1>32. ASSUME NEW end \in Outcome, NEW staged \in SUBSET (Msg \ Ingress),
               Return(p, end, staged)
       PROVE  Apart(m)'
  <2>1. /\ pc[p] = "running" /\ Ingest(staged) /\ inflight' = inflight /\ staged \subseteq Msg
        /\ \A x \in staged : Anew(x)
    BY <1>32 DEF Return
  <2>2. pc' = [pc EXCEPT ![p] = "settle"] \/ pc' = [pc EXCEPT ![p] = "bury"]
    BY <1>32, BurialSteps DEF Return, Go
  <2>3. pc'[p] # "launch" /\ pc'[p] # "notify"
    BY <2>2 DEF TurnTypes
  <2>4. InHand(p)' = InHand(p)
    BY <1>32 DEF Return, InHand, TurnTypes, Job
  <2>5. QED BY <1>1, <1>3, <2>1, <2>3, <2>4, IngestApart
<1>33. CASE Settle(p)
  <2>1. /\ pc[p] = "settle" /\ pc' = [pc EXCEPT ![p] = "unlock"] /\ UNCHANGED <<queue, tries, told>>
        /\ inflight' = inflight \ Of(Who(p), inflight)
        /\ mixed' = mixed \cup (Of(Who(p), inflight) \ job[p].batch)
    BY <1>33 DEF Settle, Go, counts
  <2>2. pc'[p] = "unlock"
    BY <2>1 DEF TurnTypes
  <2>3. InHand(p)' = {}
    BY <1>1, <2>2 DEF HandAt, Burying
  <2>4. CASE m \notin Of(Who(p), inflight)
    <3>1. Stays(p, m)
      BY <2>1, <2>3, <2>4 DEF Stays
    <3>2. QED BY <1>1, <3>1, StaysApart
  <2>5. CASE m \in Of(Who(p), inflight) /\ m \notin mixed'
    <3>1. m \in job[p].batch /\ m \notin mixed /\ m \in inflight /\ m \notin inflight'
      BY <2>1, <2>5 DEF Of
    <3>2. m \in InHand(p)
      BY <3>1 DEF InHand
    <3>3. tries[m] < 2 /\ told[m] < 2 /\ m \notin queue
      BY <1>1, <3>1 DEF Apart
    <3>4. \A q \in Proc : m \notin InHand(q)'
      BY <1>1, <1>2, <2>3, <3>1, <3>2 DEF Apart
    <3>5. \A q \in Proc : m \notin job'[q].batch
      BY <3>4 DEF InHand
    <3>6. QED BY <2>1, <3>1, <3>3, <3>4, <3>5 DEF Apart
  <2>6. QED BY <2>4, <2>5 DEF Apart
<1>34. ASSUME NEW x \in Ingress, Dispatch(p, x) PROVE Apart(m)'
  <2>1. /\ pc[p] = "off" /\ Ingest({x}) /\ inflight' = inflight /\ Anew(x) /\ x \in Msg
        /\ job' = job /\ pc' = [pc EXCEPT ![p] = "look"]
    BY <1>34 DEF Dispatch, Go
  <2>2. pc'[p] # "launch" /\ pc'[p] # "notify" /\ InHand(p)' = InHand(p)
    BY <2>1 DEF TurnTypes, InHand
  <2>3. QED BY <1>1, <1>3, <2>1, <2>2, IngestApart
<1>. HIDE DEF Apart
<1>35. CASE Walk(p)
  BY <1>5, <1>6, <1>7, <1>8, <1>9, <1>10, <1>11, <1>12, <1>13, <1>14, <1>15, <1>16,
     <1>17, <1>18, <1>19, <1>20, <1>21, <1>22, <1>25, <1>26, <1>27, <1>28, <1>29,
     <1>30, <1>31, <1>32, <1>33, <1>35
  DEF Walk
<1>36. QED BY <1>23, <1>24, <1>34, <1>35 DEF Acts

\* What was never accepted stays untried, and the types stay.
LEMMA NextFresh ==
  ASSUME TurnTypes, MailInv, TellTypes, FreshInv, NEW p \in Proc, Acts(p)
  PROVE  TellTypes' /\ FreshInv'
<1>. DEFINE Kept == TellTypes' /\ FreshInv'
<1>. SUFFICES Kept
  OBVIOUS
<1>1. ASSUME NEW S \in SUBSET Msg, Ingest(S) PROVE Kept
  <2>1. /\ sent' = sent \cup S
        /\ tries' = [n \in Msg |-> IF n \in S THEN 0 ELSE tries[n]]
        /\ told' = [n \in Msg |-> IF n \in S THEN IF n \in Refused THEN 1 ELSE 0 ELSE told[n]]
    BY <1>1 DEF Ingest
  <2>2. TellTypes'
    BY <2>1 DEF TellTypes
  <2>3. FreshInv'
    BY <2>1 DEF FreshInv
  <2>4. QED BY <2>2, <2>3
<1>2. ASSUME UNCHANGED counts PROVE Kept
  BY <1>2 DEF counts, TellTypes, FreshInv
<1>3. CASE Notify(p)
  <2>1. /\ tries' = tries /\ sent \subseteq sent'
        /\ told' = [x \in Msg |-> IF x \in job[p].batch /\ told[x] < 2 THEN told[x] + 1 ELSE told[x]]
    BY <1>3 DEF Notify
  <2>2. TellTypes'
    BY <2>1 DEF TellTypes
  <2>3. \A x \in Msg \ sent' : x \notin job[p].batch
    BY <2>1 DEF MailInv, InHand
  <2>4. FreshInv'
    BY <2>1, <2>3 DEF FreshInv
  <2>5. QED BY <2>2, <2>4
<1>4. CASE Launch(p)
  <2>1. /\ told' = told /\ sent' = sent
        /\ tries' = [x \in Msg |-> IF x \in job[p].batch /\ tries[x] < 2 THEN tries[x] + 1 ELSE tries[x]]
    BY <1>4 DEF Launch
  <2>2. TellTypes'
    BY <2>1 DEF TellTypes
  <2>3. \A x \in Msg \ sent' : x \notin job[p].batch
    BY <2>1 DEF MailInv, InHand
  <2>4. FreshInv'
    BY <2>1, <2>3 DEF FreshInv
  <2>5. QED BY <2>2, <2>4
<1>5. ASSUME NEW end \in Outcome, NEW staged \in SUBSET (Msg \ Ingress), Return(p, end, staged)
      PROVE  Kept
  <2>1. Ingest(staged) /\ staged \in SUBSET Msg
    BY <1>5 DEF Return
  <2>. HIDE DEF Kept
  <2>2. QED BY <1>1, <2>1
<1>6. ASSUME NEW m \in Ingress, Dispatch(p, m) PROVE Kept
  <2>1. Ingest({m}) /\ {m} \in SUBSET Msg
    BY <1>6, DispatchAssumption DEF Dispatch
  <2>. HIDE DEF Kept
  <2>2. QED BY <1>1, <2>1
<1>7. CASE \/ Sweep(p) \/ Read(p) \/ Bury(p) \/ Drop(p) \/ (\E back \in SUBSET parked : Probe(p, back))
           \/ Look(p) \/ Pick(p) \/ EndPass(p) \/ OutOfTime(p)
           \/ Create(p) \/ Write(p) \/ FindStale(p) \/ Unlink(p) \/ Locked(p)
  <2>1. UNCHANGED counts
    BY <1>7 DEF Sweep, Read, Bury, Drop, Probe, Look, Pick, EndPass, OutOfTime, Create, Write,
       FindStale, Unlink, Locked
  <2>. HIDE DEF Kept
  <2>2. QED BY <1>2, <2>1
<1>8. CASE \/ Live(p) \/ Leave(p) \/ Charge(p) \/ Unaffordable(p) \/ Unadmit(p)
           \/ Claim(p) \/ PutBack(p) \/ Settle(p) \/ Park(p) \/ Unlock(p)
           \/ BeginIdle(p) \/ Skip(p) \/ Die(p)
  <2>1. UNCHANGED counts
    BY <1>8 DEF Live, Leave, Charge, Unaffordable, Unadmit, Claim, PutBack, Settle, Park,
       Unlock, BeginIdle, Skip, Die
  <2>. HIDE DEF Kept
  <2>2. QED BY <1>2, <2>1
<1>. HIDE DEF Kept
<1>9. QED BY <1>3, <1>4, <1>5, <1>6, <1>7, <1>8 DEF Acts, Walk

(***************************************************************************)
(* The theorems.                                                           *)
(***************************************************************************)
TurnInv == TurnTypes /\ AtInv /\ LockInv /\ AloneInv /\ MailInv /\ NothingDropped

\* It holds at first ...
LEMMA InitTurns == Init => TurnInv
<1>. SUFFICES ASSUME Init PROVE TurnInv
  OBVIOUS
<1>. USE DispatchAssumption DEF Init
<1>1. \A p \in Proc : pc[p] = "off" /\ job[p] = Idle
  OBVIOUS
<1>2. TurnTypes
  <2>1. <<>> \in UNION {[S -> Nat] : S \in SUBSET Member}
    <3>1. <<>> \in [{} -> Nat] OBVIOUS
    <3>2. QED BY <3>1
  <2>2. Idle \in Job
    BY <2>1 DEF Idle, Job, Lock
  <2>3. NoFile \in [by : Proc \cup {None, Gone}, told : BOOLEAN]
    BY DEF NoFile
  <2>4. QED BY <2>2, <2>3 DEF TurnTypes, Steps
<1>3. AtInv
  BY <1>1 DEF AtInv, Burying, Idle
<1>4. \A p \in Proc : ~HasAdmission(p) /\ ~HasOwn(p) /\ ~InTurn(p) /\ ~Admitted(p)
  BY <1>1, BurialSteps DEF HasAdmission, HasOwn, InTurn, Admitted, Burying
<1>5. LockInv /\ AloneInv
  BY <1>1, <1>4 DEF LockInv, Holds, AloneInv
<1>6. MailInv /\ NothingDropped
  BY <1>1 DEF MailInv, InHand, Idle, NothingDropped
<1>7. QED BY <1>2, <1>3, <1>5, <1>6 DEF TurnInv

\* ... and every step keeps it.
LEMMA NextTurns == TurnInv /\ [Next]_vars => TurnInv'
<1>. SUFFICES ASSUME TurnInv, [Next]_vars PROVE TurnInv'
  OBVIOUS
<1>1. TurnTypes /\ AtInv /\ LockInv /\ AloneInv /\ MailInv /\ NothingDropped
  BY DEF TurnInv
<1>2. TurnTypes' /\ AtInv'
  BY <1>1, NextTypes, NextAt
<1>3. ASSUME NEW p \in Proc, Acts(p) PROVE LockInv' /\ AloneInv' /\ MailInv' /\ NothingDropped'
  BY <1>1, <1>3, NextLock, NextAlone, NextMail
<1>4. ASSUME UNCHANGED <<lock, pc, job, stolen, queue, inflight, dead, spent, mixed, sent>>
      PROVE  LockInv' /\ AloneInv' /\ MailInv' /\ NothingDropped'
  <2>1. \A p \in Proc : /\ HasAdmission(p)' <=> HasAdmission(p)
                        /\ HasOwn(p)' <=> HasOwn(p)
                        /\ InTurn(p)' <=> InTurn(p)
                        /\ Admitted(p)' <=> Admitted(p)
                        /\ InHand(p)' = InHand(p)
    BY <1>4 DEF HasAdmission, HasOwn, InTurn, Admitted, InHand, Who
  <2>2. QED BY <1>1, <1>4, <2>1 DEF LockInv, Holds, AloneInv, MailInv, NothingDropped, Who
<1>5. ASSUME Elsewhere PROVE LockInv' /\ AloneInv' /\ MailInv' /\ NothingDropped'
  BY <1>4, <1>5 DEF Elsewhere, Earn, HarnessEnds, mail, counts
<1>6. ASSUME UNCHANGED vars PROVE LockInv' /\ AloneInv' /\ MailInv' /\ NothingDropped'
  <2>1. UNCHANGED <<lock, pc, job, stolen, queue, inflight, dead, spent, mixed, sent>>
    BY <1>6 DEF vars
  <2>2. QED BY <1>4, <2>1
<1>7. LockInv' /\ AloneInv' /\ MailInv' /\ NothingDropped'
  <2>1. CASE \E p \in Proc : Acts(p)
    BY <1>3, <2>1
  <2>2. CASE Elsewhere
    BY <1>5, <2>2
  <2>3. Next => (\E p \in Proc : Acts(p)) \/ Elsewhere
    BY DEF Next, Acts, Elsewhere
  <2>4. QED BY <1>6, <2>1, <2>2, <2>3
<1>8. QED BY <1>2, <1>7 DEF TurnInv

\* The inductive invariant.
THEOREM TurnsInvariant == Spec => []TurnInv
<1>1. QED BY InitTurns, NextTurns, PTL DEF Spec

\* No accepted message is lost track of, but by two processes that have it in hand or by
\* a turn that finds it left over.
THEOREM NoneDropped == Spec => []NothingDropped
<1>1. TurnInv => NothingDropped
  BY DEF TurnInv
<1>2. QED BY <1>1, TurnsInvariant, PTL

\* The invariant that keeps messages apart holds at first ...
LEMMA InitTell == Init => TellInv
<1>. SUFFICES ASSUME Init PROVE TellInv
  OBVIOUS
<1>1. \A p \in Proc : InHand(p) = {} /\ job[p].batch = {} /\ job[p].orphans = {}
  BY DEF Init, InHand, Idle
<1>2. TellTypes /\ FreshInv
  BY DEF Init, TellTypes, FreshInv
<1>3. \A p \in Proc : HandAt(p)
  BY <1>1 DEF HandAt
<1>4. \A m \in Msg : Apart(m)
  BY <1>1, <1>2 DEF Init, Apart
<1>5. QED BY <1>2, <1>3, <1>4 DEF TellInv

\* ... and is kept by every step.
LEMMA NextTell == TurnInv /\ TellInv /\ [Next]_vars => TellInv'
<1>. SUFFICES ASSUME TurnInv, TellInv, [Next]_vars PROVE TellInv'
  OBVIOUS
<1>1. TurnTypes /\ AtInv /\ MailInv /\ TellTypes /\ FreshInv /\ \A p \in Proc : HandAt(p)
  BY DEF TurnInv, TellInv
<1>2. ASSUME NEW p \in Proc, Acts(p) PROVE TellInv'
  <2>1. TellTypes' /\ FreshInv'
    BY <1>1, <1>2, NextFresh
  <2>2. HandAt(p)' /\ OneMoves(p)
    BY <1>1, <1>2, MyHandAt, Others DEF KeepsHandAt
  <2>3. ASSUME NEW q \in Proc PROVE HandAt(q)'
    <3>1. CASE q = p
      BY <2>2, <3>1
    <3>2. CASE q # p
      <4>1. pc'[q] = pc[q] /\ job'[q] = job[q]
        BY <2>2, <3>2 DEF OneMoves
      <4>2. HandAt(q)
        BY <1>1
      <4>3. QED BY <4>1, <4>2 DEF HandAt, InHand, Who
    <3>3. QED BY <3>1, <3>2
  <2>4. \A m \in Msg : Apart(m)'
    BY <1>1, <1>2, MyApart
  <2>5. QED BY <2>1, <2>3, <2>4 DEF TellInv
<1>3. ASSUME UNCHANGED <<pc, job, queue, inflight, mixed, sent, tries, told>> PROVE TellInv'
  <2>1. \A p \in Proc : InHand(p)' = InHand(p) /\ (HandAt(p)' <=> HandAt(p))
    BY <1>3 DEF InHand, HandAt, Who
  <2>2. \A m \in Msg : Apart(m)' <=> Apart(m)
    BY <1>3, <2>1 DEF Apart
  <2>3. TellTypes' /\ FreshInv'
    BY <1>1, <1>3 DEF TellTypes, FreshInv
  <2>4. QED BY <2>1, <2>2, <2>3 DEF TellInv
<1>4. ASSUME Elsewhere PROVE TellInv'
  BY <1>3, <1>4 DEF Elsewhere, Earn, HarnessEnds, mail, counts
<1>5. CASE UNCHANGED vars
  <2>1. UNCHANGED <<pc, job, queue, inflight, mixed, sent, tries, told>>
    BY <1>5 DEF vars
  <2>2. QED BY <1>3, <2>1
<1>6. Next => (\E p \in Proc : Acts(p)) \/ Elsewhere
  BY DEF Next, Acts, Elsewhere
<1>7. QED BY <1>2, <1>4, <1>5, <1>6

\* A message is given to one turn at most, unless two processes had it in hand or a turn
\* found it left over: a batch that is put back has not been tried.
THEOREM GivenOnce == Spec => []RunsOnce
<1>1. TellInv => RunsOnce
  BY DEF TellInv, Apart, RunsOnce
<1>2. QED BY <1>1, InitTurns, NextTurns, InitTell, NextTell, PTL DEF Spec

\* Its sender hears of a failure once at most, with the same exception: the claim is
\* dropped before anybody is told.
THEOREM HeardOnce == Spec => []ToldOnce
<1>1. TellInv => ToldOnce
  BY DEF TellInv, Apart, ToldOnce
<1>2. QED BY <1>1, InitTurns, NextTurns, InitTell, NextTell, PTL DEF Spec

(***************************************************************************)
(* A harness that outlives its process.                                    *)
(***************************************************************************)
\* A message of a running turn was tried and is with no harness adrift; one that is with
\* a harness adrift was tried, so no queue can hand it to another turn.
Drift(m) ==
  m \notin mixed =>
    /\ \A p \in Proc : pc[p] = "running" /\ m \in job[p].batch => tries[m] >= 1 /\ m \notin adrift
    /\ m \in adrift => tries[m] >= 1

DriftInv == \A m \in Msg : Drift(m)

\* No step gives out mail that is with a harness adrift.
LEMMA MyDrift ==
  ASSUME TurnTypes, AtInv, MailInv, TellInv, NEW p \in Proc, Acts(p), NEW m \in Msg, Drift(m)
  PROVE  Drift(m)'
<1>1. OneMoves(p) /\ Apart(m) /\ TellTypes
  BY Others DEF TellInv
<1>2. \A q \in Proc \ {p} : pc'[q] = pc[q] /\ job'[q] = job[q]
  BY <1>1 DEF OneMoves
<1>3. tries[m] \in 0..2
  BY <1>1 DEF TellTypes
<1>. DEFINE Ends == pc'[p] # "running"
            Calm == UNCHANGED <<tries, adrift>> /\ mixed \subseteq mixed'
<1>4. Ends /\ Calm => Drift(m)'
  BY <1>2 DEF Drift
<1>5. ASSUME Ends, NEW S \in SUBSET Msg, Ingest(S), \A x \in S : Anew(x) PROVE Drift(m)'
  <2>1. /\ adrift' = adrift \ S /\ mixed' = mixed \ S
        /\ tries' = [x \in Msg |-> IF x \in S THEN 0 ELSE tries[x]]
    BY <1>5 DEF Ingest
  <2>2. CASE m \notin S
    BY <1>2, <1>5, <2>1, <2>2 DEF Drift
  <2>3. CASE m \in S
    <3>1. \A q \in Proc : m \notin InHand(q)
      BY <1>5, <2>3 DEF Anew, Settled, MailInv
    <3>2. \A q \in Proc : pc'[q] = "running" => m \notin job'[q].batch
      BY <1>2, <1>5, <3>1 DEF InHand
    <3>3. QED BY <2>1, <2>3, <3>2 DEF Drift
  <2>4. QED BY <2>2, <2>3
<1>6. CASE Launch(p)
  <2>1. /\ pc[p] = "launch" /\ job' = job /\ UNCHANGED <<mixed, adrift>>
        /\ tries' = [x \in Msg |-> IF x \in job[p].batch /\ tries[x] < 2 THEN tries[x] + 1 ELSE tries[x]]
    BY <1>6 DEF Launch
  <2>2. tries'[m] >= tries[m] /\ (m \in job[p].batch => tries'[m] >= 1)
    BY <1>3, <2>1
  <2>3. ASSUME m \notin mixed, m \in job[p].batch PROVE m \notin adrift
    <3>1. tries[m] = 0
      BY <1>1, <2>1, <2>3 DEF Apart
    <3>2. QED BY <2>3, <3>1 DEF Drift
  <2>4. tries'[m] \in 0..2
    BY <1>3, <2>1
  <2>5. ASSUME m \notin mixed, NEW q \in Proc, pc'[q] = "running", m \in job'[q].batch
        PROVE  tries'[m] >= 1 /\ m \notin adrift'
    <3>1. CASE q = p
      BY <2>1, <2>2, <2>3, <2>5, <3>1
    <3>2. CASE q # p
      BY <1>2, <1>3, <2>1, <2>2, <2>4, <2>5, <3>2 DEF Drift
    <3>3. QED BY <3>1, <3>2
  <2>6. m \notin mixed /\ m \in adrift => tries'[m] >= 1
    BY <1>3, <2>2, <2>4 DEF Drift
  <2>7. QED BY <2>1, <2>5, <2>6 DEF Drift
<1>7. CASE Die(p)
  <2>1. Ends
    BY <1>7 DEF TurnTypes, Die, Go
  <2>2. UNCHANGED <<tries, mixed>>
    BY <1>7 DEF Die, counts
  <2>3. adrift' = IF pc[p] = "running" THEN adrift \cup job[p].batch ELSE adrift
    BY <1>7 DEF Die
  <2>4. CASE pc[p] = "running" /\ m \in job[p].batch
    <3>1. m \notin mixed => tries[m] >= 1
      BY <2>4 DEF Drift
    <3>2. ASSUME NEW q \in Proc, pc'[q] = "running", m \in job'[q].batch PROVE m \in mixed
      <4>1. q # p /\ m \in job[q].batch
        BY <1>2, <2>1, <3>2
      <4>2. m \in InHand(p) /\ m \in InHand(q)
        BY <2>4, <4>1 DEF InHand
      <4>3. QED BY <1>1, <4>1, <4>2 DEF Apart
    <3>3. QED BY <2>2, <3>1, <3>2 DEF Drift
  <2>5. CASE ~(pc[p] = "running" /\ m \in job[p].batch)
    <3>1. m \in adrift' <=> m \in adrift
      BY <2>3, <2>5
    <3>2. QED BY <1>2, <2>1, <2>2, <3>1 DEF Drift
  <2>6. QED BY <2>4, <2>5
<1>8. ASSUME NEW end \in Outcome, NEW staged \in SUBSET (Msg \ Ingress), Return(p, end, staged)
      PROVE  Drift(m)'
  <2>1. pc[p] = "running" /\ \E s \in Burying \cup {"settle"} : pc' = [pc EXCEPT ![p] = s]
    BY <1>8, BurialSteps DEF Return, Go, Burying
  <2>2. Ends
    BY <2>1 DEF TurnTypes, Burying
  <2>3. Ingest(staged) /\ staged \in SUBSET Msg /\ \A x \in staged : Anew(x)
    BY <1>8 DEF Return
  <2>4. QED BY <1>5, <2>2, <2>3
<1>9. ASSUME NEW x \in Ingress, Dispatch(p, x) PROVE Drift(m)'
  <2>1. Ends
    BY <1>9 DEF TurnTypes, Dispatch, Go
  <2>2. Ingest({x}) /\ {x} \in SUBSET Msg /\ \A y \in {x} : Anew(y)
    BY <1>9, DispatchAssumption DEF Dispatch
  <2>3. QED BY <1>5, <2>1, <2>2
<1>10. CASE Bury(p) \/ Drop(p) \/ Notify(p)
  <2>1. Calm
    BY <1>10 DEF Bury, Drop, Notify, counts
  <2>2. pc[p] \in Burying /\ \E s \in Steps \ {"running"} : pc' = [pc EXCEPT ![p] = s]
    <3>1. CASE Bury(p)
      BY <3>1, OnwardSteps DEF Bury, Burying, Steps
    <3>2. CASE Drop(p)
      BY <3>2, OnwardSteps DEF Drop, Burying, Steps
    <3>3. CASE Notify(p)
      <4>1. pc[p] = "notify" /\ Onward(p, "notify")
        BY <3>3 DEF Notify
      <4>2. \E s \in {"park", "unlock", "bury", "probe"} : pc' = [pc EXCEPT ![p] = s]
        BY <4>1, OnwardSteps
      <4>3. QED BY <4>1, <4>2 DEF Burying, Steps
    <3>4. QED BY <1>10, <3>1, <3>2, <3>3
  <2>3. Ends
    BY <2>2 DEF TurnTypes
  <2>4. QED BY <1>4, <2>1, <2>3
<1>11. CASE \/ Sweep(p) \/ Read(p) \/ (\E back \in SUBSET parked : Probe(p, back))
            \/ Look(p) \/ Pick(p) \/ EndPass(p) \/ OutOfTime(p)
            \/ Create(p) \/ Write(p) \/ FindStale(p) \/ Unlink(p) \/ Locked(p)
  <2>1. Calm
    BY <1>11 DEF Sweep, Read, Probe, Look, Pick, EndPass, OutOfTime, Create, Write, FindStale,
       Unlink, Locked, counts
  <2>2. \E s \in Steps \ {"running"} : pc' = [pc EXCEPT ![p] = s]
    BY <1>11, BurialSteps DEF Sweep, Read, Probe, Look, Pick, EndPass, OutOfTime, Create, Write,
       FindStale, Unlink, Locked, Refusal, Go, Steps
  <2>3. Ends
    BY <2>2 DEF TurnTypes
  <2>4. QED BY <1>4, <2>1, <2>3
<1>12. CASE \/ Live(p) \/ Leave(p) \/ Charge(p) \/ Unaffordable(p) \/ Unadmit(p)
            \/ Claim(p) \/ PutBack(p) \/ Settle(p) \/ Park(p) \/ Unlock(p)
            \/ BeginIdle(p) \/ Skip(p)
  <2>1. Calm
    BY <1>12 DEF Live, Leave, Charge, Unaffordable, Unadmit, Claim, PutBack, Settle, Park,
       Unlock, BeginIdle, Skip, counts
  <2>2. \E s \in Steps \ {"running"} : pc' = [pc EXCEPT ![p] = s]
    BY <1>12 DEF Live, Leave, Charge, Unaffordable, Unadmit, Claim, PutBack, Settle, Park,
       Unlock, BeginIdle, Skip, Go, Steps
  <2>3. Ends
    BY <2>2 DEF TurnTypes
  <2>4. QED BY <1>4, <2>1, <2>3
<1>. HIDE DEF Ends, Calm
<1>13. QED BY <1>6, <1>7, <1>8, <1>9, <1>10, <1>11, <1>12 DEF Acts, Walk

\* It holds at first, and is kept by every step.
LEMMA InitDrift == Init => DriftInv
BY DEF Init, Drift, DriftInv

LEMMA NextDrift == TurnInv /\ TellInv /\ DriftInv /\ [Next]_vars => DriftInv'
<1>. SUFFICES ASSUME TurnInv, TellInv, NEW m \in Msg, Drift(m), [Next]_vars PROVE Drift(m)'
  BY DEF DriftInv
<1>1. TurnTypes /\ AtInv /\ MailInv
  BY DEF TurnInv
<1>2. ASSUME NEW p \in Proc, Acts(p) PROVE Drift(m)'
  BY <1>1, <1>2, MyDrift
<1>3. ASSUME UNCHANGED <<pc, job, tries, mixed>>, adrift' \subseteq adrift PROVE Drift(m)'
  BY <1>3 DEF Drift
<1>4. ASSUME Elsewhere PROVE Drift(m)'
  BY <1>3, <1>4 DEF Elsewhere, Earn, HarnessEnds, counts
<1>5. CASE UNCHANGED vars
  <2>1. UNCHANGED <<pc, job, tries, mixed>> /\ adrift' \subseteq adrift
    BY <1>5 DEF vars
  <2>2. QED BY <1>3, <2>1
<1>6. Next => (\E p \in Proc : Acts(p)) \/ Elsewhere
  BY DEF Next, Acts, Elsewhere
<1>7. QED BY <1>2, <1>4, <1>5, <1>6

\* "ONE TURN AT A TIME", of the processes: whatever is killed, and whenever, no two are in
\* a turn, unless the lock file of a live one was unlinked; and a turn beside the harness
\* of a killed process is never given the mail that harness was given.
THEOREM OneAtATime == Spec => []OneTurn
<1>1. TurnInv /\ DriftInv => OneTurn
  <2>1. TurnInv => (~stolen => \A p, q \in Proc : InTurn(p) /\ InTurn(q) => p = q)
    BY DEF TurnInv, AloneInv
  <2>2. ASSUME TurnInv, DriftInv, NEW p \in Proc, pc[p] = "running"
        PROVE  job[p].batch \cap adrift \subseteq mixed
    <3>1. job[p].batch \subseteq Msg
      BY <2>2 DEF TurnInv, TurnTypes, Job
    <3>2. QED BY <2>2, <3>1 DEF Drift, DriftInv
  <2>3. QED BY <2>1, <2>2 DEF OneTurn
<1>2. QED BY <1>1, InitTurns, NextTurns, InitTell, NextTell, InitDrift, NextDrift, PTL DEF Spec
=============================================================================
