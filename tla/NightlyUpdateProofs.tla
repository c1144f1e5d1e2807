------------------------- MODULE NightlyUpdateProofs -------------------------
(***************************************************************************)
(* Proofs about NightlyUpdate, for any releases, seats and numbers of      *)
(* deaths: what a person's update made is left alone, and a release that   *)
(* failed is not tried again.                                              *)
(***************************************************************************)
EXTENDS NightlyUpdate, TLAPS

USE UpdateAssumption DEF Release

PcSteps == {"off", "recover", "check", "install", "installing", "failed", "installed", "restart",
            "health", "restore", "restoring", "restored", "again", "back"}
HandSteps == {"off", "begun", "end", "pull", "restart", "done"}

\* A tick that is past its check goes by a record.
ByRecord == PcSteps \ {"off", "check"}

\* What the lock and the steps say of each other.
LockInv ==
  /\ pc \in PcSteps /\ hand \in HandSteps
  /\ (pc # "off") = (lock = "tick") /\ (hand # "off") = (lock = "hand")
  /\ pc \in ByRecord => pending # NoRecord
  /\ pc = "check" => pending = NoRecord
  /\ hand \in {"pull", "restart"} => pending = NoRecord

\* A record names two releases, the older first, and an installer one.
RecordInv ==
  /\ pending # NoRecord =>
       /\ pending.stage # "none" /\ pending.previous \in Release /\ pending.target \in Release
       /\ pending.previous < pending.target
  /\ AtWork => tag \in Release

\* A tree that a person's `ar3 update` made is at most the one an update starts from.
HandInv ==
  /\ inst = "half" => maker # "update"
  /\ undone => outlived
  /\ maker = "update" => tree \in Release /\ tree <= latest
  /\ maker = "update" /\ inst = "begun" => outlived \/ tree <= tag
  /\ maker = "update" =>
       \/ pending = NoRecord /\ pc \in {"off", "check"}
       \/ /\ pending.stage = "install" /\ tree = pending.previous
          /\ pc \in {"off", "recover", "check", "install", "installing", "installed", "failed"}

\* What failed is no newer than what failed last, and an update only goes further.
BadInv ==
  /\ bad <= latest /\ \A r \in rejected : r <= bad
  /\ pending.stage # "none" => bad <= pending.target /\ pending.target <= latest
  /\ pending.stage = "install" => bad < pending.target

UpdateInv == TypeOK /\ LockInv /\ RecordInv /\ HandInv /\ BadInv

\* Where the record's trees are.
LEMMA WhereIs ==
  ASSUME TypeOK, RecordInv, pending # NoRecord
  PROVE  /\ Where \in {"previous", "target", "half", "none"}
         /\ Where = "previous" <=> tree = pending.previous
         /\ Where = "target" <=> tree = pending.target
         /\ Where = "half" => tree = Aside
BY DEF Where, RecordInv, TypeOK

LEMMA InitInv == Init => UpdateInv
<1>. SUFFICES ASSUME Init PROVE UpdateInv
  OBVIOUS
<1>1. TypeOK
  <2>1. outlived \in BOOLEAN /\ undone \in BOOLEAN BY DEF Init
  <2>2. QED BY <2>1 DEF Init, TypeOK, NoRecord
<1>2. LockInv /\ RecordInv
  BY DEF Init, LockInv, RecordInv, NoRecord, AtWork, PcSteps, HandSteps, ByRecord
<1>3. HandInv /\ BadInv BY DEF Init, HandInv, BadInv, NoRecord
<1>4. QED BY <1>1, <1>2, <1>3 DEF UpdateInv

\* A tick that begins, takes up a record, or looks for an update.
LEMMA RecoverInv ==
  ASSUME UpdateInv, Tick \/ Recover \/ Check \/ Skip
  PROVE  UpdateInv'
<1>. USE DEF UpdateInv, TypeOK, LockInv, RecordInv, HandInv, BadInv, NoRecord, AtWork,
             PcSteps, HandSteps, ByRecord, disk, seats, overrun, history
<1>1. CASE Tick BY <1>1 DEF Tick, NoRecord
<1>2. CASE Recover
  BY <1>2, WhereIs DEF Recover, NotOurs, Nothing, Resume, Dropped, DroppedForeign, Kept, Go,
     End, Event, Calm
<1>3. CASE Check BY <1>3 DEF Check, Newer, Go, Running, NoRecord
<1>4. CASE Skip BY <1>4 DEF Skip, End
<1>5. QED BY <1>1, <1>2, <1>3, <1>4

\* What a tick does about its installer.
LEMMA InstallInv ==
  ASSUME UpdateInv, Install \/ TimesOut \/ Installed \/ Failed \/ Landed
  PROVE  UpdateInv'
<1>. USE DEF UpdateInv, TypeOK, LockInv, RecordInv, HandInv, BadInv, NoRecord, AtWork,
             PcSteps, HandSteps, ByRecord, disk, seats, overrun, history
<1>1. CASE Install BY <1>1, WhereIs DEF Install, Go, End, DroppedForeign, Kept
<1>2. CASE TimesOut BY <1>2 DEF TimesOut, Event, Go
<1>3. CASE Installed BY <1>3 DEF Installed, Go
<1>4. CASE Failed BY <1>4, WhereIs DEF Failed, Calm, Dropped, End, DroppedForeign, Kept, Go
<1>5. CASE Landed BY <1>5, WhereIs DEF Landed, Go, Kept
<1>6. QED BY <1>1, <1>2, <1>3, <1>4, <1>5

\* What the installer does.
LEMMA InstallerInv ==
  ASSUME UpdateInv, InstallerHalf \/ InstallerEnd("ok") \/ InstallerEnd("failed") \/
         InstallerIdle \/ InstallerFails \/ InstallerLate
  PROVE  UpdateInv'
<1>. USE DEF UpdateInv, TypeOK, LockInv, RecordInv, HandInv, BadInv, NoRecord, AtWork,
             PcSteps, HandSteps, ByRecord, disk, seats, overrun, history
<1>1. CASE InstallerHalf BY <1>1 DEF InstallerHalf, Goal
<1>2. CASE InstallerEnd("ok") BY <1>2 DEF InstallerEnd, Answer, Goal, Calm, Event
<1>3. CASE InstallerEnd("failed") BY <1>3 DEF InstallerEnd, Answer, Goal, Calm, Event
<1>4. CASE InstallerIdle BY <1>4 DEF InstallerIdle, Answer
<1>5. CASE InstallerFails BY <1>5 DEF InstallerFails, Answer, Event, Calm
<1>6. CASE InstallerLate BY <1>6 DEF InstallerLate, Answer
<1>7. QED BY <1>1, <1>2, <1>3, <1>4, <1>5, <1>6

\* A restart leaves every seat on a code that there is.
LEMMA UpdateCode ==
  ASSUME TypeOK, NEW well \in BOOLEAN, Update(well, tree), tree \in Release
  PROVE  /\ code' \in [Seat -> Release \cup {Own, Down}] /\ busy' = busy
         /\ events' \in 0 .. MaxEvents
BY DEF TypeOK, Update, Event, Calm

\* A restart onto the target, or onto the tree that is back.
LEMMA RestartInv ==
  ASSUME UpdateInv, NEW well \in BOOLEAN, Restart(well) \/ Again(well)
  PROVE  UpdateInv'
<1>. USE DEF UpdateInv, TypeOK, LockInv, RecordInv, HandInv, BadInv, NoRecord, AtWork,
             PcSteps, HandSteps, ByRecord, disk, seats, overrun, history
<1>1. CASE Restart(well)
  <2>1. CASE Where = "target"
    BY <1>1, <2>1, WhereIs, UpdateCode DEF Restart, Go, Kept
  <2>2. CASE Where # "target"
    BY <1>1, <2>2 DEF Restart, DroppedForeign, End
  <2>3. QED BY <2>1, <2>2
<1>2. CASE Again(well)
  <2>1. CASE Where = "previous"
    BY <1>2, <2>1, WhereIs, UpdateCode DEF Again, Go, Kept
  <2>2. CASE Where # "previous"
    BY <1>2, <2>2 DEF Again, DroppedForeign, End
  <2>3. QED BY <2>1, <2>2
<1>3. QED BY <1>1, <1>2

\* The check, the way back, and the end of it.
LEMMA CheckInv ==
  ASSUME UpdateInv, Health \/ Unhealthy \/ Restore \/ Reset \/ MoveAside \/ MoveIn \/
         RestoreFails \/ Restored \/ Back
  PROVE  UpdateInv'
<1>. USE DEF UpdateInv, TypeOK, LockInv, RecordInv, HandInv, BadInv, NoRecord, AtWork,
             PcSteps, HandSteps, ByRecord, disk, seats, overrun, history
<1>1. CASE Health BY <1>1 DEF Health, Healthy, Complete, Dropped, Kept, End
<1>2. CASE Unhealthy BY <1>2, WhereIs DEF Unhealthy, Healthy, End, Go
<1>3. CASE Restore BY <1>3, WhereIs DEF Restore, DroppedForeign, End, Kept, Go
<1>4. CASE Reset BY <1>4 DEF Reset, Go
<1>5. CASE MoveAside BY <1>5 DEF MoveAside, SwapBack
<1>6. CASE MoveIn BY <1>6 DEF MoveIn, Go
<1>7. CASE RestoreFails BY <1>7 DEF RestoreFails, Event, End
<1>8. CASE Restored BY <1>8 DEF Restored, Kept, End, Dropped, Go
<1>9. CASE Back BY <1>9 DEF Back, End, RolledBack, Complete, Dropped, Kept
<1>10. QED BY <1>1, <1>2, <1>3, <1>4, <1>5, <1>6, <1>7, <1>8, <1>9

\* What a person does with or without the lock.
LEMMA PersonInv ==
  ASSUME UpdateInv, HandTake \/ HandBegins \/ HandEnds \/ HandPulls \/ HandRestarts \/
         HandDone \/ GetSh \/ Edit
  PROVE  UpdateInv'
<1>. USE DEF UpdateInv, TypeOK, LockInv, RecordInv, HandInv, BadInv, NoRecord, AtWork,
             PcSteps, HandSteps, ByRecord, disk, seats, overrun, history
<1>1. CASE HandTake
  <2>1. /\ hand = "off" /\ lock = "free" /\ lock' = "hand" /\ hand' = "begun"
        /\ events' \in 0..MaxEvents
    BY <1>1 DEF HandTake, Event
  <2>2. UNCHANGED <<kind, tree, prev, latest, code, busy, pending, bad, pc, ran, inst, tag,
                   maker, outlived, undone, rejected, strayed>>
    BY <1>1 DEF HandTake
  <2>3. TypeOK' BY <2>1, <2>2
  <2>4. LockInv' /\ RecordInv' BY <2>1, <2>2
  <2>5. HandInv' /\ BadInv' BY <2>1, <2>2
  <2>6. QED BY <2>3, <2>4, <2>5
<1>2. CASE HandBegins BY <1>2 DEF HandBegins, HandOrder
<1>3. CASE HandEnds BY <1>3 DEF HandEnds, HandOrder
<1>4. CASE HandPulls
  <2>1. /\ hand = "pull" /\ hand' \in {"restart", "done"} /\ tree \in Release /\ tree' = latest
        /\ latest \in Release /\ maker' = "update" /\ inst # "half"
        /\ outlived' = (outlived \/ AtWork)
    BY <1>4 DEF HandPulls, HandOrder, Pulls
  <2>2. /\ prev' \in 0..Newest /\ strayed' = TRUE
        /\ UNCHANGED <<kind, latest, code, busy, pending, bad, lock, pc, ran, inst, tag, events,
                       undone, rejected>>
    BY <1>4 DEF HandPulls, Pulls
  <2>3. TypeOK' BY <2>1, <2>2
  <2>4. LockInv' /\ RecordInv' /\ BadInv' BY <2>1, <2>2
  <2>5. HandInv'
    <3>1. pending' = NoRecord /\ pc' = "off" BY <2>1, <2>2
    <3>2. (AtWork => outlived') /\ (outlived => outlived')
      BY <2>1
    <3>3. /\ tree' \in Release /\ tree' <= latest' /\ inst' = inst /\ inst # "half"
          /\ undone' => outlived'
      BY <2>1, <2>2, <3>2
    <3>4. inst = "begun" => AtWork OBVIOUS
    <3>5. QED BY <3>1, <3>2, <3>3, <3>4
  <2>6. QED BY <2>3, <2>4, <2>5
<1>5. CASE HandRestarts BY <1>5 DEF HandRestarts, HandOrder, Running
<1>6. CASE HandDone BY <1>6 DEF HandDone, Calm, Event
<1>7. CASE GetSh
  <2>1. /\ lock # "hand" /\ tree \in Release /\ tree' = latest /\ maker' = "get.sh" /\ inst # "half"
        /\ latest \in Release /\ prev' \in 0..Newest /\ events' \in 0..MaxEvents
        /\ pending' = (IF lock = "free" THEN NoRecord ELSE pending)
    BY <1>7 DEF GetSh, Event, Pulls
  <2>2. UNCHANGED <<kind, latest, busy, bad, lock, pc, hand, ran, inst, tag, overrun, rejected>>
    BY <1>7 DEF GetSh
  <2>3. code' \in [Seat -> Release \cup {Own, Down}]
    BY <1>7 DEF GetSh, Running
  <2>4. NoRecord \in [stage : {"none", "install", "restart", "rollback"}, previous : 0..Newest,
                     target : 0..Newest, seats : SUBSET Seat]
    OBVIOUS
  <2>5. TypeOK' BY <2>1, <2>2, <2>3, <2>4
  <2>6. LockInv' /\ RecordInv' BY <2>1, <2>2
  <2>7. HandInv' /\ BadInv' BY <2>1, <2>2
  <2>8. QED BY <2>5, <2>6, <2>7
<1>8. CASE Edit BY <1>8 DEF Edit, Event
<1>9. QED BY <1>1, <1>2, <1>3, <1>4, <1>5, <1>6, <1>7, <1>8

\* A death, a release, and what seats do by themselves.
LEMMA MachineInv ==
  ASSUME UpdateInv, Die \/ Publish
  PROVE  UpdateInv'
<1>. USE DEF UpdateInv, TypeOK, LockInv, RecordInv, HandInv, BadInv, NoRecord, AtWork,
             PcSteps, HandSteps, ByRecord, disk, seats, overrun, history
<1>1. CASE Die BY <1>1, SMTT(30) DEF Die, Event, End
<1>2. CASE Publish BY <1>2 DEF Publish
<1>3. QED BY <1>1, <1>2

\* What a seat does by itself.
LEMMA SeatInv ==
  ASSUME UpdateInv, NEW s \in Seat, TurnBegins(s) \/ TurnEnds(s) \/ SeatStops(s) \/
         SeatStarts(s)
  PROVE  UpdateInv'
<1>. USE DEF UpdateInv, TypeOK, LockInv, RecordInv, HandInv, BadInv, NoRecord, AtWork,
             PcSteps, HandSteps, ByRecord, disk, seats, overrun, history
<1>1. CASE TurnBegins(s) BY <1>1 DEF TurnBegins, Event, Running
<1>2. CASE TurnEnds(s) BY <1>2 DEF TurnEnds
<1>3. CASE SeatStops(s) BY <1>3 DEF SeatStops, Event, Running
<1>4. CASE SeatStarts(s) BY <1>4 DEF SeatStarts, Event, Running
<1>5. QED BY <1>1, <1>2, <1>3, <1>4

\* A step of the next-state relation preserves the invariant.
LEMMA NextInv == UpdateInv /\ [Next]_vars => UpdateInv'
<1>. SUFFICES ASSUME UpdateInv, [Next]_vars PROVE UpdateInv'
  OBVIOUS
<1>1. CASE Tick BY <1>1, RecoverInv
<1>2. CASE Work BY <1>2, RecoverInv, InstallInv, RestartInv, CheckInv DEF Work
<1>3. CASE Installer BY <1>3, InstallerInv DEF Installer
<1>4. CASE Person BY <1>4, PersonInv DEF Person
<1>5. CASE Die \/ Publish BY <1>5, MachineInv
<1>6. ASSUME NEW s \in Seat, TurnBegins(s) \/ TurnEnds(s) \/ SeatStops(s) \/ SeatStarts(s)
      PROVE  UpdateInv'
  BY <1>6, SeatInv
<1>7. CASE UNCHANGED vars
  BY <1>7 DEF vars, UpdateInv, TypeOK, LockInv, RecordInv, HandInv, BadInv, NoRecord, AtWork
<1>8. QED BY <1>1, <1>2, <1>3, <1>4, <1>5, <1>6, <1>7 DEF Next

\* What a step of the tick says of the record, and when no installer is left.
StageInv ==
  /\ pc \in {"install", "installing", "installed", "failed"} => pending.stage = "install"
  /\ pc \in {"restart", "health"} => pending.stage = "restart"
  /\ pc \in {"restore", "restoring", "restored"} => pending.stage \in {"install", "rollback"}
  /\ pc \in {"again", "back"} => pending.stage = "rollback"
  /\ pending.stage \in {"restart", "rollback"} \/ pc = "installed" => ~AtWork

SeatsOn(t) == \A s \in Running : code[s] = t

\* What the seats run, while nothing has strayed.
FollowInv ==
  ~strayed =>
    /\ pending.stage = "none" => SeatsOn(tree)
    /\ pending.stage = "install" => SeatsOn(pending.previous)
    /\ pc \in {"health", "back"} /\ Complete => SeatsOn(tree)

\* Where the two trees of an unpack are, while nothing has strayed.
AsideInv ==
  /\ tree = Aside => kind = "unpack"
  /\ ~strayed =>
       /\ tree = Aside => pending.stage # "none" /\ prev = pending.previous
       /\ pending.stage = "none" => ~AtWork
       /\ inst = "begun" =>
            tree = pending.previous /\ pc \notin {"restore", "restoring", "restored"}
       /\ kind = "unpack" /\ pc = "restoring" => prev = pending.previous
       /\ pc = "back" => tree = pending.previous

SeatsInv == StageInv /\ FollowInv /\ AsideInv

\* Every action keeps the table of steps and stages.
LEMMA NextStage == UpdateInv /\ StageInv /\ [Next]_vars => StageInv'
<1>. SUFFICES ASSUME UpdateInv, StageInv, [Next]_vars PROVE StageInv'
  OBVIOUS
<1>. USE DEF StageInv, UpdateInv, TypeOK, LockInv, RecordInv, NoRecord, AtWork, ByRecord,
             PcSteps,
             disk, seats, overrun, history
<1>1. CASE Tick BY <1>1 DEF Tick
<1>2. CASE Recover
  BY <1>2, WhereIs DEF Recover, NotOurs, Nothing, Resume, Dropped, DroppedForeign, Kept, Go,
     End, Event, Calm
<1>3. CASE Check BY <1>3 DEF Check, Newer, Go
<1>4. CASE Skip BY <1>4 DEF Skip, End
<1>5. CASE Install BY <1>5, WhereIs DEF Install, Go, End, DroppedForeign, Kept
<1>6. CASE TimesOut BY <1>6 DEF TimesOut, Event, Go
<1>7. CASE Installed BY <1>7 DEF Installed, Go
<1>8. CASE Failed BY <1>8, WhereIs DEF Failed, Calm, Dropped, End, DroppedForeign, Kept, Go
<1>9. CASE Landed BY <1>9, WhereIs DEF Landed, Go, Kept
<1>10. ASSUME NEW well \in BOOLEAN, Restart(well) PROVE StageInv'
  BY <1>10 DEF Restart, Go, Kept, DroppedForeign, End, Update
<1>11. ASSUME NEW well \in BOOLEAN, Again(well) PROVE StageInv'
  BY <1>11, WhereIs DEF Again, Go, Kept, DroppedForeign, End, Update
<1>12. CASE Health BY <1>12 DEF Health, Healthy, Dropped, Kept, End
<1>13. CASE Unhealthy BY <1>13, WhereIs DEF Unhealthy, Healthy, End, Go
<1>14. CASE Restore BY <1>14 DEF Restore, DroppedForeign, End, Kept, Go, SourceIs
<1>15. CASE Reset BY <1>15 DEF Reset, Go
<1>16. CASE MoveAside BY <1>16 DEF MoveAside, SwapBack
<1>17. CASE MoveIn BY <1>17 DEF MoveIn, Go
<1>18. CASE RestoreFails BY <1>18 DEF RestoreFails, Event, End
<1>19. CASE Restored BY <1>19 DEF Restored, Kept, End, Dropped, Go
<1>20. CASE Back BY <1>20 DEF Back, End, RolledBack, Dropped, Kept
<1>21. CASE InstallerHalf BY <1>21 DEF InstallerHalf, Goal
<1>22. CASE InstallerEnd("ok") BY <1>22 DEF InstallerEnd, Answer, Goal, Calm, Event
<1>23. CASE InstallerEnd("failed") BY <1>23 DEF InstallerEnd, Answer, Goal, Calm, Event
<1>24. CASE InstallerIdle BY <1>24 DEF InstallerIdle, Answer
<1>25. CASE InstallerFails BY <1>25 DEF InstallerFails, Answer, Event, Calm
<1>26. CASE InstallerLate BY <1>26 DEF InstallerLate, Answer
<1>27. CASE HandTake BY <1>27 DEF HandTake, Event
<1>28. CASE HandBegins BY <1>28 DEF HandBegins, HandOrder
<1>29. CASE HandEnds BY <1>29 DEF HandEnds, HandOrder
<1>30. CASE HandPulls BY <1>30 DEF HandPulls, HandOrder, Pulls
<1>31. CASE HandRestarts BY <1>31 DEF HandRestarts, HandOrder
<1>32. CASE HandDone BY <1>32 DEF HandDone, Calm, Event
<1>33. CASE GetSh BY <1>33 DEF GetSh, Event, Pulls
<1>34. CASE Edit BY <1>34 DEF Edit, Event
<1>35. CASE Die BY <1>35 DEF Die, Event, End
<1>36. CASE Publish BY <1>36 DEF Publish
<1>37. ASSUME NEW s \in Seat, TurnBegins(s) PROVE StageInv'
  BY <1>37 DEF TurnBegins, Event
<1>38. ASSUME NEW s \in Seat, TurnEnds(s) PROVE StageInv'
  BY <1>38 DEF TurnEnds
<1>39. ASSUME NEW s \in Seat, SeatStops(s) PROVE StageInv'
  BY <1>39 DEF SeatStops, Event
<1>40. ASSUME NEW s \in Seat, SeatStarts(s) PROVE StageInv'
  BY <1>40 DEF SeatStarts, Event
<1>41. CASE UNCHANGED vars BY <1>41 DEF vars
<1>42. QED
  BY <1>1, <1>2, <1>3, <1>4, <1>5, <1>6, <1>7, <1>8, <1>9, <1>10, <1>11, <1>12, <1>13,
     <1>14, <1>15, <1>16, <1>17, <1>18, <1>19, <1>20, <1>21, <1>22,
     <1>23, <1>24, <1>25, <1>26, <1>27, <1>28, <1>29, <1>30, <1>31, <1>32, <1>33, <1>34,
     <1>35, <1>36, <1>37, <1>38, <1>39, <1>40, <1>41
  DEF Next, Work, Installer, Person

\* Every action keeps the trees where they belong.
LEMMA NextAside == UpdateInv /\ StageInv /\ AsideInv /\ [Next]_vars => AsideInv'
<1>. SUFFICES ASSUME UpdateInv, StageInv, AsideInv, [Next]_vars PROVE AsideInv'
  OBVIOUS
<1>. USE DEF StageInv, AsideInv, UpdateInv, TypeOK, LockInv, RecordInv, NoRecord, AtWork,
             ByRecord, PcSteps,
             disk, seats, overrun, history
<1>1. CASE Tick BY <1>1 DEF Tick
<1>2. CASE Recover
  BY <1>2, WhereIs DEF Recover, NotOurs, Nothing, Resume, Dropped, DroppedForeign, Kept, Go,
     End, Event, Calm
<1>3. CASE Check BY <1>3 DEF Check, Newer, Go
<1>4. CASE Skip BY <1>4 DEF Skip, End
<1>5. CASE Install BY <1>5, WhereIs DEF Install, Go, End, DroppedForeign, Kept
<1>6. CASE TimesOut BY <1>6 DEF TimesOut, Event, Go
<1>7. CASE Installed BY <1>7 DEF Installed, Go
<1>8. CASE Failed BY <1>8, WhereIs DEF Failed, Calm, Dropped, End, DroppedForeign, Kept, Go
<1>9. CASE Landed BY <1>9, WhereIs DEF Landed, Go, Kept
<1>10. ASSUME NEW well \in BOOLEAN, Restart(well) PROVE AsideInv'
  BY <1>10 DEF Restart, Go, Kept, DroppedForeign, End, Update
<1>11. ASSUME NEW well \in BOOLEAN, Again(well) PROVE AsideInv'
  BY <1>11, WhereIs DEF Again, Go, Kept, DroppedForeign, End, Update
<1>12. CASE Health BY <1>12 DEF Health, Healthy, Dropped, Kept, End
<1>13. CASE Unhealthy BY <1>13, WhereIs DEF Unhealthy, Healthy, End, Go
<1>14. CASE Restore BY <1>14 DEF Restore, DroppedForeign, End, Kept, Go, SourceIs
<1>15. CASE Reset BY <1>15 DEF Reset, Go
<1>16. CASE MoveAside BY <1>16 DEF MoveAside, SwapBack
<1>17. CASE MoveIn BY <1>17 DEF MoveIn, Go
<1>18. CASE RestoreFails BY <1>18 DEF RestoreFails, Event, End
<1>19. CASE Restored
  <2>1. CASE tree # pending.previous BY <1>19, <2>1 DEF Restored, Kept, End
  <2>2. CASE tree = pending.previous /\ pending.stage = "install"
    <3>1. tree # Aside BY <1>19, <2>2 DEF Restored
    <3>2. QED BY <1>19, <2>2, <3>1 DEF Restored, Dropped, End
  <2>3. CASE tree = pending.previous /\ pending.stage # "install"
    BY <1>19, <2>3 DEF Restored, Kept, Go
  <2>4. QED BY <2>1, <2>2, <2>3
<1>20. CASE Back BY <1>20 DEF Back, End, RolledBack, Dropped, Kept
<1>21. CASE InstallerHalf BY <1>21 DEF InstallerHalf, Goal
<1>22. CASE InstallerEnd("ok") BY <1>22 DEF InstallerEnd, Answer, Goal, Calm, Event
<1>23. CASE InstallerEnd("failed") BY <1>23 DEF InstallerEnd, Answer, Goal, Calm, Event
<1>24. CASE InstallerIdle BY <1>24 DEF InstallerIdle, Answer
<1>25. CASE InstallerFails BY <1>25 DEF InstallerFails, Answer, Event, Calm
<1>26. CASE InstallerLate BY <1>26 DEF InstallerLate, Answer
<1>27. CASE HandTake BY <1>27 DEF HandTake, Event
<1>28. CASE HandBegins BY <1>28 DEF HandBegins, HandOrder
<1>29. CASE HandEnds BY <1>29 DEF HandEnds, HandOrder
<1>30. CASE HandPulls BY <1>30 DEF HandPulls, HandOrder, Pulls
<1>31. CASE HandRestarts BY <1>31 DEF HandRestarts, HandOrder
<1>32. CASE HandDone BY <1>32 DEF HandDone, Calm, Event
<1>33. CASE GetSh BY <1>33 DEF GetSh, Event, Pulls
<1>34. CASE Edit BY <1>34 DEF Edit, Event
<1>35. CASE Die BY <1>35 DEF Die, Event, End
<1>36. CASE Publish BY <1>36 DEF Publish
<1>37. ASSUME NEW s \in Seat, TurnBegins(s) PROVE AsideInv'
  BY <1>37 DEF TurnBegins, Event
<1>38. ASSUME NEW s \in Seat, TurnEnds(s) PROVE AsideInv'
  BY <1>38 DEF TurnEnds
<1>39. ASSUME NEW s \in Seat, SeatStops(s) PROVE AsideInv'
  BY <1>39 DEF SeatStops, Event
<1>40. ASSUME NEW s \in Seat, SeatStarts(s) PROVE AsideInv'
  BY <1>40 DEF SeatStarts, Event
<1>41. CASE UNCHANGED vars BY <1>41 DEF vars
<1>42. QED
  BY <1>1, <1>2, <1>3, <1>4, <1>5, <1>6, <1>7, <1>8, <1>9, <1>10, <1>11, <1>12, <1>13,
     <1>14, <1>15, <1>16, <1>17, <1>18, <1>19, <1>20, <1>21, <1>22,
     <1>23, <1>24, <1>25, <1>26, <1>27, <1>28, <1>29, <1>30, <1>31, <1>32, <1>33, <1>34,
     <1>35, <1>36, <1>37, <1>38, <1>39, <1>40, <1>41
  DEF Next, Work, Installer, Person

\* Every action keeps the seats on the tree.
LEMMA NextFollow == UpdateInv /\ StageInv /\ AsideInv /\ FollowInv /\ [Next]_vars => FollowInv'
<1>. SUFFICES ASSUME UpdateInv, StageInv, AsideInv, FollowInv, [Next]_vars PROVE FollowInv'
  OBVIOUS
<1>. USE DEF StageInv, FollowInv, SeatsOn, Running, Complete, UpdateInv, TypeOK, LockInv,
             RecordInv, NoRecord, AtWork, ByRecord, PcSteps,
             disk, seats, overrun, history
<1>1. CASE Tick BY <1>1 DEF Tick
<1>2. CASE Recover
  <2>1. code' = code /\ tree' = tree
    BY <1>2 DEF Recover
  <2>2. pc' \notin {"health", "back"}
    BY <1>2 DEF Recover, Resume, Go, End
  <2>3. ~strayed' => ~strayed
    BY <1>2 DEF Recover, Dropped, DroppedForeign, Kept
  <2>4. Nothing => pending.stage = "install" /\ tree = pending.previous
    BY <1>2, WhereIs DEF Recover, Nothing
  <2>5. ~strayed' => pending' = pending \/ (Nothing /\ pending' = NoRecord)
    BY <1>2 DEF Recover, Dropped, DroppedForeign, Kept
  <2>6. QED BY <2>1, <2>2, <2>3, <2>4, <2>5
<1>3. CASE Check
  <2>1. /\ code' = code /\ tree' = tree /\ pc' = "install" /\ strayed' = strayed
        /\ pending'.stage = "install" /\ pending'.previous = tree /\ pending = NoRecord
    BY <1>3 DEF Check, Go
  <2>2. QED BY <2>1
<1>4. CASE Skip BY <1>4 DEF Skip, End
<1>5. CASE Install BY <1>5, WhereIs DEF Install, Go, End, DroppedForeign, Kept
<1>6. CASE TimesOut BY <1>6 DEF TimesOut, Event, Go
<1>7. CASE Installed BY <1>7 DEF Installed, Go
<1>8. CASE Failed
  <2>1. code' = code /\ tree' = tree /\ pending.stage = "install"
    BY <1>8 DEF Failed
  <2>2. pc' \notin {"health", "back"}
    BY <1>8 DEF Failed, Go, End
  <2>3. ~strayed' => ~strayed
    BY <1>8 DEF Failed, Dropped, DroppedForeign, Kept
  <2>4. ~strayed' => pending' = pending \/ (Where = "previous" /\ pending' = NoRecord)
    BY <1>8 DEF Failed, Dropped, DroppedForeign, Kept
  <2>5. Where = "previous" => tree = pending.previous
    BY <1>8, WhereIs DEF Failed
  <2>6. QED BY <2>1, <2>2, <2>3, <2>4, <2>5
<1>9. CASE Landed BY <1>9, WhereIs DEF Landed, Go, Kept
<1>10. ASSUME NEW well \in BOOLEAN, Restart(well) PROVE FollowInv'
  BY <1>10 DEF Restart, Go, Kept, DroppedForeign, End, Update
<1>11. ASSUME NEW well \in BOOLEAN, Again(well) PROVE FollowInv'
  BY <1>11, WhereIs DEF Again, Go, Kept, DroppedForeign, End, Update
<1>12. CASE Health
  <2>1. /\ code' = code /\ tree' = tree /\ pc' = "off"
        /\ ~strayed' => ~strayed /\ (pending' = pending \/ (Complete /\ pending' = NoRecord))
    BY <1>12 DEF Health, Dropped, Kept, End
  <2>2. pc \in {"health", "back"} BY <1>12 DEF Health
  <2>3. QED BY <2>1, <2>2
<1>13. CASE Unhealthy BY <1>13, WhereIs DEF Unhealthy, Healthy, End, Go
<1>14. CASE Restore BY <1>14 DEF Restore, DroppedForeign, End, Kept, Go, SourceIs
<1>15. CASE Reset BY <1>15 DEF Reset, Go
<1>16. CASE MoveAside BY <1>16 DEF MoveAside, SwapBack
<1>17. CASE MoveIn BY <1>17 DEF MoveIn, Go
<1>18. CASE RestoreFails BY <1>18 DEF RestoreFails, Event, End
<1>19. CASE Restored
  <2>1. code' = code BY <1>19 DEF Restored
  <2>2. tree' = tree BY <1>19 DEF Restored
  <2>3. pc' \in {"off", "again"} BY <1>19 DEF Restored, End, Go
  <2>4. ~strayed' => ~strayed BY <1>19 DEF Restored, Kept, Dropped
  <2>5. \/ pending' = pending
        \/ pending.stage = "install" /\ tree = pending.previous /\ pending' = NoRecord
    BY <1>19 DEF Restored, Kept, Dropped
  <2>6. QED BY <2>1, <2>2, <2>3, <2>4, <2>5
<1>20. CASE Back
  <2>1. /\ code' = code /\ tree' = tree /\ pc' = "off"
        /\ ~strayed' => ~strayed /\ (pending' = pending \/ (Complete /\ pending' = NoRecord))
    BY <1>20 DEF Back, RolledBack, Dropped, Kept, End
  <2>2. pc \in {"health", "back"} BY <1>20 DEF Back
  <2>3. QED BY <2>1, <2>2
<1>21. CASE InstallerHalf
  <2>1. strayed \/ (pending.stage = "install" /\ pc \notin {"health", "back"})
    BY <1>21 DEF InstallerHalf, AsideInv
  <2>2. code' = code /\ pending' = pending /\ strayed' = strayed /\ pc' = pc
    BY <1>21 DEF InstallerHalf
  <2>3. QED BY <2>1, <2>2
<1>22. CASE InstallerEnd("ok") BY <1>22 DEF InstallerEnd, Answer, Goal, Calm, Event
<1>23. CASE InstallerEnd("failed") BY <1>23 DEF InstallerEnd, Answer, Goal, Calm, Event
<1>24. CASE InstallerIdle BY <1>24 DEF InstallerIdle, Answer
<1>25. CASE InstallerFails BY <1>25 DEF InstallerFails, Answer, Event, Calm
<1>26. CASE InstallerLate BY <1>26 DEF InstallerLate, Answer
<1>27. CASE HandTake BY <1>27 DEF HandTake, Event
<1>28. CASE HandBegins BY <1>28 DEF HandBegins, HandOrder
<1>29. CASE HandEnds BY <1>29 DEF HandEnds, HandOrder
<1>30. CASE HandPulls BY <1>30 DEF HandPulls, HandOrder, Pulls
<1>31. CASE HandRestarts BY <1>31 DEF HandRestarts, HandOrder
<1>32. CASE HandDone BY <1>32 DEF HandDone, Calm, Event
<1>33. CASE GetSh BY <1>33 DEF GetSh, Event, Pulls
<1>34. CASE Edit BY <1>34 DEF Edit, Event
<1>35. CASE Die BY <1>35 DEF Die, Event, End
<1>36. CASE Publish BY <1>36 DEF Publish
<1>37. ASSUME NEW s \in Seat, TurnBegins(s) PROVE FollowInv'
  BY <1>37 DEF TurnBegins, Event
<1>38. ASSUME NEW s \in Seat, TurnEnds(s) PROVE FollowInv'
  BY <1>38 DEF TurnEnds
<1>39. ASSUME NEW s \in Seat, SeatStops(s) PROVE FollowInv'
  BY <1>39 DEF SeatStops, Event
<1>40. ASSUME NEW s \in Seat, SeatStarts(s) PROVE FollowInv'
  <2>1. ~strayed' => ~strayed /\ pending.stage # "install"
    BY <1>40 DEF SeatStarts
  <2>2. /\ code' = [code EXCEPT ![s] = tree]
        /\ tree' = tree /\ pending' = pending /\ pc' = pc /\ ran' = ran
    BY <1>40 DEF SeatStarts
  <2>3. (\A r \in Running : code[r] = tree) => \A r \in Running' : code'[r] = tree'
    BY <2>2
  <2>4. QED BY <2>1, <2>2, <2>3
<1>41. CASE UNCHANGED vars BY <1>41 DEF vars
<1>42. QED
  BY <1>1, <1>2, <1>3, <1>4, <1>5, <1>6, <1>7, <1>8, <1>9, <1>10, <1>11, <1>12, <1>13,
     <1>14, <1>15, <1>16, <1>17, <1>18, <1>19, <1>20, <1>21, <1>22,
     <1>23, <1>24, <1>25, <1>26, <1>27, <1>28, <1>29, <1>30, <1>31, <1>32, <1>33, <1>34,
     <1>35, <1>36, <1>37, <1>38, <1>39, <1>40, <1>41
  DEF Next, Work, Installer, Person

LEMMA InitSeats == Init => SeatsInv
BY DEF Init, SeatsInv, StageInv, FollowInv, AsideInv, SeatsOn, Running, NoRecord, AtWork,
   Complete

LEMMA SeatsAlways == Spec => [](UpdateInv /\ SeatsInv)
<1>1. UpdateInv /\ SeatsInv /\ [Next]_vars => UpdateInv' /\ SeatsInv'
  BY NextInv, NextStage, NextAside, NextFollow DEF SeatsInv
<1>2. QED BY <1>1, InitInv, InitSeats, PTL DEF Spec

\* The variables keep their types, and with them the cap on what happens.
THEOREM UpdateTypes == Spec => []TypeOK
BY SeatsAlways, PTL DEF UpdateInv

\* What `ar3 update` made stands: a tick that goes on from a record is never past its
\* install while the tree is the one a person's update pulled, and no installer puts an older
\* release over it but one that had outlived its tick (autoupdate.py, manual_update).
THEOREM HandsOff == Spec => []HandIsFinal
<1>1. UpdateInv => HandIsFinal BY DEF UpdateInv, HandInv, HandIsFinal
<1>2. QED BY <1>1, SeatsAlways, PTL

\* A release that failed here is not what any later tick records an install of, because
\* releases only go up and bad_release is the newest that failed (autoupdate.py, _attempt).
THEOREM NotTwice == Spec => []BadOnce
<1>1. UpdateInv => BadOnce BY DEF UpdateInv, TypeOK, BadInv, BadOnce
<1>2. QED BY <1>1, SeatsAlways, PTL

\* No tick that dies leaves a seat on other code than the tree's with no record of it, but
\* for what `strayed` names: the record goes when seats and tree agree (autoupdate.py,
\* _restart and _finish_rollback).
THEOREM SeatsAgree == Spec => []SeatsFollow
<1>1. UpdateInv /\ SeatsInv => SeatsFollow
  BY DEF SeatsInv, UpdateInv, FollowInv, SeatsOn, SeatsFollow, NoRecord
<1>2. QED BY <1>1, SeatsAlways, PTL

\* An install that is moved aside is where a record says (autoupdate.py, _put_back).
THEOREM AsideKept == Spec => []NeverLost
<1>1. UpdateInv /\ SeatsInv => NeverLost
  BY DEF SeatsInv, UpdateInv, AsideInv, NeverLost, AtRest
<1>2. QED BY <1>1, SeatsAlways, PTL
=============================================================================
