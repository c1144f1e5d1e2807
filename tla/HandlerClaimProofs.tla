------------------------- MODULE HandlerClaimProofs -------------------------
(***************************************************************************)
(* One handler per agent, for every set of processes, every assignment of  *)
(* pids to them and any number of deaths.  The invariant: two live         *)
(* processes never have one pid, and a serving process finds its own pid   *)
(* and no foreign token on disk.  So every reader of the pid file finds it *)
(* valid and reaps nothing, no claim can succeed, and only the server's    *)
(* own release unlinks the file.                                           *)
(***************************************************************************)
EXTENDS HandlerClaim, TLAPS

\* The system gives no pid to two live processes.
OnePerPid ==
  \A p, q \in Proc : Alive(p) /\ Alive(q) /\ PidOf[p] = PidOf[q] => p = q

ClaimInv == TypeOK /\ OnePerPid /\ ClaimOnDisk

-----------------------------------------------------------------------------
(* Types.                                                                  *)
LEMMA HolderType == ASSUME TypeOK PROVE Holder \in Pid \cup {None}
BY ClaimAssumption DEF Holder, ValidPid, TypeOK

LEMMA ReapTypes ==
  ASSUME TypeOK, Reap
  PROVE  pidFile' \in Pid \cup {None, Partial} /\ stamp' \in Proc \cup {None}
BY DEF Reap, TypeOK

LEMMA TypeStep == TypeOK /\ [Next]_vars => TypeOK'
<1> SUFFICES ASSUME TypeOK, [Next]_vars PROVE TypeOK'
  OBVIOUS
<1> USE ClaimAssumption DEF Go, files, local, history, vars
<1>1. ASSUME NEW p \in Proc, Start(p) PROVE TypeOK'
  BY <1>1 DEF Start, TypeOK, Steps, ClaimSteps, CommandSteps, Handlers, Commands
<1>2. ASSUME NEW p \in Proc, Claim(p) PROVE TypeOK'
  BY <1>2 DEF Claim, Stamps, TypeOK, Steps, HeldSteps, EarlySteps, ClaimSteps
<1>3. ASSUME NEW p \in Proc, CheckOwn(p) \/ ClearOwn(p) \/ Install(p) PROVE TypeOK'
  BY <1>3 DEF CheckOwn, ClearOwn, Install, TypeOK, Steps, HeldSteps, EarlySteps
<1>4. ASSUME NEW p \in Proc, Poll(p) PROVE TypeOK'
  BY <1>4, ReapTypes DEF Poll, TypeOK, Steps, HeldSteps, EarlySteps, ClaimSteps
<1>5. ASSUME NEW p \in Proc, Ask(p) \/ GiveUp(p) PROVE TypeOK'
  <2>1. /\ pc' \in [Proc -> Steps]
        /\ detach' \in Pid \cup {None}
    BY <1>5 DEF Ask, GiveUp, TypeOK, Steps, ClaimSteps
  <2>2. asked' \in [Proc -> BOOLEAN]
    BY <1>5 DEF Ask, GiveUp, TypeOK
  <2> QED
    BY <1>5, <2>1, <2>2 DEF Ask, GiveUp, TypeOK
<1>6. ASSUME NEW p \in Proc, ReapRequest(p) \/ UnlinkRequest(p) PROVE TypeOK'
  BY <1>6 DEF ReapRequest, UnlinkRequest, TypeOK, Steps, HeldSteps
<1>7. ASSUME NEW p \in Proc, TakeKill(p) \/ TakeDetach(p) PROVE TypeOK'
  <2>1. pc' \in [Proc -> Steps]
    BY <1>7 DEF TakeKill, TakeDetach, TypeOK, Steps, AfterSteps
  <2>2. ended' \in [Proc -> Ends]
    BY <1>7 DEF TakeKill, TakeDetach, TypeOK, Ends
  <2>3. wake' \in [Proc -> BOOLEAN]
    BY <1>7 DEF TakeKill, TakeDetach, TypeOK
  <2> QED
    BY <1>7, <2>1, <2>2, <2>3 DEF TakeKill, TakeDetach, TypeOK
<1>8. ASSUME NEW p \in Proc, Pass(p) \/ WakeEnds(p) PROVE TypeOK'
  <2>1. pc' \in [Proc -> Steps]
    BY <1>8 DEF Pass, WakeEnds, TypeOK, Steps, AfterSteps
  <2>2. ended' \in [Proc -> Ends]
    BY <1>8 DEF Pass, WakeEnds, TypeOK, Ends
  <2>3. wake' \in [Proc -> BOOLEAN]
    BY <1>8 DEF Pass, WakeEnds, TypeOK
  <2>4. pidFile' \in Pid \cup {None, Partial} /\ stamp' \in Proc \cup {None}
    BY <1>8, ReapTypes DEF Pass, WakeEnds, TypeOK
  <2> QED
    BY <1>8, <2>1, <2>2, <2>3, <2>4 DEF Pass, WakeEnds, TypeOK
<1>9. ASSUME NEW p \in Proc, LeaveLoop(p) \/ Finish(p) PROVE TypeOK'
  <2>1. pc' \in [Proc -> Steps]
    BY <1>9 DEF LeaveLoop, Finish, TypeOK, Steps, AfterSteps
  <2>2. ended' \in [Proc -> Ends]
    BY <1>9 DEF LeaveLoop, Finish, TypeOK, Ends
  <2>3. final' \in [Proc -> BOOLEAN]
    BY <1>9 DEF LeaveLoop, Finish, TypeOK
  <2>4. pidFile' \in Pid \cup {None, Partial} /\ stamp' \in Proc \cup {None}
    BY <1>9, ReapTypes DEF LeaveLoop, Finish, TypeOK
  <2> QED
    BY <1>9, <2>1, <2>2, <2>3, <2>4 DEF LeaveLoop, Finish, TypeOK
<1>10. ASSUME NEW p \in Proc, ReleasePid(p) \/ ReleaseRequest(p) PROVE TypeOK'
  BY <1>10 DEF ReleasePid, ReleaseRequest, TypeOK, Steps, AfterSteps
<1>11. ASSUME NEW p \in Proc, HookSpawn(p) PROVE TypeOK'
  <2>1. pc' \in [Proc -> Steps] /\ hookLive' \subseteq Proc
    BY <1>11 DEF HookSpawn, TypeOK, Steps, AfterSteps
  <2>2. \A i \in 0 .. 2 : (IF i = 2 THEN 2 ELSE i + 1) \in 0 .. 2
    OBVIOUS
  <2>3. hooks' \in [Proc -> 0 .. 2]
    BY <1>11, <2>2 DEF HookSpawn, TypeOK
  <2> QED
    BY <1>11, <2>1, <2>3 DEF HookSpawn, TypeOK
<1>12. ASSUME NEW p \in Proc, HookMark(p) \/ HookEnds(p) \/ HookDone(p) \/ ClearKill(p)
       PROVE TypeOK'
  <2>1. pc' \in [Proc -> Steps]
    BY <1>12 DEF HookMark, HookEnds, HookDone, ClearKill, TypeOK, Steps, AfterSteps, CommandSteps
  <2>2. astray' \subseteq Proc
    BY <1>12 DEF HookMark, HookEnds, HookDone, ClearKill, Misled, TypeOK
  <2> QED
    BY <1>12, <2>1, <2>2 DEF HookMark, HookEnds, HookDone, ClearKill, TypeOK
<1>13. ASSUME NEW p \in Proc, Interrupt(p) PROVE TypeOK'
  BY <1>13 DEF Interrupt, TypeOK
<1>14. ASSUME NEW p \in Proc, Die(p) PROVE TypeOK'
  BY <1>14 DEF Die, TornClaim, TypeOK, Steps
<1>15. ASSUME NEW c \in Proc, ReadTarget(c) \/ Reread(c) PROVE TypeOK'
  <2>1. pc' \in [Proc -> Steps]
    BY <1>15 DEF ReadTarget, Reread, TypeOK, Steps, CommandSteps
  <2>2. pidFile' \in Pid \cup {None, Partial} /\ stamp' \in Proc \cup {None}
    BY <1>15, ReapTypes DEF ReadTarget, Reread
  <2>3. target' \in [Proc -> Pid \cup {None}] /\ held' \in [Proc -> Pid \cup {None}]
    BY <1>15, HolderType DEF ReadTarget, Reread, TypeOK
  <2>4. aim' \in [Proc -> Proc \cup {None}]
    BY <1>15 DEF ReadTarget, Reread, Behind, TypeOK
  <2> QED
    BY <1>15, <2>1, <2>2, <2>3, <2>4 DEF ReadTarget, Reread, TypeOK
<1>16. ASSUME NEW c \in Proc, ClearMark(c) \/ WriteKill(c) \/ WaitFile(c) PROVE TypeOK'
  <2>1. torn' \in BOOLEAN
    BY <1>16 DEF ClearMark, WriteKill, WaitFile, TypeOK
  <2>2. pc' \in [Proc -> Steps]
    BY <1>16 DEF ClearMark, WriteKill, WaitFile, TypeOK, Steps, CommandSteps
  <2> QED
    BY <1>16, <2>1, <2>2 DEF ClearMark, WriteKill, WaitFile, TypeOK
<1>17. ASSUME NEW c \in Proc, Nudge(c) PROVE TypeOK'
  <2>1. pc' \in [Proc -> Steps] /\ kill' \in Pid \cup {None}
    BY <1>17 DEF Nudge, Receivers, TypeOK, Steps, CommandSteps
  <2>2. wake' \in [Proc -> BOOLEAN]
    <3>1. CASE UNCHANGED wake
      BY <3>1 DEF TypeOK
    <3>2. ASSUME NEW q \in Proc, wake' = [wake EXCEPT ![q] = @ /\ ~Foreign(kill, q)]
          PROVE  wake' \in [Proc -> BOOLEAN]
      <4>1. (wake[q] /\ ~Foreign(kill, q)) \in BOOLEAN
        OBVIOUS
      <4> QED
        BY <3>2, <4>1 DEF TypeOK
    <3> QED
      BY <1>17, <3>1, <3>2 DEF Nudge, Receivers
  <2> QED
    BY <1>17, <2>1, <2>2 DEF Nudge, TypeOK
<1>18. ASSUME NEW c \in Proc, Term(c) PROVE TypeOK'
  <2>1. pc' \in [Proc -> Steps]
    BY <1>18 DEF Term, Receivers, TypeOK, Steps, CommandSteps
  <2>2. wake' \in [Proc -> BOOLEAN]
    <3>1. CASE UNCHANGED wake
      BY <3>1 DEF TypeOK
    <3>2. ASSUME NEW q \in Proc, wake' = [wake EXCEPT ![q] = @ /\ RoleOf[c] # "force"]
          PROVE  wake' \in [Proc -> BOOLEAN]
      <4>1. (wake[q] /\ RoleOf[c] # "force") \in BOOLEAN
        OBVIOUS
      <4> QED
        BY <3>2, <4>1 DEF TypeOK
    <3> QED
      BY <1>18, <3>1, <3>2 DEF Term, Receivers
  <2>3. stopping' \in [Proc -> BOOLEAN]
    <3>1. UNCHANGED stopping \/ \E q \in Proc : stopping' = [stopping EXCEPT ![q] = TRUE]
      BY <1>18 DEF Term, Receivers
    <3> QED
      BY <3>1 DEF TypeOK
  <2> QED
    BY <1>18, <2>1, <2>2, <2>3 DEF Term, TypeOK
<1>19. ASSUME NEW c \in Proc, WaitStop(c) \/ WaitMark(c) \/ WaitHook(c) \/ Clean(c)
       PROVE TypeOK'
  BY <1>19 DEF WaitStop, WaitMark, WaitHook, Clean, TypeOK, Steps, CommandSteps
<1>20. ASSUME NEW c \in Proc, Outright(c) PROVE TypeOK'
  BY <1>20 DEF Outright, Receivers, TypeOK, Steps, CommandSteps
<1>21. ASSUME NEW c \in Proc, ClearFiles(c) \/ ClearRequests(c) PROVE TypeOK'
  BY <1>21, ReapTypes DEF ClearFiles, ClearRequests, TypeOK, Steps, CommandSteps
<1>22. ASSUME NEW c \in Proc, Owed(c) PROVE TypeOK'
  BY <1>22, ReapTypes DEF Owed, TypeOK, Steps, CommandSteps, AfterSteps
<1>23. CASE UNCHANGED vars
  BY <1>23 DEF TypeOK
<1> QED
  BY <1>1, <1>2, <1>3, <1>4, <1>5, <1>6, <1>7, <1>8, <1>9, <1>10, <1>11, <1>12,
     <1>13, <1>14, <1>15, <1>16, <1>17, <1>18, <1>19, <1>20, <1>21, <1>22, <1>23
     DEF Next, Acquire, Loop, RunHook, Command

LEMMA ClaimInit == Init => TypeOK
<1> SUFFICES ASSUME Init PROVE TypeOK
  OBVIOUS
<1>1. pc \in [Proc -> Steps] /\ ended \in [Proc -> Ends]
  BY DEF Init, Steps, Ends
<1>2. /\ asked \in [Proc -> BOOLEAN] /\ wake \in [Proc -> BOOLEAN]
      /\ stopping \in [Proc -> BOOLEAN] /\ final \in [Proc -> BOOLEAN]
  BY DEF Init
<1>3. /\ target \in [Proc -> Pid \cup {None}] /\ held \in [Proc -> Pid \cup {None}]
      /\ aim \in [Proc -> Proc \cup {None}]
  BY DEF Init
<1>4. hooks \in [Proc -> 0 .. 2] /\ deaths \in 0 .. MaxDeaths
  BY ClaimAssumption DEF Init
<1> QED
  BY <1>1, <1>2, <1>3, <1>4 DEF Init, TypeOK

\* Every variable keeps its type.
THEOREM ClaimTypes == Spec => []TypeOK
<1>1. Init => TypeOK
  BY ClaimInit
<1> QED
  BY <1>1, TypeStep, PTL DEF Spec

-----------------------------------------------------------------------------
(* What a step may do to processes and to the pid file.                    *)

\* While a process serves, the pid file is valid, names it, and is not reaped.
LEMMA ServerHolds ==
  ASSUME ClaimInv, NEW p \in Proc, Serves(p)
  PROVE  /\ Alive(p) /\ pidFile = PidOf[p] /\ pidFile # None
         /\ Holder = PidOf[p]
         /\ (Reap => UNCHANGED <<pidFile, stamp>>)
<1>1. Alive(p) /\ pidFile = PidOf[p] /\ stamp \in {p, None}
  BY DEF ClaimInv, ClaimOnDisk, Serves, HeldSteps, EarlySteps, Alive
<1>2. ValidPid
  BY <1>1 DEF ValidPid
<1> QED
  BY <1>1, <1>2, ClaimAssumption DEF Holder, Reap

\* A step that wakes up no process, lets nobody new serve and leaves the pid
\* file of a serving process alone keeps the invariant.
LEMMA Quiet ==
  ASSUME ClaimInv, TypeOK',
         \A q \in Proc : Alive(q)' => Alive(q),
         \A q \in Proc : Serves(q)' => Serves(q) /\ UNCHANGED <<pidFile, stamp>>
  PROVE  ClaimInv'
BY DEF ClaimInv, OnePerPid, ClaimOnDisk

\* One process moves, to a step at which it does not serve or served before.
LEMMA Moves ==
  ASSUME ClaimInv, TypeOK', NEW p \in Proc, NEW step \in Steps, Alive(p),
         Go(p, step), step \in HeldSteps => Serves(p),
         UNCHANGED <<pidFile, stamp>> \/ Reap
  PROVE  ClaimInv'
<1>1. \A q \in Proc : Alive(q)' => Alive(q)
  BY DEF Go, Alive, ClaimInv, TypeOK
<1>2. \A q \in Proc : Serves(q)' => Serves(q)
  BY DEF Go, Serves, ClaimInv, TypeOK
<1>3. \A q \in Proc : Serves(q) => UNCHANGED <<pidFile, stamp>>
  BY ServerHolds
<1> QED
  BY <1>1, <1>2, <1>3, Quiet

-----------------------------------------------------------------------------
\* A step preserves the invariant: only a start, a claim and a release touch
\* what it says; every other action moves one process or ends some.
LEMMA ClaimStep == ClaimInv /\ [Next]_vars => ClaimInv'
<1> SUFFICES ASSUME ClaimInv, [Next]_vars PROVE ClaimInv'
  OBVIOUS
<1>0. TypeOK /\ TypeOK'
  BY TypeStep DEF ClaimInv
<1>1. ASSUME NEW p \in Proc, Start(p) PROVE ClaimInv'
  <2>1. PICK step \in {"claim", "read", "alien"} : Go(p, step)
    BY <1>1 DEF Start
  <2>2. OnePerPid'
    BY <1>0, <1>1, <2>1 DEF Start, Go, Live, Alive, ClaimInv, OnePerPid, TypeOK
  <2>3. ClaimOnDisk'
    BY <1>0, <1>1, <2>1 DEF Start, Go, files, Serves, HeldSteps, EarlySteps,
       ClaimInv, ClaimOnDisk, TypeOK
  <2> QED
    BY <1>0, <2>2, <2>3 DEF ClaimInv
<1>2. ASSUME NEW p \in Proc, Claim(p) PROVE ClaimInv'
  <2>1. CASE pidFile = None
    <3>1. Go(p, "checkOwn") /\ pidFile' = PidOf[p] /\ stamp' \in {p, None}
      BY <1>2, <2>1 DEF Claim, Stamps
    <3>2. \A q \in Proc : ~Serves(q)
      BY <2>1, ServerHolds
    <3>3. OnePerPid'
      BY <1>0, <1>2, <3>1 DEF Claim, Go, Alive, ClaimInv, OnePerPid, TypeOK
    <3>4. ClaimOnDisk'
      BY <1>0, <3>1, <3>2 DEF Go, Serves, ClaimOnDisk, TypeOK
    <3> QED
      BY <1>0, <3>3, <3>4 DEF ClaimInv
  <2>2. CASE pidFile # None
    <3>1. Go(p, "poll") /\ UNCHANGED <<pidFile, stamp>> /\ Alive(p)
      BY <1>2, <2>2 DEF Claim, Alive
    <3> QED
      BY <1>0, <3>1, Moves DEF Steps, ClaimSteps, HeldSteps, EarlySteps
  <2> QED
    BY <2>1, <2>2
<1>3. ASSUME NEW p \in Proc, CheckOwn(p) \/ ClearOwn(p) \/ Install(p)
             \/ ReapRequest(p) \/ UnlinkRequest(p)
      PROVE  ClaimInv'
  <2>1. /\ Alive(p) /\ Serves(p) /\ UNCHANGED <<pidFile, stamp>>
        /\ \E step \in HeldSteps : Go(p, step)
    BY <1>3 DEF CheckOwn, ClearOwn, Install, ReapRequest, UnlinkRequest, Alive,
       Serves, HeldSteps, EarlySteps, files
  <2> QED
    BY <1>0, <2>1, Moves DEF Steps
<1>4. ASSUME NEW p \in Proc, Poll(p) PROVE ClaimInv'
  <2>1. Alive(p) /\ Reap
    BY <1>4 DEF Poll, Alive
  <2>2. CASE Holder = PidOf[p] /\ Go(p, "install")
    <3>1. ValidPid /\ pidFile = PidOf[p]
      BY <2>2, ClaimAssumption DEF Holder
    <3>2. stamp \in {p, None}
      BY <2>1, <3>1 DEF ValidPid, ClaimInv, OnePerPid
    <3>3. UNCHANGED <<pidFile, stamp>>
      BY <2>1, <3>1 DEF Reap
    <3>4. OnePerPid'
      BY <1>0, <2>1, <2>2 DEF Go, Alive, ClaimInv, OnePerPid, TypeOK
    <3>5. ClaimOnDisk'
      BY <1>0, <2>2, <3>1, <3>2, <3>3 DEF Go, Serves, ClaimInv, ClaimOnDisk, TypeOK
    <3> QED
      BY <1>0, <3>4, <3>5 DEF ClaimInv
  <2>3. CASE ~(Holder = PidOf[p] /\ Go(p, "install"))
    <3>1. PICK step \in {"claim", "over", "ask", "giveUp"} : Go(p, step)
      BY <1>4, <2>3 DEF Poll
    <3> QED
      BY <1>0, <2>1, <3>1, Moves DEF Steps, ClaimSteps, HeldSteps, EarlySteps
  <2> QED
    BY <2>2, <2>3
<1>5. ASSUME NEW p \in Proc, Ask(p) \/ GiveUp(p) PROVE ClaimInv'
  <2>1. /\ Alive(p) /\ UNCHANGED <<pidFile, stamp>>
        /\ \E step \in {"claim", "over"} : Go(p, step)
    BY <1>5 DEF Ask, GiveUp, Alive
  <2> QED
    BY <1>0, <2>1, Moves DEF Steps, ClaimSteps, HeldSteps, EarlySteps
<1>6. ASSUME NEW p \in Proc, TakeKill(p) \/ TakeDetach(p) \/ LeaveLoop(p) \/ Finish(p)
      PROVE  ClaimInv'
  <2>1. /\ Alive(p) /\ (UNCHANGED <<pidFile, stamp>> \/ Reap)
        /\ \E step \in {"relPid", "fin", "over"} : Go(p, step)
    BY <1>6 DEF TakeKill, TakeDetach, LeaveLoop, Finish, Alive, files
  <2> QED
    BY <1>0, <2>1, Moves DEF Steps, AfterSteps, HeldSteps, EarlySteps
<1>7. ASSUME NEW p \in Proc, Pass(p) PROVE ClaimInv'
  <2>1. Alive(p) /\ Reap /\ Serves(p)
    BY <1>7 DEF Pass, Alive, Serves, HeldSteps
  <2>2. UNCHANGED pc
    BY <1>7, <2>1, ServerHolds DEF Pass
  <2>3. UNCHANGED <<pidFile, stamp>>
    BY <2>1, ServerHolds
  <2> QED
    BY <1>0, <2>2, <2>3, Quiet DEF Alive, Serves
<1>8. ASSUME NEW p \in Proc, ReleasePid(p) PROVE ClaimInv'
  <2>1. Alive(p) /\ ~Serves(p) /\ Go(p, "relReq")
    BY <1>8 DEF ReleasePid, Alive, Serves, HeldSteps, EarlySteps
  <2>2. \A q \in Proc : Alive(q)' => Alive(q)
    BY <1>0, <2>1 DEF Go, Alive, TypeOK
  <2>3. \A q \in Proc : Serves(q)' => Serves(q)
    BY <1>0, <2>1 DEF Go, Serves, HeldSteps, EarlySteps, TypeOK
  <2>4. \A q \in Proc : Serves(q) => PidOf[q] # PidOf[p] /\ pidFile = PidOf[q]
    BY <2>1, ServerHolds DEF ClaimInv, OnePerPid
  <2>5. \A q \in Proc : Serves(q) => UNCHANGED <<pidFile, stamp>>
    BY <1>8, <2>4 DEF ReleasePid
  <2> QED
    BY <1>0, <2>2, <2>3, <2>5, Quiet
<1>9. ASSUME NEW p \in Proc, ReleaseRequest(p) \/ HookSpawn(p) \/ HookMark(p)
             \/ HookDone(p) \/ ClearKill(p)
      PROVE  ClaimInv'
  <2>1. /\ Alive(p) /\ UNCHANGED <<pidFile, stamp>>
        /\ \E step \in AfterSteps \cup {"clean", "over"} : Go(p, step)
    BY <1>9 DEF ReleaseRequest, HookSpawn, HookMark, HookDone, ClearKill, Alive,
       AfterSteps, files
  <2> QED
    BY <1>0, <2>1, Moves DEF Steps, AfterSteps, CommandSteps, HeldSteps, EarlySteps
<1>10. ASSUME NEW p \in Proc, WakeEnds(p) \/ HookEnds(p) \/ Interrupt(p)
       PROVE  ClaimInv'
  <2>1. UNCHANGED <<pc, pidFile, stamp>>
    BY <1>10 DEF WakeEnds, HookEnds, Interrupt, files
  <2> QED
    BY <1>0, <2>1, Quiet DEF Alive, Serves
<1>11. ASSUME NEW p \in Proc, Die(p) PROVE ClaimInv'
  <2>1. Alive(p) /\ Go(p, "over") /\ TornClaim(p)
    BY <1>11 DEF Die
  <2>2. \A q \in Proc : Alive(q)' => Alive(q) /\ q # p
    BY <1>0, <2>1 DEF Go, Alive, TypeOK
  <2>3. \A q \in Proc : Serves(q)' => Serves(q) /\ q # p
    BY <1>0, <2>1 DEF Go, Serves, HeldSteps, EarlySteps, TypeOK
  <2>4. ASSUME NEW q \in Proc, Serves(q), q # p PROVE UNCHANGED <<pidFile, stamp>>
    <3>1. pidFile = PidOf[q] /\ pidFile # None /\ PidOf[q] # PidOf[p]
      BY <2>1, <2>4, ServerHolds DEF ClaimInv, OnePerPid
    <3> QED
      BY <2>1, <3>1 DEF TornClaim
  <2> QED
    BY <1>0, <2>2, <2>3, <2>4, Quiet
<1>12. ASSUME NEW c \in Proc, ReadTarget(c) \/ Reread(c) \/ ClearMark(c)
              \/ WriteKill(c) \/ WaitFile(c) \/ WaitStop(c) \/ ClearFiles(c) \/ ClearRequests(c)
              \/ WaitMark(c) \/ WaitHook(c) \/ Clean(c)
       PROVE  ClaimInv'
  <2>1. /\ Alive(c) /\ (UNCHANGED <<pidFile, stamp>> \/ Reap)
        /\ \E step \in CommandSteps \cup {"over"} : Go(c, step)
    BY <1>12 DEF ReadTarget, Reread, ClearMark, WriteKill, WaitFile, WaitStop, ClearFiles,
       ClearRequests, WaitMark, WaitHook, Clean, Alive, CommandSteps, files
  <2> QED
    BY <1>0, <2>1, Moves DEF Steps, CommandSteps, HeldSteps, EarlySteps
<1>13. ASSUME NEW c \in Proc, Owed(c) PROVE ClaimInv'
  <2>1. /\ Alive(c) /\ (UNCHANGED <<pidFile, stamp>> \/ Reap)
        /\ \E step \in {"clean", "waitHook", "hook"} : Go(c, step)
    BY <1>13 DEF Owed, Alive
  <2> QED
    BY <1>0, <2>1, Moves DEF Steps, CommandSteps, AfterSteps, HeldSteps, EarlySteps
<1>14. ASSUME NEW c \in Proc, Nudge(c) \/ Term(c) \/ Outright(c) PROVE ClaimInv'
  <2>1. Alive(c) /\ ~Serves(c) /\ UNCHANGED <<pidFile, stamp>>
    BY <1>14 DEF Nudge, Term, Outright, Alive, Serves, HeldSteps, EarlySteps, files
  <2>2. \A q \in Proc : pc'[q] = pc[q] \/ pc'[q] \in {"over"} \/ q = c
    BY <1>0, <1>14 DEF Nudge, Term, Outright, Receivers, Go, TypeOK
  <2>3. pc'[c] \in CommandSteps \cup {"over"}
    BY <1>0, <1>14 DEF Nudge, Term, Outright, Receivers, Go, TypeOK, CommandSteps
  <2>4. \A q \in Proc : Alive(q)' => Alive(q)
    BY <2>1, <2>2, <2>3 DEF Alive
  <2>5. \A q \in Proc : Serves(q)' => Serves(q)
    BY <2>2, <2>3 DEF Serves, HeldSteps, EarlySteps, CommandSteps
  <2> QED
    BY <1>0, <2>1, <2>4, <2>5, Quiet
<1>15. CASE UNCHANGED vars
  BY <1>0, <1>15, Quiet DEF vars, Alive, Serves
<1> QED
  BY <1>1, <1>2, <1>3, <1>4, <1>5, <1>6, <1>7, <1>8, <1>9, <1>10, <1>11, <1>12,
     <1>13, <1>14, <1>15 DEF Next, Acquire, Loop, RunHook, Command

LEMMA ClaimInductive == Spec => []ClaimInv
<1>1. Init => ClaimInv
  <2> SUFFICES ASSUME Init PROVE ClaimInv
    OBVIOUS
  <2>1. TypeOK
    BY ClaimInit
  <2>2. \A p \in Proc : ~Alive(p) /\ ~Serves(p)
    BY DEF Init, Alive, Serves, HeldSteps, EarlySteps
  <2> QED
    BY <2>1, <2>2 DEF ClaimInv, OnePerPid, ClaimOnDisk
<1> QED
  BY <1>1, ClaimStep, PTL DEF Spec

\* A live handler's claim is never reaped or overwritten: not by a reader with
\* an old view of the file, not by a process that got an old pid.
THEOREM ClaimStaysOnDisk == Spec => []ClaimOnDisk
<1>1. ClaimInv => ClaimOnDisk
  BY DEF ClaimInv
<1> QED
  BY <1>1, ClaimInductive, PTL

\* No two live processes handle the agent at one time.
THEOREM OneHandlerAlways == Spec => []OneHandler
<1>1. ClaimInv => OneHandler
  <2> SUFFICES ASSUME ClaimInv, NEW p \in Proc, NEW q \in Proc, Serves(p), Serves(q)
               PROVE  p = q
    BY DEF OneHandler
  <2>1. Alive(p) /\ Alive(q) /\ PidOf[p] = PidOf[q]
    BY ServerHolds
  <2> QED
    BY <2>1 DEF ClaimInv, OnePerPid
<1> QED
  BY <1>1, ClaimInductive, PTL

-----------------------------------------------------------------------------
(* The stop hook runs once, beside one command.                            *)

Fresh == {"unborn"} \cup ClaimSteps \cup HeldSteps
HandlerSteps == ClaimSteps \cup HeldSteps \cup {"relPid", "relReq", "clearKill", "out", "fin"}
HookSteps == {"hook", "hookMark", "hookWait"}

\* Steps from which a handler may yet run the hook its attachment owes.
Owing(p) ==
  \/ pc[p] \in Fresh \cup {"relPid", "relReq", "fin"}
  \/ pc[p] = "hook" /\ RoleOf[p] \in Handlers
  \/ pc[p] = "out" /\ RoleOf[p] = "run"

\* What a process's step says of its role, of how it ended and of its hook.
Course(p) ==
  /\ pc[p] \in HandlerSteps => RoleOf[p] \in Handlers
  /\ pc[p] \in CommandSteps => RoleOf[p] \in Commands
  /\ pc[p] \in HookSteps => RoleOf[p] \in Handlers \cup Commands
  /\ pc[p] \in Fresh => ended[p] = "none"
  /\ pc[p] \in HookSteps /\ RoleOf[p] \in Handlers => final[p] \/ ended[p] = "killed"
  /\ pc[p] = "clearKill" => ended[p] = "killed"
  /\ Owing(p) => hooks[p] = 0 \/ KilledRun(p)
CourseInv == \A p \in Proc : Course(p)

\* Whose hook a command asks after was alive when it looked.
Aimed(c) ==
  /\ aim[c] \in Proc /\ pc[aim[c]] # "unborn"
  /\ held[c] # None => PidOf[aim[c]] = held[c]
AimInv ==
  \A c \in Proc : RoleOf[c] \in Commands /\ pc[c] \notin {"unborn", "read", "over"} =>
    Aimed(c)

\* A hook that ran is named in the mark, or about to be.
MarkInv ==
  ~torn => \A p \in Proc : hooks[p] > 0 =>
             mark # "none" \/ \E r \in Proc : pc[r] = "hookMark" /\ HookFor(r) = p

\* A command about to run a hook acts for a handler that is gone.
GoneInv ==
  \A c \in Proc : RoleOf[c] \in Commands /\ pc[c] = "hook" => pc[aim[c]] = "over"

\* And for one that had none.
OwedInv ==
  ~torn => \A c \in Proc : RoleOf[c] \in Commands /\ pc[c] = "hook" => hooks[aim[c]] = 0

HookInv == CourseInv /\ AimInv /\ GoneInv /\ MarkInv /\ OwedInv /\ HookOnce

OneCommand == \A c, d \in Proc : RoleOf[c] \in Commands /\ RoleOf[d] \in Commands => c = d

Acts(p) ==
  \/ Start(p) \/ Acquire(p) \/ Loop(p) \/ Pass(p) \/ WakeEnds(p)
  \/ RunHook(p) \/ HookEnds(p) \/ Command(p) \/ Interrupt(p) \/ Die(p)

\* The command that signals or kills ends others; every other step is one process's.
LEMMA OthersStay ==
  ASSUME TypeOK, NEW p \in Proc, Acts(p), NEW q \in Proc
  PROVE  /\ q # p => pc'[q] = pc[q] \/ pc'[q] = "over"
         /\ pc[q] = "over" => pc'[q] = "over"
         /\ pc'[q] = "unborn" => pc[q] = "unborn"
<1> USE DEF Go, files, local, history, TypeOK
<1>1. CASE Start(p) \/ Acquire(p)
  BY <1>1 DEF Start, Acquire, Claim, CheckOwn, ClearOwn, Poll, Ask, GiveUp, Install
<1>2. CASE Loop(p) \/ Pass(p)
  BY <1>2 DEF Loop, ReapRequest, UnlinkRequest, TakeKill, TakeDetach, LeaveLoop, Finish,
     ReleasePid, ReleaseRequest, Pass
<1>3. CASE RunHook(p) \/ WakeEnds(p) \/ HookEnds(p) \/ Interrupt(p) \/ Die(p)
  BY <1>3 DEF RunHook, HookSpawn, HookMark, HookDone, ClearKill, WakeEnds, HookEnds, Interrupt,
     Die, Alive
<1>4. CASE Nudge(p) \/ Term(p)
  BY <1>4 DEF Nudge, Term, Receivers, Alive
<1>5. CASE Outright(p)
  BY <1>5 DEF Outright, Receivers, Alive
<1>6. CASE \/ ReadTarget(p) \/ Reread(p) \/ ClearMark(p) \/ WriteKill(p) \/ WaitFile(p) \/ WaitStop(p)
           \/ ClearFiles(p) \/ ClearRequests(p)
  BY <1>6 DEF ReadTarget, Reread, ClearMark, WriteKill, WaitFile, WaitStop, ClearFiles, ClearRequests
<1>7. CASE WaitMark(p) \/ Owed(p) \/ WaitHook(p) \/ Clean(p)
  BY <1>7 DEF WaitMark, Owed, WaitHook, Clean
<1> QED
  BY <1>1, <1>2, <1>3, <1>4, <1>5, <1>6, <1>7 DEF Acts, Command

\* A process that moves keeps its course if the step it moves to fits.
LEMMA CourseMoves ==
  ASSUME TypeOK, CourseInv, NEW p \in Proc, NEW step \in Steps, Go(p, step), UNCHANGED hooks,
         \A q \in Proc \ {p} : ended'[q] = ended[q] /\ final'[q] = final[q],
         Course(p)'
  PROVE  CourseInv'
<1> SUFFICES ASSUME NEW q \in Proc PROVE Course(q)'
  BY DEF CourseInv
<1>1. CASE q = p
  BY <1>1
<1>2. CASE q # p
  <2>1. Course(q) /\ pc'[q] = pc[q]
    BY <1>2 DEF CourseInv, Go, TypeOK
  <2>2. ended'[q] = ended[q] /\ final'[q] = final[q] /\ hooks'[q] = hooks[q]
    BY <1>2
  <2> QED
    BY <2>1, <2>2 DEF Course, Owing, KilledRun
<1> QED
  BY <1>1, <1>2

\* Every step keeps the courses.
LEMMA CourseStep ==
  ASSUME TypeOK, CourseInv, GoneInv, NEW p \in Proc, Acts(p)
  PROVE  CourseInv'
<1>0. Course(p) /\ pc \in [Proc -> Steps] /\ pc[p] \in Steps /\ hooks \in [Proc -> 0 .. 2]
      /\ ended \in [Proc -> Ends] /\ final \in [Proc -> BOOLEAN]
  BY DEF CourseInv, TypeOK
<1> DEFINE Fits(step) == /\ step \in Steps /\ Go(p, step) /\ UNCHANGED hooks
                         /\ \A q \in Proc \ {p} : ended'[q] = ended[q] /\ final'[q] = final[q]
                         /\ Course(p)'
<1>1. ASSUME NEW step, Fits(step) PROVE CourseInv'
  BY <1>1, CourseMoves
<1> HIDE DEF Fits
<1> USE DEF Fresh, ClaimSteps, HeldSteps, EarlySteps, HandlerSteps, HookSteps
<1>2. CASE Start(p)
  <2>1. PICK step \in {"claim", "read", "alien"} :
          /\ Go(p, step) /\ pc[p] = "unborn" /\ UNCHANGED <<hooks, ended, final>>
          /\ (step = "claim" => RoleOf[p] \in Handlers) /\ (step = "read" => RoleOf[p] \in Commands)
    BY <1>2 DEF Start, history, local
  <2>2. pc'[p] = step
    BY <1>0, <2>1 DEF Go
  <2>3. Course(p)'
    BY <1>0, <2>1, <2>2 DEF Course, Owing, KilledRun, CommandSteps
  <2> QED
    BY <1>1, <2>1, <2>3 DEF Fits, Steps, CommandSteps
<1>3. CASE Acquire(p)
  <2>1. PICK step \in {"claim", "checkOwn", "clearOwn", "install", "poll", "ask", "giveUp", "top", "over"} :
          /\ Go(p, step) /\ pc[p] \in ClaimSteps \cup EarlySteps /\ UNCHANGED <<hooks, ended, final>>
    <3>1. CASE Claim(p) \/ CheckOwn(p) \/ ClearOwn(p) \/ Install(p)
      BY <3>1 DEF Claim, CheckOwn, ClearOwn, Install, history, local
    <3>2. CASE Poll(p) \/ Ask(p) \/ GiveUp(p)
      BY <3>2 DEF Poll, Ask, GiveUp, history, local
    <3> QED
      BY <1>3, <3>1, <3>2 DEF Acquire
  <2>2. pc'[p] = step
    BY <1>0, <2>1 DEF Go
  <2>3. Course(p)'
    BY <1>0, <2>1, <2>2 DEF Course, Owing, KilledRun, CommandSteps
  <2> QED
    BY <1>1, <2>1, <2>3 DEF Fits, Steps
<1>4. CASE ReapRequest(p) \/ UnlinkRequest(p)
  <2>1. PICK step \in HeldSteps :
          Go(p, step) /\ pc[p] \in HeldSteps /\ UNCHANGED <<hooks, ended, final>>
    BY <1>4 DEF ReapRequest, UnlinkRequest, history, local
  <2>2. pc'[p] = step
    BY <1>0, <2>1 DEF Go
  <2>3. Course(p)'
    BY <1>0, <2>1, <2>2 DEF Course, Owing, KilledRun, CommandSteps
  <2> QED
    BY <1>1, <2>1, <2>3 DEF Fits, Steps
<1>5. CASE TakeKill(p) \/ TakeDetach(p)
  <2>1. PICK e \in {"killed", "taken"} :
          /\ Go(p, "relPid") /\ pc[p] = "top" /\ UNCHANGED <<hooks, final>>
          /\ ended' = [ended EXCEPT ![p] = e]
    BY <1>5 DEF TakeKill, TakeDetach, history, local
  <2>2. pc'[p] = "relPid" /\ ended'[p] = e
    BY <1>0, <2>1 DEF Go
  <2>3. hooks[p] = 0
    BY <1>0, <2>1 DEF Course, Owing, KilledRun
  <2>4. Course(p)'
    BY <1>0, <2>1, <2>2, <2>3 DEF Course, Owing, KilledRun, CommandSteps
  <2> QED
    BY <1>0, <1>1, <2>1, <2>4 DEF Fits, Steps, AfterSteps
<1>6. CASE Pass(p)
  <2>1. CASE UNCHANGED pc
    <3>1. UNCHANGED <<ended, hooks, final>>
      BY <1>0, <1>6, <2>1 DEF Pass, Go
    <3> QED
      BY <2>1, <3>1 DEF CourseInv, Course, Owing, KilledRun
  <2>2. CASE Go(p, "out") /\ ended' = [ended EXCEPT ![p] = "diverged"]
    <3>1. pc'[p] = "out" /\ ended'[p] = "diverged" /\ pc[p] = "top" /\ UNCHANGED <<hooks, final>>
      BY <1>0, <1>6, <2>2 DEF Pass, Go
    <3>2. hooks[p] = 0
      BY <1>0, <3>1 DEF Course, Owing, KilledRun
    <3>3. Course(p)'
      BY <1>0, <3>1, <3>2 DEF Course, Owing, KilledRun, CommandSteps
    <3> QED
      BY <1>0, <1>1, <2>2, <3>1, <3>3 DEF Fits, Steps, AfterSteps
  <2> QED
    BY <1>6, <2>1, <2>2 DEF Pass
<1>7. CASE LeaveLoop(p)
  <2>1. PICK step \in {"fin", "over"} :
          /\ Go(p, step) /\ UNCHANGED <<hooks, ended, final>>
          /\ pc[p] = "top" \/ (pc[p] = "out" /\ (step = "fin" => RoleOf[p] = "run"))
    BY <1>7 DEF LeaveLoop, history, local
  <2>2. pc'[p] = step
    BY <1>0, <2>1 DEF Go
  <2>3. Course(p)'
    BY <1>0, <2>1, <2>2 DEF Course, Owing, KilledRun, CommandSteps
  <2> QED
    BY <1>1, <2>1, <2>3 DEF Fits, Steps, AfterSteps
<1>8. CASE Finish(p)
  <2>1. pc[p] = "fin" /\ UNCHANGED hooks
    BY <1>8 DEF Finish
  <2>2. CASE Go(p, "over") /\ UNCHANGED <<final, ended>>
    <3>1. pc'[p] = "over"
      BY <1>0, <2>2 DEF Go
    <3>2. Course(p)'
      BY <1>0, <2>1, <2>2, <3>1 DEF Course, Owing, KilledRun, CommandSteps
    <3> QED
      BY <1>1, <2>1, <2>2, <3>2 DEF Fits, Steps
  <2>3. CASE /\ Go(p, "relPid") /\ final' = [final EXCEPT ![p] = TRUE]
             /\ ended' = [ended EXCEPT ![p] = IF @ = "none" THEN "stopped" ELSE @]
    <3>1. pc'[p] = "relPid" /\ (ended[p] = "killed" => ended'[p] = "killed")
      BY <1>0, <2>3 DEF Go
    <3>2. Course(p)'
      BY <1>0, <2>1, <3>1 DEF Course, Owing, KilledRun, CommandSteps
    <3> QED
      BY <1>0, <1>1, <2>1, <2>3, <3>2 DEF Fits, Steps, AfterSteps
  <2> QED
    BY <1>8, <2>2, <2>3 DEF Finish
<1>9. CASE ReleasePid(p) \/ ReleaseRequest(p)
  <2>1. PICK step \in {"relReq", "hook", "out"} :
          /\ Go(p, step) /\ UNCHANGED <<hooks, ended, final>> /\ pc[p] \in {"relPid", "relReq"}
          /\ (step = "hook" => final[p] \/ ended[p] = "killed")
    BY <1>9 DEF ReleasePid, ReleaseRequest, history, local
  <2>2. pc'[p] = step
    BY <1>0, <2>1 DEF Go
  <2>3. Course(p)'
    BY <1>0, <2>1, <2>2 DEF Course, Owing, KilledRun, CommandSteps
  <2> QED
    BY <1>1, <2>1, <2>3 DEF Fits, Steps, AfterSteps
<1>10. CASE HookSpawn(p)
  <2>1. /\ pc[p] = "hook" /\ Go(p, "hookMark") /\ UNCHANGED <<ended, final>>
        /\ hooks' = [hooks EXCEPT ![HookFor(p)] = IF @ = 2 THEN 2 ELSE @ + 1]
    BY <1>10 DEF HookSpawn, local
  <2>2. /\ pc'[p] = "hookMark"
        /\ \A q \in Proc \ {p} : pc'[q] = pc[q] /\ (q # HookFor(p) => hooks'[q] = hooks[q])
    BY <1>0, <2>1 DEF Go
  <2>3. Course(p)'
    BY <1>0, <2>1, <2>2 DEF Course, Owing, CommandSteps
  <2>4. ASSUME NEW q \in Proc \ {p} PROVE Course(q)'
    <3>1. Course(q)
      BY DEF CourseInv
    <3>2. CASE q # HookFor(p)
      BY <2>1, <2>2, <3>1, <3>2 DEF Course, Owing, KilledRun
    <3>3. CASE q = HookFor(p)
      <4>1. RoleOf[p] \in Commands /\ q = aim[p]
        BY <3>3 DEF HookFor
      <4>2. pc'[q] = "over"
        BY <2>1, <2>2, <4>1 DEF GoneInv
      <4> QED
        BY <4>2 DEF Course, Owing, CommandSteps
    <3> QED
      BY <3>2, <3>3
  <2> QED
    BY <2>3, <2>4 DEF CourseInv
<1>11. CASE HookMark(p) \/ HookDone(p) \/ ClearKill(p)
  <2>1. PICK step \in {"hookWait", "clean", "over", "clearKill", "out"} :
          /\ Go(p, step) /\ UNCHANGED <<hooks, ended, final>>
          /\ pc[p] \in {"hookMark", "hookWait", "clearKill"}
          /\ (step = "clean" => RoleOf[p] \in Commands)
          /\ (step = "hookWait" => pc[p] = "hookMark")
          /\ (step = "clearKill" => pc[p] = "hookWait" /\ RoleOf[p] \notin Commands /\ ~final[p])
          /\ (step = "out" => pc[p] = "clearKill")
    BY <1>11 DEF HookMark, HookDone, ClearKill, history, local
  <2>2. pc'[p] = step
    BY <1>0, <2>1 DEF Go
  <2>3. Course(p)'
    <3>1. step = "clean" => step \in CommandSteps /\ step \notin HandlerSteps /\ step \notin HookSteps
      BY DEF CommandSteps
    <3>2. step # "clean" => step \notin CommandSteps
      BY DEF CommandSteps
    <3> QED
      BY <1>0, <2>1, <2>2, <3>1, <3>2 DEF Course, Owing, KilledRun
  <2> QED
    BY <1>1, <2>1, <2>3 DEF Fits, Steps, AfterSteps, CommandSteps
<1>12. CASE WakeEnds(p) \/ HookEnds(p) \/ Interrupt(p)
  <2>1. UNCHANGED <<pc, hooks, ended, final>>
    BY <1>12 DEF WakeEnds, HookEnds, Interrupt, history, local
  <2> QED
    BY <2>1 DEF CourseInv, Course, Owing, KilledRun
<1>13. CASE Die(p)
  <2>1. Go(p, "over") /\ UNCHANGED <<hooks, ended, final>>
    BY <1>13 DEF Die, local
  <2>2. pc'[p] = "over"
    BY <1>0, <2>1 DEF Go
  <2>3. Course(p)'
    BY <1>0, <2>1, <2>2 DEF Course, Owing, KilledRun, CommandSteps
  <2> QED
    BY <1>1, <2>1, <2>3 DEF Fits, Steps
<1>14. CASE \/ ReadTarget(p) \/ Reread(p) \/ ClearMark(p) \/ WriteKill(p) \/ WaitFile(p) \/ WaitStop(p)
            \/ ClearFiles(p) \/ ClearRequests(p) \/ WaitMark(p) \/ Owed(p) \/ WaitHook(p) \/ Clean(p)
  <2>1. PICK step \in CommandSteps \cup {"hook", "over"} :
          Go(p, step) /\ UNCHANGED <<hooks, ended, final>> /\ pc[p] \in CommandSteps
    <3>1. CASE ReadTarget(p) \/ Reread(p) \/ ClearMark(p) \/ WriteKill(p) \/ WaitFile(p) \/ WaitStop(p)
      BY <3>1 DEF ReadTarget, Reread, ClearMark, WriteKill, WaitFile, WaitStop, history, local, CommandSteps
    <3>2. CASE ClearFiles(p) \/ ClearRequests(p) \/ WaitMark(p) \/ Owed(p) \/ WaitHook(p) \/ Clean(p)
      BY <3>2 DEF ClearFiles, ClearRequests, WaitMark, Owed, WaitHook, Clean, history, local, CommandSteps
    <3> QED
      BY <1>14, <3>1, <3>2
  <2>2. pc'[p] = step /\ RoleOf[p] \in Commands /\ RoleOf[p] \notin Handlers
    BY <1>0, <2>1 DEF Go, Course, Commands, Handlers
  <2>3. Course(p)'
    BY <1>0, <2>1, <2>2 DEF Course, Owing, KilledRun, CommandSteps
  <2> QED
    BY <1>1, <2>1, <2>3 DEF Fits, Steps, AfterSteps
<1>15. CASE Nudge(p) \/ Term(p) \/ Outright(p)
  <2>1. pc[p] \in CommandSteps /\ pc'[p] \in CommandSteps \cup {"over"} /\ UNCHANGED <<hooks, ended, final>>
    BY <1>0, <1>15 DEF Nudge, Term, Outright, Receivers, Go, history, local, CommandSteps
  <2>2. RoleOf[p] \in Commands
    BY <1>0, <2>1 DEF Course
  <2>3. ASSUME NEW q \in Proc PROVE Course(q)'
    <3>1. Course(q)
      BY DEF CourseInv
    <3>2. q # p => pc'[q] = pc[q] \/ pc'[q] = "over"
      BY OthersStay
    <3>3. \A s \in CommandSteps \cup {"over"} : s \notin HandlerSteps /\ s \notin HookSteps /\ s \notin Fresh
      BY DEF CommandSteps
    <3>4. CASE pc'[q] = pc[q]
      BY <2>1, <3>1, <3>4 DEF Course, Owing, KilledRun
    <3>5. CASE pc'[q] = "over"
      BY <3>3, <3>5 DEF Course, Owing, CommandSteps
    <3>6. CASE q = p /\ pc'[q] \in CommandSteps
      BY <2>2, <3>3, <3>6 DEF Course, Owing, CommandSteps
    <3> QED
      BY <2>1, <3>2, <3>4, <3>5, <3>6
  <2> QED
    BY <2>3 DEF CourseInv
<1> QED
  BY <1>2, <1>3, <1>4, <1>5, <1>6, <1>7, <1>8, <1>9, <1>10, <1>11, <1>12, <1>13, <1>14, <1>15
     DEF Acts, Loop, RunHook, Command

\* A command learns whom it acts on when it reads the pid file.
Reads(p) == ReadTarget(p) \/ Reread(p)

\* And only then.
LEMMA AimMoves ==
  ASSUME TypeOK, CourseInv, NEW p \in Proc, Acts(p)
  PROVE  \/ Reads(p)
         \/ /\ UNCHANGED <<aim, held>>
            /\ RoleOf[p] \in Commands /\ pc[p] \in {"unborn", "read", "over"}
                 => pc'[p] \in {"unborn", "read", "over"}
<1>0. pc \in [Proc -> Steps] /\ Course(p)
  BY DEF TypeOK, CourseInv
<1> USE DEF Go, files, local, history
<1>1. CASE Start(p)
  BY <1>0, <1>1 DEF Start, Handlers, Commands
<1>2. CASE Acquire(p)
  BY <1>0, <1>2 DEF Acquire, Claim, CheckOwn, ClearOwn, Poll, Ask, GiveUp, Install
<1>3. CASE Loop(p) \/ Pass(p)
  BY <1>0, <1>3 DEF Loop, ReapRequest, UnlinkRequest, TakeKill, TakeDetach, LeaveLoop, Finish,
     ReleasePid, ReleaseRequest, Pass
<1>4. CASE RunHook(p) \/ WakeEnds(p) \/ HookEnds(p) \/ Interrupt(p) \/ Die(p)
  BY <1>0, <1>4 DEF RunHook, HookSpawn, HookMark, HookDone, ClearKill, WakeEnds, HookEnds,
     Interrupt, Die
<1>5. CASE Nudge(p) \/ Term(p) \/ Outright(p)
  BY <1>0, <1>5 DEF Nudge, Term, Outright, Receivers
<1>6. CASE \/ ClearMark(p) \/ WriteKill(p) \/ WaitFile(p) \/ WaitStop(p)
           \/ ClearFiles(p) \/ ClearRequests(p)
  BY <1>0, <1>6 DEF ClearMark, WriteKill, WaitFile, WaitStop, ClearFiles, ClearRequests
<1>7. CASE WaitMark(p) \/ Owed(p) \/ WaitHook(p) \/ Clean(p)
  BY <1>0, <1>7 DEF WaitMark, Owed, WaitHook, Clean
<1> QED
  BY <1>1, <1>2, <1>3, <1>4, <1>5, <1>6, <1>7 DEF Acts, Command, Reads

\* Every step keeps what a command knows of its target.
LEMMA AimStep ==
  ASSUME TypeOK, CourseInv, AimInv, NEW p \in Proc, Acts(p)
  PROVE  AimInv'
<1>1. SUFFICES ASSUME NEW c \in Proc, RoleOf[c] \in Commands, pc'[c] \notin {"unborn", "read", "over"}
               PROVE  Aimed(c)'
  BY DEF AimInv
<1>2. c # p => pc'[c] = pc[c]
  BY <1>1, OthersStay
<1>3. CASE Reads(p) /\ c = p
  <2>0. pc'[p] # "over"
    BY <1>1, <1>3
  <2>1. CASE Holder # None
    <3>1. PICK q \in Proc : /\ Alive(q) /\ PidOf[q] = Holder /\ aim' = [aim EXCEPT ![p] = q]
                            /\ held' = [held EXCEPT ![p] = Holder]
      BY <1>3, <2>0, <2>1 DEF Reads, ReadTarget, Reread, Behind
    <3>2. aim'[p] = q /\ held'[p] = Holder
      BY <3>1 DEF TypeOK
    <3>3. pc'[q] # "unborn"
      BY <3>1, OthersStay DEF Alive
    <3> QED
      BY <1>3, <3>1, <3>2, <3>3 DEF Aimed
  <2>2. CASE Holder = None
    <3>1. Reread(p)
      BY <1>3, <2>0, <2>2 DEF Reads, ReadTarget, Go, TypeOK
    <3>2. pc[p] = "reread" /\ UNCHANGED aim /\ held'[p] = None
      BY <2>2, <3>1 DEF Reread, TypeOK
    <3>3. Aimed(p)
      BY <1>1, <1>3, <3>2 DEF AimInv
    <3> QED
      BY <1>3, <3>2, <3>3, OthersStay DEF Aimed
  <2> QED
    BY <2>1, <2>2
<1>4. CASE ~(Reads(p) /\ c = p)
  <2>1. aim'[c] = aim[c] /\ held'[c] = held[c]
    <3>1. CASE Reads(p)
      BY <1>4, <3>1 DEF Reads, ReadTarget, Reread, Behind, TypeOK
    <3>2. CASE ~Reads(p)
      BY <3>2, AimMoves
    <3> QED
      BY <3>1, <3>2
  <2>2. pc[c] \notin {"unborn", "read", "over"}
    BY <1>1, <1>2, <1>4, AimMoves
  <2>3. Aimed(c)
    BY <1>1, <2>2 DEF AimInv
  <2> QED
    BY <2>1, <2>3, OthersStay DEF Aimed
<1> QED
  BY <1>3, <1>4

\* How a step touches the hooks: it starts one, it names one, it wipes the mark.
\* What "killed" says is never unsaid, and a command comes to "hook" by Owed only.
LEMMA HookMoves ==
  ASSUME TypeOK, CourseInv, NEW p \in Proc, Acts(p)
  PROVE  /\ UNCHANGED hooks \/ HookSpawn(p)
         /\ torn => torn'
         /\ ~torn' /\ mark' = "none" => mark = "none"
         /\ \A q \in Proc : ended[q] = "killed" => ended'[q] = "killed"
         /\ RoleOf[p] \in Commands /\ pc'[p] = "hook" /\ pc[p] # "hook" => Owed(p)
<1>0. /\ pc \in [Proc -> Steps] /\ Course(p) /\ ended \in [Proc -> Ends]
      /\ torn \in BOOLEAN /\ mark \in {"none", "running", "done"}
  BY DEF TypeOK, CourseInv
<1> USE DEF Go, files, local, history
<1>1. CASE Start(p)
  BY <1>0, <1>1 DEF Start
<1>2. CASE Acquire(p)
  BY <1>0, <1>2 DEF Acquire, Claim, CheckOwn, ClearOwn, Poll, Ask, GiveUp, Install
<1>3. CASE TakeKill(p) \/ TakeDetach(p) \/ Pass(p)
  <2>1. pc[p] = "top" /\ ended[p] = "none"
    BY <1>0, <1>3 DEF TakeKill, TakeDetach, Pass, Course, Fresh, HeldSteps
  <2> QED
    BY <1>0, <1>3, <2>1 DEF TakeKill, TakeDetach, Pass
<1>4. CASE ReapRequest(p) \/ UnlinkRequest(p) \/ LeaveLoop(p) \/ Finish(p) \/ ReleasePid(p)
  BY <1>0, <1>4 DEF ReapRequest, UnlinkRequest, LeaveLoop, Finish, ReleasePid
<1>5. CASE ReleaseRequest(p)
  <2>1. RoleOf[p] \notin Commands
    BY <1>0, <1>5 DEF ReleaseRequest, Course, HandlerSteps, Handlers, Commands
  <2> QED
    BY <1>0, <1>5, <2>1 DEF ReleaseRequest
<1>6. CASE RunHook(p) \/ WakeEnds(p) \/ HookEnds(p) \/ Interrupt(p) \/ Die(p)
  BY <1>0, <1>6 DEF RunHook, HookSpawn, HookMark, HookDone, ClearKill, WakeEnds, HookEnds,
     Interrupt, Die
<1>7. CASE Nudge(p) \/ Term(p) \/ Outright(p)
  BY <1>0, <1>7 DEF Nudge, Term, Outright, Receivers
<1>8. CASE \/ ReadTarget(p) \/ Reread(p) \/ ClearMark(p) \/ WriteKill(p) \/ WaitFile(p) \/ WaitStop(p)
           \/ ClearFiles(p) \/ ClearRequests(p)
  BY <1>0, <1>8 DEF ReadTarget, Reread, ClearMark, WriteKill, WaitFile, WaitStop, ClearFiles, ClearRequests
<1>9. CASE WaitMark(p) \/ Owed(p) \/ WaitHook(p) \/ Clean(p)
  BY <1>0, <1>9 DEF WaitMark, Owed, WaitHook, Clean
<1> QED
  BY <1>1, <1>2, <1>3, <1>4, <1>5, <1>6, <1>7, <1>8, <1>9 DEF Acts, Loop, Command

\* A command that comes to "hook" found its target dead and no mark.
LEMMA OwedFinds ==
  ASSUME TypeOK, CourseInv, AimInv, NEW c \in Proc, RoleOf[c] \in Commands, Owed(c), pc'[c] = "hook"
  PROVE  pc[c] = "owed" /\ mark = "none" /\ pc[aim[c]] = "over" /\ pc'[aim[c]] = "over" /\ UNCHANGED <<hooks, aim>>
<1>1. pc[c] = "owed" /\ mark = "none" /\ Gone(c) /\ UNCHANGED <<hooks, aim>> /\ Go(c, "hook")
  BY DEF Owed, Go, TypeOK, history
<1>2. aim[c] \in Proc /\ PidOf[aim[c]] = held[c] /\ pc[aim[c]] # "unborn"
  BY <1>1 DEF AimInv, Aimed, Gone
<1>3. pc[aim[c]] = "over"
  BY <1>1, <1>2 DEF Gone, Live, Alive
<1> QED
  BY <1>1, <1>2, <1>3 DEF Go, TypeOK

LEMMA GoneStep ==
  ASSUME TypeOK, CourseInv, AimInv, GoneInv, NEW p \in Proc, Acts(p)
  PROVE  GoneInv'
<1> SUFFICES ASSUME NEW c \in Proc, RoleOf[c] \in Commands, pc'[c] = "hook"
             PROVE  pc'[aim'[c]] = "over"
  BY DEF GoneInv
<1>1. CASE pc[c] = "hook"
  <2>1. pc[aim[c]] = "over" /\ aim[c] \in Proc
    BY <1>1 DEF GoneInv, AimInv, Aimed
  <2>2. aim'[c] = aim[c]
    <3>1. CASE Reads(p)
      BY <1>1, <3>1 DEF Reads, ReadTarget, Reread, Behind, TypeOK
    <3>2. CASE ~Reads(p)
      BY <3>2, AimMoves
    <3> QED
      BY <3>1, <3>2
  <2> QED
    BY <2>1, <2>2, OthersStay
<1>2. CASE pc[c] # "hook"
  <2>1. c = p
    BY <1>2, OthersStay
  <2>2. Owed(c)
    BY <1>2, <2>1, HookMoves
  <2> QED
    BY <2>2, OwedFinds
<1> QED
  BY <1>1, <1>2

\* A process leaves "hookMark" by writing the mark, or torn off it.
LEMMA MarkLeaves ==
  ASSUME TypeOK, CourseInv, OneCommand, NEW p \in Proc, Acts(p), ~torn',
         NEW r \in Proc, pc[r] = "hookMark", pc'[r] # "hookMark"
  PROVE  mark' = "running"
<1>0. pc \in [Proc -> Steps] /\ Course(p) /\ Course(r)
  BY DEF TypeOK, CourseInv
<1> USE DEF Go, files, local, history
<1>1. CASE r = p
  <2>1. CASE RunHook(p) \/ WakeEnds(p) \/ HookEnds(p) \/ Interrupt(p) \/ Die(p) \/ Start(p)
    BY <1>0, <1>1, <2>1 DEF RunHook, HookSpawn, HookMark, HookDone, ClearKill, WakeEnds, HookEnds,
       Interrupt, Die, Start
  <2>2. CASE Acquire(p)
    BY <1>1, <2>2 DEF Acquire, Claim, CheckOwn, ClearOwn, Poll, Ask, GiveUp, Install
  <2>3. CASE Loop(p) \/ Pass(p)
    BY <1>1, <2>3 DEF Loop, ReapRequest, UnlinkRequest, TakeKill, TakeDetach, LeaveLoop, Finish,
       ReleasePid, ReleaseRequest, Pass
  <2>4. CASE Command(p)
    BY <1>1, <2>4 DEF Command, ReadTarget, Reread, ClearMark, WriteKill, Nudge, WaitFile, Term, WaitStop,
       Outright, ClearFiles, ClearRequests, WaitMark, Owed, WaitHook, Clean
  <2> QED
    BY <2>1, <2>2, <2>3, <2>4 DEF Acts
<1>2. CASE r # p
  <2>1. pc'[r] = "over"
    BY <1>2, OthersStay
  <2>2. CASE Nudge(p) \/ Term(p)
    <3>1. RoleOf[p] \in Commands
      BY <1>0, <2>2 DEF Nudge, Term, Course, CommandSteps
    <3>2. RoleOf[r] \in Handlers
      BY <1>0, <1>2, <3>1 DEF OneCommand, Course, HookSteps
    <3>3. InstalledHandler(r)
      BY <3>2 DEF InstalledHandler, ClaimSteps, EarlySteps
    <3>4. pc'[r] = pc[r]
      BY <1>0, <1>2, <2>2, <3>3 DEF Nudge, Term, TakesSigterm
    <3> QED
      BY <2>1, <3>4
  <2>3. CASE Outright(p)
    BY <1>0, <1>2, <2>1, <2>3 DEF Outright
  <2>4. CASE ~(Nudge(p) \/ Term(p) \/ Outright(p))
    <3>1. pc'[r] = pc[r]
      <4>1. CASE RunHook(p) \/ WakeEnds(p) \/ HookEnds(p) \/ Interrupt(p) \/ Die(p) \/ Start(p)
        BY <1>0, <1>2, <4>1 DEF RunHook, HookSpawn, HookMark, HookDone, ClearKill, WakeEnds,
           HookEnds, Interrupt, Die, Start
      <4>2. CASE Acquire(p)
        BY <1>0, <1>2, <4>2 DEF Acquire, Claim, CheckOwn, ClearOwn, Poll, Ask, GiveUp, Install
      <4>3. CASE Loop(p) \/ Pass(p)
        BY <1>0, <1>2, <4>3 DEF Loop, ReapRequest, UnlinkRequest, TakeKill, TakeDetach, LeaveLoop,
           Finish, ReleasePid, ReleaseRequest, Pass
      <4>4. CASE Command(p)
        BY <1>0, <1>2, <2>4, <4>4 DEF Command, ReadTarget, Reread, ClearMark, WriteKill, WaitFile, WaitStop,
           ClearFiles, ClearRequests, WaitMark, Owed, WaitHook, Clean
      <4> QED
        BY <4>1, <4>2, <4>3, <4>4 DEF Acts
    <3> QED
      BY <2>1, <3>1
  <2> QED
    BY <2>2, <2>3, <2>4
<1> QED
  BY <1>1, <1>2

\* Whom the process at a hook runs it for does not change while it does.
LEMMA HookForStays ==
  ASSUME TypeOK, CourseInv, NEW p \in Proc, Acts(p), NEW r \in Proc, pc[r] \in HookSteps
  PROVE  aim'[r] = aim[r] /\ HookFor(r)' = HookFor(r)
<1>1. CASE Reads(p)
  BY <1>1 DEF Reads, ReadTarget, Reread, Behind, HookFor, HookSteps, TypeOK
<1>2. CASE ~Reads(p)
  BY <1>2, AimMoves DEF HookFor
<1> QED
  BY <1>1, <1>2

LEMMA MarkStep ==
  ASSUME TypeOK, CourseInv, AimInv, MarkInv, OneCommand, NEW p \in Proc, Acts(p)
  PROVE  MarkInv'
<1> SUFFICES ASSUME ~torn', NEW q \in Proc, hooks'[q] > 0, mark' = "none"
             PROVE  \E r \in Proc : pc'[r] = "hookMark" /\ HookFor(r)' = q
  BY DEF MarkInv
<1>1. ~torn /\ mark = "none"
  BY HookMoves
<1>2. CASE HookSpawn(p) /\ q = HookFor(p)
  <2>1. pc[p] = "hook" /\ pc'[p] = "hookMark"
    BY <1>2 DEF HookSpawn, Go, TypeOK
  <2> QED
    BY <1>2, <2>1, HookForStays DEF HookSteps
<1>3. CASE ~(HookSpawn(p) /\ q = HookFor(p))
  <2>1. hooks'[q] = hooks[q]
    <3>1. CASE UNCHANGED hooks
      BY <3>1
    <3>2. CASE HookSpawn(p)
      BY <1>3, <3>2 DEF HookSpawn, TypeOK
    <3> QED
      BY <3>1, <3>2, HookMoves
  <2>2. PICK r \in Proc : pc[r] = "hookMark" /\ HookFor(r) = q
    BY <1>1, <2>1 DEF MarkInv
  <2>3. pc'[r] = "hookMark"
    BY <2>2, MarkLeaves
  <2> QED
    BY <2>2, <2>3, HookForStays DEF HookSteps
<1> QED
  BY <1>2, <1>3

LEMMA OwedStep ==
  ASSUME TypeOK, CourseInv, AimInv, GoneInv, MarkInv, OwedInv, OneCommand, NEW p \in Proc, Acts(p)
  PROVE  OwedInv'
<1> SUFFICES ASSUME ~torn', NEW c \in Proc, RoleOf[c] \in Commands, pc'[c] = "hook"
             PROVE  hooks'[aim'[c]] = 0
  BY DEF OwedInv
<1>0. ~torn
  BY HookMoves
<1>1. CASE pc[c] = "hook"
  <2>1. hooks[aim[c]] = 0 /\ pc[aim[c]] = "over" /\ aim[c] \in Proc
    BY <1>0, <1>1 DEF OwedInv, GoneInv, AimInv, Aimed
  <2>2. aim'[c] = aim[c]
    BY <1>1, HookForStays DEF HookSteps
  <2>3. CASE UNCHANGED hooks
    BY <2>1, <2>2, <2>3
  <2>4. CASE HookSpawn(p)
    <3>1. pc[p] = "hook" /\ pc'[p] = "hookMark"
      BY <2>4 DEF HookSpawn, Go, TypeOK
    <3>2. RoleOf[p] \notin Commands
      BY <3>1 DEF OneCommand
    <3>3. HookFor(p) = p /\ p # aim[c]
      BY <2>1, <3>1, <3>2 DEF HookFor
    <3> QED
      BY <2>1, <2>2, <2>4, <3>3 DEF HookSpawn, TypeOK
  <2> QED
    BY <2>3, <2>4, HookMoves
<1>2. CASE pc[c] # "hook"
  <2>1. c = p
    BY <1>2, OthersStay
  <2>2. /\ pc[c] = "owed" /\ mark = "none" /\ pc[aim[c]] = "over" /\ UNCHANGED <<hooks, aim>>
    BY <1>2, <2>1, HookMoves, OwedFinds
  <2>3. aim[c] \in Proc
    BY <2>2 DEF AimInv, Aimed
  <2>4. ASSUME NEW r \in Proc, pc[r] = "hookMark", HookFor(r) = aim[c] PROVE FALSE
    <3>1. CASE RoleOf[r] \in Commands
      BY <2>2, <2>4, <3>1 DEF OneCommand
    <3>2. CASE RoleOf[r] \notin Commands
      BY <2>2, <2>4, <3>2 DEF HookFor
    <3> QED
      BY <3>1, <3>2
  <2>5. ~(hooks[aim[c]] > 0)
    BY <1>0, <2>2, <2>3, <2>4 DEF MarkInv
  <2> QED
    BY <2>2, <2>3, <2>5 DEF TypeOK
<1> QED
  BY <1>1, <1>2

LEMMA OnceStep ==
  ASSUME TypeOK, CourseInv, AimInv, OwedInv, HookOnce, NEW p \in Proc, Acts(p)
  PROVE  HookOnce'
<1> SUFFICES ASSUME ~torn', NEW q \in Proc, ~KilledRun(q)' PROVE hooks'[q] <= 1
  BY DEF HookOnce
<1>1. ~torn /\ ~KilledRun(q)
  BY HookMoves DEF KilledRun
<1>2. hooks[q] <= 1
  BY <1>1 DEF HookOnce
<1>3. CASE UNCHANGED hooks
  BY <1>2, <1>3
<1>4. CASE HookSpawn(p)
  <2>1. pc[p] = "hook" /\ hooks' = [hooks EXCEPT ![HookFor(p)] = IF @ = 2 THEN 2 ELSE @ + 1]
    BY <1>4 DEF HookSpawn
  <2>2. CASE q # HookFor(p)
    BY <1>2, <2>1, <2>2 DEF TypeOK
  <2>3. CASE q = HookFor(p)
    <3>1. hooks[q] = 0
      <4>1. CASE RoleOf[p] \in Commands
        BY <1>1, <2>1, <2>3, <4>1 DEF OwedInv, HookFor
      <4>2. CASE RoleOf[p] \notin Commands
        <5>1. q = p /\ Course(p)
          BY <2>3, <4>2 DEF HookFor, CourseInv
        <5> QED
          BY <1>1, <2>1, <4>2, <5>1 DEF Course, HookSteps, Owing
      <4> QED
        BY <4>1, <4>2
    <3> QED
      BY <2>1, <2>3, <3>1 DEF TypeOK
  <2> QED
    BY <2>2, <2>3
<1> QED
  BY <1>3, <1>4, HookMoves

LEMMA HookStep == ASSUME OneCommand, TypeOK, HookInv, [Next]_vars PROVE HookInv'
<1>1. CASE UNCHANGED vars
  <2>1. CourseInv' /\ AimInv'
    BY <1>1 DEF HookInv, CourseInv, Course, Owing, KilledRun, AimInv, Aimed, vars
  <2> QED
    BY <1>1, <2>1 DEF HookInv, GoneInv, MarkInv, HookFor, OwedInv, HookOnce, KilledRun, vars
<1>2. CASE Next
  <2>1. PICK p \in Proc : Acts(p)
    BY <1>2 DEF Next, Acts
  <2> QED
    BY <2>1, CourseStep, AimStep, GoneStep, MarkStep, OwedStep, OnceStep DEF HookInv
<1> QED
  BY <1>1, <1>2

\* "Every stop of a node runs its stop.invoke once": no attachment is hooked
\* twice, however many handlers come, go, crash and take over beside the one
\* command that stops them, but for the torn marks and the killed `run` that
\* HookOnce names. Two commands at once do run it twice.
THEOREM HookRunsOnce ==
  ASSUME OneCommand
  PROVE  Spec => []HookOnce
<1>1. Init => HookInv
  <2> SUFFICES ASSUME Init PROVE HookInv
    OBVIOUS
  <2>1. \A p \in Proc : pc[p] = "unborn" /\ hooks[p] = 0 /\ ended[p] = "none"
    BY DEF Init
  <2>2. CourseInv
    BY <2>1 DEF CourseInv, Course, HandlerSteps, CommandSteps, HookSteps, ClaimSteps, HeldSteps,
       EarlySteps
  <2> QED
    BY <2>1, <2>2 DEF HookInv, AimInv, GoneInv, MarkInv, OwedInv, HookOnce
<1>2. ClaimInv /\ HookInv /\ [Next]_vars => HookInv'
  BY HookStep DEF ClaimInv
<1>3. HookInv => HookOnce
  BY DEF HookInv
<1> QED
  BY <1>1, <1>2, <1>3, ClaimInductive, PTL DEF Spec

-----------------------------------------------------------------------------
(* A stop that runs no hook had one run.                                   *)

PastClear == {"write", "nudge", "waitFile", "escalate", "term", "waitStop", "outright",
              "clearFiles", "clearReqs", "waitMark", "owed"}

\* Who names a hook in the mark, or waits for it, has started it.
SpawnedInv == \A p \in Proc : pc[p] \in {"hookMark", "hookWait"} => hooks[HookFor(p)] >= 1

\* A mark found by a command that has cleared it is of its target's hook.
Told(c) == (pc[c] \in PastClear /\ mark # "none") \/ pc[c] = "waitHook"
TellingInv ==
  \A c \in Proc : RoleOf[c] \in Commands /\ Told(c) => hooks[aim[c]] >= 1 \/ c \in astray

SkipInv == CourseInv /\ AimInv /\ GoneInv /\ SpawnedInv /\ TellingInv

\* Hooks that ran stay run.
LEMMA HooksGrow ==
  ASSUME TypeOK, CourseInv, NEW p \in Proc, Acts(p), NEW q \in Proc, hooks[q] >= 1
  PROVE  hooks'[q] >= 1
<1>1. CASE UNCHANGED hooks
  BY <1>1
<1>2. CASE HookSpawn(p)
  BY <1>2 DEF HookSpawn, TypeOK
<1> QED
  BY <1>1, <1>2, HookMoves

\* What writes the mark, and how a process comes to a hook or past its clearing of the mark.
LEMMA MarkMoves ==
  ASSUME TypeOK, CourseInv, NEW p \in Proc, Acts(p)
  PROVE  /\ UNCHANGED <<mark, astray>> \/ HookMark(p) \/ HookDone(p) \/ ClearMark(p)
         /\ pc'[p] \in {"hookMark", "hookWait"} /\ pc[p] \notin {"hookMark", "hookWait"} => HookSpawn(p)
         /\ pc'[p] \in PastClear /\ pc[p] \notin PastClear => ClearMark(p)
         /\ pc'[p] = "waitHook" /\ pc[p] # "waitHook" => Owed(p)
<1>0. pc \in [Proc -> Steps]
  BY DEF TypeOK
<1> USE DEF Go, files, local, history, PastClear
<1>1. CASE Start(p) \/ WakeEnds(p) \/ HookEnds(p) \/ Interrupt(p) \/ Die(p)
  BY <1>0, <1>1 DEF Start, WakeEnds, HookEnds, Interrupt, Die
<1>2. CASE Acquire(p)
  BY <1>0, <1>2 DEF Acquire, Claim, CheckOwn, ClearOwn, Poll, Ask, GiveUp, Install
<1>3. CASE Loop(p) \/ Pass(p)
  BY <1>0, <1>3 DEF Loop, ReapRequest, UnlinkRequest, TakeKill, TakeDetach, LeaveLoop, Finish,
     ReleasePid, ReleaseRequest, Pass
<1>4. CASE RunHook(p)
  BY <1>0, <1>4 DEF RunHook, HookSpawn, HookMark, HookDone, ClearKill
<1>5. CASE Nudge(p) \/ Term(p) \/ Outright(p)
  BY <1>0, <1>5 DEF Nudge, Term, Outright, Receivers
<1>6. CASE \/ ReadTarget(p) \/ Reread(p) \/ ClearMark(p) \/ WriteKill(p) \/ WaitFile(p) \/ WaitStop(p)
           \/ ClearFiles(p) \/ ClearRequests(p)
  BY <1>0, <1>6 DEF ReadTarget, Reread, ClearMark, WriteKill, WaitFile, WaitStop, ClearFiles, ClearRequests
<1>7. CASE WaitMark(p) \/ Owed(p) \/ WaitHook(p) \/ Clean(p)
  BY <1>0, <1>7 DEF WaitMark, Owed, WaitHook, Clean
<1> QED
  BY <1>1, <1>2, <1>3, <1>4, <1>5, <1>6, <1>7 DEF Acts, Command

\* HookFor is a process once a hook is at hand.
LEMMA HookForType ==
  ASSUME TypeOK, CourseInv, AimInv, NEW p \in Proc, pc[p] \in HookSteps
  PROVE  HookFor(p) \in Proc
BY DEF HookFor, AimInv, Aimed, HookSteps

LEMMA SpawnedStep ==
  ASSUME TypeOK, CourseInv, AimInv, SpawnedInv, NEW p \in Proc, Acts(p)
  PROVE  SpawnedInv'
<1> SUFFICES ASSUME NEW q \in Proc, pc'[q] \in {"hookMark", "hookWait"}
             PROVE  hooks'[HookFor(q)'] >= 1
  BY DEF SpawnedInv
<1>1. CASE pc[q] \in {"hookMark", "hookWait"}
  <2>1. hooks[HookFor(q)] >= 1 /\ HookFor(q) \in Proc
    BY <1>1, HookForType DEF SpawnedInv, HookSteps
  <2>2. HookFor(q)' = HookFor(q)
    BY <1>1, HookForStays DEF HookSteps
  <2> QED
    BY <2>1, <2>2, HooksGrow
<1>2. CASE pc[q] \notin {"hookMark", "hookWait"}
  <2>1. q = p
    BY <1>2, OthersStay
  <2>2. HookSpawn(p)
    BY <1>2, <2>1, MarkMoves
  <2>3. pc[p] = "hook" /\ HookFor(p) \in Proc
    BY <2>2, HookForType DEF HookSpawn, HookSteps
  <2>4. HookFor(p)' = HookFor(p)
    BY <2>3, HookForStays DEF HookSteps
  <2>5. hooks'[HookFor(p)] >= 1
    BY <2>2, <2>3 DEF HookSpawn, TypeOK
  <2> QED
    BY <2>1, <2>4, <2>5
<1> QED
  BY <1>1, <1>2

LEMMA TellingStep ==
  ASSUME TypeOK, CourseInv, AimInv, SpawnedInv, TellingInv, NEW p \in Proc, Acts(p)
  PROVE  TellingInv'
<1> SUFFICES ASSUME NEW c \in Proc, RoleOf[c] \in Commands, Told(c)', c \notin astray'
             PROVE  hooks'[aim'[c]] >= 1
  BY DEF TellingInv
<1>1. ~(ClearMark(p) /\ c = p)
  BY DEF ClearMark, Told, Go, TypeOK
<1>2. pc[c] \in PastClear \cup {"waitHook"}
  <2>1. CASE c = p
    <3>1. CASE pc'[c] \in PastClear
      BY <1>1, <2>1, <3>1, MarkMoves
    <3>2. CASE pc'[c] = "waitHook"
      BY <2>1, <3>2, MarkMoves DEF Owed, PastClear
    <3> QED
      BY <3>1, <3>2 DEF Told
  <2>2. CASE c # p
    BY <2>2, OthersStay DEF Told, PastClear
  <2> QED
    BY <2>1, <2>2
<1>3. aim[c] \in Proc
  BY <1>2 DEF AimInv, Aimed, PastClear
<1>4. aim'[c] = aim[c]
  <2>1. CASE Reads(p)
    BY <1>2, <2>1 DEF Reads, ReadTarget, Reread, Behind, PastClear, TypeOK
  <2>2. CASE ~Reads(p)
    BY <2>2, AimMoves
  <2> QED
    BY <2>1, <2>2
<1>5. hooks[aim[c]] >= 1
  <2>1. CASE Told(c)
    <3>1. c \notin astray
      <4>1. CASE ClearMark(p)
        BY <1>1, <4>1 DEF ClearMark
      <4>2. CASE HookMark(p) \/ HookDone(p)
        BY <4>2 DEF HookMark, HookDone
      <4> QED
        BY <4>1, <4>2, MarkMoves
    <3> QED
      BY <2>1, <3>1 DEF TellingInv
  <2>2. CASE ~Told(c)
    <3>1. pc[c] \in PastClear /\ mark = "none"
      BY <1>2, <2>2 DEF Told
    <3>2. pc'[c] # "waitHook"
      BY <3>1, MarkMoves, OthersStay DEF Owed, Go, TypeOK, PastClear
    <3>3. mark' # "none"
      BY <3>2 DEF Told
    <3>4. HookMark(p) \/ HookDone(p)
      BY <3>1, <3>3, MarkMoves DEF ClearMark
    <3>5. pc[p] \in {"hookMark", "hookWait"} /\ c \notin Misled(p)
      BY <3>4 DEF HookMark, HookDone
    <3>6. aim[c] = HookFor(p)
      BY <3>5 DEF Misled
    <3> QED
      BY <3>5, <3>6 DEF SpawnedInv
  <2> QED
    BY <2>1, <2>2
<1> QED
  BY <1>3, <1>4, <1>5, HooksGrow

LEMMA SkipStep == ASSUME TypeOK, SkipInv, [Next]_vars PROVE SkipInv'
<1>1. CASE UNCHANGED vars
  <2>1. CourseInv' /\ AimInv'
    BY <1>1 DEF SkipInv, CourseInv, Course, Owing, KilledRun, AimInv, Aimed, vars
  <2> QED
    BY <1>1, <2>1 DEF SkipInv, GoneInv, SpawnedInv, HookFor, TellingInv, Told, vars
<1>2. CASE Next
  <2>1. PICK p \in Proc : Acts(p)
    BY <1>2 DEF Next, Acts
  <2> QED
    BY <2>1, CourseStep, AimStep, GoneStep, SpawnedStep, TellingStep DEF SkipInv
<1> QED
  BY <1>1, <1>2

\* A command that concludes with its handler gone and the node free leaves the hook out
\* only where one was run for that handler, where the code asks after none, or where
\* another handler's hook wrote the mark meanwhile; for any number of commands,
\* handlers, signals, deaths and recycled pids.
THEOREM NoHookSkipped == Spec => HookNotSkipped
<1>1. Init => SkipInv
  <2> SUFFICES ASSUME Init PROVE SkipInv
    OBVIOUS
  <2>1. \A p \in Proc : pc[p] = "unborn" /\ hooks[p] = 0 /\ ended[p] = "none"
    BY DEF Init
  <2>2. CourseInv
    BY <2>1 DEF CourseInv, Course, HandlerSteps, CommandSteps, HookSteps, ClaimSteps, HeldSteps,
       EarlySteps
  <2> QED
    BY <2>1, <2>2 DEF SkipInv, AimInv, GoneInv, SpawnedInv, TellingInv, Told, PastClear
<1>2. ClaimInv /\ SkipInv /\ [Next]_vars => SkipInv'
  BY SkipStep DEF ClaimInv
<1> DEFINE Kept == \A c \in Proc :
                     Concludes(c) /\ ~Live(held[c]) /\ Holder = None =>
                       hooks[aim[c]] >= 1 \/ c \in astray \/ Unasked(c)
<1>3. ClaimInv /\ SkipInv /\ [Next]_vars => [Kept]_vars
  <2> SUFFICES ASSUME ClaimInv, SkipInv, NEW c \in Proc, Concludes(c), ~Live(held[c]), Holder = None,
                      ~Unasked(c)
               PROVE  hooks[aim[c]] >= 1 \/ c \in astray
    OBVIOUS
  <2>1. Told(c) /\ pc[c] \in {"owed", "waitHook"}
    <3>1. CASE Owed(c)
      <4>1. pc[c] = "owed" /\ Gone(c)
        BY <3>1 DEF Owed, Unasked, Gone
      <4>2. mark # "none"
        BY <3>1, <4>1 DEF Concludes, Owed, Go, ClaimInv, TypeOK
      <4> QED
        BY <4>1, <4>2 DEF Told, PastClear
    <3>2. CASE WaitHook(c)
      BY <3>2 DEF WaitHook, Told
    <3>3. CASE Nudge(c)
      BY <3>3 DEF Nudge, Unasked
    <3> QED
      BY <3>1, <3>2, <3>3 DEF Concludes
  <2>2. RoleOf[c] \in Commands
    BY <2>1 DEF SkipInv, CourseInv, Course, CommandSteps
  <2> QED
    BY <2>1, <2>2 DEF SkipInv, TellingInv
<1> QED
  BY <1>1, <1>2, <1>3, ClaimInductive, PTL DEF Spec, HookNotSkipped
=============================================================================
