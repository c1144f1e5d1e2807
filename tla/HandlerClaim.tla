---------------------------- MODULE HandlerClaim ----------------------------
(***************************************************************************)
(* Who handles one agent (apps/a8s/daemon.py, commands.py): the pid file   *)
(* and the start token a handler claims, the detach request by which       *)
(* `a8s run` takes an agent over, the kill request, SIGTERM, and the stop  *)
(* hook each stop owes.  Handlers and commands are processes that run      *)
(* concurrently, die between any two steps, and leave pids the system may  *)
(* give to somebody else.  Only the pid lock makes several file steps one. *)
(***************************************************************************)
EXTENDS Integers, FiniteSets

CONSTANTS
  Proc,         \* process incarnations; each is started at most once
  Pid,          \* process ids
  PidOf,        \* PidOf[p]: the id p gets; equal ids model a recycled pid
  RoleOf,       \* RoleOf[p]: what p runs
  None,         \* "no value"
  Partial,      \* a pid file created and not yet written
  TokenFails,   \* TRUE when a start token may be missing
  Impatient,    \* handlers whose wait for a release may time out
  Interrupted,  \* handlers that may get Ctrl+C or an init system's SIGTERM
  MaxDeaths     \* bound: processes killed from outside

Handlers == {"run", "start"}
Commands == {"kill", "stop", "force"}
Roles == Handlers \cup Commands \cup {"alien"}

ASSUME ClaimAssumption ==
  /\ PidOf \in [Proc -> Pid] /\ RoleOf \in [Proc -> Roles]
  /\ None \notin Proc \cup Pid /\ Partial \notin Pid \cup {None}
  /\ TokenFails \in BOOLEAN /\ Impatient \subseteq Proc
  /\ Interrupted \subseteq Proc /\ MaxDeaths \in Nat

VARIABLES
  pidFile,   \* agents/<name>/pid
  stamp,     \* the start token beside it, as the incarnation it identifies
  detach,    \* the detach-request file
  kill,      \* the kill-request file
  mark,      \* the state in the stop-hook mark
  markOf,    \* the process whose hook the mark names
  hookLive,  \* processes whose stop hook is running
  pc,        \* pc[p]: what p does next
  asked,     \* asked[p]: acquire() has placed its request
  wake,      \* wake[p]: p has a wake of this agent in flight
  stopping,  \* stopping[p]: p's stop event is set
  final,     \* final[p]: p is in the release loop that ends it
  target,    \* target[c]: the pid a command signals and waits for
  held,      \* held[c]: the pid whose hook it asks after
  ended,     \* ended[p]: how p lost the agent  (history)
  aim,       \* aim[c]: the incarnation last read as the handler  (history)
  hooks,     \* hooks[p]: stop hooks run for p's attachment, up to 2 (history)
  torn,      \* a process died between starting a hook and naming it, or a stop
             \* cleared the mark of a hook  (history)
  astray,    \* commands since whose clearing of the mark another handler's hook
             \* has written it  (history)
  deaths     \* processes killed so far

files == <<pidFile, stamp, detach, kill, mark, markOf>>
local == <<asked, wake, stopping, final, target, held>>
history == <<ended, aim, hooks, torn, astray>>
vars == <<pidFile, stamp, detach, kill, mark, markOf, hookLive, pc, asked, wake,
          stopping, final, target, held, ended, aim, hooks, torn, astray, deaths>>

ClaimSteps == {"claim", "poll", "ask", "giveUp"}
\* The pid file names the process, its signal handlers are not installed yet.
EarlySteps == {"checkOwn", "clearOwn", "install"}
HeldSteps == EarlySteps \cup {"top", "reapKill", "reapDetach"}
AfterSteps == {"relPid", "relReq", "hook", "hookMark", "hookWait", "clearKill",
               "out", "fin"}
CommandSteps == {"read", "reread", "clearMark", "write", "nudge", "waitFile",
                 "escalate", "term", "waitStop", "outright", "clearFiles",
                 "clearReqs", "waitMark", "owed", "waitHook", "clean"}
Steps == {"unborn", "alien", "over"} \cup ClaimSteps \cup HeldSteps
           \cup AfterSteps \cup CommandSteps
Ends == {"none", "taken", "killed", "stopped", "diverged"}

Alive(p) == pc[p] \notin {"unborn", "over"}
Live(pid) == \E q \in Proc : Alive(q) /\ PidOf[q] = pid
Foreign(request, p) == request # None /\ request # PidOf[p] /\ Live(request)
Dead(request) == request # None /\ ~Live(request)

\* p treats the agent as its own: it routes its outbox and wakes it.
Serves(p) == pc[p] \in HeldSteps

Init ==
  /\ pidFile = None /\ stamp = None /\ detach = None /\ kill = None
  /\ mark = "none" /\ markOf = None /\ hookLive = {}
  /\ pc = [p \in Proc |-> "unborn"]
  /\ asked = [p \in Proc |-> FALSE] /\ wake = [p \in Proc |-> FALSE]
  /\ stopping = [p \in Proc |-> FALSE] /\ final = [p \in Proc |-> FALSE]
  /\ target = [p \in Proc |-> None] /\ held = [p \in Proc |-> None]
  /\ ended = [p \in Proc |-> "none"]
  /\ aim = [p \in Proc |-> None] /\ hooks = [p \in Proc |-> 0]
  /\ torn = FALSE /\ astray = {} /\ deaths = 0

Go(p, step) == pc' = [pc EXCEPT ![p] = step]

(***************************************************************************)
(* Reading the pid file.                                                   *)
(***************************************************************************)
\* Mutant: the stamp is not compared.
ValidPidAnyStamp == \E q \in Proc : Alive(q) /\ PidOf[q] = pidFile

\* _read_handler_pid: a live pid is the handler unless its stamp names another
\* incarnation; the caller reaps what is not valid, under the pid lock.
ValidPid ==
  \E q \in Proc : Alive(q) /\ PidOf[q] = pidFile /\ stamp \in {q, None}
Holder == IF ValidPid THEN pidFile ELSE None
Reap ==
  IF ValidPid \/ pidFile = None
    THEN UNCHANGED <<pidFile, stamp>>
    ELSE pidFile' = None /\ stamp' = None

Start(p) ==
  /\ pc[p] = "unborn" /\ ~Live(PidOf[p])
  /\ Go(p, CASE RoleOf[p] \in Handlers -> "claim"
             [] RoleOf[p] \in Commands -> "read"
             [] OTHER -> "alien")
  /\ UNCHANGED <<files, hookLive, local, history, deaths>>

(***************************************************************************)
(* acquire and claim_without_takeover.                                     *)
(***************************************************************************)
Stamps(p) == {p} \cup (IF TokenFails THEN {None} ELSE {})

\* Mutant: the claim is not exclusive (no O_EXCL).
ClaimOverwrites(p) ==
  /\ pc[p] = "claim" /\ pidFile' = PidOf[p] /\ stamp' \in Stamps(p)
  /\ Go(p, "checkOwn")
  /\ UNCHANGED <<detach, kill, mark, markOf, hookLive, local, history, deaths>>

Claim(p) ==
  /\ pc[p] = "claim"
  /\ IF pidFile = None
       THEN /\ pidFile' = PidOf[p] /\ stamp' \in Stamps(p)
            /\ Go(p, "checkOwn")
       ELSE Go(p, "poll") /\ UNCHANGED <<pidFile, stamp>>
  /\ UNCHANGED <<detach, kill, mark, markOf, hookLive, local, history, deaths>>

\* Reading the request and unlinking it are two steps: what is unlinked may be
\* a request written in between.
CheckOwn(p) ==
  /\ pc[p] = "checkOwn"
  /\ Go(p, IF detach = PidOf[p] \/ Dead(detach) THEN "clearOwn" ELSE "install")
  /\ UNCHANGED <<files, hookLive, local, history, deaths>>

ClearOwn(p) ==
  /\ pc[p] = "clearOwn"
  /\ detach' = None /\ Go(p, "install")
  /\ UNCHANGED <<pidFile, stamp, kill, mark, markOf, hookLive, local, history,
                 deaths>>

\* The claim found a pid file: a stale one is reaped and claimed again, a live
\* one is left alone by `start` and asked for by `run`.
Poll(p) ==
  /\ pc[p] = "poll" /\ Reap
  /\ \/ Holder = None /\ Go(p, "claim")
     \/ Holder = PidOf[p] /\ Go(p, "install")
     \/ /\ Holder \notin {None, PidOf[p]}
        /\ \/ RoleOf[p] = "start" /\ Go(p, "over")
           \/ RoleOf[p] = "run" /\ ~asked[p] /\ Go(p, "ask")
           \/ RoleOf[p] = "run" /\ asked[p] /\ Go(p, "claim")
           \/ asked[p] /\ p \in Impatient /\ Go(p, "giveUp")
  /\ UNCHANGED <<detach, kill, mark, markOf, hookLive, local, history, deaths>>

Ask(p) ==
  /\ pc[p] = "ask"
  /\ detach' = PidOf[p]
  /\ asked' = [asked EXCEPT ![p] = TRUE] /\ Go(p, "claim")
  /\ UNCHANGED <<pidFile, stamp, kill, mark, markOf, hookLive, wake, stopping,
                 final, target, held, ended, aim, hooks, torn, astray, deaths>>

\* TimeoutError: the request is unlinked, whoever's it is by now.
GiveUp(p) ==
  /\ pc[p] = "giveUp"
  /\ detach' = None /\ Go(p, "over")
  /\ UNCHANGED <<pidFile, stamp, kill, mark, markOf, hookLive, local, history,
                 deaths>>

Install(p) ==
  /\ pc[p] = "install" /\ Go(p, "top")
  /\ UNCHANGED <<files, hookLive, local, history, deaths>>

(***************************************************************************)
(* The top of an attached_loop iteration, and release().                   *)
(***************************************************************************)
\* A request from a dead process is unlinked, again in a step of its own.
ReapRequest(p) ==
  /\ pc[p] = "top"
  /\ \/ Dead(kill) /\ Go(p, "reapKill")
     \/ ~Foreign(kill, p) /\ Dead(detach) /\ Go(p, "reapDetach")
  /\ UNCHANGED <<files, hookLive, local, history, deaths>>

UnlinkRequest(p) ==
  /\ \/ pc[p] = "reapKill" /\ kill' = None /\ UNCHANGED detach
     \/ pc[p] = "reapDetach" /\ detach' = None /\ UNCHANGED kill
  /\ Go(p, "top")
  /\ UNCHANGED <<pidFile, stamp, mark, markOf, hookLive, local, history, deaths>>

\* A kill request ends the agent's wake, then releases and runs the stop hook.
TakeKill(p) ==
  /\ pc[p] = "top" /\ Foreign(kill, p)
  /\ wake' = [wake EXCEPT ![p] = FALSE]
  /\ ended' = [ended EXCEPT ![p] = "killed"] /\ Go(p, "relPid")
  /\ UNCHANGED <<files, hookLive, asked, stopping, final, target, held, aim, hooks,
                 torn, astray, deaths>>

\* A detach request releases at once: nothing waits for the wake in flight.
TakeDetach(p) ==
  /\ pc[p] = "top" /\ ~Foreign(kill, p) /\ Foreign(detach, p)
  /\ ended' = [ended EXCEPT ![p] = "taken"] /\ Go(p, "relPid")
  /\ UNCHANGED <<files, hookLive, local, aim, hooks, torn, astray, deaths>>

\* No request: drop a diverged agent, else route and perhaps start a wake.
Pass(p) ==
  /\ pc[p] = "top" /\ ~Foreign(kill, p) /\ ~Foreign(detach, p) /\ Reap
  /\ IF Holder \notin {None, PidOf[p]}
       THEN /\ Go(p, "out") /\ ended' = [ended EXCEPT ![p] = "diverged"]
            /\ UNCHANGED wake
       ELSE /\ UNCHANGED <<pc, ended>>
            /\ ~stopping[p] /\ ~wake[p] /\ wake' = [wake EXCEPT ![p] = TRUE]
  /\ UNCHANGED <<detach, kill, mark, markOf, hookLive, asked, stopping, final,
                 target, held, aim, hooks, torn, astray, deaths>>

WakeEnds(p) ==
  /\ wake[p] /\ wake' = [wake EXCEPT ![p] = FALSE]
  /\ UNCHANGED <<files, hookLive, pc, asked, stopping, final, target, held, history,
                 deaths>>

\* Mutant: the loop ends only when it has no agent left.
LeaveLoopDeaf(p) ==
  /\ ~wake[p] /\ pc[p] = "out"
  /\ Go(p, IF RoleOf[p] = "run" THEN "fin" ELSE "over")
  /\ UNCHANGED <<files, hookLive, local, history, deaths>>

\* The loop ends when told to stop, or when it has no agent left; either waits
\* for the wake in flight. An `a8s start` loop forgot the agent it lost: its
\* `names` is the same list as `acquired`. An `a8s run` loop did not.
LeaveLoop(p) ==
  /\ ~wake[p]
  /\ \/ pc[p] = "top" /\ stopping[p] /\ Go(p, "fin")
     \/ pc[p] = "out" /\ Go(p, IF RoleOf[p] = "run" THEN "fin" ELSE "over")
  /\ UNCHANGED <<files, hookLive, local, history, deaths>>

Finish(p) ==
  /\ pc[p] = "fin" /\ Reap
  /\ IF Holder \in {None, PidOf[p]}
       THEN /\ Go(p, "relPid") /\ final' = [final EXCEPT ![p] = TRUE]
            /\ ended' = [ended EXCEPT ![p] = IF @ = "none" THEN "stopped" ELSE @]
       ELSE Go(p, "over") /\ UNCHANGED <<final, ended>>
  /\ UNCHANGED <<detach, kill, mark, markOf, hookLive, asked, wake, stopping,
                 target, held, aim, hooks, torn, astray, deaths>>

\* Mutant: the pid file is unlinked whoever it names.
ReleasePidBlind(p) ==
  /\ pc[p] = "relPid" /\ Go(p, "relReq") /\ pidFile' = None /\ stamp' = None
  /\ UNCHANGED <<detach, kill, mark, markOf, hookLive, local, history, deaths>>

\* release(): unlink the pid file if it is ours, then the detach request,
\* whoever wrote it.
ReleasePid(p) ==
  /\ pc[p] = "relPid" /\ Go(p, "relReq")
  /\ IF pidFile = PidOf[p]
       THEN pidFile' = None /\ stamp' = None
       ELSE UNCHANGED <<pidFile, stamp>>
  /\ UNCHANGED <<detach, kill, mark, markOf, hookLive, local, history, deaths>>

ReleaseRequest(p) ==
  /\ pc[p] = "relReq" /\ detach' = None
  /\ Go(p, IF final[p] \/ ended[p] = "killed" THEN "hook" ELSE "out")
  /\ UNCHANGED <<pidFile, stamp, kill, mark, markOf, hookLive, local, history,
                 deaths>>

(***************************************************************************)
(* run_stop_hook, by a handler for itself or by a command for its target.  *)
(***************************************************************************)
HookFor(p) == IF RoleOf[p] \in Commands THEN aim[p] ELSE p

\* Commands that take the mark of p's hook for their target's.
Misled(p) == {c \in Proc : RoleOf[c] \in Commands /\ aim[c] # HookFor(p)}

HookSpawn(p) ==
  /\ pc[p] = "hook" /\ Go(p, "hookMark")
  /\ hookLive' = hookLive \cup {p}
  /\ hooks' = [hooks EXCEPT ![HookFor(p)] = IF @ = 2 THEN 2 ELSE @ + 1]
  /\ UNCHANGED <<files, local, ended, aim, torn, astray, deaths>>

HookMark(p) ==
  /\ pc[p] = "hookMark" /\ Go(p, "hookWait")
  /\ mark' = "running" /\ markOf' = p /\ astray' = astray \cup Misled(p)
  /\ UNCHANGED <<pidFile, stamp, detach, kill, hookLive, local, ended, aim, hooks, torn, deaths>>

\* The hook is a process of its own: it outlives the one that started it.
HookEnds(p) ==
  /\ p \in hookLive /\ hookLive' = hookLive \ {p}
  /\ UNCHANGED <<files, pc, local, history, deaths>>

HookDone(p) ==
  /\ pc[p] = "hookWait" /\ p \notin hookLive
  /\ mark' = "done" /\ markOf' = None /\ astray' = astray \cup Misled(p)
  /\ Go(p, IF RoleOf[p] \in Commands THEN "clean"
           ELSE IF final[p] THEN "over" ELSE "clearKill")
  /\ UNCHANGED <<pidFile, stamp, detach, kill, hookLive, local, ended, aim, hooks, torn, deaths>>

ClearKill(p) ==
  /\ pc[p] = "clearKill" /\ kill' = None /\ Go(p, "out")
  /\ UNCHANGED <<pidFile, stamp, detach, mark, markOf, hookLive, local, history,
                 deaths>>

(***************************************************************************)
(* Signals and deaths.                                                     *)
(***************************************************************************)
InstalledHandler(q) ==
  RoleOf[q] \in Handlers /\ pc[q] \notin ClaimSteps \cup EarlySteps

\* `start` holds SIGTERM pending until its signal handlers are installed.
TakesSigterm(q) == InstalledHandler(q) \/ RoleOf[q] = "start"
Receivers(c) == {q \in Proc : Alive(q) /\ PidOf[q] = target[c]}

Interrupt(p) ==
  /\ p \in Interrupted /\ InstalledHandler(p) /\ Alive(p) /\ ~stopping[p]
  /\ stopping' = [stopping EXCEPT ![p] = TRUE]
  /\ UNCHANGED <<files, hookLive, pc, asked, wake, final, target, held, history, deaths>>

\* What a process that dies inside the pid lock leaves of its file steps.
TornClaim(p) ==
  \/ UNCHANGED <<pidFile, stamp>>
  \/ /\ pc[p] = "claim" /\ pidFile = None
     /\ \/ pidFile' \in {Partial, PidOf[p]} /\ UNCHANGED stamp
        \/ pidFile' = PidOf[p] /\ stamp' = None
  \/ pc[p] = "relPid" /\ pidFile = PidOf[p] /\ pidFile' = None /\ UNCHANGED stamp

Die(p) ==
  /\ deaths < MaxDeaths /\ Alive(p)
  /\ deaths' = deaths + 1 /\ Go(p, "over") /\ TornClaim(p)
  /\ torn' = (torn \/ pc[p] = "hookMark")
  /\ UNCHANGED <<detach, kill, mark, markOf, hookLive, local, ended, aim, hooks, astray>>

(***************************************************************************)
(* `a8s kill`, `a8s stop` and `a8s stop --force` on POSIX.                 *)
(***************************************************************************)
\* The incarnation behind the pid just read (Holder is alive).
Behind(c) ==
  \E q \in Proc : Alive(q) /\ PidOf[q] = Holder /\ aim' = [aim EXCEPT ![c] = q]

\* What `a8s stop` will signal; `a8s kill` reads the handler here only.
ReadTarget(c) ==
  /\ pc[c] = "read" /\ Reap
  /\ IF Holder = None
       THEN Go(c, "over") /\ UNCHANGED <<target, held, aim>>
       ELSE /\ Go(c, IF RoleOf[c] = "kill" THEN "clearMark" ELSE "reread")
            /\ target' = [target EXCEPT ![c] = Holder]
            /\ held' = [held EXCEPT ![c] = Holder] /\ Behind(c)
  /\ UNCHANGED <<detach, kill, mark, markOf, hookLive, asked, wake, stopping,
                 final, ended, hooks, torn, astray, deaths>>

\* `held`: a stop reads the handler again, and asks after the hook of the one it
\* finds now, if any.
Reread(c) ==
  /\ pc[c] = "reread" /\ Reap /\ Go(c, "clearMark")
  /\ held' = [held EXCEPT ![c] = Holder]
  /\ IF Holder = None THEN UNCHANGED aim ELSE Behind(c)
  /\ UNCHANGED <<detach, kill, mark, markOf, hookLive, asked, wake, stopping,
                 final, target, ended, hooks, torn, astray, deaths>>

ClearMark(c) ==
  /\ \/ pc[c] = "clearMark" /\ Go(c, IF RoleOf[c] = "kill" THEN "write" ELSE "term")
     \/ pc[c] = "escalate" /\ Go(c, "term")
  /\ mark' = "none" /\ markOf' = None /\ torn' = (torn \/ mark # "none")
  /\ astray' = astray \ {c}
  /\ UNCHANGED <<pidFile, stamp, detach, kill, hookLive, local, ended, aim, hooks, deaths>>

WriteKill(c) ==
  /\ pc[c] = "write" /\ kill' = PidOf[c] /\ Go(c, "nudge")
  /\ UNCHANGED <<pidFile, stamp, detach, mark, markOf, hookLive, local, history,
                 deaths>>

\* SIGUSR1: an installed handler kills the wake, any other process just dies.
Nudge(c) ==
  /\ pc[c] = "nudge"
  /\ IF Receivers(c) = {}
       THEN kill' = None /\ Go(c, "over") /\ UNCHANGED wake
       ELSE \E q \in Receivers(c) :
              /\ UNCHANGED kill
              /\ IF InstalledHandler(q)
                   THEN /\ Go(c, "waitFile")
                        /\ wake' = [wake EXCEPT ![q] = @ /\ ~Foreign(kill, q)]
                   ELSE /\ pc' = [pc EXCEPT ![c] = "waitFile", ![q] = "over"]
                        /\ UNCHANGED wake
  /\ UNCHANGED <<pidFile, stamp, detach, mark, markOf, hookLive, asked, stopping,
                 final, target, held, history, deaths>>

\* Polls for the pid file to be gone, whoever it names; then escalates.
WaitFile(c) ==
  /\ pc[c] = "waitFile"
  /\ \/ pidFile = None /\ Go(c, "waitMark")
     \/ pidFile # None /\ Go(c, "escalate")
  /\ UNCHANGED <<files, hookLive, local, history, deaths>>

\* SIGTERM, and a second one for --force, which kills the wake.
Term(c) ==
  /\ pc[c] = "term"
  /\ IF Receivers(c) = {}
       THEN Go(c, "waitStop") /\ UNCHANGED <<stopping, wake>>
       ELSE \E q \in Receivers(c) :
              IF TakesSigterm(q)
                THEN /\ Go(c, "waitStop")
                     /\ stopping' = [stopping EXCEPT ![q] = TRUE]
                     /\ wake' = [wake EXCEPT ![q] = @ /\ RoleOf[c] # "force"]
                ELSE /\ pc' = [pc EXCEPT ![c] = "waitStop", ![q] = "over"]
                     /\ UNCHANGED <<stopping, wake>>
  /\ UNCHANGED <<files, hookLive, asked, final, target, held, history, deaths>>

\* Waits for the process to be gone; only --force acts on a timeout.
WaitStop(c) ==
  /\ pc[c] = "waitStop"
  /\ \/ ~Live(target[c]) /\ Go(c, "owed")
     \/ Live(target[c]) /\ Go(c, IF RoleOf[c] = "force" THEN "outright" ELSE "owed")
  /\ UNCHANGED <<files, hookLive, local, history, deaths>>

\* _kill_outright: SIGKILL to the handler and its wake, not to its stop hook.
Outright(c) ==
  /\ pc[c] = "outright"
  /\ pc' = [p \in Proc |-> IF p = c THEN "clearFiles"
                           ELSE IF p \in Receivers(c) THEN "over" ELSE pc[p]]
  /\ wake' = [p \in Proc |-> wake[p] /\ p \notin Receivers(c)]
  /\ torn' = (torn \/ \E p \in Receivers(c) : pc[p] = "hookMark")
  /\ UNCHANGED <<files, hookLive, asked, stopping, final, target, held, ended, aim,
                 hooks, astray, deaths>>

ClearFiles(c) ==
  /\ pc[c] = "clearFiles" /\ Reap
  /\ Go(c, IF Holder = None THEN "clearReqs" ELSE "owed")
  /\ UNCHANGED <<detach, kill, mark, markOf, hookLive, local, history, deaths>>

ClearRequests(c) ==
  /\ pc[c] = "clearReqs" /\ kill' = None /\ detach' = None /\ Go(c, "owed")
  /\ UNCHANGED <<pidFile, stamp, mark, markOf, hookLive, local, history, deaths>>

WaitMark(c) ==
  /\ pc[c] = "waitMark" /\ (mark = "done" \/ ~Live(target[c])) /\ Go(c, "owed")
  /\ UNCHANGED <<files, hookLive, local, history, deaths>>

\* The handler whose hook c asks after is gone; with none, c asks nothing.
Gone(c) == held[c] # None /\ ~Live(held[c])

\* Mutants: a hook the handler finished is run again; an absent mark is trusted.
OwedAgain(c) ==
  /\ pc[c] = "owed" /\ Reap
  /\ Go(c, IF ~Gone(c) THEN "clean"
           ELSE IF mark = "running" THEN "waitHook"
           ELSE IF Holder = None THEN "hook" ELSE "clean")
  /\ UNCHANGED <<detach, kill, mark, markOf, hookLive, local, history, deaths>>

OwedNever(c) ==
  /\ pc[c] = "owed" /\ Reap
  /\ Go(c, IF Gone(c) /\ mark = "running" THEN "waitHook" ELSE "clean")
  /\ UNCHANGED <<detach, kill, mark, markOf, hookLive, local, history, deaths>>

\* run_stop_hook_if_owed.
Owed(c) ==
  /\ pc[c] = "owed"
  /\ \/ ~Gone(c) /\ Go(c, "clean") /\ UNCHANGED <<pidFile, stamp>>
     \/ /\ Gone(c) /\ mark = "running" /\ Go(c, "waitHook")
        /\ UNCHANGED <<pidFile, stamp>>
     \/ /\ Gone(c) /\ mark = "none" /\ Reap
        /\ Go(c, IF Holder = None THEN "hook" ELSE "clean")
     \/ /\ Gone(c) /\ mark = "done" /\ Go(c, "clean")
        /\ UNCHANGED <<pidFile, stamp>>
  /\ UNCHANGED <<detach, kill, mark, markOf, hookLive, local, history, deaths>>

WaitHook(c) ==
  /\ pc[c] = "waitHook" /\ (mark # "running" \/ markOf \notin hookLive)
  /\ Go(c, "clean")
  /\ UNCHANGED <<files, hookLive, local, history, deaths>>

Clean(c) ==
  /\ pc[c] = "clean" /\ Go(c, "over")
  /\ kill' = IF RoleOf[c] = "kill" THEN None ELSE kill
  /\ UNCHANGED <<pidFile, stamp, detach, mark, markOf, hookLive, local, history,
                 deaths>>

Acquire(p) ==
  \/ Claim(p) \/ CheckOwn(p) \/ ClearOwn(p) \/ Poll(p) \/ Ask(p) \/ GiveUp(p)
  \/ Install(p)
Loop(p) ==
  \/ ReapRequest(p) \/ UnlinkRequest(p) \/ TakeKill(p) \/ TakeDetach(p)
  \/ LeaveLoop(p) \/ Finish(p) \/ ReleasePid(p) \/ ReleaseRequest(p)
RunHook(p) ==
  HookSpawn(p) \/ HookMark(p) \/ HookDone(p) \/ ClearKill(p)
Command(c) ==
  \/ ReadTarget(c) \/ Reread(c) \/ ClearMark(c) \/ WriteKill(c) \/ Nudge(c)
  \/ WaitFile(c) \/ Term(c) \/ WaitStop(c) \/ Outright(c) \/ ClearFiles(c) \/ ClearRequests(c)
  \/ WaitMark(c) \/ Owed(c) \/ WaitHook(c) \/ Clean(c)

Next ==
  \E p \in Proc :
    \/ Start(p) \/ Acquire(p) \/ Loop(p) \/ Pass(p) \/ WakeEnds(p)
    \/ RunHook(p) \/ HookEnds(p) \/ Command(p) \/ Interrupt(p) \/ Die(p)

Spec == Init /\ [][Next]_vars

\* Every process keeps running, and a stop hook ends or is killed at its
\* timeout. Nothing is assumed of wakes, of who starts and of who dies.
FairSpec ==
  /\ Spec
  /\ \A p \in Proc : WF_vars(Acquire(p) \/ Loop(p) \/ RunHook(p)) /\ WF_vars(HookEnds(p))

\* As above, and each wake ends: a definition's max_wake_seconds kills it.
WakeFairSpec == FairSpec /\ \A p \in Proc : WF_vars(WakeEnds(p))

(***************************************************************************)
(* Properties.                                                             *)
(***************************************************************************)
TypeOK ==
  /\ pidFile \in Pid \cup {None, Partial} /\ stamp \in Proc \cup {None}
  /\ detach \in Pid \cup {None} /\ kill \in Pid \cup {None}
  /\ mark \in {"none", "running", "done"} /\ markOf \in Proc \cup {None}
  /\ hookLive \subseteq Proc /\ pc \in [Proc -> Steps]
  /\ asked \in [Proc -> BOOLEAN] /\ wake \in [Proc -> BOOLEAN]
  /\ stopping \in [Proc -> BOOLEAN] /\ final \in [Proc -> BOOLEAN]
  /\ target \in [Proc -> Pid \cup {None}] /\ held \in [Proc -> Pid \cup {None}]
  /\ ended \in [Proc -> Ends]
  /\ aim \in [Proc -> Proc \cup {None}] /\ hooks \in [Proc -> 0 .. 2]
  /\ torn \in BOOLEAN /\ astray \subseteq Proc /\ deaths \in 0 .. MaxDeaths

\* "One agent is handled by exactly one process at a time" (docs/a8s.md:64):
\* no two live processes route and wake the same agent.
OneHandler == \A p, q \in Proc : Serves(p) /\ Serves(q) => p = q

\* A live handler's claim stays on disk: nobody who reads the pid file, with
\* whatever stale pid or token, reaps or overwrites it (pid_lock, daemon.py).
ClaimOnDisk ==
  \A p \in Proc : Serves(p) => pidFile = PidOf[p] /\ stamp \in {p, None}

\* "Every stop of a node runs its stop.invoke once" (docs/a8s-development.md):
\* never twice for one attachment, but for a death between starting the hook and
\* naming it in the mark, a stop that clears the mark of a hook, and a `run` that
\* was killed by request: its final loop releases and hooks the agent again.
KilledRun(p) == RoleOf[p] = "run" /\ ended[p] = "killed"
HookOnce == torn \/ \A p \in Proc : hooks[p] <= 1 \/ KilledRun(p)

\* A command is done with its target's hook: it asked after it, waited for it, or
\* found no process to nudge and left.
Concludes(c) ==
  (Owed(c) \/ WaitHook(c) \/ Nudge(c)) /\ pc'[c] \in {"clean", "over"}

\* The two windows in which the code asks after no hook: `a8s kill` returns when its
\* SIGUSR1 finds no process (commands.py:2710), and a stop whose handler died
\* between its two reads holds None (commands.py:2332).
Unasked(c) == pc[c] = "nudge" \/ held[c] = None

\* "Run the hook the stopped `handler` did not" (daemon.py:1692): a command that
\* concludes with the handler gone and the node free leaves the hook out only if one
\* was run for that very handler, or in the windows of Unasked. Nobody compares the
\* pid in the mark, so another handler's hook that ends meanwhile misleads it.
HookNotSkipped ==
  [][\A c \in Proc :
       Concludes(c) /\ ~Live(held[c]) /\ Holder = None =>
         hooks[aim[c]] >= 1 \/ c \in astray \/ Unasked(c)]_vars

\* A lone requester gets the agent, whether the holder serves on, crashed, or
\* its pid went to another process (docs/a8s.md, per-agent take-over): unless
\* the holder died before it stamped its claim and its pid was recycled.
Masked ==
  \E q \in Proc : RoleOf[q] = "alien" /\ Alive(q) /\ pidFile = PidOf[q] /\ stamp = None
HandOff ==
  \A p \in Proc : (asked[p] /\ Alive(p)) ~> (Serves(p) \/ ~Alive(p) \/ Masked)

\* A stop that reaches a handler ends it and frees the node.
StopEnds ==
  \A p \in Proc : (stopping[p] /\ Alive(p)) ~> (~Alive(p) /\ ~Serves(p))
=============================================================================
