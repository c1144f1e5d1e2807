---------------------------- MODULE NightlyUpdate ----------------------------
(***************************************************************************)
(* The nightly auto-update of an install (apps/ar3/autoupdate.py).  A tick *)
(* of a scheduler records what it is about to do, runs the installer,      *)
(* restarts the seats onto the new tree and checks them; a release that    *)
(* fails is taken back.  A tick may die at any step, and the next one goes *)
(* on from the record and from the tree it finds on disk.  Meanwhile seats *)
(* turn busy, releases come out, and a person updates or edits the install *)
(* with or without the lock of the ticks.                                  *)
(***************************************************************************)
EXTENDS Naturals

CONSTANTS
  Newest,    \* releases are numbered 1..Newest
  Broken,    \* the ones that do not pass the health check
  Seat,
  Kinds,     \* "git": a clone; "unpack": a release unpack with a copy at <root>.prev
  Own,       \* a tree a person made, which no release has
  Torn,      \* a clone in the middle of a checkout
  Aside,     \* no tree: the unpack is moved to <root>.prev and nothing is in its place
  Down,      \* the code of a seat that does not run
  MaxEvents  \* bound: deaths, failures and what a person does

Release == 1..Newest
ASSUME UpdateAssumption ==
  /\ Newest \in Nat \ {0} /\ Broken \subseteq Release \ {1} /\ MaxEvents \in Nat
  /\ Kinds \subseteq {"git", "unpack"}
  /\ Aside \notin {Own, Torn, Down} /\ Own \notin {Torn, Down} /\ Torn # Down
  /\ {Own, Torn, Aside, Down} \cap Release = {}

VARIABLES
  kind,
  tree,      \* what is at the root of the install
  prev,      \* the release at <root>.prev, or 0
  latest,    \* the newest public release
  code,      \* the code a seat runs
  busy,      \* the seats in the middle of a turn
  pending,   \* the record: what an unfinished update is at
  bad,       \* bad_release
  lock,      \* the lock of the ticks: "free", "tick" or "hand"
  pc,        \* the step of the tick
  hand,      \* the step of a person's `ar3 update`
  ran,       \* what the tick's `a8s update` came to: was it well, was a seat left
  inst, tag, \* the installer of a tick, which outlives the tick, and what it was told
  events,    \* bound
  maker,     \* who made the tree at the root  (history)
  outlived,  \* an `ar3 update` pulled beside an installer whose tick had died  (history)
  undone,    \* an installer put an older release over what `ar3 update` made  (history)
  rejected,  \* releases that failed their check  (history)
  strayed    \* a record was dropped on a tree auto-update did not make, or under an
             \* installer that still ran, or a seat started on a tree not yet checked,
             \* or a person changed the install  (history)

disk == <<kind, tree, prev, latest>>
seats == <<code, busy>>
overrun == <<outlived, undone>>
history == <<maker, overrun, rejected, strayed>>
vars == <<kind, tree, prev, latest, code, busy, pending, bad, lock, pc, hand, ran, inst, tag,
          events, maker, outlived, undone, rejected, strayed>>

NoRecord == [stage |-> "none", previous |-> 0, target |-> 0, seats |-> {}]
Running == {s \in Seat : code[s] # Down}
AtWork == inst \in {"begun", "half"}

Init ==
  /\ kind \in Kinds /\ tree = 1 /\ prev = 0 /\ latest \in {1, 2} \cap Release
  /\ code = [s \in Seat |-> 1] /\ busy = {} /\ pending = NoRecord /\ bad = 0
  /\ lock = "free" /\ pc = "off" /\ hand = "off" /\ ran = [well |-> TRUE, left |-> FALSE]
  /\ inst = "none" /\ tag = 0 /\ events = 0 /\ maker = "tick" /\ outlived = FALSE /\ undone = FALSE
  /\ rejected = {} /\ strayed = FALSE

Event == events < MaxEvents /\ events' = events + 1
Calm == UNCHANGED events
Go(step) == pc' = step /\ UNCHANGED lock
End == pc' = "off" /\ lock' = "free"

\* _where, of the record: `half` is an unpack moved aside with nothing in its place.
Where ==
  CASE tree = pending.previous -> "previous"
    [] tree = pending.target -> "target"
    [] tree = Aside /\ prev = pending.previous /\ kind = "unpack" -> "half"
    [] OTHER -> "none"
\* _source_is: what a restore would bring back.
SourceIs == kind = "git" \/ prev = pending.previous

Dropped == pending' = NoRecord /\ strayed' = (strayed \/ AtWork)
DroppedForeign == pending' = NoRecord /\ strayed' = TRUE
Kept == UNCHANGED <<pending, strayed>>

(***************************************************************************)
(* A tick begins: what an earlier one left comes first (run, _recover).    *)
(***************************************************************************)
Tick ==
  /\ pc = "off" /\ lock = "free" /\ lock' = "tick"
  /\ pc' = IF pending = NoRecord THEN "check" ELSE "recover"
  /\ UNCHANGED <<disk, seats, pending, bad, hand, ran, inst, tag, events, history>>

\* The record names a tree that is not there: it ends, and nothing changes.
NotOurs == Where = "none" \/ (pending.stage = "restart" /\ Where # "target")
Nothing == pending.stage = "install" /\ Where = "previous"
Resume ==
  CASE pending.stage = "restart" -> "restart"
    [] pending.stage = "rollback" /\ Where = "previous" -> "again"
    [] OTHER -> "restore"

\* _busy: every seat must be idle; a seat that cannot be asked is not.
Recover ==
  /\ pc = "recover"
  /\ \/ NotOurs /\ DroppedForeign /\ End /\ Calm
     \/ ~NotOurs /\ Nothing /\ Dropped /\ Go("check") /\ Calm
     \/ ~NotOurs /\ ~Nothing /\ Kept /\ busy = {} /\ Go(Resume) /\ Calm
     \/ ~NotOurs /\ ~Nothing /\ Kept /\ End /\ IF busy = {} THEN Event ELSE Calm
  /\ UNCHANGED <<disk, seats, bad, hand, ran, inst, tag, maker, overrun, rejected>>

(***************************************************************************)
(* An update (_attempt).                                                   *)
(***************************************************************************)
\* Mutant: a release that failed here is tried again.
NewerAny == tree \in Release /\ tree < latest
Newer == tree \in Release /\ tree < latest /\ latest # bad
\* The record is saved before the installer runs.
Check ==
  /\ pc = "check" /\ Newer /\ busy = {} /\ Go("install")
  /\ pending' = [stage |-> "install", previous |-> tree, target |-> latest, seats |-> Running]
  /\ UNCHANGED <<disk, seats, bad, hand, ran, inst, tag, events, history>>
\* Nothing newer, a busy seat, a tree that is not clean, no network ...
Skip ==
  /\ pc = "check" /\ End
  /\ UNCHANGED <<disk, seats, pending, bad, hand, ran, inst, tag, events, history>>

\* _guard, then get.sh in a session of its own.
Install ==
  /\ pc = "install"
  /\ IF Where # "previous"
       THEN DroppedForeign /\ End /\ UNCHANGED <<inst, tag>>
       ELSE Kept /\ IF AtWork THEN Go("failed") /\ UNCHANGED <<inst, tag>>
                              ELSE Go("installing") /\ inst' = "begun" /\ tag' = pending.target
  /\ UNCHANGED <<disk, seats, bad, hand, ran, events, maker, overrun, rejected>>

Answer(word) == inst' = IF pc = "installing" THEN word ELSE "none"
\* A clone pulls what is newest by now, an unpack the tag it was told.
Goal == IF kind = "git" THEN latest ELSE tag
\* A checkout goes file by file; an unpack moves aside before the new one moves in.
InstallerHalf ==
  /\ inst = "begun" /\ tree \in Release /\ tree # Goal /\ inst' = "half" /\ maker' = "tick"
  /\ undone' = (undone \/ (maker = "update" /\ Goal < tree))
  /\ tree' = (IF kind = "git" THEN Torn ELSE Aside)
  /\ prev' = (IF kind = "git" THEN prev ELSE tree)
  /\ UNCHANGED <<kind, latest, seats, pending, bad, lock, pc, hand, ran, tag, events, outlived, rejected, strayed>>
InstallerEnd(word) ==
  /\ inst = "half" /\ tree \in {Torn, Aside} /\ Answer(word)
  /\ tree' = Goal /\ IF word = "ok" THEN Calm ELSE Event
  /\ UNCHANGED <<kind, prev, latest, seats, pending, bad, lock, pc, hand, ran, tag, history>>
\* The tree is that one already.
InstallerIdle ==
  /\ inst = "begun" /\ tree = Goal /\ Answer("ok")
  /\ UNCHANGED <<disk, seats, pending, bad, lock, pc, hand, ran, tag, events, history>>
InstallerFails ==
  /\ inst = "begun" /\ Answer("failed") /\ IF tree \in Release THEN Event ELSE Calm
  /\ UNCHANGED <<disk, seats, pending, bad, lock, pc, hand, ran, tag, history>>
\* Somebody has put a tree where the installer would put its own.
InstallerLate ==
  /\ inst = "half" /\ tree \notin {Torn, Aside} /\ Answer("failed")
  /\ UNCHANGED <<disk, seats, pending, bad, lock, pc, hand, ran, tag, events, history>>

\* PULL_TIMEOUT_S: the installer and all it started are killed.
TimesOut ==
  /\ pc = "installing" /\ AtWork /\ Event /\ inst' = "none" /\ Go("failed")
  /\ UNCHANGED <<disk, seats, pending, bad, hand, ran, tag, history>>
Installed ==
  /\ pc = "installing" /\ inst \in {"ok", "failed"} /\ inst' = "none"
  /\ Go(IF inst = "ok" THEN "installed" ELSE "failed")
  /\ UNCHANGED <<disk, seats, pending, bad, hand, ran, tag, events, history>>

\* It failed: a tree it did change is put back, when the seats are idle.
Failed ==
  /\ pc = "failed" /\ Calm
  /\ \/ Where = "previous" /\ Dropped /\ End
     \/ Where = "none" /\ DroppedForeign /\ End
     \/ Where \in {"target", "half"} /\ Kept /\ IF busy = {} THEN Go("restore") ELSE End
  /\ UNCHANGED <<disk, seats, bad, hand, ran, inst, tag, maker, overrun, rejected>>
\* It ended well.
Landed ==
  /\ pc = "installed"
  /\ IF Where = "target"
       THEN pending' = [pending EXCEPT !.stage = "restart"] /\ Go("restart") /\ UNCHANGED strayed
       ELSE Go("failed") /\ Kept
  /\ UNCHANGED <<disk, seats, bad, hand, ran, inst, tag, events, maker, overrun, rejected>>

(***************************************************************************)
(* The restart and the check (_restart, health).                           *)
(***************************************************************************)
\* `a8s update --wait 0`: a running seat that is idle starts on the tree, a busy one is
\* left.  A seat may not come up on a broken release.
Update(well, on) ==
  LET idle == Running \ busy
  IN /\ \E done \in SUBSET idle :
          /\ well => done = idle
          /\ \E up \in SUBSET done :
               /\ tree \notin Broken => up = done
               /\ code' = [s \in Seat |-> CASE s \in up -> on [] s \in done \ up -> Down
                                            [] OTHER -> code[s]]
     /\ ran' = [well |-> well, left |-> busy # {}]
     /\ IF well THEN Calm ELSE Event
     /\ UNCHANGED busy

\* Mutant: the seats that are left do not count.
CompleteUnlessFailed == ran.well
Complete == ran.well /\ ~ran.left

Restart(well) ==
  /\ pc = "restart"
  /\ IF Where = "target" THEN Update(well, tree) /\ Go("health") /\ Kept
                         ELSE DroppedForeign /\ End /\ UNCHANGED <<seats, ran, tag, events>>
  /\ UNCHANGED <<disk, bad, hand, inst, tag, maker, overrun, rejected>>

\* Each command must answer with the version: a tree edited since may still have it.
Healthy == tree \in {pending.target, Own} /\ tree \notin Broken /\ pending.seats \subseteq Running
\* A seat still busy or a failed restart keeps the record for a later tick.
Health ==
  /\ pc = "health" /\ Healthy /\ End
  /\ IF Complete THEN Dropped ELSE Kept
  /\ UNCHANGED <<disk, seats, bad, hand, ran, inst, tag, events, maker, overrun, rejected>>
\* _roll_back: what failed and that it goes back is saved in one write.
Unhealthy ==
  /\ pc = "health" /\ (~Healthy \/ tree = Own) /\ bad' = pending.target /\ rejected' = rejected \cup {pending.target}
  /\ pending' = [pending EXCEPT !.stage = "rollback"]
  /\ IF busy # {} THEN End ELSE Go(IF Where = "previous" THEN "again" ELSE "restore")
  /\ UNCHANGED <<disk, seats, hand, ran, inst, tag, events, maker, overrun, strayed>>

(***************************************************************************)
(* The tree goes back (_put_back, _finish_rollback).                       *)
(***************************************************************************)
Restore ==
  /\ pc = "restore"
  /\ \/ Where \notin {"target", "half"} /\ DroppedForeign /\ End
     \/ Where \in {"target", "half"} /\ ~SourceIs /\ Kept /\ End
     \/ Where \in {"target", "half"} /\ SourceIs /\ Kept /\ Go("restoring")
  /\ UNCHANGED <<disk, seats, bad, hand, ran, inst, tag, events, maker, overrun, rejected>>

\* A person may have changed the tree since _guard looked.
Reset ==
  /\ pc = "restoring" /\ kind = "git" /\ tree' = pending.previous /\ maker' = "tick" /\ Go("restored")
  /\ UNCHANGED <<kind, prev, latest, seats, pending, bad, hand, ran, inst, tag, events, overrun, rejected, strayed>>

\* _swap_back: the failed unpack moves aside, then <root>.prev moves in.
\* Mutant: .prev is gone before it is in place.
SwapBackCopying == tree' = Aside /\ prev' = 0
SwapBack == tree' = Aside /\ prev' = prev
MoveAside ==
  /\ pc = "restoring" /\ kind = "unpack" /\ tree # Aside /\ SwapBack /\ maker' = "tick"
  /\ UNCHANGED <<kind, latest, seats, pending, bad, lock, pc, hand, ran, inst, tag, events, overrun, rejected, strayed>>
\* Whatever release is there by now.
MoveIn ==
  /\ pc = "restoring" /\ kind = "unpack" /\ tree = Aside /\ prev # 0
  /\ tree' = prev /\ prev' = 0 /\ Go("restored")
  /\ UNCHANGED <<kind, latest, seats, pending, bad, hand, ran, inst, tag, events, history>>
RestoreFails ==
  /\ pc = "restoring" /\ tree # Aside /\ Event /\ End
  /\ UNCHANGED <<disk, seats, pending, bad, hand, ran, inst, tag, history>>

\* An install that failed is undone: no seat has left the old code.
Restored ==
  /\ pc = "restored"
  /\ \/ tree # pending.previous /\ Kept /\ End
     \/ tree = pending.previous /\ pending.stage = "install" /\ Dropped /\ End
     \/ tree = pending.previous /\ pending.stage # "install" /\ Kept /\ Go("again")
  /\ UNCHANGED <<disk, seats, bad, hand, ran, inst, tag, events, maker, overrun, rejected>>

\* The seats restart onto the tree that is back.
Again(well) ==
  /\ pc = "again"
  /\ IF Where = "previous" THEN Update(well, tree) /\ Go("back") /\ Kept
                           ELSE DroppedForeign /\ End /\ UNCHANGED <<seats, ran, tag, events>>
  /\ UNCHANGED <<disk, bad, hand, inst, tag, maker, overrun, rejected>>

\* Mutant: a rollback is done when every seat runs again.
RolledBackWhole == ran.well /\ ~ran.left /\ pending.seats \subseteq Running
\* The check that follows only names the outcome.
RolledBack == Complete
Back ==
  /\ pc = "back" /\ End /\ IF RolledBack THEN Dropped ELSE Kept
  /\ UNCHANGED <<disk, seats, bad, hand, ran, inst, tag, events, maker, overrun, rejected>>

(***************************************************************************)
(* A person: `ar3 update` holds the lock (manual_update), get.sh by hand   *)
(* and an editor do not.                                                   *)
(***************************************************************************)
HandTake ==
  /\ hand = "off" /\ lock = "free" /\ Event /\ lock' = "hand" /\ hand' = "begun"
  /\ UNCHANGED <<disk, seats, pending, bad, pc, ran, inst, tag, history>>
\* Mutant: the record ends when the person's update has.
HandLast == [begun |-> "pull", end |-> "done", pull |-> "restart", restart |-> "end"]
\* end_pending comes before the update.
HandOrder == [begun |-> "end", end |-> "pull", pull |-> "restart", restart |-> "done"]
HandBegins ==
  /\ hand = "begun" /\ hand' = HandOrder.begun
  /\ UNCHANGED <<disk, seats, pending, bad, lock, pc, ran, inst, tag, events, history>>
HandEnds ==
  /\ hand = "end" /\ hand' = HandOrder.end /\ pending' = NoRecord
  /\ strayed' = (strayed \/ pending # NoRecord)
  /\ UNCHANGED <<disk, seats, bad, lock, pc, ran, inst, tag, events, maker, overrun, rejected>>
Pulls(who) ==
  /\ tree \in Release /\ inst # "half" /\ maker' = who /\ strayed' = TRUE
  /\ tree' = latest /\ prev' = IF kind = "unpack" /\ tree # latest THEN tree ELSE prev
\* Only a tree that is another one is restarted onto (_restart_nodes_if_needed).
HandPulls ==
  /\ hand = "pull" /\ hand' = (IF tree = latest THEN HandOrder.restart ELSE HandOrder.pull)
  /\ Pulls("update") /\ outlived' = (outlived \/ AtWork)
  /\ UNCHANGED <<kind, latest, seats, pending, bad, lock, pc, ran, inst, tag, events, undone, rejected>>
HandRestarts ==
  /\ hand = "restart" /\ hand' = HandOrder.restart
  /\ code' = [s \in Seat |-> IF s \in Running \ busy /\ tree \notin {Torn, Aside} THEN tree ELSE code[s]]
  /\ UNCHANGED <<disk, busy, pending, bad, lock, pc, ran, inst, tag, events, history>>
\* It is over, or it died or could not pull.
HandDone ==
  /\ hand # "off" /\ IF hand = "done" THEN Calm ELSE Event
  /\ hand' = "off" /\ lock' = "free"
  /\ UNCHANGED <<disk, seats, pending, bad, pc, ran, inst, tag, history>>

\* get.sh by hand: the record ends if no tick runs (handoff); it may be stopped before it
\* has restarted every seat.
GetSh ==
  /\ lock # "hand" /\ Event /\ Pulls("get.sh")
  /\ pending' = IF lock = "free" THEN NoRecord ELSE pending
  /\ \E up \in SUBSET (Running \ busy) :
       /\ tree = latest => up = {}
       /\ code' = [s \in Seat |-> IF s \in up THEN latest ELSE code[s]]
  /\ UNCHANGED <<kind, latest, busy, bad, lock, pc, hand, ran, inst, tag, overrun, rejected>>
Edit ==
  /\ tree \in Release /\ inst # "half" /\ Event /\ tree' = Own /\ maker' = "edit" /\ strayed' = TRUE
  /\ UNCHANGED <<kind, prev, latest, seats, pending, bad, lock, pc, hand, ran, inst, tag, overrun, rejected>>

(***************************************************************************)
(* The rest of the machine.                                                *)
(***************************************************************************)
Die ==
  /\ pc # "off" /\ Event /\ End /\ inst' = IF AtWork THEN inst ELSE "none"
  /\ UNCHANGED <<disk, seats, pending, bad, hand, ran, tag, history>>
Publish ==
  /\ latest < Newest /\ latest' = latest + 1
  /\ UNCHANGED <<kind, tree, prev, seats, pending, bad, lock, pc, hand, ran, inst, tag, events, history>>
TurnBegins(s) ==
  /\ s \in Running \ busy /\ Event /\ busy' = busy \cup {s}
  /\ UNCHANGED <<disk, code, pending, bad, lock, pc, hand, ran, inst, tag, history>>
TurnEnds(s) ==
  /\ s \in busy /\ busy' = busy \ {s}
  /\ UNCHANGED <<disk, code, pending, bad, lock, pc, hand, ran, inst, tag, events, history>>
SeatStops(s) ==
  /\ s \in Running \ busy /\ Event /\ code' = [code EXCEPT ![s] = Down]
  /\ UNCHANGED <<disk, busy, pending, bad, lock, pc, hand, ran, inst, tag, history>>
\* Also what a reboot does to a seat that starts with the machine.
SeatStarts(s) ==
  /\ s \notin busy /\ tree \in Release /\ Event /\ code' = [code EXCEPT ![s] = tree]
  /\ strayed' = (strayed \/ pending.stage = "install")
  /\ UNCHANGED <<disk, busy, pending, bad, lock, pc, hand, ran, inst, tag, maker, overrun, rejected>>

Installer == InstallerHalf \/ InstallerEnd("ok") \/ InstallerEnd("failed") \/ InstallerIdle \/ InstallerFails
             \/ InstallerLate
Work ==
  \/ Recover \/ Check \/ Skip \/ Install \/ TimesOut \/ Installed \/ Failed \/ Landed
  \/ \E well \in BOOLEAN : Restart(well) \/ Again(well)
  \/ Health \/ Unhealthy \/ Restore \/ Reset \/ MoveAside \/ MoveIn \/ RestoreFails \/ Restored \/ Back
Person == HandTake \/ HandBegins \/ HandEnds \/ HandPulls \/ HandRestarts \/ HandDone \/ GetSh \/ Edit

Next ==
  \/ Tick \/ Work \/ Installer \/ Person \/ Die \/ Publish
  \/ \E s \in Seat : TurnBegins(s) \/ TurnEnds(s) \/ SeatStops(s) \/ SeatStarts(s)

Spec == Init /\ [][Next]_vars

\* Nights come again, a tick and its installer go on, and so does a person's update;
\* a turn ends.
FairSpec ==
  /\ Spec /\ WF_vars(Tick) /\ WF_vars(Work) /\ WF_vars(Installer)
  /\ WF_vars(HandBegins \/ HandEnds \/ HandPulls \/ HandRestarts \/ HandDone)
  /\ \A s \in Seat : WF_vars(TurnEnds(s))

(***************************************************************************)
(* Properties.                                                             *)
(***************************************************************************)
TypeOK ==
  /\ kind \in Kinds /\ tree \in Release \cup {Own, Torn, Aside} /\ prev \in 0..Newest
  /\ latest \in Release /\ code \in [Seat -> Release \cup {Own, Down}] /\ busy \subseteq Seat
  /\ pending \in [stage : {"none", "install", "restart", "rollback"}, previous : 0..Newest,
                  target : 0..Newest, seats : SUBSET Seat]
  /\ bad \in 0..Newest /\ lock \in {"free", "tick", "hand"} /\ events \in 0..MaxEvents
  /\ inst \in {"none", "begun", "half", "ok", "failed"} /\ tag \in 0..Newest
  /\ outlived \in BOOLEAN /\ undone \in BOOLEAN /\ rejected \subseteq Release

AtRest == lock = "free" /\ ~AtWork
\* Whatever tick dies where, a seat runs other code than the tree's only while a record
\* says that something is to be finished, unless something strayed.
SeatsFollow == AtRest /\ pending = NoRecord /\ ~strayed => \A s \in Running : code[s] = tree

\* "So even an interrupted one is never undone" (docs/ar3.md): no tick puts back a tree,
\* or restarts seats onto one, that a person's `ar3 update` has made, and no installer puts
\* an older release over it.  One exception: the update pulled beside an installer that had
\* outlived its tick, which then puts its own release over it.
HandIsFinal ==
  /\ maker = "update" => pc \notin {"restart", "health", "restore", "restoring", "restored", "again", "back"}
  /\ undone => outlived

\* A release that failed its check here is never what a tick installs, through deaths,
\* updates by hand and newer releases that fail too.
BadOnce == pending.stage = "install" => pending.target \notin rejected

\* An install that is moved aside has a record that brings it back, with the same exception.
NeverLost == AtRest /\ tree = Aside /\ ~strayed =>
  pending.stage # "none" /\ prev = pending.previous

\* A record does not stay: a later tick finishes it, or the tree it would bring back is not
\* there to restore.
Blocked == Where \in {"target", "half"} /\ ~SourceIs
Finishes == (pending # NoRecord) ~> (pending = NoRecord \/ Blocked)
=============================================================================
