----------------------------- MODULE FolderWire -----------------------------
(***************************************************************************)
(* A folder remote of a8s (transports/folder.py, transports/ledger.py): a  *)
(* directory that many machines see, one file per envelope.  Nobody        *)
(* deletes on receive, so each machine keeps a ledger of the ids it took.  *)
(* The processes of one machine append to one ledger file; each reads it   *)
(* once, when it starts, and after that trusts its memory.  An append      *)
(* takes the ledger's mutex if it gets it in time, a compaction only with  *)
(* the mutex, and a mutex that looks stale is taken over.                  *)
(* A process has two threads: one polls the folder, one publishes.         *)
(***************************************************************************)
EXTENDS Integers, FiniteSets, Functions

CONSTANTS
  Proc,        \* the a8s processes of this machine
  Sender,      \* the ones whose agents send by this remote
  Envelope,    \* numbered in the order of their ULIDs
  Own,         \* the ones this machine publishes
  Cap,         \* MAX_SEEN_IDS
  None,
  MaxEvents    \* bound: crashes, failed reads and writes, wires that do not answer, stale locks

ASSUME WireAssumption ==
  /\ Sender \subseteq Proc /\ Envelope \subseteq Nat \ {0} /\ Own \subseteq Envelope
  /\ Cap \in Nat /\ MaxEvents \in Nat /\ None \notin Proc \X {"poll", "send"}

VARIABLES
  wire,       \* a file: not there yet, half arrived, whole, past retain_days, swept
  lines,      \* the ledger file: how many lines name an id
  mutex,      \* the lock file: who made or took it, and whether it is old
  ids,        \* what a process remembers
  publishing, \* what a process is publishing just now
  thread,     \* who holds the process's thread lock
  pc, job,    \* a thread: its step and its local variables
  events,     \* bound
  appended,   \* ids that an append wrote to the file  (history)
  crossed,    \* ids appended while another thread's compaction was past its look  (history)
  forgot,     \* ids that a compaction dropped which had looked in vain  (history)
  offered,    \* envelopes given to the receive path  (history)
  mine,       \* what a process has published since it started  (history)
  echoes      \* processes that were offered what they published, and what  (history)

disk == <<wire, lines, mutex>>
history == <<appended, crossed, forgot, offered, mine, echoes>>
vars == <<wire, lines, mutex, ids, publishing, thread, pc, job, events,
          appended, crossed, forgot, offered, mine, echoes>>

Thread == (Proc \X {"poll"}) \cup (Sender \X {"send"})
NoLock == [by |-> None, old |-> FALSE]
Fresh == [at |-> 0, todo |-> {}, held |-> FALSE, present |-> {}, lines |-> {}, blind |-> FALSE]
There == {u \in Envelope : wire[u] \in {"part", "whole", "old"}}
OnFile == {u \in Envelope : lines[u] > 0}
Go(t, step) == pc' = [pc EXCEPT ![t] = step]

Init ==
  /\ wire = [u \in Envelope |-> "none"] /\ lines = [u \in Envelope |-> 0] /\ mutex = NoLock
  /\ ids = [p \in Proc |-> {}] /\ publishing = [p \in Proc |-> {}]
  /\ thread = [p \in Proc |-> None]
  /\ pc = [t \in Thread |-> "idle"] /\ job = [t \in Thread |-> Fresh] /\ events = 0
  /\ appended = {} /\ crossed = {} /\ forgot = {} /\ offered = {} /\ mine = [p \in Proc |-> {}] /\ echoes = {}

(***************************************************************************)
(* The wire: a sync client shows a name before the bytes are there.        *)
(***************************************************************************)
Arrive(u) ==
  /\ u \notin Own /\ wire[u] = "none" /\ wire' = [wire EXCEPT ![u] = "part"]
  /\ UNCHANGED <<lines, mutex, ids, publishing, thread, pc, job, events, history>>
Complete(u) ==
  /\ wire[u] = "part" /\ wire' = [wire EXCEPT ![u] = "whole"]
  /\ UNCHANGED <<lines, mutex, ids, publishing, thread, pc, job, events, history>>
\* Its mint time and its mtime are both past retain_days.
Expire(u) ==
  /\ wire[u] = "whole" /\ wire' = [wire EXCEPT ![u] = "old"]
  /\ UNCHANGED <<lines, mutex, ids, publishing, thread, pc, job, events, history>>
Swept == [u \in Envelope |-> IF wire[u] = "old" THEN "gone" ELSE wire[u]]

(***************************************************************************)
(* ConsumedLedger.record.                                                  *)
(***************************************************************************)
\* Mutant: what is published is recorded before the file is there.
RecordFirst == [guarded |-> "want", shown |-> "sweep", recorded |-> "show"]
Published == [guarded |-> "show", shown |-> "want", recorded |-> "sweep"]
\* After a record, the poll looks at the next file and the publish sweeps.
Finish(t) == IF t[2] = "poll" THEN "files" ELSE Published.recorded

Want(t) ==
  LET p == t[1] u == job[t].at
  IN /\ pc[t] = "want"
     /\ IF u \in ids[p] THEN Go(t, Finish(t)) /\ UNCHANGED ids
                        ELSE Go(t, "enter") /\ ids' = [ids EXCEPT ![p] = @ \cup {u}]
     /\ UNCHANGED <<disk, publishing, thread, job, events, history>>

\* The thread lock, then the mutex.
Entered(t) ==
  /\ pc[t] = "enter" /\ thread[t[1]] \in {None, t} /\ thread' = [thread EXCEPT ![t[1]] = t]
Got(t, held) == job' = [job EXCEPT ![t].held = held] /\ Go(t, "append")
Acquire(t) ==
  /\ Entered(t) /\ mutex.by = None /\ mutex' = [by |-> t, old |-> FALSE] /\ Got(t, TRUE)
  /\ UNCHANGED <<wire, lines, ids, publishing, events, history>>
\* The wait is bounded, and the append goes on without the mutex.
GiveUp(t) ==
  /\ Entered(t) /\ mutex.by # None /\ Got(t, FALSE)
  /\ UNCHANGED <<disk, ids, publishing, events, history>>
\* A lock older than LEDGER_LOCK_STALE_SECONDS; between this look and the new stamp
\* another thread may have taken it over, or its owner released it.
SeeStale(t) ==
  /\ Entered(t) /\ mutex.by # None /\ mutex.old /\ Go(t, "stamp")
  /\ UNCHANGED <<disk, ids, publishing, job, events, history>>
TakeOver(t) ==
  /\ pc[t] = "stamp"
  /\ IF mutex.by = None THEN Go(t, "enter") /\ UNCHANGED <<mutex, job>>
                        ELSE mutex' = [by |-> t, old |-> FALSE] /\ Got(t, TRUE)
  /\ UNCHANGED <<wire, lines, ids, publishing, thread, events, history>>

\* Another thread is past its look at the wire, and will not keep u.
Overlooks(s, u) == pc[s] = "replace" \/ (pc[s] = "lines" /\ u \notin job[s].present)
Total == FoldFunction(+, 0, lines)
Append(t) ==
  LET u == job[t].at
  IN /\ pc[t] = "append" /\ lines' = [lines EXCEPT ![u] = @ + 1]
     /\ Go(t, IF job[t].held /\ Total + 1 > Cap THEN "ask" ELSE "release")
     /\ appended' = appended \cup {u}
     /\ crossed' = crossed \cup {v \in {u} : \E s \in Thread \ {t} : Overlooks(s, v)}
     /\ UNCHANGED <<wire, mutex, ids, publishing, thread, job, events, forgot, offered, mine, echoes>>
\* An unwritable ledger: the id stays in memory only.
AppendFails(t) ==
  /\ pc[t] = "append" /\ events < MaxEvents /\ events' = events + 1
  /\ Go(t, "release")
  /\ UNCHANGED <<disk, ids, publishing, thread, job, history>>

(***************************************************************************)
(* _compact: which envelopes are there, which ids are in the file, and the *)
(* file is replaced by what is in both.                                    *)
(***************************************************************************)
Ask(t) ==
  /\ pc[t] = "ask" /\ job' = [job EXCEPT ![t].present = There] /\ Go(t, "lines")
  /\ UNCHANGED <<disk, ids, publishing, thread, events, history>>
\* An unmounted folder says nothing about what is gone; the ledger cannot be read for its
\* length, or not be replaced: these end the compaction too.
NoAnswer(t) ==
  /\ pc[t] = "ask" /\ events < MaxEvents /\ events' = events + 1 /\ Go(t, "release")
  /\ UNCHANGED <<disk, ids, publishing, thread, job, history>>
\* The folder is there and cannot be listed (_all_envelopes): nothing is on the wire.
AskFails(t) ==
  /\ pc[t] = "ask" /\ events < MaxEvents /\ events' = events + 1
  /\ job' = [job EXCEPT ![t].blind = TRUE] /\ Go(t, "lines")
  /\ UNCHANGED <<disk, ids, publishing, thread, history>>
ReadLines(t) ==
  /\ pc[t] = "lines" /\ job' = [job EXCEPT ![t].lines = OnFile] /\ Go(t, "replace")
  /\ UNCHANGED <<disk, ids, publishing, thread, events, history>>
\* The ledger cannot be read (_lines): it has no ids to keep.
ReadFails(t) ==
  /\ pc[t] = "lines" /\ events < MaxEvents /\ events' = events + 1
  /\ job' = [job EXCEPT ![t].blind = TRUE] /\ Go(t, "replace")
  /\ UNCHANGED <<disk, ids, publishing, thread, history>>
Listed(t) == job[t].lines \cap job[t].present
\* Mutant: the cap is a bound, and the oldest ids go.
KeptNewest(t) == {u \in Listed(t) : \A v \in Listed(t) : v <= u}
Kept(t) == Listed(t)
Replace(t) ==
  LET kept == Kept(t)
  IN /\ pc[t] = "replace" /\ Go(t, "release")
     /\ lines' = [u \in Envelope |-> IF u \in kept THEN 1 ELSE 0]
     /\ ids' = [ids EXCEPT ![t[1]] = @ \ (job[t].lines \ kept)]
     /\ forgot' = forgot \cup (IF job[t].blind THEN (OnFile \cup job[t].lines) \ kept ELSE {})
     /\ job' = [job EXCEPT ![t].lines = {}, ![t].present = {}]
     /\ UNCHANGED <<wire, mutex, publishing, thread, events, appended, crossed, offered, mine, echoes>>

\* The lock file is unlinked, whosever it is by now, and the thread lock is free.
Release(t) ==
  /\ pc[t] = "release" /\ mutex' = (IF job[t].held THEN NoLock ELSE mutex)
  /\ thread' = [thread EXCEPT ![t[1]] = None] /\ Go(t, Finish(t))
  /\ job' = [job EXCEPT ![t].at = 0, ![t].held = FALSE, ![t].present = {}, ![t].lines = {}, ![t].blind = FALSE]
  /\ UNCHANGED <<wire, lines, ids, publishing, events, history>>

(***************************************************************************)
(* The poll.                                                               *)
(***************************************************************************)
Consumed(p, u) == u \in publishing[p] \/ u \in ids[p]

\* The sweep comes first, if its hour is over; then the listing, oldest id first.  (One that
\* fails is empty, and the poll ends as it began.)
Poll(t, sweeps) ==
  /\ t[2] = "poll" /\ pc[t] = "idle"
  /\ wire' = IF sweeps THEN Swept ELSE wire
  /\ job' = [job EXCEPT ![t].todo = {u \in Envelope : wire'[u] \in {"part", "whole", "old"}}]
  /\ Go(t, "files")
  /\ UNCHANGED <<lines, mutex, ids, publishing, thread, events, history>>

EndPoll(t) ==
  /\ t[2] = "poll" /\ pc[t] = "files" /\ job[t].todo = {} /\ Go(t, "idle")
  /\ job' = [job EXCEPT ![t] = Fresh]
  /\ UNCHANGED <<disk, ids, publishing, thread, events, history>>

\* Mutant: a file that is not whole yet is taken for read.
AnyBytes(u) == u \in There
\* The name of a file and the id inside agree.
WholeFile(u) == wire[u] \in {"whole", "old"}
ReadFile(t, u) ==
  /\ t[2] = "poll" /\ pc[t] = "files" /\ u \in job[t].todo
  /\ \A v \in job[t].todo : u <= v
  /\ IF ~Consumed(t[1], u) /\ WholeFile(u)
       THEN Go(t, "offer") /\ job' = [job EXCEPT ![t].at = u, ![t].todo = @ \ {u}]
       ELSE job' = [job EXCEPT ![t].todo = @ \ {u}] /\ UNCHANGED pc
  /\ UNCHANGED <<disk, ids, publishing, thread, events, history>>

\* It is checked again after the read; then the receive path has it.
Offer(t) ==
  LET p == t[1] u == job[t].at
  IN /\ pc[t] = "offer"
     /\ IF Consumed(p, u)
          THEN Go(t, "files") /\ job' = [job EXCEPT ![t].at = 0] /\ UNCHANGED <<offered, echoes>>
          ELSE /\ Go(t, "want") /\ UNCHANGED job /\ offered' = offered \cup {v \in {u} : wire[v] # "part"}
               /\ echoes' = echoes \cup ({<<p, u>>} \cap {<<p, v>> : v \in mine[p]})
     /\ UNCHANGED <<disk, ids, publishing, thread, events, appended, crossed, forgot, mine>>

(***************************************************************************)
(* The publish.                                                            *)
(***************************************************************************)
\* A message whose publish failed may be sent again by hand, under the same name.
Publish(t, u) ==
  /\ t[2] = "send" /\ pc[t] = "idle" /\ u \in Own /\ wire[u] = "none"
  /\ \A s \in Thread : job[s].at # u
  /\ publishing' = [publishing EXCEPT ![t[1]] = {u}]
  /\ job' = [job EXCEPT ![t].at = u] /\ Go(t, Published.guarded)
  /\ UNCHANGED <<disk, ids, thread, events, history>>

Show(t) ==
  LET u == job[t].at
  IN /\ pc[t] = "show" /\ wire' = [wire EXCEPT ![u] = "whole"] /\ Go(t, Published.shown)
     /\ mine' = [mine EXCEPT ![t[1]] = @ \cup {u}]
     /\ UNCHANGED <<lines, mutex, ids, publishing, thread, job, events, appended, crossed, forgot, offered, echoes>>

\* The rename failed: TransportError, and nothing is recorded.
ShowFails(t) ==
  /\ pc[t] = "show" /\ events < MaxEvents /\ events' = events + 1 /\ Go(t, "done")
  /\ UNCHANGED <<disk, ids, publishing, thread, job, history>>

SweepNow(t, sweeps) ==
  /\ t[2] = "send" /\ pc[t] = "sweep" /\ wire' = (IF sweeps THEN Swept ELSE wire)
  /\ Go(t, "done")
  /\ UNCHANGED <<lines, mutex, ids, publishing, thread, job, events, history>>

Done(t) ==
  /\ pc[t] = "done" /\ publishing' = [publishing EXCEPT ![t[1]] = {}] /\ Go(t, "idle")
  /\ job' = [job EXCEPT ![t] = Fresh]
  /\ UNCHANGED <<disk, ids, thread, events, history>>

(***************************************************************************)
(* A process dies and starts again, with what is in the file if that can   *)
(* be read; time passes.                                                   *)
(***************************************************************************)
Restart(p, reads) ==
  /\ events < MaxEvents /\ events' = events + 1
  /\ ids' = [ids EXCEPT ![p] = IF reads THEN OnFile ELSE {}] /\ publishing' = [publishing EXCEPT ![p] = {}]
  /\ thread' = [thread EXCEPT ![p] = None] /\ mine' = [mine EXCEPT ![p] = {}]
  /\ pc' = [t \in Thread |-> IF t[1] = p THEN "idle" ELSE pc[t]]
  /\ job' = [t \in Thread |-> IF t[1] = p THEN Fresh ELSE job[t]]
  /\ UNCHANGED <<disk, appended, crossed, forgot, offered, echoes>>

GrowOld ==
  /\ mutex.by # None /\ ~mutex.old /\ events < MaxEvents /\ events' = events + 1
  /\ mutex' = [mutex EXCEPT !.old = TRUE]
  /\ UNCHANGED <<wire, lines, ids, publishing, thread, pc, job, history>>

Step(t) ==
  \/ Want(t) \/ Acquire(t) \/ GiveUp(t) \/ SeeStale(t) \/ TakeOver(t)
  \/ Append(t) \/ AppendFails(t) \/ Ask(t) \/ AskFails(t) \/ NoAnswer(t)
  \/ ReadLines(t) \/ ReadFails(t) \/ Replace(t) \/ Release(t)
  \/ \E sweeps \in BOOLEAN : Poll(t, sweeps) \/ SweepNow(t, sweeps)
  \/ \E u \in Envelope : ReadFile(t, u)
  \/ EndPoll(t) \/ Offer(t) \/ Show(t) \/ ShowFails(t) \/ Done(t)

Next ==
  \/ \E t \in Thread : Step(t) \/ \E u \in Own : Publish(t, u)
  \/ \E u \in Envelope : Arrive(u) \/ Complete(u) \/ Expire(u)
  \/ \E p \in Proc, reads \in BOOLEAN : Restart(p, reads)
  \/ GrowOld

Spec == Init /\ [][Next]_vars

(***************************************************************************)
(* Properties.                                                             *)
(***************************************************************************)
Steps == {"idle", "want", "enter", "stamp", "append", "ask", "lines", "replace", "release",
          "files", "offer", "show", "sweep", "done"}
Job == [at : Envelope \cup {0}, todo : SUBSET Envelope, held : BOOLEAN,
        present : SUBSET Envelope, lines : SUBSET Envelope, blind : BOOLEAN]
TypeOK ==
  /\ pc \in [Thread -> Steps]
  /\ job \in [Thread -> Job]
  /\ wire \in [Envelope -> {"none", "part", "whole", "old", "gone"}]
  /\ lines \in [Envelope -> Nat] /\ mutex \in [by : Thread \cup {None}, old : BOOLEAN]
  /\ ids \in [Proc -> SUBSET Envelope] /\ publishing \in [Proc -> SUBSET Own]
  /\ thread \in [Proc -> Thread \cup {None}] /\ events \in 0..MaxEvents
  /\ appended \cup crossed \cup forgot \cup offered \subseteq Envelope
  /\ mine \in [Proc -> SUBSET Own] /\ echoes \subseteq Proc \X Own

\* An id in the ledger is that of an envelope the receive path was given whole, or one
\* this machine published: whatever dies, nothing is skipped that nobody has taken.
NothingSwallowed == \A u \in OnFile : u \in offered \/ (u \in Own /\ wire[u] # "none")

\* What a compaction may have dropped though its envelope is there.
Excused == crossed \cup forgot

\* "Only the entries whose envelope is gone may go" (ledger.py, _compact): what was
\* appended stays in the file while its envelope is on the wire.  Two exceptions: it was
\* appended in the middle of another's compaction, which the mutex prevents when it is
\* waited for; or the compaction could not list the folder or read the ledger, took that
\* for "every envelope is gone", and erased the record.
Remembered == \A u \in appended \ Excused : u \in There => u \in OnFile

\* A process is not offered what it published itself, with the same exceptions.
NoEcho == \A p \in Proc, u \in Envelope : <<p, u>> \in echoes => u \in Excused
=============================================================================
