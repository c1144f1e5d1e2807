--------------------------- MODULE FolderWireProofs ---------------------------
(***************************************************************************)
(* Proofs about FolderWire, for any processes, envelopes, ledger cap and   *)
(* number of faults: a ledger names only what was taken or published, it   *)
(* keeps what is still on the wire, and a process meets no echo.           *)
(***************************************************************************)
EXTENDS FolderWire, TLAPS

\* An id that the ledger may name.
Given(u) == u \in offered \/ (u \in Own /\ wire[u] # "none")

\* What a thread is about, by its step.
AtInv ==
  \A t \in Thread :
    /\ pc[t] \in {"want", "enter", "stamp", "append"} => job[t].at \in Envelope /\ Given(job[t].at)
    /\ pc[t] = "offer" => job[t].at \in Envelope /\ wire[job[t].at] \notin {"none", "part"}
    /\ pc[t] = "show" =>
         /\ job[t].at \in Own /\ wire[job[t].at] = "none"
         /\ \A s \in Thread \ {t} : job[s].at # job[t].at
    /\ pc[t] \in {"show", "sweep", "done"} => t[2] = "send"
    /\ pc[t] \in {"files", "offer"} => t[2] = "poll"

\* What the file, and the part of it a compaction has read, may hold.
FileInv ==
  /\ OnFile \subseteq appended /\ \A u \in appended : Given(u)
  /\ \A u \in offered : wire[u] # "none"
  /\ \A t \in Thread : job[t].lines \subseteq appended

\* What a compaction keeps.
CompactInv ==
  /\ Remembered
  /\ \A t \in Thread, u \in appended \ Excused :
       u \in There => /\ pc[t] = "lines" => job[t].blind \/ u \in job[t].present
                      /\ pc[t] = "replace" => job[t].blind \/ u \in Listed(t)

\* What a process has published is on the wire, or was; what it publishes just now it knows.
PublishInv ==
  /\ \A p \in Proc, u \in Envelope : u \in mine[p] => wire[u] # "none"
  /\ \A t \in Thread : t[2] = "send" /\ pc[t] \in {"show", "want"} => publishing[t[1]] = {job[t].at}

\* It remembers it until the sweep has it, or is about to.
Sending(t, p, u) == t[1] = p /\ t[2] = "send" /\ pc[t] = "want" /\ job[t].at = u
MineInv ==
  \A p \in Proc : \A u \in mine[p] \ Excused :
    u \in ids[p] \/ wire[u] = "gone" \/ \E t \in Thread : Sending(t, p, u)

\* So it does not read it from the folder.
OfferInv == \A t \in Thread : pc[t] = "offer" => job[t].at \notin mine[t[1]] \ Excused

WireInv == TypeOK /\ AtInv /\ FileInv /\ CompactInv /\ PublishInv /\ MineInv /\ OfferInv

\* What the actions do to a thread's variables keeps their types.
LEMMA JobTypes ==
  ASSUME TypeOK, NEW t \in Thread
  PROVE  /\ \A u \in Envelope \cup {0} : [job EXCEPT ![t].at = u] \in [Thread -> Job]
         /\ \A b \in BOOLEAN : /\ [job EXCEPT ![t].held = b] \in [Thread -> Job]
                             /\ [job EXCEPT ![t].blind = b] \in [Thread -> Job]
         /\ \A S \in SUBSET Envelope : /\ [job EXCEPT ![t].present = S] \in [Thread -> Job]
                                       /\ [job EXCEPT ![t].lines = S] \in [Thread -> Job]
                                       /\ [job EXCEPT ![t].todo = S] \in [Thread -> Job]
         /\ \A u \in Envelope \cup {0}, S \in SUBSET Envelope :
              [job EXCEPT ![t].at = u, ![t].todo = S] \in [Thread -> Job]
         /\ [job EXCEPT ![t].lines = {}, ![t].present = {}] \in [Thread -> Job]
         /\ [job EXCEPT ![t].at = 0, ![t].held = FALSE, ![t].present = {}, ![t].lines = {},
                      ![t].blind = FALSE]
              \in [Thread -> Job]
         /\ Fresh \in Job
<1>1. ASSUME NEW j \in Job PROVE [job EXCEPT ![t] = j] \in [Thread -> Job]
  BY DEF TypeOK
<1>2. job[t] \in Job BY DEF TypeOK
<1>3. ASSUME NEW u \in Envelope \cup {0}, NEW S \in SUBSET Envelope, NEW b \in BOOLEAN
      PROVE  /\ [job EXCEPT ![t].at = u] \in [Thread -> Job]
             /\ [job EXCEPT ![t].held = b] \in [Thread -> Job]
             /\ [job EXCEPT ![t].blind = b] \in [Thread -> Job]
             /\ [job EXCEPT ![t].present = S] \in [Thread -> Job]
             /\ [job EXCEPT ![t].lines = S] \in [Thread -> Job]
             /\ [job EXCEPT ![t].todo = S] \in [Thread -> Job]
             /\ [job EXCEPT ![t].at = u, ![t].todo = S] \in [Thread -> Job]
  <2>1. /\ [job[t] EXCEPT !.at = u] \in Job /\ [job[t] EXCEPT !.held = b] \in Job
        /\ [job[t] EXCEPT !.blind = b] \in Job
        /\ [job[t] EXCEPT !.present = S] \in Job /\ [job[t] EXCEPT !.lines = S] \in Job
        /\ [job[t] EXCEPT !.todo = S] \in Job /\ [job[t] EXCEPT !.at = u, !.todo = S] \in Job
    BY <1>2 DEF Job
  <2>2. /\ [job EXCEPT ![t].at = u] = [job EXCEPT ![t] = [job[t] EXCEPT !.at = u]]
        /\ [job EXCEPT ![t].held = b] = [job EXCEPT ![t] = [job[t] EXCEPT !.held = b]]
        /\ [job EXCEPT ![t].blind = b] = [job EXCEPT ![t] = [job[t] EXCEPT !.blind = b]]
        /\ [job EXCEPT ![t].present = S] = [job EXCEPT ![t] = [job[t] EXCEPT !.present = S]]
        /\ [job EXCEPT ![t].lines = S] = [job EXCEPT ![t] = [job[t] EXCEPT !.lines = S]]
        /\ [job EXCEPT ![t].todo = S] = [job EXCEPT ![t] = [job[t] EXCEPT !.todo = S]]
    BY DEF TypeOK
  <2>3. [job EXCEPT ![t].at = u, ![t].todo = S]
          = [job EXCEPT ![t] = [job[t] EXCEPT !.at = u, !.todo = S]]
    BY DEF TypeOK
  <2>4. QED BY <1>1, <2>1, <2>2, <2>3
<1>4. /\ [job[t] EXCEPT !.lines = {}, !.present = {}] \in Job
      /\ [job[t] EXCEPT !.at = 0, !.held = FALSE, !.present = {}, !.lines = {}, !.blind = FALSE] \in Job
  BY <1>2 DEF Job
<1>5. [job EXCEPT ![t].lines = {}, ![t].present = {}]
        = [job EXCEPT ![t] = [job[t] EXCEPT !.lines = {}, !.present = {}]]
  BY DEF TypeOK
<1>6. [job EXCEPT ![t].at = 0, ![t].held = FALSE, ![t].present = {}, ![t].lines = {},
                      ![t].blind = FALSE]
        = [job EXCEPT ![t] = [job[t] EXCEPT !.at = 0, !.held = FALSE, !.present = {}, !.lines = {}, !.blind = FALSE]]
  BY DEF TypeOK
<1>7. Fresh \in Job BY DEF Fresh, Job
<1>8. /\ [job EXCEPT ![t].lines = {}, ![t].present = {}] \in [Thread -> Job]
      /\ [job EXCEPT ![t].at = 0, ![t].held = FALSE, ![t].present = {}, ![t].lines = {},
                      ![t].blind = FALSE]
           \in [Thread -> Job]
  BY <1>1, <1>4, <1>5, <1>6
<1>9. QED BY <1>3, <1>7, <1>8

LEMMA InitWire == Init => WireInv
BY WireAssumption DEF Init, WireInv, TypeOK, AtInv, FileInv, CompactInv, PublishInv, MineInv,
   OfferInv, Remembered, Excused, Steps,
   Job, Thread, There, OnFile, NoLock, Fresh

LEMMA ThreadParts ==
  ASSUME NEW t \in Thread
  PROVE  t[1] \in Proc /\ t[2] \in {"poll", "send"} /\ (t[2] = "send" => t[1] \in Sender)
BY WireAssumption DEF Thread

LEMMA SameThread ==
  ASSUME NEW s \in Thread, NEW t \in Thread, s[1] = t[1], s[2] = t[2]
  PROVE  s = t
BY DEF Thread

\* The types.
LEMMA NextTypes == TypeOK /\ AtInv /\ [Next]_vars => TypeOK'
<1>. SUFFICES ASSUME TypeOK, AtInv, [Next]_vars PROVE TypeOK'
  OBVIOUS
<1>. USE WireAssumption DEF TypeOK, AtInv, Steps, Given, There, OnFile, disk, history, NoLock
<1>1. ASSUME NEW u \in Envelope, Arrive(u) PROVE TypeOK'
  BY <1>1 DEF Arrive
<1>2. ASSUME NEW u \in Envelope, Complete(u) PROVE TypeOK'
  BY <1>2 DEF Complete
<1>3. ASSUME NEW u \in Envelope, Expire(u) PROVE TypeOK'
  BY <1>3 DEF Expire
<1>4. ASSUME NEW t \in Thread, Want(t) PROVE TypeOK'
  <2>1. pc' \in [Thread -> Steps]
    BY <1>4 DEF Want, Finish, Published, Go
  <2>2. job' \in [Thread -> Job]
    BY <1>4 DEF Want
  <2>3. QED BY <1>4, <2>1, <2>2, ThreadParts DEF Want, Finish, Published, Go
<1>5. ASSUME NEW t \in Thread, Acquire(t) PROVE TypeOK'
  <2>1. pc' \in [Thread -> Steps]
    BY <1>5 DEF Acquire, Entered, Got, Go
  <2>2. job' \in [Thread -> Job]
    BY <1>5, JobTypes DEF Acquire, Got
  <2>3. QED BY <1>5, <2>1, <2>2, ThreadParts DEF Acquire, Entered, Got, Go
<1>6. ASSUME NEW t \in Thread, GiveUp(t) PROVE TypeOK'
  <2>1. pc' \in [Thread -> Steps]
    BY <1>6 DEF GiveUp, Entered, Got, Go
  <2>2. job' \in [Thread -> Job]
    BY <1>6, JobTypes DEF GiveUp, Got
  <2>3. QED BY <1>6, <2>1, <2>2, ThreadParts DEF GiveUp, Entered, Got, Go
<1>7. ASSUME NEW t \in Thread, SeeStale(t) PROVE TypeOK'
  BY <1>7 DEF SeeStale, Entered, Go
<1>8. ASSUME NEW t \in Thread, TakeOver(t) PROVE TypeOK'
  <2>1. CASE mutex.by = None BY <1>8, <2>1 DEF TakeOver, Go
  <2>2. CASE mutex.by # None
    <3>1. job' \in [Thread -> Job]
      <4>1. job' = [job EXCEPT ![t].held = TRUE] BY <1>8, <2>2 DEF TakeOver, Got
      <4>2. QED BY <4>1, JobTypes
    <3>2. pc' \in [Thread -> Steps] BY <1>8, <2>2 DEF TakeOver, Got, Go
    <3>3. mutex' \in [by : Thread \cup {None}, old : BOOLEAN]
      <4>1. mutex' = [by |-> t, old |-> FALSE] BY <1>8, <2>2 DEF TakeOver
      <4>2. QED BY <4>1
    <3>4. QED BY <1>8, <3>1, <3>2, <3>3 DEF TakeOver
  <2>3. QED BY <2>1, <2>2
<1>9. ASSUME NEW t \in Thread, Append(t) PROVE TypeOK'
  <2>1. pc' \in [Thread -> Steps]
    BY <1>9 DEF Append, Go
  <2>2. job[t].at \in Envelope
    BY <1>9 DEF Append
  <2>3. lines' = [lines EXCEPT ![job[t].at] = lines[job[t].at] + 1]
    BY <1>9 DEF Append
  <2>4. lines[job[t].at] + 1 \in Nat
    <3>1. \A u \in Envelope : lines[u] + 1 \in Nat OBVIOUS
    <3>2. QED BY <2>2, <3>1
  <2>5. lines' \in [Envelope -> Nat]
    BY <2>2, <2>3, <2>4
  <2>6. appended' \cup crossed' \cup forgot' \subseteq Envelope
    BY <1>9, <2>2 DEF Append
  <2>7. QED BY <1>9, <2>1, <2>5, <2>6 DEF Append
<1>10. ASSUME NEW t \in Thread, AppendFails(t) PROVE TypeOK'
  BY <1>10 DEF AppendFails, Go
<1>11. ASSUME NEW t \in Thread, Ask(t) PROVE TypeOK'
  <2>1. pc' \in [Thread -> Steps]
    BY <1>11 DEF Ask, Go
  <2>2. job' \in [Thread -> Job]
    BY <1>11, JobTypes DEF Ask
  <2>3. QED BY <1>11, <2>1, <2>2, ThreadParts DEF Ask, Go
<1>12. ASSUME NEW t \in Thread, NoAnswer(t) PROVE TypeOK'
  BY <1>12 DEF NoAnswer, Go
<1>30. ASSUME NEW t \in Thread, AskFails(t) PROVE TypeOK'
  <2>1. pc' \in [Thread -> Steps]
    BY <1>30 DEF AskFails, Go
  <2>2. job' \in [Thread -> Job]
    BY <1>30, JobTypes DEF AskFails
  <2>3. QED BY <1>30, <2>1, <2>2, ThreadParts DEF AskFails, Go
<1>31. ASSUME NEW t \in Thread, ReadFails(t) PROVE TypeOK'
  <2>1. pc' \in [Thread -> Steps]
    BY <1>31 DEF ReadFails, Go
  <2>2. job' \in [Thread -> Job]
    BY <1>31, JobTypes DEF ReadFails
  <2>3. QED BY <1>31, <2>1, <2>2, ThreadParts DEF ReadFails, Go
<1>13. ASSUME NEW t \in Thread, ReadLines(t) PROVE TypeOK'
  <2>1. pc' \in [Thread -> Steps]
    BY <1>13 DEF ReadLines, Go
  <2>2. job' \in [Thread -> Job]
    BY <1>13, JobTypes DEF ReadLines
  <2>3. QED BY <1>13, <2>1, <2>2, ThreadParts DEF ReadLines, Go
<1>14. ASSUME NEW t \in Thread, Replace(t) PROVE TypeOK'
  <2>1. pc' \in [Thread -> Steps]
    BY <1>14 DEF Replace, Go
  <2>2. job' \in [Thread -> Job]
    BY <1>14, JobTypes DEF Replace
  <2>3. forgot' \subseteq Envelope
    BY <1>14 DEF Replace, Job
  <2>4. QED BY <1>14, <2>1, <2>2, <2>3, ThreadParts DEF Replace, Kept, Go
<1>15. ASSUME NEW t \in Thread, Release(t) PROVE TypeOK'
  <2>1. pc' \in [Thread -> Steps]
    BY <1>15 DEF Release, Go, Finish, Published
  <2>2. job' \in [Thread -> Job]
    BY <1>15, JobTypes DEF Release
  <2>3. QED BY <1>15, <2>1, <2>2, ThreadParts DEF Release, Go, Finish, Published, NoLock
<1>16. ASSUME NEW t \in Thread, NEW sweeps \in BOOLEAN, Poll(t, sweeps) PROVE TypeOK'
  <2>1. pc' \in [Thread -> Steps]
    BY <1>16 DEF Poll, Go
  <2>2. job' \in [Thread -> Job]
    BY <1>16, JobTypes DEF Poll
  <2>3. QED BY <1>16, <2>1, <2>2, ThreadParts DEF Poll, Swept, Go
<1>17. ASSUME NEW t \in Thread, NEW sweeps \in BOOLEAN, SweepNow(t, sweeps) PROVE TypeOK'
  BY <1>17 DEF SweepNow, Swept, Go
<1>18. ASSUME NEW t \in Thread, EndPoll(t) PROVE TypeOK'
  <2>1. pc' \in [Thread -> Steps]
    BY <1>18 DEF EndPoll, Go
  <2>2. job' \in [Thread -> Job]
    BY <1>18, JobTypes DEF EndPoll
  <2>3. QED BY <1>18, <2>1, <2>2, ThreadParts DEF EndPoll, Go
<1>19. ASSUME NEW t \in Thread, NEW u \in Envelope, ReadFile(t, u) PROVE TypeOK'
  <2>1. pc' \in [Thread -> Steps]
    BY <1>19 DEF ReadFile, Go
  <2>2. job[t].todo \ {u} \in SUBSET Envelope
    BY DEF Job
  <2>3. \/ job' = [job EXCEPT ![t].at = u, ![t].todo = job[t].todo \ {u}]
        \/ job' = [job EXCEPT ![t].todo = job[t].todo \ {u}]
    BY <1>19 DEF ReadFile
  <2>4. job' \in [Thread -> Job]
    <3>1. /\ [job EXCEPT ![t].at = u, ![t].todo = job[t].todo \ {u}] \in [Thread -> Job]
          /\ [job EXCEPT ![t].todo = job[t].todo \ {u}] \in [Thread -> Job]
      BY <2>2, JobTypes
    <3>2. QED BY <2>3, <3>1
  <2>5. QED BY <1>19, <2>1, <2>4 DEF ReadFile
<1>20. ASSUME NEW t \in Thread, Offer(t) PROVE TypeOK'
  <2>1. pc' \in [Thread -> Steps]
    BY <1>20 DEF Offer, Go
  <2>2. job' = [job EXCEPT ![t].at = 0] \/ job' = job
    BY <1>20 DEF Offer
  <2>3. job' \in [Thread -> Job]
    <3>1. [job EXCEPT ![t].at = 0] \in [Thread -> Job] BY JobTypes
    <3>2. QED BY <2>2, <3>1
  <2>4. offered' \subseteq Envelope /\ echoes' \subseteq Proc \X Own
    BY <1>20, ThreadParts DEF Offer
  <2>5. QED BY <1>20, <2>1, <2>3, <2>4 DEF Offer
<1>21. ASSUME NEW t \in Thread, NEW u \in Own, Publish(t, u) PROVE TypeOK'
  <2>1. pc' \in [Thread -> Steps]
    BY <1>21 DEF Publish, Published, Go
  <2>2. job' \in [Thread -> Job]
    BY <1>21, JobTypes DEF Publish
  <2>3. QED BY <1>21, <2>1, <2>2, ThreadParts DEF Publish, Published, Go
<1>22. ASSUME NEW t \in Thread, Show(t) PROVE TypeOK'
  <2>1. pc' \in [Thread -> Steps]
    BY <1>22 DEF Show, Published, Go
  <2>2. job[t].at \in Own /\ t[1] \in Proc
    BY <1>22, ThreadParts DEF Show
  <2>3. mine' \in [Proc -> SUBSET Own]
    BY <1>22, <2>2 DEF Show
  <2>4. wire' \in [Envelope -> {"none", "part", "whole", "old", "gone"}]
    BY <1>22 DEF Show
  <2>5. QED BY <1>22, <2>1, <2>3, <2>4 DEF Show
<1>23. ASSUME NEW t \in Thread, ShowFails(t) PROVE TypeOK'
  BY <1>23 DEF ShowFails, Go
<1>24. ASSUME NEW t \in Thread, Done(t) PROVE TypeOK'
  <2>1. pc' \in [Thread -> Steps]
    BY <1>24 DEF Done, Go
  <2>2. job' \in [Thread -> Job]
    BY <1>24, JobTypes DEF Done
  <2>3. QED BY <1>24, <2>1, <2>2, ThreadParts DEF Done, Go
<1>25. ASSUME NEW p \in Proc, NEW reads \in BOOLEAN, Restart(p, reads) PROVE TypeOK'
  <2>1. pc' \in [Thread -> Steps]
    BY <1>25 DEF Restart
  <2>2. job' \in [Thread -> Job]
    BY <1>25, JobTypes DEF Restart
  <2>3. QED BY <1>25, <2>1, <2>2 DEF Restart
<1>26. CASE GrowOld
  <2>1. mutex' \in [by : Thread \cup {None}, old : BOOLEAN]
    BY <1>26 DEF GrowOld
  <2>2. QED BY <1>26, <2>1 DEF GrowOld
<1>27. CASE UNCHANGED vars
  BY <1>27 DEF vars
<1>. HIDE DEF TypeOK
<1>28. ASSUME NEW t \in Thread, Step(t) PROVE TypeOK'
  BY <1>4, <1>5, <1>6, <1>7, <1>8, <1>9, <1>10, <1>11, <1>12, <1>13, <1>14, <1>15, <1>16,
     <1>17, <1>18, <1>19, <1>20, <1>22, <1>23, <1>24, <1>30, <1>31,
     <1>28
  DEF Step
<1>29. QED
  BY <1>1, <1>2, <1>3, <1>21, <1>25, <1>26, <1>27, <1>28
  DEF Next

\* Every action keeps what a thread is about.
LEMMA NextAt == TypeOK /\ AtInv /\ [Next]_vars => AtInv'
<1>. SUFFICES ASSUME TypeOK, AtInv, [Next]_vars PROVE AtInv'
  OBVIOUS
<1>. USE WireAssumption DEF TypeOK, AtInv, Given, Job, Thread, There, OnFile, disk, history,
          NoLock
<1>1. ASSUME NEW u \in Envelope, Arrive(u) PROVE AtInv'
  BY <1>1 DEF Arrive
<1>2. ASSUME NEW u \in Envelope, Complete(u) PROVE AtInv'
  BY <1>2 DEF Complete
<1>3. ASSUME NEW u \in Envelope, Expire(u) PROVE AtInv'
  BY <1>3 DEF Expire
<1>4. ASSUME NEW t \in Thread, Want(t) PROVE AtInv'
  BY <1>4 DEF Want, Finish, Published, Go
<1>5. ASSUME NEW t \in Thread, Acquire(t) PROVE AtInv'
  BY <1>5 DEF Acquire, Entered, Got, Go
<1>6. ASSUME NEW t \in Thread, GiveUp(t) PROVE AtInv'
  BY <1>6 DEF GiveUp, Entered, Got, Go
<1>7. ASSUME NEW t \in Thread, SeeStale(t) PROVE AtInv'
  BY <1>7 DEF SeeStale, Entered, Go
<1>8. ASSUME NEW t \in Thread, TakeOver(t) PROVE AtInv'
  <2>1. /\ wire' = wire /\ offered' = offered
        /\ \A s \in Thread : job'[s].at = job[s].at
    BY <1>8, SMTT(30) DEF TakeOver, Got
  <2>2. \A s \in Thread : pc'[s] = pc[s] \/ (pc[s] = "stamp" /\ pc'[s] \in {"enter", "append"})
    BY <1>8 DEF TakeOver, Got, Go
  <2>3. QED BY <2>1, <2>2
<1>9. ASSUME NEW t \in Thread, Append(t) PROVE AtInv'
  BY <1>9 DEF Append, Go, Overlooks
<1>10. ASSUME NEW t \in Thread, AppendFails(t) PROVE AtInv'
  BY <1>10 DEF AppendFails, Go
<1>11. ASSUME NEW t \in Thread, Ask(t) PROVE AtInv'
  BY <1>11 DEF Ask, Go
<1>12. ASSUME NEW t \in Thread, NoAnswer(t) PROVE AtInv'
  BY <1>12 DEF NoAnswer, Go
<1>30. ASSUME NEW t \in Thread, AskFails(t) PROVE AtInv'
  BY <1>30 DEF AskFails, Go
<1>31. ASSUME NEW t \in Thread, ReadFails(t) PROVE AtInv'
  BY <1>31 DEF ReadFails, Go
<1>13. ASSUME NEW t \in Thread, ReadLines(t) PROVE AtInv'
  BY <1>13 DEF ReadLines, Go
<1>14. ASSUME NEW t \in Thread, Replace(t) PROVE AtInv'
  BY <1>14 DEF Replace, Kept, Go
<1>15. ASSUME NEW t \in Thread, Release(t) PROVE AtInv'
  <2>1. pc[t] = "release" /\ wire' = wire /\ offered' = offered
    BY <1>15 DEF Release
  <2>2. \A s \in Thread \ {t} : pc'[s] = pc[s] /\ job'[s] = job[s]
    BY <1>15 DEF Release, Go
  <2>3. pc'[t] = Finish(t) /\ job'[t].at = 0
    BY <1>15 DEF Release, Go
  <2>4. \A s \in Thread \ {t} : pc[s] = "show" => job[s].at # 0
    <3>1. 0 \notin Own BY WireAssumption
    <3>2. QED BY <3>1
  <2>5. (t[2] = "poll" /\ pc'[t] = "files") \/ (t[2] = "send" /\ pc'[t] = "sweep")
    BY <2>3, ThreadParts DEF Finish, Published
  <2>6. QED BY <2>1, <2>2, <2>3, <2>4, <2>5, SMTT(30)
<1>16. ASSUME NEW t \in Thread, NEW sweeps \in BOOLEAN, Poll(t, sweeps) PROVE AtInv'
  BY <1>16 DEF Poll, Swept, Go
<1>17. ASSUME NEW t \in Thread, NEW sweeps \in BOOLEAN, SweepNow(t, sweeps) PROVE AtInv'
  BY <1>17 DEF SweepNow, Swept, Go
<1>18. ASSUME NEW t \in Thread, EndPoll(t) PROVE AtInv'
  BY <1>18 DEF EndPoll, Fresh, Go
<1>19. ASSUME NEW t \in Thread, NEW u \in Envelope, ReadFile(t, u) PROVE AtInv'
  <2>1. t[2] = "poll" /\ pc[t] = "files" /\ wire' = wire /\ offered' = offered
    BY <1>19 DEF ReadFile
  <2>2. \A s \in Thread \ {t} : pc'[s] = pc[s] /\ job'[s] = job[s]
    BY <1>19 DEF ReadFile, Go
  <2>3. \/ pc'[t] = "files" /\ job'[t].at = job[t].at
        \/ pc'[t] = "offer" /\ job'[t].at = u /\ wire[u] \in {"whole", "old"}
    BY <1>19 DEF ReadFile, WholeFile, Go
  <2>4. ASSUME NEW s \in Thread, pc[s] = "show" PROVE  s # t /\ (job[s].at # u \/ pc'[t] = "files")
    BY <2>1, <2>3, <2>4
  <2>5. QED BY <2>1, <2>2, <2>3, <2>4, SMTT(30)
<1>20. ASSUME NEW t \in Thread, Offer(t) PROVE AtInv'
  BY <1>20, SMTT(30) DEF Offer, Consumed, Go
<1>21. ASSUME NEW t \in Thread, NEW u \in Own, Publish(t, u) PROVE AtInv'
  BY <1>21 DEF Publish, Published, Go
<1>22. ASSUME NEW t \in Thread, Show(t) PROVE AtInv'
  BY <1>22 DEF Show, Published, Go
<1>23. ASSUME NEW t \in Thread, ShowFails(t) PROVE AtInv'
  BY <1>23 DEF ShowFails, Go
<1>24. ASSUME NEW t \in Thread, Done(t) PROVE AtInv'
  BY <1>24 DEF Done, Fresh, Go
<1>25. ASSUME NEW p \in Proc, NEW reads \in BOOLEAN, Restart(p, reads) PROVE AtInv'
  BY <1>25 DEF Restart, Fresh
<1>26. CASE GrowOld
  BY <1>26 DEF GrowOld
<1>27. CASE UNCHANGED vars
  BY <1>27 DEF vars
<1>. HIDE DEF AtInv, TypeOK
<1>28. ASSUME NEW t \in Thread, Step(t) PROVE AtInv'
  BY <1>4, <1>5, <1>6, <1>7, <1>8, <1>9, <1>10, <1>11, <1>12, <1>13, <1>14, <1>15, <1>16,
     <1>17, <1>18, <1>19, <1>20, <1>22, <1>23, <1>24, <1>30, <1>31,
     <1>28
  DEF Step
<1>29. QED
  BY <1>1, <1>2, <1>3, <1>21, <1>25, <1>26, <1>27, <1>28
  DEF Next

\* Every action keeps what the file may hold.
LEMMA NextFile == TypeOK /\ AtInv /\ FileInv /\ [Next]_vars => FileInv'
<1>. SUFFICES ASSUME TypeOK, AtInv, FileInv, [Next]_vars PROVE FileInv'
  OBVIOUS
<1>. USE WireAssumption DEF TypeOK, AtInv, FileInv, Given, Thread, There, OnFile, disk,
          history, NoLock
<1>1. ASSUME NEW u \in Envelope, Arrive(u) PROVE FileInv'
  BY <1>1 DEF Arrive
<1>2. ASSUME NEW u \in Envelope, Complete(u) PROVE FileInv'
  BY <1>2 DEF Complete
<1>3. ASSUME NEW u \in Envelope, Expire(u) PROVE FileInv'
  BY <1>3 DEF Expire
<1>4. ASSUME NEW t \in Thread, Want(t) PROVE FileInv'
  BY <1>4 DEF Want, Finish, Published, Go
<1>5. ASSUME NEW t \in Thread, Acquire(t) PROVE FileInv'
  BY <1>5 DEF Acquire, Entered, Got, Go
<1>6. ASSUME NEW t \in Thread, GiveUp(t) PROVE FileInv'
  BY <1>6 DEF GiveUp, Entered, Got, Go
<1>7. ASSUME NEW t \in Thread, SeeStale(t) PROVE FileInv'
  BY <1>7 DEF SeeStale, Entered, Go
<1>8. ASSUME NEW t \in Thread, TakeOver(t) PROVE FileInv'
  <2>1. \A s \in Thread : job'[s].lines = job[s].lines
    <3>1. job' = job \/ job' = [job EXCEPT ![t].held = TRUE]
      BY <1>8 DEF TakeOver, Got
    <3>2. \A s \in Thread : [job EXCEPT ![t].held = TRUE][s].lines = job[s].lines
      BY DEF Job
    <3>3. QED BY <3>1, <3>2
  <2>2. lines' = lines /\ appended' = appended /\ wire' = wire /\ offered' = offered
    BY <1>8 DEF TakeOver
  <2>3. QED BY <2>1, <2>2
<1>9. ASSUME NEW t \in Thread, Append(t) PROVE FileInv'
  BY <1>9 DEF Append, Go, Overlooks
<1>10. ASSUME NEW t \in Thread, AppendFails(t) PROVE FileInv'
  BY <1>10 DEF AppendFails, Go
<1>11. ASSUME NEW t \in Thread, Ask(t) PROVE FileInv'
  BY <1>11 DEF Ask, Go
<1>12. ASSUME NEW t \in Thread, NoAnswer(t) PROVE FileInv'
  BY <1>12 DEF NoAnswer, Go
<1>30. ASSUME NEW t \in Thread, AskFails(t) PROVE FileInv'
  BY <1>30 DEF AskFails, Go
<1>31. ASSUME NEW t \in Thread, ReadFails(t) PROVE FileInv'
  BY <1>31 DEF ReadFails, Go
<1>13. ASSUME NEW t \in Thread, ReadLines(t) PROVE FileInv'
  BY <1>13 DEF ReadLines, Go
<1>14. ASSUME NEW t \in Thread, Replace(t) PROVE FileInv'
  <2>1. Kept(t) \subseteq job[t].lines BY DEF Kept, Listed
  <2>2. OnFile' \subseteq Kept(t) BY <1>14 DEF Replace
  <2>3. job[t].lines \subseteq appended BY <1>14 DEF Replace
  <2>4. QED BY <1>14, <2>1, <2>2, <2>3 DEF Replace, Go
<1>15. ASSUME NEW t \in Thread, Release(t) PROVE FileInv'
  BY <1>15 DEF Release, Go, Finish, Published, NoLock
<1>16. ASSUME NEW t \in Thread, NEW sweeps \in BOOLEAN, Poll(t, sweeps) PROVE FileInv'
  BY <1>16 DEF Poll, Swept, Go
<1>17. ASSUME NEW t \in Thread, NEW sweeps \in BOOLEAN, SweepNow(t, sweeps) PROVE FileInv'
  BY <1>17 DEF SweepNow, Swept, Go
<1>18. ASSUME NEW t \in Thread, EndPoll(t) PROVE FileInv'
  BY <1>18 DEF EndPoll, Fresh, Go
<1>19. ASSUME NEW t \in Thread, NEW u \in Envelope, ReadFile(t, u) PROVE FileInv'
  <2>1. \A s \in Thread : job'[s].lines = job[s].lines
    <3>1. \/ job' = [job EXCEPT ![t].at = u, ![t].todo = @ \ {u}]
          \/ job' = [job EXCEPT ![t].todo = @ \ {u}]
      BY <1>19 DEF ReadFile
    <3>2. \A s \in Thread :
            /\ [job EXCEPT ![t].at = u, ![t].todo = @ \ {u}][s].lines = job[s].lines
            /\ [job EXCEPT ![t].todo = @ \ {u}][s].lines = job[s].lines
      BY DEF Job
    <3>3. QED BY <3>1, <3>2
  <2>2. lines' = lines /\ appended' = appended /\ wire' = wire /\ offered' = offered
    BY <1>19 DEF ReadFile
  <2>3. QED BY <2>1, <2>2
<1>20. ASSUME NEW t \in Thread, Offer(t) PROVE FileInv'
  <2>1. \A s \in Thread : job'[s].lines = job[s].lines
    <3>1. job' = job \/ job' = [job EXCEPT ![t].at = 0]
      BY <1>20 DEF Offer
    <3>2. \A s \in Thread : [job EXCEPT ![t].at = 0][s].lines = job[s].lines
      BY DEF Job
    <3>3. QED BY <3>1, <3>2
  <2>2. lines' = lines /\ appended' = appended /\ wire' = wire /\ offered \subseteq offered'
    BY <1>20 DEF Offer
  <2>3. \A v \in offered' \ offered : wire[v] # "none"
    BY <1>20 DEF Offer
  <2>4. QED BY <2>1, <2>2, <2>3
<1>21. ASSUME NEW t \in Thread, NEW u \in Own, Publish(t, u) PROVE FileInv'
  BY <1>21 DEF Publish, Published, Go
<1>22. ASSUME NEW t \in Thread, Show(t) PROVE FileInv'
  BY <1>22 DEF Show, Published, Go
<1>23. ASSUME NEW t \in Thread, ShowFails(t) PROVE FileInv'
  BY <1>23 DEF ShowFails, Go
<1>24. ASSUME NEW t \in Thread, Done(t) PROVE FileInv'
  BY <1>24 DEF Done, Fresh, Go
<1>25. ASSUME NEW p \in Proc, NEW reads \in BOOLEAN, Restart(p, reads) PROVE FileInv'
  BY <1>25 DEF Restart, Fresh
<1>26. CASE GrowOld
  BY <1>26 DEF GrowOld
<1>27. CASE UNCHANGED vars
  BY <1>27 DEF vars
<1>. HIDE DEF FileInv, TypeOK, AtInv
<1>28. ASSUME NEW t \in Thread, Step(t) PROVE FileInv'
  BY <1>4, <1>5, <1>6, <1>7, <1>8, <1>9, <1>10, <1>11, <1>12, <1>13, <1>14, <1>15, <1>16,
     <1>17, <1>18, <1>19, <1>20, <1>22, <1>23, <1>24, <1>30, <1>31,
     <1>28
  DEF Step
<1>29. QED
  BY <1>1, <1>2, <1>3, <1>21, <1>25, <1>26, <1>27, <1>28
  DEF Next

\* Every action keeps what a compaction must not lose.
LEMMA NextCompact == TypeOK /\ AtInv /\ FileInv /\ CompactInv /\ [Next]_vars => CompactInv'
<1>. SUFFICES ASSUME TypeOK, AtInv, FileInv, CompactInv, [Next]_vars PROVE CompactInv'
  OBVIOUS
<1>. USE WireAssumption DEF TypeOK, AtInv, FileInv, CompactInv, Remembered, Excused, Listed, Given,
          Thread, There, OnFile, disk, history, NoLock
<1>1. ASSUME NEW u \in Envelope, Arrive(u) PROVE CompactInv'
  BY <1>1 DEF Arrive
<1>2. ASSUME NEW u \in Envelope, Complete(u) PROVE CompactInv'
  BY <1>2 DEF Complete
<1>3. ASSUME NEW u \in Envelope, Expire(u) PROVE CompactInv'
  BY <1>3 DEF Expire
<1>4. ASSUME NEW t \in Thread, Want(t) PROVE CompactInv'
  BY <1>4 DEF Want, Finish, Published, Go
<1>5. ASSUME NEW t \in Thread, Acquire(t) PROVE CompactInv'
  BY <1>5 DEF Acquire, Entered, Got, Go
<1>6. ASSUME NEW t \in Thread, GiveUp(t) PROVE CompactInv'
  BY <1>6 DEF GiveUp, Entered, Got, Go
<1>7. ASSUME NEW t \in Thread, SeeStale(t) PROVE CompactInv'
  BY <1>7 DEF SeeStale, Entered, Go
<1>8. ASSUME NEW t \in Thread, TakeOver(t) PROVE CompactInv'
  BY <1>8 DEF TakeOver, Got, Go
<1>9. ASSUME NEW t \in Thread, Append(t) PROVE CompactInv'
  <2> DEFINE u == job[t].at
  <2>1. u \in Envelope /\ lines[u] \in Nat /\ wire' = wire /\ job' = job
    BY <1>9 DEF Append
  <2>2. pc'[t] \in {"ask", "release"} /\ \A s \in Thread \ {t} : pc'[s] = pc[s]
    BY <1>9 DEF Append, Go
  <2>3. appended' = appended \cup {u} /\ crossed \subseteq crossed' /\ forgot' = forgot
    BY <1>9 DEF Append
  <2>4. u \notin crossed' => \A s \in Thread \ {t} : ~Overlooks(s, u)
    BY <1>9 DEF Append
  <2>5. OnFile \cup {u} \subseteq OnFile'
    BY <1>9, <2>1 DEF Append
  <2>6. Remembered'
    BY <2>1, <2>3, <2>5
  <2>7. ASSUME NEW s \in Thread, NEW v \in appended' \ Excused', v \in There'
        PROVE  /\ pc'[s] = "lines" => job'[s].blind \/ v \in job'[s].present
               /\ pc'[s] = "replace" => job'[s].blind \/ v \in Listed(s)'
    <3>1. CASE s = t BY <3>1, <2>2
    <3>2. CASE s # t /\ v = u BY <2>7, <3>2, <2>1, <2>2, <2>4 DEF Overlooks
    <3>3. CASE s # t /\ v # u BY <2>7, <3>3, <2>1, <2>2, <2>3
    <3>4. QED BY <3>1, <3>2, <3>3
  <2>8. QED BY <2>6, <2>7
<1>10. ASSUME NEW t \in Thread, AppendFails(t) PROVE CompactInv'
  BY <1>10 DEF AppendFails, Go
<1>11. ASSUME NEW t \in Thread, Ask(t) PROVE CompactInv'
  BY <1>11 DEF Ask, Go
<1>12. ASSUME NEW t \in Thread, NoAnswer(t) PROVE CompactInv'
  BY <1>12 DEF NoAnswer, Go
<1>30. ASSUME NEW t \in Thread, AskFails(t) PROVE CompactInv'
  BY <1>30 DEF AskFails, Go
<1>31. ASSUME NEW t \in Thread, ReadFails(t) PROVE CompactInv'
  BY <1>31 DEF ReadFails, Go
<1>13. ASSUME NEW t \in Thread, ReadLines(t) PROVE CompactInv'
  BY <1>13 DEF ReadLines, Go
<1>14. ASSUME NEW t \in Thread, Replace(t) PROVE CompactInv'
  BY <1>14 DEF Replace, Kept, Go
<1>15. ASSUME NEW t \in Thread, Release(t) PROVE CompactInv'
  BY <1>15 DEF Release, Go, Finish, Published, NoLock
<1>16. ASSUME NEW t \in Thread, NEW sweeps \in BOOLEAN, Poll(t, sweeps) PROVE CompactInv'
  BY <1>16 DEF Poll, Swept, Go
<1>17. ASSUME NEW t \in Thread, NEW sweeps \in BOOLEAN, SweepNow(t, sweeps) PROVE CompactInv'
  BY <1>17 DEF SweepNow, Swept, Go
<1>18. ASSUME NEW t \in Thread, EndPoll(t) PROVE CompactInv'
  BY <1>18 DEF EndPoll, Fresh, Go
<1>19. ASSUME NEW t \in Thread, NEW u \in Envelope, ReadFile(t, u) PROVE CompactInv'
  BY <1>19 DEF ReadFile, WholeFile, Consumed, Go
<1>20. ASSUME NEW t \in Thread, Offer(t) PROVE CompactInv'
  BY <1>20 DEF Offer, Consumed, Go
<1>21. ASSUME NEW t \in Thread, NEW u \in Own, Publish(t, u) PROVE CompactInv'
  BY <1>21 DEF Publish, Published, Go
<1>22. ASSUME NEW t \in Thread, Show(t) PROVE CompactInv'
  BY <1>22 DEF Show, Published, Go
<1>23. ASSUME NEW t \in Thread, ShowFails(t) PROVE CompactInv'
  BY <1>23 DEF ShowFails, Go
<1>24. ASSUME NEW t \in Thread, Done(t) PROVE CompactInv'
  BY <1>24 DEF Done, Fresh, Go
<1>25. ASSUME NEW p \in Proc, NEW reads \in BOOLEAN, Restart(p, reads) PROVE CompactInv'
  BY <1>25 DEF Restart, Fresh
<1>26. CASE GrowOld
  BY <1>26 DEF GrowOld
<1>27. CASE UNCHANGED vars
  BY <1>27 DEF vars
<1>. HIDE DEF CompactInv, TypeOK, AtInv, FileInv
<1>28. ASSUME NEW t \in Thread, Step(t) PROVE CompactInv'
  BY <1>4, <1>5, <1>6, <1>7, <1>8, <1>9, <1>10, <1>11, <1>12, <1>13, <1>14, <1>15, <1>16,
     <1>17, <1>18, <1>19, <1>20, <1>22, <1>23, <1>24, <1>30, <1>31,
     <1>28
  DEF Step
<1>29. QED
  BY <1>1, <1>2, <1>3, <1>21, <1>25, <1>26, <1>27, <1>28
  DEF Next

\* Most actions leave alone what the two invariants are about.
LEMMA PublishSame ==
  ASSUME PublishInv, mine' = mine, publishing' = publishing,
         \A u \in Envelope : wire[u] # "none" => wire'[u] # "none",
         \A s \in Thread : pc'[s] \in {"show", "want"} =>
           s[2] = "poll" \/ (pc[s] \in {"show", "want"} /\ job'[s].at = job[s].at)
  PROVE  PublishInv'
BY DEF PublishInv

LEMMA MineSame ==
  ASSUME MineInv, mine' = mine, crossed \subseteq crossed', forgot' = forgot, \A p \in Proc : ids[p] \subseteq ids'[p],
         \A u \in Envelope : wire[u] = "gone" => wire'[u] = "gone",
         \A s \in Thread : pc[s] = "want" => pc'[s] = "want" /\ job'[s].at = job[s].at,
         TypeOK
  PROVE  MineInv'
<1>1. ASSUME NEW p \in Proc, NEW u \in mine[p] \ Excused'
      PROVE  u \in ids'[p] \/ wire'[u] = "gone" \/ \E t \in Thread : Sending(t, p, u)'
  <2>1. u \in Envelope BY WireAssumption DEF TypeOK
  <2>2. \A t \in Thread : Sending(t, p, u) => Sending(t, p, u)' BY DEF Sending
  <2>3. QED BY <2>1, <2>2 DEF MineInv, Excused
<1>2. QED BY <1>1 DEF MineInv

\* Every action keeps what is published where it is.
LEMMA NextPublish == TypeOK /\ AtInv /\ PublishInv /\ [Next]_vars => PublishInv'
<1>. SUFFICES ASSUME TypeOK, AtInv, PublishInv, [Next]_vars PROVE PublishInv'
  OBVIOUS
<1>. USE WireAssumption DEF TypeOK, AtInv, disk, history
<1>1. ASSUME NEW u \in Envelope, Arrive(u) PROVE PublishInv'
  BY <1>1, PublishSame DEF Arrive
<1>2. ASSUME NEW u \in Envelope, Complete(u) PROVE PublishInv'
  BY <1>2, PublishSame DEF Complete
<1>3. ASSUME NEW u \in Envelope, Expire(u) PROVE PublishInv'
  BY <1>3, PublishSame DEF Expire
<1>4. ASSUME NEW t \in Thread, Want(t) PROVE PublishInv'
  BY <1>4, PublishSame DEF Want, Finish, Published, Go
<1>5. ASSUME NEW t \in Thread, Acquire(t) PROVE PublishInv'
  BY <1>5, PublishSame DEF Acquire, Entered, Got, Go
<1>6. ASSUME NEW t \in Thread, GiveUp(t) PROVE PublishInv'
  BY <1>6, PublishSame DEF GiveUp, Entered, Got, Go
<1>7. ASSUME NEW t \in Thread, SeeStale(t) PROVE PublishInv'
  BY <1>7, PublishSame DEF SeeStale, Entered, Go
<1>8. ASSUME NEW t \in Thread, TakeOver(t) PROVE PublishInv'
  BY <1>8, PublishSame DEF TakeOver, Got, Go
<1>9. ASSUME NEW t \in Thread, Append(t) PROVE PublishInv'
  BY <1>9, PublishSame DEF Append, Go, Overlooks
<1>10. ASSUME NEW t \in Thread, AppendFails(t) PROVE PublishInv'
  BY <1>10, PublishSame DEF AppendFails, Go
<1>11. ASSUME NEW t \in Thread, Ask(t) PROVE PublishInv'
  BY <1>11, PublishSame DEF Ask, Go
<1>12. ASSUME NEW t \in Thread, NoAnswer(t) PROVE PublishInv'
  BY <1>12, PublishSame DEF NoAnswer, Go
<1>30. ASSUME NEW t \in Thread, AskFails(t) PROVE PublishInv'
  BY <1>30, PublishSame DEF AskFails, Go
<1>31. ASSUME NEW t \in Thread, ReadFails(t) PROVE PublishInv'
  BY <1>31, PublishSame DEF ReadFails, Go
<1>13. ASSUME NEW t \in Thread, ReadLines(t) PROVE PublishInv'
  BY <1>13, PublishSame DEF ReadLines, Go
<1>14. ASSUME NEW t \in Thread, Replace(t) PROVE PublishInv'
  BY <1>14, PublishSame DEF Replace, Kept, Go
<1>15. ASSUME NEW t \in Thread, Release(t) PROVE PublishInv'
  BY <1>15, PublishSame DEF Release, Go, Finish, Published, NoLock
<1>16. ASSUME NEW t \in Thread, NEW sweeps \in BOOLEAN, Poll(t, sweeps) PROVE PublishInv'
  BY <1>16, PublishSame DEF Poll, Swept, Go
<1>17. ASSUME NEW t \in Thread, NEW sweeps \in BOOLEAN, SweepNow(t, sweeps) PROVE PublishInv'
  BY <1>17, PublishSame DEF SweepNow, Swept, Go
<1>18. ASSUME NEW t \in Thread, EndPoll(t) PROVE PublishInv'
  BY <1>18, PublishSame DEF EndPoll, Fresh, Go
<1>19. ASSUME NEW t \in Thread, NEW u \in Envelope, ReadFile(t, u) PROVE PublishInv'
  BY <1>19, PublishSame DEF ReadFile, WholeFile, Consumed, Go
<1>20. ASSUME NEW t \in Thread, Offer(t) PROVE PublishInv'
  BY <1>20, PublishSame DEF Offer, Consumed, Go
<1>21. ASSUME NEW t \in Thread, NEW u \in Own, Publish(t, u) PROVE PublishInv'
  <2>1. /\ pc' = [pc EXCEPT ![t] = "show"] /\ job'[t].at = u /\ t[2] = "send"
        /\ publishing' = [publishing EXCEPT ![t[1]] = {u}] /\ mine' = mine /\ wire' = wire
        /\ \A s \in Thread \ {t} : job'[s] = job[s]
    BY <1>21 DEF Publish, Published, Go, Job
  <2>2. ASSUME NEW s \in Thread, s[2] = "send", pc'[s] \in {"show", "want"}
        PROVE  publishing'[s[1]] = {job'[s].at}
    <3>1. CASE s = t BY <2>1, <3>1, ThreadParts
    <3>2. CASE s # t
      <4>1. s[1] # t[1] BY <2>1, <2>2, <3>2, SameThread
      <4>2. QED BY <2>1, <2>2, <3>2, <4>1, ThreadParts DEF PublishInv
    <3>3. QED BY <3>1, <3>2
  <2>3. QED BY <2>1, <2>2 DEF PublishInv
<1>22. ASSUME NEW t \in Thread, Show(t) PROVE PublishInv'
  <2>1. /\ mine' = [mine EXCEPT ![t[1]] = @ \cup {job[t].at}] /\ publishing' = publishing
        /\ wire' = [wire EXCEPT ![job[t].at] = "whole"] /\ job' = job
        /\ pc[t] = "show" /\ pc' = [pc EXCEPT ![t] = "want"]
    BY <1>22 DEF Show, Published, Go
  <2>2. QED BY <2>1, ThreadParts, SMTT(30) DEF PublishInv
<1>23. ASSUME NEW t \in Thread, ShowFails(t) PROVE PublishInv'
  BY <1>23, PublishSame DEF ShowFails, Go
<1>24. ASSUME NEW t \in Thread, Done(t) PROVE PublishInv'
  <2>1. /\ pc[t] = "done" /\ pc' = [pc EXCEPT ![t] = "idle"] /\ mine' = mine /\ wire' = wire
        /\ publishing' = [publishing EXCEPT ![t[1]] = {}]
        /\ \A s \in Thread \ {t} : job'[s] = job[s]
    BY <1>24 DEF Done, Go
  <2>2. t[2] = "send" BY <2>1
  <2>3. QED BY <2>1, <2>2, ThreadParts, SameThread, SMTT(30) DEF PublishInv
<1>25. ASSUME NEW p \in Proc, NEW reads \in BOOLEAN, Restart(p, reads) PROVE PublishInv'
  <2>1. /\ publishing' = [publishing EXCEPT ![p] = {}] /\ mine' = [mine EXCEPT ![p] = {}]
        /\ \A s \in Thread : IF s[1] = p THEN pc'[s] = "idle" ELSE pc'[s] = pc[s] /\ job'[s] = job[s]
        /\ wire' = wire
    BY <1>25 DEF Restart
  <2>2. QED BY <2>1, ThreadParts, SMTT(30) DEF PublishInv
<1>26. CASE GrowOld
  BY <1>26, PublishSame DEF GrowOld
<1>27. CASE UNCHANGED vars
  BY <1>27, PublishSame DEF vars
<1>. HIDE DEF TypeOK, AtInv
<1>28. ASSUME NEW t \in Thread, Step(t) PROVE PublishInv'
  BY <1>4, <1>5, <1>6, <1>7, <1>8, <1>9, <1>10, <1>11, <1>12, <1>13, <1>14, <1>15, <1>16,
     <1>17, <1>18, <1>19, <1>20, <1>22, <1>23, <1>24, <1>30, <1>31,
     <1>28
  DEF Step
<1>29. QED
  BY <1>1, <1>2, <1>3, <1>21, <1>25, <1>26, <1>27, <1>28
  DEF Next

\* Every action keeps what a process remembers of its own.
LEMMA NextMine ==
  TypeOK /\ AtInv /\ FileInv /\ CompactInv /\ PublishInv /\ MineInv /\ [Next]_vars => MineInv'
<1>. SUFFICES ASSUME TypeOK, AtInv, FileInv, CompactInv, PublishInv, MineInv, [Next]_vars
             PROVE  MineInv'
  OBVIOUS
<1>. USE WireAssumption DEF TypeOK, Excused, disk, history
<1>1. ASSUME NEW u \in Envelope, Arrive(u) PROVE MineInv'
  BY <1>1, MineSame DEF Arrive
<1>2. ASSUME NEW u \in Envelope, Complete(u) PROVE MineInv'
  BY <1>2, MineSame DEF Complete
<1>3. ASSUME NEW u \in Envelope, Expire(u) PROVE MineInv'
  BY <1>3, MineSame DEF Expire
<1>4. ASSUME NEW t \in Thread, Want(t) PROVE MineInv'
  <2>1. \/ ids' = ids /\ job[t].at \in ids[t[1]]
        \/ ids' = [ids EXCEPT ![t[1]] = @ \cup {job[t].at}]
    BY <1>4 DEF Want
  <2>2. /\ \A s \in Thread \ {t} : pc'[s] = pc[s]
        /\ job' = job /\ mine' = mine /\ Excused' = Excused /\ wire' = wire
    BY <1>4 DEF Want, Go
  <2>3. QED BY <2>1, <2>2, ThreadParts, SMTT(30) DEF MineInv, Sending
<1>5. ASSUME NEW t \in Thread, Acquire(t) PROVE MineInv'
  BY <1>5, MineSame DEF Acquire, Entered, Got, Go
<1>6. ASSUME NEW t \in Thread, GiveUp(t) PROVE MineInv'
  BY <1>6, MineSame DEF GiveUp, Entered, Got, Go
<1>7. ASSUME NEW t \in Thread, SeeStale(t) PROVE MineInv'
  BY <1>7, MineSame DEF SeeStale, Entered, Go
<1>8. ASSUME NEW t \in Thread, TakeOver(t) PROVE MineInv'
  BY <1>8, MineSame DEF TakeOver, Got, Go
<1>9. ASSUME NEW t \in Thread, Append(t) PROVE MineInv'
  BY <1>9, MineSame DEF Append, Go, Overlooks
<1>10. ASSUME NEW t \in Thread, AppendFails(t) PROVE MineInv'
  BY <1>10, MineSame DEF AppendFails, Go
<1>11. ASSUME NEW t \in Thread, Ask(t) PROVE MineInv'
  BY <1>11, MineSame DEF Ask, Go
<1>12. ASSUME NEW t \in Thread, NoAnswer(t) PROVE MineInv'
  BY <1>12, MineSame DEF NoAnswer, Go
<1>30. ASSUME NEW t \in Thread, AskFails(t) PROVE MineInv'
  BY <1>30, MineSame DEF AskFails, Go
<1>31. ASSUME NEW t \in Thread, ReadFails(t) PROVE MineInv'
  BY <1>31, MineSame DEF ReadFails, Go
<1>13. ASSUME NEW t \in Thread, ReadLines(t) PROVE MineInv'
  BY <1>13, MineSame DEF ReadLines, Go
<1>14. ASSUME NEW t \in Thread, Replace(t) PROVE MineInv'
  <2>1. /\ ids' = [ids EXCEPT ![t[1]] = @ \ (job[t].lines \ Kept(t))] /\ job'[t].at = job[t].at
        /\ \A s \in Thread \ {t} : job'[s] = job[s]
        /\ mine' = mine /\ Excused \subseteq Excused' /\ wire' = wire
    BY <1>14 DEF Replace, Job
  <2>2. \A s \in Thread : pc[s] = "want" => pc'[s] = "want"
    BY <1>14 DEF Replace, Go
  <2>3. ASSUME NEW p \in Proc, NEW u \in mine[p] \ Excused', u \in job[t].lines \ Kept(t)
        PROVE  wire[u] = "gone"
    <3>1. u \in appended \ Excused /\ ~job[t].blind BY <1>14, <2>3 DEF Replace, FileInv
    <3>2. u \notin There BY <1>14, <2>3, <3>1 DEF Replace, CompactInv, Kept
    <3>3. u \in Envelope /\ wire[u] # "none" BY <3>1 DEF PublishInv
    <3>4. QED BY <3>2, <3>3 DEF There
  <2>4. QED BY <2>1, <2>2, <2>3, SMTT(30) DEF MineInv, Sending
<1>15. ASSUME NEW t \in Thread, Release(t) PROVE MineInv'
  BY <1>15, MineSame DEF Release, Go, Finish, Published, NoLock
<1>16. ASSUME NEW t \in Thread, NEW sweeps \in BOOLEAN, Poll(t, sweeps) PROVE MineInv'
  BY <1>16, MineSame DEF Poll, Swept, Go
<1>17. ASSUME NEW t \in Thread, NEW sweeps \in BOOLEAN, SweepNow(t, sweeps) PROVE MineInv'
  BY <1>17, MineSame DEF SweepNow, Swept, Go
<1>18. ASSUME NEW t \in Thread, EndPoll(t) PROVE MineInv'
  BY <1>18, MineSame DEF EndPoll, Fresh, Go
<1>19. ASSUME NEW t \in Thread, NEW u \in Envelope, ReadFile(t, u) PROVE MineInv'
  BY <1>19, MineSame DEF ReadFile, WholeFile, Consumed, Go
<1>20. ASSUME NEW t \in Thread, Offer(t) PROVE MineInv'
  BY <1>20, MineSame DEF Offer, Consumed, Go
<1>21. ASSUME NEW t \in Thread, NEW u \in Own, Publish(t, u) PROVE MineInv'
  BY <1>21, MineSame DEF Publish, Published, Go
<1>22. ASSUME NEW t \in Thread, Show(t) PROVE MineInv'
  <2>1. /\ mine' = [mine EXCEPT ![t[1]] = @ \cup {job[t].at}] /\ Excused' = Excused
        /\ ids' = ids /\ job' = job /\ pc' = [pc EXCEPT ![t] = "want"]
        /\ wire' = [wire EXCEPT ![job[t].at] = "whole"] /\ pc[t] = "show"
    BY <1>22 DEF Show, Published, Go
  <2>2. t[2] = "send" /\ t[1] \in Proc /\ wire[job[t].at] = "none"
    BY <2>1, ThreadParts DEF AtInv
  <2>3. QED BY <2>1, <2>2, SMTT(30) DEF MineInv, Sending
<1>23. ASSUME NEW t \in Thread, ShowFails(t) PROVE MineInv'
  BY <1>23, MineSame DEF ShowFails, Go
<1>24. ASSUME NEW t \in Thread, Done(t) PROVE MineInv'
  BY <1>24, MineSame DEF Done, Fresh, Go
<1>25. ASSUME NEW p \in Proc, NEW reads \in BOOLEAN, Restart(p, reads) PROVE MineInv'
  <2>1. /\ mine' = [mine EXCEPT ![p] = {}] /\ Excused' = Excused /\ wire' = wire
        /\ \A s \in Thread : s[1] # p => pc'[s] = pc[s] /\ job'[s] = job[s]
        /\ \A q \in Proc \ {p} : ids'[q] = ids[q]
    BY <1>25 DEF Restart
  <2>2. ASSUME NEW q \in Proc, NEW u \in mine'[q] \ Excused
        PROVE  u \in ids'[q] \/ wire'[u] = "gone" \/ \E t \in Thread : Sending(t, q, u)'
    <3>1. q # p /\ u \in mine[q] BY <2>1, <2>2
    <3>2. \A t \in Thread : Sending(t, q, u) => Sending(t, q, u)'
      BY <2>1, <3>1 DEF Sending
    <3>3. QED BY <2>1, <2>2, <3>1, <3>2 DEF MineInv
  <2>3. QED BY <2>1, <2>2 DEF MineInv
<1>26. CASE GrowOld
  BY <1>26, MineSame DEF GrowOld
<1>27. CASE UNCHANGED vars
  BY <1>27, MineSame DEF vars
<1>. HIDE DEF TypeOK
<1>28. ASSUME NEW t \in Thread, Step(t) PROVE MineInv'
  BY <1>4, <1>5, <1>6, <1>7, <1>8, <1>9, <1>10, <1>11, <1>12, <1>13, <1>14, <1>15, <1>16,
     <1>17, <1>18, <1>19, <1>20, <1>22, <1>23, <1>24, <1>30, <1>31,
     <1>28
  DEF Step
<1>29. QED
  BY <1>1, <1>2, <1>3, <1>21, <1>25, <1>26, <1>27, <1>28
  DEF Next

\* No action offers a process its own.
LEMMA NextOffer == TypeOK /\ AtInv /\ PublishInv /\ MineInv /\ OfferInv /\ [Next]_vars => OfferInv'
<1>. SUFFICES ASSUME TypeOK, AtInv, PublishInv, MineInv, OfferInv, [Next]_vars PROVE OfferInv'
  OBVIOUS
<1>. USE WireAssumption DEF TypeOK, OfferInv, Excused, disk, history
<1>1. ASSUME NEW u \in Envelope, Arrive(u) PROVE OfferInv'
  BY <1>1 DEF Arrive
<1>2. ASSUME NEW u \in Envelope, Complete(u) PROVE OfferInv'
  BY <1>2 DEF Complete
<1>3. ASSUME NEW u \in Envelope, Expire(u) PROVE OfferInv'
  BY <1>3 DEF Expire
<1>4. ASSUME NEW t \in Thread, Want(t) PROVE OfferInv'
  BY <1>4 DEF Want, Finish, Published, Go
<1>5. ASSUME NEW t \in Thread, Acquire(t) PROVE OfferInv'
  BY <1>5 DEF Acquire, Entered, Got, Go
<1>6. ASSUME NEW t \in Thread, GiveUp(t) PROVE OfferInv'
  BY <1>6 DEF GiveUp, Entered, Got, Go
<1>7. ASSUME NEW t \in Thread, SeeStale(t) PROVE OfferInv'
  BY <1>7 DEF SeeStale, Entered, Go
<1>8. ASSUME NEW t \in Thread, TakeOver(t) PROVE OfferInv'
  BY <1>8 DEF TakeOver, Got, Go
<1>9. ASSUME NEW t \in Thread, Append(t) PROVE OfferInv'
  BY <1>9 DEF Append, Go, Overlooks
<1>10. ASSUME NEW t \in Thread, AppendFails(t) PROVE OfferInv'
  BY <1>10 DEF AppendFails, Go
<1>11. ASSUME NEW t \in Thread, Ask(t) PROVE OfferInv'
  BY <1>11 DEF Ask, Go
<1>12. ASSUME NEW t \in Thread, NoAnswer(t) PROVE OfferInv'
  BY <1>12 DEF NoAnswer, Go
<1>30. ASSUME NEW t \in Thread, AskFails(t) PROVE OfferInv'
  BY <1>30 DEF AskFails, Go
<1>31. ASSUME NEW t \in Thread, ReadFails(t) PROVE OfferInv'
  BY <1>31 DEF ReadFails, Go
<1>13. ASSUME NEW t \in Thread, ReadLines(t) PROVE OfferInv'
  BY <1>13 DEF ReadLines, Go
<1>14. ASSUME NEW t \in Thread, Replace(t) PROVE OfferInv'
  BY <1>14 DEF Replace, Kept, Go
<1>15. ASSUME NEW t \in Thread, Release(t) PROVE OfferInv'
  BY <1>15 DEF Release, Go, Finish, Published, NoLock
<1>16. ASSUME NEW t \in Thread, NEW sweeps \in BOOLEAN, Poll(t, sweeps) PROVE OfferInv'
  BY <1>16 DEF Poll, Swept, Go
<1>17. ASSUME NEW t \in Thread, NEW sweeps \in BOOLEAN, SweepNow(t, sweeps) PROVE OfferInv'
  BY <1>17 DEF SweepNow, Swept, Go
<1>18. ASSUME NEW t \in Thread, EndPoll(t) PROVE OfferInv'
  BY <1>18 DEF EndPoll, Fresh, Go
<1>19. ASSUME NEW t \in Thread, NEW u \in Envelope, ReadFile(t, u) PROVE OfferInv'
  <2>1. t[2] = "poll" /\ t[1] \in Proc BY <1>19, ThreadParts DEF ReadFile
  <2>2. CASE ~Consumed(t[1], u) /\ WholeFile(u)
    <3>1. wire[u] \in {"whole", "old"} /\ u \notin publishing[t[1]] \cup ids[t[1]]
      BY <2>2 DEF Consumed, WholeFile
    <3>2. u \notin mine[t[1]] \ Excused
      BY <2>1, <3>1 DEF MineInv, PublishInv, Sending
    <3>3. /\ pc' = [pc EXCEPT ![t] = "offer"] /\ job'[t].at = u
          /\ \A s \in Thread \ {t} : job'[s] = job[s]
      BY <1>19, <2>2 DEF ReadFile, Go, Job
    <3>4. mine' = mine /\ Excused' = Excused BY <1>19 DEF ReadFile
    <3>5. QED BY <3>2, <3>3, <3>4
  <2>3. CASE ~(~Consumed(t[1], u) /\ WholeFile(u))
    <3>1. pc' = pc /\ \A s \in Thread : job'[s].at = job[s].at
      <4>1. pc' = pc /\ job' = [job EXCEPT ![t].todo = @ \ {u}]
        BY <1>19, <2>3 DEF ReadFile
      <4>2. \A s \in Thread : [job EXCEPT ![t].todo = @ \ {u}][s].at = job[s].at
        BY DEF Job
      <4>3. QED BY <4>1, <4>2
    <3>2. mine' = mine /\ Excused' = Excused BY <1>19 DEF ReadFile
    <3>3. QED BY <3>1, <3>2
  <2>4. QED BY <2>2, <2>3
<1>20. ASSUME NEW t \in Thread, Offer(t) PROVE OfferInv'
  BY <1>20 DEF Offer, Consumed, Go
<1>21. ASSUME NEW t \in Thread, NEW u \in Own, Publish(t, u) PROVE OfferInv'
  BY <1>21 DEF Publish, Published, Go
<1>22. ASSUME NEW t \in Thread, Show(t) PROVE OfferInv'
  <2>1. /\ mine' = [mine EXCEPT ![t[1]] = @ \cup {job[t].at}] /\ Excused' = Excused
        /\ job' = job /\ pc[t] = "show" /\ pc' = [pc EXCEPT ![t] = "want"]
    BY <1>22 DEF Show, Published, Go
  <2>2. \A s \in Thread : pc[s] = "offer" => job[s].at # job[t].at
    BY <2>1 DEF AtInv
  <2>3. QED BY <2>1, <2>2, ThreadParts
<1>23. ASSUME NEW t \in Thread, ShowFails(t) PROVE OfferInv'
  BY <1>23 DEF ShowFails, Go
<1>24. ASSUME NEW t \in Thread, Done(t) PROVE OfferInv'
  BY <1>24 DEF Done, Fresh, Go
<1>25. ASSUME NEW p \in Proc, NEW reads \in BOOLEAN, Restart(p, reads) PROVE OfferInv'
  BY <1>25 DEF Restart, Fresh
<1>26. CASE GrowOld
  BY <1>26 DEF GrowOld
<1>27. CASE UNCHANGED vars
  BY <1>27 DEF vars
<1>. HIDE DEF OfferInv, TypeOK
<1>28. ASSUME NEW t \in Thread, Step(t) PROVE OfferInv'
  BY <1>4, <1>5, <1>6, <1>7, <1>8, <1>9, <1>10, <1>11, <1>12, <1>13, <1>14, <1>15, <1>16,
     <1>17, <1>18, <1>19, <1>20, <1>22, <1>23, <1>24, <1>30, <1>31,
     <1>28
  DEF Step
<1>29. QED
  BY <1>1, <1>2, <1>3, <1>21, <1>25, <1>26, <1>27, <1>28
  DEF Next

\* No action but an offer can echo, and that is refused.
LEMMA NextEcho == TypeOK /\ OfferInv /\ NoEcho /\ [Next]_vars => NoEcho'
<1>. SUFFICES ASSUME TypeOK, OfferInv, NoEcho, [Next]_vars PROVE NoEcho'
  OBVIOUS
<1>. USE WireAssumption DEF TypeOK, OfferInv, NoEcho, Excused, disk, history
<1>1. ASSUME NEW u \in Envelope, Arrive(u) PROVE NoEcho'
  BY <1>1 DEF Arrive
<1>2. ASSUME NEW u \in Envelope, Complete(u) PROVE NoEcho'
  BY <1>2 DEF Complete
<1>3. ASSUME NEW u \in Envelope, Expire(u) PROVE NoEcho'
  BY <1>3 DEF Expire
<1>4. ASSUME NEW t \in Thread, Want(t) PROVE NoEcho'
  BY <1>4 DEF Want, Finish, Published, Go
<1>5. ASSUME NEW t \in Thread, Acquire(t) PROVE NoEcho'
  BY <1>5 DEF Acquire, Entered, Got, Go
<1>6. ASSUME NEW t \in Thread, GiveUp(t) PROVE NoEcho'
  BY <1>6 DEF GiveUp, Entered, Got, Go
<1>7. ASSUME NEW t \in Thread, SeeStale(t) PROVE NoEcho'
  BY <1>7 DEF SeeStale, Entered, Go
<1>8. ASSUME NEW t \in Thread, TakeOver(t) PROVE NoEcho'
  BY <1>8 DEF TakeOver, Got, Go
<1>9. ASSUME NEW t \in Thread, Append(t) PROVE NoEcho'
  BY <1>9 DEF Append, Go, Overlooks
<1>10. ASSUME NEW t \in Thread, AppendFails(t) PROVE NoEcho'
  BY <1>10 DEF AppendFails, Go
<1>11. ASSUME NEW t \in Thread, Ask(t) PROVE NoEcho'
  BY <1>11 DEF Ask, Go
<1>12. ASSUME NEW t \in Thread, NoAnswer(t) PROVE NoEcho'
  BY <1>12 DEF NoAnswer, Go
<1>30. ASSUME NEW t \in Thread, AskFails(t) PROVE NoEcho'
  BY <1>30 DEF AskFails, Go
<1>31. ASSUME NEW t \in Thread, ReadFails(t) PROVE NoEcho'
  BY <1>31 DEF ReadFails, Go
<1>13. ASSUME NEW t \in Thread, ReadLines(t) PROVE NoEcho'
  BY <1>13 DEF ReadLines, Go
<1>14. ASSUME NEW t \in Thread, Replace(t) PROVE NoEcho'
  BY <1>14 DEF Replace, Kept, Go
<1>15. ASSUME NEW t \in Thread, Release(t) PROVE NoEcho'
  BY <1>15 DEF Release, Go, Finish, Published, NoLock
<1>16. ASSUME NEW t \in Thread, NEW sweeps \in BOOLEAN, Poll(t, sweeps) PROVE NoEcho'
  BY <1>16 DEF Poll, Swept, Go
<1>17. ASSUME NEW t \in Thread, NEW sweeps \in BOOLEAN, SweepNow(t, sweeps) PROVE NoEcho'
  BY <1>17 DEF SweepNow, Swept, Go
<1>18. ASSUME NEW t \in Thread, EndPoll(t) PROVE NoEcho'
  BY <1>18 DEF EndPoll, Fresh, Go
<1>19. ASSUME NEW t \in Thread, NEW u \in Envelope, ReadFile(t, u) PROVE NoEcho'
  BY <1>19 DEF ReadFile, WholeFile, Consumed, Go
<1>20. ASSUME NEW t \in Thread, Offer(t) PROVE NoEcho'
  BY <1>20 DEF Offer, Consumed, Go
<1>21. ASSUME NEW t \in Thread, NEW u \in Own, Publish(t, u) PROVE NoEcho'
  BY <1>21 DEF Publish, Published, Go
<1>22. ASSUME NEW t \in Thread, Show(t) PROVE NoEcho'
  BY <1>22 DEF Show, Published, Go
<1>23. ASSUME NEW t \in Thread, ShowFails(t) PROVE NoEcho'
  BY <1>23 DEF ShowFails, Go
<1>24. ASSUME NEW t \in Thread, Done(t) PROVE NoEcho'
  BY <1>24 DEF Done, Fresh, Go
<1>25. ASSUME NEW p \in Proc, NEW reads \in BOOLEAN, Restart(p, reads) PROVE NoEcho'
  BY <1>25 DEF Restart, Fresh
<1>26. CASE GrowOld
  BY <1>26 DEF GrowOld
<1>27. CASE UNCHANGED vars
  BY <1>27 DEF vars
<1>. HIDE DEF NoEcho, TypeOK, OfferInv
<1>28. ASSUME NEW t \in Thread, Step(t) PROVE NoEcho'
  BY <1>4, <1>5, <1>6, <1>7, <1>8, <1>9, <1>10, <1>11, <1>12, <1>13, <1>14, <1>15, <1>16,
     <1>17, <1>18, <1>19, <1>20, <1>22, <1>23, <1>24, <1>30, <1>31,
     <1>28
  DEF Step
<1>29. QED
  BY <1>1, <1>2, <1>3, <1>21, <1>25, <1>26, <1>27, <1>28
  DEF Next

LEMMA WireAlways == Spec => []WireInv
<1>1. WireInv /\ [Next]_vars => WireInv'
  BY NextTypes, NextAt, NextFile, NextCompact, NextPublish, NextMine, NextOffer DEF WireInv
<1>2. QED BY <1>1, InitWire, PTL DEF Spec

\* The variables, and what a thread holds in its own, keep their types.
THEOREM WireTypes == Spec => []TypeOK
BY WireAlways, PTL DEF WireInv

\* Whatever dies, and however locks are stolen, the ledger names no envelope that nobody
\* was given and nobody published (ledger.py, record; folder.py, poll and publish).
THEOREM NotSwallowed == Spec => []NothingSwallowed
<1>1. WireInv => NothingSwallowed
  BY DEF WireInv, FileInv, Given, NothingSwallowed
<1>2. QED BY <1>1, WireAlways, PTL

\* A compaction loses no id whose envelope is still on the wire, at any cap and however
\* many run at once, except an id appended in the middle of one, and what one drops that could not list the
\* folder or read the ledger (ledger.py, _compact).
THEOREM StillRemembered == Spec => []Remembered
<1>1. WireInv => Remembered BY DEF WireInv, CompactInv
<1>2. QED BY <1>1, WireAlways, PTL

\* What a process published does not come back to it as mail, with the same exceptions
\* (folder.py, publish: recorded after the rename, with the id in _publishing till then).
THEOREM NotEchoed == Spec => []NoEcho
<1>1. Init => NoEcho BY DEF Init, NoEcho
<1>2. WireInv /\ NoEcho /\ [Next]_vars => NoEcho'
  BY NextEcho DEF WireInv
<1>3. QED BY <1>1, <1>2, WireAlways, PTL DEF Spec
=============================================================================
