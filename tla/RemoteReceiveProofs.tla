------------------------- MODULE RemoteReceiveProofs -------------------------
(***************************************************************************)
(* Proofs about RemoteReceive, for any workers, processes, envelopes,      *)
(* clocks and restarts: no envelope is taken or written twice, no echo is  *)
(* delivered, receipts are honest and every recipient is accounted for.    *)
(***************************************************************************)
EXTENDS RemoteReceive, FiniteSetTheorems, TLAPS

\* A worker that is not idle has an envelope.
Busy == \A w \in Worker : pc[w] # "idle" => cur[w] \in wire

\* No envelope is minted further ahead than Ahead, and a remembered id was on the
\* wire when it got its stamp.
TableInv ==
  /\ \A m \in wire : mint[m] <= now + Ahead
  /\ \A m \in seen : m \in wire /\ seenAt[m] <= now /\ mint[m] <= seenAt[m] + Ahead

\* The windows in which an envelope may be admitted: dedup_days may change.
Windows(m) == IF KindOf[m] = "receipt" THEN {ReceiptDays} ELSE DayChoices

\* What a worker knows between the age check and the insert.
AdmittedInv ==
  \A w \in Worker : pc[w] = "insert" =>
    /\ checked[w] <= now /\ now <= checked[w] + Lag
    /\ mint[cur[w]] <= checked[w] + Ahead
    /\ \E d \in Windows(cur[w]) : checked[w] <= mint[cur[w]] + d

\* Whatever dedup_days is set to, no worker can have admitted the envelope in time to
\* insert it now or later.
TooOld(m) == \A d \in Windows(m) : mint[m] + d + Lag < now

\* An envelope was taken once more than the store failed at most, and only while
\* its id is remembered or nobody admits it any more.
TakenInv ==
  \A m \in Msg :
    /\ taken[m] <= errs[m] + 1
    /\ taken[m] = errs[m] + 1 => m \in seen \/ TooOld(m)
    /\ m \notin wire => taken[m] = 0

ReceiveInv == TypeOK /\ Busy /\ TableInv /\ AdmittedInv /\ TakenInv

\* At first every worker is idle and every table empty.
LEMMA InitTypes == Init => TypeOK /\ Busy
BY ReceiveAssumption DEF Init, TypeOK, Busy, Steps

\* The inbox write and the drop keep the types of what they change.
LEMMA WriteTypes ==
  ASSUME TypeOK, NEW m \in Msg, NEW a \in Agent, InInbox(m, a) \/ Dropped(m, a)
  PROVE  /\ inbox' \in [Agent -> SUBSET Msg] /\ writes' \in [Msg -> [Agent -> Nat]]
         /\ rows' \subseteq Events \X Msg \X (Agent \cup {"message"})
<1>1. inbox' \in [Agent -> SUBSET Msg]
  <2>1. inbox' = inbox \/ inbox' = [inbox EXCEPT ![a] = inbox[a] \cup {m}]
    BY DEF InInbox, Dropped
  <2>2. inbox \in [Agent -> SUBSET Msg] /\ inbox[a] \cup {m} \in SUBSET Msg
    BY DEF TypeOK
  <2>3. QED BY <2>1, <2>2
<1>2. writes' \in [Msg -> [Agent -> Nat]]
  <2>1. writes[m] \in [Agent -> Nat] /\ writes[m][a] + 1 \in Nat
    BY DEF TypeOK
  <2>2. [writes[m] EXCEPT ![a] = @ + 1] \in [Agent -> Nat]
    BY <2>1
  <2>3. writes' = writes
        \/ writes' = [writes EXCEPT ![m] = [writes[m] EXCEPT ![a] = @ + 1]]
    BY DEF InInbox, Dropped, TypeOK
  <2>4. QED BY <2>2, <2>3 DEF TypeOK
<1>3. rows' \subseteq Events \X Msg \X (Agent \cup {"message"})
  BY DEF TypeOK, InInbox, Dropped, Events
<1>4. QED BY <1>1, <1>2, <1>3

\* So do an insert and a failed one.
LEMMA InsertTypes ==
  ASSUME TypeOK, NEW m \in Msg, NEW t \in Nat, AddRow(m, t) \/ NoRow(m)
  PROVE  /\ seen' \subseteq Msg /\ seenAt' \in [Msg -> Nat]
         /\ taken' \in [Msg -> Nat] /\ errs' \in [Msg -> 0 .. MaxErrors]
<1>1. seen' \subseteq Msg /\ seenAt' \in [Msg -> Nat]
  BY DEF TypeOK, AddRow, NoRow
<1>2. taken' = [taken EXCEPT ![m] = @ + 1] /\ taken[m] + 1 \in Nat
  BY DEF TypeOK, AddRow, NoRow
<1>3. taken' \in [Msg -> Nat]
  BY <1>2 DEF TypeOK
<1>4. errs' \in [Msg -> 0 .. MaxErrors]
  <2>1. CASE AddRow(m, t) BY <2>1 DEF TypeOK, AddRow
  <2>2. CASE NoRow(m)
    <3>1. errs[m] + 1 \in 0 .. MaxErrors
      BY <2>2, ReceiveAssumption DEF TypeOK, NoRow
    <3>2. QED BY <2>2, <3>1 DEF TypeOK, NoRow
  <2>3. QED BY <2>1, <2>2
<1>5. QED BY <1>1, <1>3, <1>4

\* Every step keeps the types, and a worker out of idle an envelope.
LEMMA TypeStep == TypeOK /\ Busy /\ [Next]_vars => TypeOK' /\ Busy'
<1> SUFFICES ASSUME TypeOK, Busy, [Next]_vars PROVE TypeOK' /\ Busy'
  OBVIOUS
<1> USE ReceiveAssumption DEF table, local, mail, vars, Go
<1>1. CASE Tick
  BY <1>1 DEF Tick, TypeOK, Busy
<1>2. ASSUME NEW d \in DayChoices, Configure(d) PROVE TypeOK' /\ Busy'
  BY <1>2 DEF Configure, TypeOK, Busy
<1>3. ASSUME NEW m \in Msg, Send(m) PROVE TypeOK' /\ Busy'
  BY <1>3 DEF Send, TypeOK, Busy
<1>4. ASSUME NEW m \in Msg, PublishOwn(m) PROVE TypeOK' /\ Busy'
  <2>1. now \in Nat BY DEF TypeOK
  <2>2. AddRow(m, now) \/ NoRow(m) BY <1>4 DEF PublishOwn
  <2>3. /\ seen' \subseteq Msg /\ seenAt' \in [Msg -> Nat]
        /\ taken' \in [Msg -> Nat] /\ errs' \in [Msg -> 0 .. MaxErrors]
    BY <2>1, <2>2, InsertTypes
  <2>4. mint' \in [Msg -> Nat] BY <1>4 DEF PublishOwn, TypeOK
  <2>5. QED BY <1>4, <2>3, <2>4 DEF PublishOwn, TypeOK, Busy
<1>5. ASSUME NEW w \in Worker, NEW m \in wire, Refuse(w, m) PROVE TypeOK' /\ Busy'
  BY <1>5 DEF Refuse, TypeOK, Busy, Events
<1>6. ASSUME NEW w \in Worker, NEW m \in wire, Admit(w, m) PROVE TypeOK' /\ Busy'
  BY <1>6 DEF Admit, TypeOK, Busy, Steps
<1>7. ASSUME NEW w \in Worker, Insert(w) PROVE TypeOK' /\ Busy'
  <2>0. cur[w] \in Msg BY <1>7 DEF Insert, Busy, TypeOK
  <2>1. seen' \subseteq Msg /\ seenAt' \in [Msg -> Nat]
        /\ taken' \in [Msg -> Nat] /\ errs' \in [Msg -> 0 .. MaxErrors]
    <3>1. checked[w] \in Nat /\ now \in Nat BY DEF TypeOK
    <3>2. CASE \E t \in checked[w] .. now : AddRow(cur[w], t)
      BY <2>0, <3>1, <3>2, InsertTypes
    <3>3. CASE NoRow(cur[w])
      BY <2>0, <3>1, <3>3, InsertTypes
    <3>4. CASE UNCHANGED table BY <3>4 DEF TypeOK
    <3>5. QED BY <1>7, <3>2, <3>3, <3>4 DEF Insert
  <2>2. pc' \in [Worker -> Steps] /\ won' \in [Worker -> BOOLEAN]
        /\ checked' \in [Worker -> Nat]
    BY <1>7 DEF Insert, TypeOK, Steps
  <2>3. Busy' BY <1>7 DEF Insert, Busy, TypeOK
  <2>4. QED BY <1>7, <2>1, <2>2, <2>3 DEF Insert, TypeOK
<1>8. ASSUME NEW w \in Worker, Expire(w) PROVE TypeOK' /\ Busy'
  <2>0. cur[w] \in Msg BY <1>8 DEF Expire, Busy, TypeOK
  <2>1. seen' \subseteq Msg /\ seenAt' \in [Msg -> Nat]
    BY <1>8 DEF Expire, Aged, TypeOK
  <2>2. pc' \in [Worker -> Steps] /\ won' \in [Worker -> BOOLEAN]
    BY <1>8 DEF Expire, TypeOK, Steps
  <2>3. todo' \in [Worker -> SUBSET Agent] /\ cur' \in [Worker -> Msg \cup {None}]
    <3>1. To[cur[w]] \in SUBSET Agent BY <2>0
    <3>2. /\ todo' = todo \/ todo' = [todo EXCEPT ![w] = To[cur[w]]]
          /\ cur' = cur \/ cur' = [cur EXCEPT ![w] = None]
      BY <1>8 DEF Expire
    <3>3. QED BY <3>1, <3>2 DEF TypeOK
  <2>4. rows' \subseteq Events \X Msg \X (Agent \cup {"message"})
    BY <1>8, <2>0 DEF Expire, TypeOK, Events
  <2>5. Busy' BY <1>8 DEF Expire, Busy, TypeOK
  <2>6. QED BY <1>8, <2>1, <2>2, <2>3, <2>4, <2>5 DEF Expire, TypeOK
<1>9. ASSUME NEW w \in Worker, Deliver(w) PROVE TypeOK' /\ Busy'
  <2>0. cur[w] \in Msg BY <1>9 DEF Deliver, Busy, TypeOK
  <2> PICK a \in todo[w] :
        /\ todo' = [todo EXCEPT ![w] = @ \ {a}]
        /\ \/ /\ InInbox(cur[w], a) /\ got' = [got EXCEPT ![w] = @ \cup {a}]
              /\ UNCHANGED <<jobs, receipts>>
           \/ /\ KindOf[cur[w]] = "files" /\ InInbox(cur[w], a)
              /\ got' = [got EXCEPT ![w] = @ \cup {a}]
              /\ receipts' = receipts \cup {<<cur[w], a, "attachment_failed">>}
              /\ UNCHANGED jobs
           \/ Dropped(cur[w], a) /\ UNCHANGED <<got, jobs, receipts>>
           \/ /\ KindOf[cur[w]] = "files"
              /\ jobs' = jobs \cup {<<ProcOf[w], cur[w], a>>}
              /\ UNCHANGED <<got, inbox, writes, rows, receipts>>
    BY <1>9 DEF Deliver
  <2>1. a \in Agent BY DEF TypeOK
  <2>2. todo' \in [Worker -> SUBSET Agent] /\ got' \in [Worker -> SUBSET Agent]
    <3>1. todo[w] \ {a} \in SUBSET Agent /\ got[w] \cup {a} \in SUBSET Agent
      BY <2>1 DEF TypeOK
    <3>2. got' = got \/ got' = [got EXCEPT ![w] = got[w] \cup {a}]
      BY DEF TypeOK
    <3>3. todo \in [Worker -> SUBSET Agent] /\ got \in [Worker -> SUBSET Agent]
      BY DEF TypeOK
    <3>4. todo' = [todo EXCEPT ![w] = todo[w] \ {a}]
      OBVIOUS
    <3>5. todo' \in [Worker -> SUBSET Agent]
      BY <3>1, <3>3, <3>4
    <3>6. QED BY <3>1, <3>2, <3>3, <3>5
  <2>3. /\ inbox' \in [Agent -> SUBSET Msg] /\ writes' \in [Msg -> [Agent -> Nat]]
        /\ rows' \subseteq Events \X Msg \X (Agent \cup {"message"})
    <3>1. CASE InInbox(cur[w], a) \/ Dropped(cur[w], a)
      BY <2>0, <2>1, <3>1, WriteTypes
    <3>2. CASE UNCHANGED <<inbox, writes, rows>>
      BY <3>2 DEF TypeOK
    <3>3. QED BY <3>1, <3>2
  <2>4. receipts' \subseteq Msg \X Agent \X Stages
    BY <2>0, <2>1 DEF TypeOK, Stages
  <2>5. jobs' \subseteq Process \X Msg \X Agent /\ running' \subseteq jobs'
    BY <1>9, <2>0, <2>1 DEF TypeOK, Deliver
  <2>6. QED BY <1>9, <2>2, <2>3, <2>4, <2>5 DEF Deliver, TypeOK, Busy
<1>10. ASSUME NEW w \in Worker, Receipt(w) PROVE TypeOK' /\ Busy'
  <2>0. cur[w] \in Msg BY <1>10 DEF Receipt, Busy, TypeOK
  <2>1. receipts' \subseteq Msg \X Agent \X Stages
    BY <1>10, <2>0 DEF Receipt, TypeOK, Stages
  <2>2. QED BY <1>10, <2>1 DEF Receipt, TypeOK, Busy, Steps
<1>11. ASSUME NEW p \in Process, NEW j \in {p} \X Msg \X Agent, StartWait(j)
       PROVE TypeOK' /\ Busy'
  BY <1>11 DEF StartWait, TypeOK, Busy
<1>12. ASSUME NEW p \in Process, NEW j \in {p} \X Msg \X Agent, FinishWait(j)
       PROVE TypeOK' /\ Busy'
  <2>0. j[2] \in Msg /\ j[3] \in Agent OBVIOUS
  <2>1. InInbox(j[2], j[3]) \/ Dropped(j[2], j[3])
    BY <1>12 DEF FinishWait
  <2>2. /\ inbox' \in [Agent -> SUBSET Msg] /\ writes' \in [Msg -> [Agent -> Nat]]
        /\ rows' \subseteq Events \X Msg \X (Agent \cup {"message"})
    BY <2>0, <2>1, WriteTypes
  <2>3. receipts' \subseteq Msg \X Agent \X Stages
    BY <1>12, <2>0 DEF TypeOK, FinishWait
  <2>4. QED BY <1>12, <2>2, <2>3 DEF FinishWait, TypeOK, Busy
<1>13. ASSUME NEW p \in Process, Restart(p) PROVE TypeOK' /\ Busy'
  <2>1. lost' \subseteq Msg \X Agent
    <3>1. ASSUME NEW w \in Worker, pc[w] # "idle" PROVE cur[w] \in Msg
      BY <3>1 DEF Busy, TypeOK
    <3>2. QED BY <1>13, <3>1 DEF Restart, TypeOK
  <2>2. pc' \in [Worker -> Steps] /\ cur' \in [Worker -> Msg \cup {None}]
        /\ checked' \in [Worker -> Nat] /\ won' \in [Worker -> BOOLEAN]
    BY <1>13 DEF Restart, TypeOK, Steps
  <2>3. todo' \in [Worker -> SUBSET Agent] /\ got' \in [Worker -> SUBSET Agent]
    BY <1>13 DEF Restart, TypeOK
  <2>4. jobs' \subseteq Process \X Msg \X Agent /\ running' \subseteq jobs'
    BY <1>13 DEF Restart, TypeOK
  <2>5. Busy' BY <1>13 DEF Restart, Busy, TypeOK
  <2>6. restarts' \in 0 .. MaxRestarts
    BY <1>13 DEF Restart, TypeOK
  <2>7. QED BY <1>13, <2>1, <2>2, <2>3, <2>4, <2>5, <2>6 DEF Restart, TypeOK
<1>14. ASSUME NEW a \in Agent, NEW m \in Msg, Read(a, m) PROVE TypeOK' /\ Busy'
  BY <1>14 DEF Read, TypeOK, Busy
<1>15. CASE UNCHANGED vars
  BY <1>15 DEF TypeOK, Busy
<1>16. QED
  BY <1>1, <1>2, <1>3, <1>4, <1>5, <1>6, <1>7, <1>8, <1>9, <1>10, <1>11, <1>12,
     <1>13, <1>14, <1>15 DEF Next, Receive, Work, Wait

(***************************************************************************)
(* One taker.                                                              *)
(***************************************************************************)
\* The margin covers the sender's clock, the time a worker takes, and what dedup_days
\* may be raised by.
Margin == \A d, e \in DayChoices : d + Ahead + Lag <= e + ClockSkew

\* At first nothing is remembered, taken or admitted.
LEMMA InitReceive == Init => ReceiveInv
<1> SUFFICES ASSUME Init PROVE ReceiveInv
  OBVIOUS
<1>1. TypeOK /\ Busy BY InitTypes
<1>2. TableInv BY DEF Init, TableInv
<1>3. AdmittedInv BY DEF Init, AdmittedInv
<1>4. TakenInv BY DEF Init, TakenInv
<1>5. QED BY <1>1, <1>2, <1>3, <1>4 DEF ReceiveInv

\* Every step keeps the rest: an insert of a forgotten id comes too late, as the
\* expiry drops an id only once nobody can have admitted it (TooOld).
LEMMA TakenStep ==
  ASSUME Margin, ReceiveInv, [Next]_vars
  PROVE  TableInv' /\ AdmittedInv' /\ TakenInv'
<1> USE ReceiveAssumption
<1>a. TypeOK /\ TypeOK' /\ Busy
  BY TypeStep DEF ReceiveInv
<1>b. ASSUME NEW m \in Msg
      PROVE  Windows(m) \subseteq Nat /\ AdmitDays(m) \in Windows(m) /\ AdmitDays(m) \in Nat
  BY <1>a DEF Windows, AdmitDays, TypeOK
<1>c. ASSUME NEW m \in Msg, NEW d \in Windows(m)
      PROVE  d + Ahead + Lag <= AdmitDays(m) + ClockSkew
  <2>1. PICK e \in DayChoices : TRUE
    OBVIOUS
  <2>2. Ahead + Lag <= ClockSkew
    BY <2>1 DEF Margin
  <2>3. CASE KindOf[m] = "receipt"
    BY <2>2, <2>3 DEF Windows, AdmitDays
  <2>4. CASE KindOf[m] # "receipt"
    BY <1>a, <2>4 DEF Windows, AdmitDays, Margin, TypeOK
  <2>5. QED BY <2>3, <2>4
<1> DEFINE Quiet ==
      /\ UNCHANGED <<now, wire, mint, seen, seenAt, taken, errs>>
      /\ \A w \in Worker : pc'[w] = "insert" =>
           pc[w] = "insert" /\ cur'[w] = cur[w] /\ checked'[w] = checked[w]
<1>e. ASSUME Quiet PROVE TableInv' /\ AdmittedInv' /\ TakenInv'
  <2>1. TableInv' BY <1>e DEF ReceiveInv, TableInv
  <2>2. AdmittedInv'
    BY <1>a, <1>e DEF ReceiveInv, AdmittedInv
  <2>3. TakenInv'
    BY <1>a, <1>e DEF ReceiveInv, TakenInv, TooOld
  <2>4. QED BY <2>1, <2>2, <2>3
<1>1. CASE Tick
  <2>1. /\ now' = now + 1
        /\ UNCHANGED <<wire, mint, seen, seenAt, taken, errs, pc, cur, checked>>
        /\ \A w \in Worker : pc[w] = "insert" => now < checked[w] + Lag
    BY <1>1 DEF Tick, table, local
  <2>2. TableInv'
    BY <2>1, <1>a DEF ReceiveInv, TableInv, TypeOK
  <2>3. AdmittedInv'
    BY <2>1, <1>a DEF ReceiveInv, AdmittedInv, TypeOK
  <2>4. TakenInv'
    <3>1. ASSUME NEW m \in Msg, TooOld(m) PROVE TooOld(m)'
      <4>1. mint[m] \in Nat /\ now \in Nat BY <1>a DEF TypeOK
      <4>2. QED BY <2>1, <1>b, <3>1, <4>1, ReceiveAssumption DEF TooOld
    <3>2. QED BY <2>1, <3>1 DEF ReceiveInv, TakenInv
  <2>5. QED BY <2>2, <2>3, <2>4
<1>2. ASSUME NEW d \in DayChoices, Configure(d) PROVE Quiet
  BY <1>2 DEF Configure, table, local
<1>3. ASSUME NEW m \in Msg, Send(m) \/ PublishOwn(m)
      PROVE TableInv' /\ AdmittedInv' /\ TakenInv'
  <2>1. /\ m \notin wire /\ wire' = wire \cup {m}
        /\ UNCHANGED <<now, pc, cur, checked>>
        /\ \A n \in Msg \ {m} :
             /\ mint'[n] = mint[n] /\ seenAt'[n] = seenAt[n]
             /\ taken'[n] = taken[n] /\ errs'[n] = errs[n]
             /\ n \in seen' <=> n \in seen
    BY <1>3, <1>a DEF Send, PublishOwn, AddRow, NoRow, table, local, TypeOK
  <2>2. mint'[m] \in Nat /\ mint'[m] <= now + Ahead
    BY <1>3, <1>a DEF Send, PublishOwn, TypeOK
  <2>3. m \notin seen /\ taken[m] = 0 /\ errs[m] \in Nat
    BY <2>1, <1>a DEF ReceiveInv, TableInv, TakenInv, TypeOK
  <2>4. /\ m \in seen' => seenAt'[m] = now /\ mint'[m] <= now
        /\ \/ taken'[m] = 0 /\ errs'[m] = errs[m]
           \/ taken'[m] = 1 /\ errs'[m] = errs[m] /\ m \in seen'
           \/ taken'[m] = 1 /\ errs'[m] = errs[m] + 1
    <3>1. CASE Send(m)
      BY <3>1, <2>3, <1>a DEF Send, table, TypeOK
    <3>2. CASE PublishOwn(m)
      BY <3>2, <2>3, <1>a DEF PublishOwn, AddRow, NoRow, TypeOK
    <3>3. QED BY <1>3, <3>1, <3>2
  <2>5. TableInv'
    BY <2>1, <2>2, <2>4, <1>a DEF ReceiveInv, TableInv, TypeOK
  <2>6. AdmittedInv'
    <3>1. ASSUME NEW w \in Worker, pc[w] = "insert" PROVE cur[w] \in Msg \ {m}
      BY <3>1, <2>1, <1>a DEF Busy, TypeOK
    <3>2. QED
      BY <2>1, <3>1, <1>a DEF ReceiveInv, AdmittedInv
  <2>7. TakenInv'
    <3>1. ASSUME NEW n \in Msg \ {m}, TooOld(n) PROVE TooOld(n)'
      BY <3>1, <2>1 DEF TooOld
    <3>2. ASSUME NEW n \in Msg \ {m}
          PROVE /\ taken'[n] <= errs'[n] + 1
                /\ taken'[n] = errs'[n] + 1 => n \in seen' \/ TooOld(n)'
                /\ n \notin wire' => taken'[n] = 0
      BY <2>1, <3>1 DEF ReceiveInv, TakenInv
    <3>3. /\ taken'[m] <= errs'[m] + 1
          /\ taken'[m] = errs'[m] + 1 => m \in seen'
          /\ m \in wire'
      BY <2>1, <2>3, <2>4
    <3>4. QED BY <3>2, <3>3 DEF TakenInv
  <2>8. QED BY <2>5, <2>6, <2>7
<1>5. ASSUME NEW w \in Worker, NEW m \in wire, Refuse(w, m) PROVE Quiet
  BY <1>5 DEF Refuse, table, local
<1>6. ASSUME NEW w \in Worker, NEW m \in wire, Admit(w, m)
      PROVE TableInv' /\ AdmittedInv' /\ TakenInv'
  <2>1. /\ UNCHANGED <<now, wire, mint, seen, seenAt, taken, errs>>
        /\ pc' = [pc EXCEPT ![w] = "insert"] /\ cur' = [cur EXCEPT ![w] = m]
        /\ checked' = [checked EXCEPT ![w] = now]
        /\ now - mint[m] <= AdmitDays(m)
    BY <1>6 DEF Admit, Go, table
  <2>2. TableInv' BY <2>1 DEF ReceiveInv, TableInv
  <2>3. TakenInv' BY <2>1 DEF ReceiveInv, TakenInv, TooOld
  <2>4. AdmittedInv'
    <3>1. m \in Msg /\ mint[m] \in Nat /\ now \in Nat /\ AdmitDays(m) \in Nat
          /\ AdmitDays(m) \in Windows(m)
      BY <1>a, <1>b DEF TypeOK
    <3>2. mint[m] <= now + Ahead BY DEF ReceiveInv, TableInv
    <3>3. ASSUME NEW v \in Worker, pc'[v] = "insert"
          PROVE /\ checked'[v] <= now /\ now <= checked'[v] + Lag
                /\ mint[cur'[v]] <= checked'[v] + Ahead
                /\ \E d \in Windows(cur'[v]) : checked'[v] <= mint[cur'[v]] + d
      <4>1. CASE v = w
        <5>1. cur'[v] = m /\ checked'[v] = now
          BY <2>1, <4>1, <1>a DEF TypeOK
        <5>2. now <= mint[m] + AdmitDays(m)
          BY <2>1, <3>1
        <5>3. QED BY <3>1, <3>2, <5>1, <5>2
      <4>2. CASE v # w
        BY <2>1, <3>3, <4>2, <1>a DEF TypeOK, ReceiveInv, AdmittedInv
      <4>3. QED BY <4>1, <4>2
    <3>4. QED BY <2>1, <3>3 DEF AdmittedInv
  <2>5. QED BY <2>2, <2>3, <2>4
<1>7. ASSUME NEW w \in Worker, Insert(w) PROVE TableInv' /\ AdmittedInv' /\ TakenInv'
  <2> DEFINE m == cur[w]
  <2>1. /\ pc[w] = "insert" /\ pc' = [pc EXCEPT ![w] = "expire"]
        /\ checked' = [checked EXCEPT ![w] = 0]
        /\ UNCHANGED <<now, days, wire, mint, cur>>
        /\ \/ m \notin seen /\ \E t \in checked[w] .. now : AddRow(m, t)
           \/ NoRow(m)
           \/ m \in seen /\ UNCHANGED table
    BY <1>7 DEF Insert, Go
  <2>2. m \in wire /\ m \in Msg
    BY <2>1, <1>a DEF Busy, TypeOK
  <2>3. /\ mint[m] \in Nat /\ now \in Nat /\ checked[w] \in Nat /\ Windows(m) \subseteq Nat
        /\ taken[m] \in Nat /\ errs[m] \in Nat
    BY <2>2, <1>a, <1>b DEF TypeOK
  <2>4. /\ checked[w] <= now /\ now <= checked[w] + Lag
        /\ mint[m] <= checked[w] + Ahead /\ \E d \in Windows(m) : checked[w] <= mint[m] + d
    BY <2>1 DEF ReceiveInv, AdmittedInv
  <2>5. ~TooOld(m) BY <2>3, <2>4 DEF TooOld
  <2>6. AdmittedInv'
    <3>1. ASSUME NEW v \in Worker, pc'[v] = "insert"
          PROVE v # w /\ pc[v] = "insert" /\ checked'[v] = checked[v]
      BY <2>1, <3>1, <1>a DEF TypeOK
    <3>2. QED BY <2>1, <3>1 DEF ReceiveInv, AdmittedInv
  <2>7. ASSUME NEW n \in Msg, TooOld(n) PROVE TooOld(n)'
    BY <2>1, <2>7 DEF TooOld
  <2>8. CASE m \notin seen /\ \E t \in checked[w] .. now : AddRow(m, t)
    <3> PICK t \in checked[w] .. now : AddRow(m, t)
      BY <2>8
    <3>1. t \in Nat /\ t <= now /\ mint[m] <= t + Ahead
      BY <2>3, <2>4
    <3>2. /\ seen' = seen \cup {m} /\ seenAt' = [seenAt EXCEPT ![m] = t]
          /\ taken' = [taken EXCEPT ![m] = @ + 1] /\ errs' = errs
      BY DEF AddRow
    <3>3. TableInv'
      BY <2>1, <2>2, <3>1, <3>2, <1>a DEF ReceiveInv, TableInv, TypeOK
    <3>4. taken[m] <= errs[m]
      BY <2>2, <2>3, <2>5, <2>8 DEF ReceiveInv, TakenInv
    <3>5. TakenInv'
      BY <2>1, <2>2, <2>3, <2>7, <3>2, <3>4, <1>a DEF ReceiveInv, TakenInv, TypeOK
    <3>6. QED BY <2>6, <3>3, <3>5
  <2>9. CASE NoRow(m)
    <3>1. /\ seen' = seen /\ seenAt' = seenAt
          /\ taken' = [taken EXCEPT ![m] = @ + 1] /\ errs' = [errs EXCEPT ![m] = @ + 1]
      BY <2>9 DEF NoRow
    <3>2. TableInv' BY <2>1, <3>1 DEF ReceiveInv, TableInv
    <3>3. ASSUME NEW n \in Msg
          PROVE /\ taken'[n] <= errs'[n] + 1
                /\ taken'[n] = errs'[n] + 1 => taken[n] = errs[n] + 1
                /\ n \notin wire => taken'[n] = 0
      <4>1. CASE n = m BY <2>2, <2>3, <3>1, <4>1, <1>a DEF ReceiveInv, TakenInv, TypeOK
      <4>2. CASE n # m BY <3>1, <4>2, <1>a DEF ReceiveInv, TakenInv, TypeOK
      <4>3. QED BY <4>1, <4>2
    <3>4. TakenInv' BY <2>1, <2>7, <3>1, <3>3 DEF ReceiveInv, TakenInv
    <3>5. QED BY <2>6, <3>2, <3>4
  <2>10. CASE UNCHANGED table
    <3>1. TableInv' BY <2>1, <2>10 DEF ReceiveInv, TableInv, table
    <3>2. TakenInv' BY <2>1, <2>7, <2>10 DEF ReceiveInv, TakenInv, table
    <3>3. QED BY <2>6, <3>1, <3>2
  <2>11. QED BY <2>1, <2>8, <2>9, <2>10
<1>8. ASSUME NEW w \in Worker, Expire(w) PROVE TableInv' /\ AdmittedInv' /\ TakenInv'
  <2> PICK dropped \in {{}, Aged} :
        /\ seen' = seen \ dropped
        /\ seenAt' = [m \in Msg |-> IF m \in dropped THEN 0 ELSE seenAt[m]]
    BY <1>8 DEF Expire
  <2>1. /\ UNCHANGED <<now, days, wire, mint, taken, errs, checked>>
        /\ pc'[w] # "insert"
        /\ \A v \in Worker \ {w} : pc'[v] = pc[v] /\ cur'[v] = cur[v]
    BY <1>8, <1>a DEF Expire, Go, TypeOK
  <2>2. ASSUME NEW m \in seen PROVE m \in Msg BY <1>a DEF TypeOK
  <2>3. TableInv' BY <2>1, <2>2 DEF ReceiveInv, TableInv
  <2>4. AdmittedInv'
    BY <2>1 DEF ReceiveInv, AdmittedInv
  <2>5. ASSUME NEW m \in Msg, m \in dropped PROVE TooOld(m)
    <3>1. m \in seen /\ seenAt[m] < now - (AdmitDays(m) + ClockSkew)
      BY <2>5 DEF Aged
    <3>2. mint[m] <= seenAt[m] + Ahead
      BY <3>1 DEF ReceiveInv, TableInv
    <3>3. /\ mint[m] \in Nat /\ seenAt[m] \in Nat /\ now \in Nat
          /\ AdmitDays(m) \in Nat
      BY <1>a, <1>b DEF TypeOK
    <3>4. ASSUME NEW d \in Windows(m) PROVE mint[m] + d + Lag < now
      <4>1. d \in Nat /\ d + Ahead + Lag <= AdmitDays(m) + ClockSkew
        BY <1>b, <1>c
      <4>2. QED BY <3>1, <3>2, <3>3, <4>1
    <3>5. QED BY <3>4 DEF TooOld
  <2>6. ASSUME NEW m \in Msg, TooOld(m) PROVE TooOld(m)'
    BY <2>1, <2>6 DEF TooOld
  <2>7. TakenInv' BY <2>1, <2>5, <2>6 DEF ReceiveInv, TakenInv
  <2>8. QED BY <2>3, <2>4, <2>7
<1>9. ASSUME NEW w \in Worker, Deliver(w) \/ Receipt(w) PROVE Quiet
  BY <1>9, <1>a DEF Deliver, Receipt, Go, table, TypeOK
<1>10. ASSUME NEW p \in Process, Restart(p) PROVE Quiet
  BY <1>10, <1>a DEF Restart, table, TypeOK
<1>11. ASSUME NEW p \in Process, Wait(p) PROVE Quiet
  BY <1>11 DEF Wait, StartWait, FinishWait, table, local
<1>12. ASSUME NEW a \in Agent, NEW m \in Msg, Read(a, m) PROVE Quiet
  BY <1>12 DEF Read, table, local
<1>13. CASE UNCHANGED vars
  BY <1>13, <1>e DEF vars, Quiet
<1>14. QED
  BY <1>e, <1>1, <1>2, <1>3, <1>5, <1>6, <1>7, <1>8, <1>9, <1>10, <1>11, <1>12,
     <1>13 DEF Next, Receive, Work

\* The variables keep their types: a worker between two steps holds an envelope
\* and a pool only runs waits that are queued.
THEOREM ReceiveTypes == Spec => []TypeOK
<1>1. Init => TypeOK /\ Busy BY InitTypes
<1>2. TypeOK /\ Busy /\ [Next]_vars => (TypeOK /\ Busy)' BY TypeStep
<1>3. QED BY <1>1, <1>2, PTL DEF Spec

\* seen_insert, seen_expire and the age check together: while
\* CLOCK_SKEW_DAYS covers the sender's clock, the time a worker takes and any raise of
\* dedup_days, an envelope is taken once, plus once per insert the store could not write.
THEOREM TakenByOne == ASSUME Margin PROVE Spec => []TakenOnce
<1>1. Init => ReceiveInv BY InitReceive
<1>2. ReceiveInv /\ [Next]_vars => ReceiveInv'
  <2> SUFFICES ASSUME ReceiveInv, [Next]_vars PROVE ReceiveInv'
    OBVIOUS
  <2>1. TypeOK' /\ Busy' BY TypeStep DEF ReceiveInv
  <2>2. TableInv' /\ AdmittedInv' /\ TakenInv' BY TakenStep
  <2>3. QED BY <2>1, <2>2 DEF ReceiveInv
<1>3. ReceiveInv => TakenOnce
  <2> SUFFICES ASSUME ReceiveInv, NEW m \in Msg PROVE taken[m] <= 1 + errs[m]
    BY DEF TakenOnce
  <2>1. taken[m] <= errs[m] + 1 /\ errs[m] \in Nat /\ taken[m] \in Nat
    BY DEF ReceiveInv, TakenInv, TypeOK
  <2>2. QED BY <2>1
<1>4. QED BY <1>1, <1>2, <1>3, PTL DEF Spec

(***************************************************************************)
(* What was taken is written once: every insert that names a winner pays   *)
(* for one write per recipient, which a worker or a wait may still hold.   *)
(***************************************************************************)
HeldBy(m, a) == {w \in Worker : Holds(w, m, a)}
WaitedBy(m, a) == {p \in Process : <<p, m, a>> \in jobs}

\* The insert before its publish pays for no write at all.
Echo(m) == IF KindOf[m] = "own" /\ m \in wire THEN 1 ELSE 0

PaidFor(m, a) ==
  writes[m][a] + Cardinality(HeldBy(m, a)) + Cardinality(WaitedBy(m, a)) + Echo(m)
    <= taken[m]
PaidInv == \A m \in Msg, a \in Agent : PaidFor(m, a)

\* The sets of holders are finite.
LEMMA HoldersFinite ==
  ASSUME NEW m \in Msg, NEW a \in Agent
  PROVE  /\ IsFiniteSet(HeldBy(m, a)) /\ IsFiniteSet(WaitedBy(m, a))
         /\ Cardinality(HeldBy(m, a)) \in Nat /\ Cardinality(WaitedBy(m, a)) \in Nat
<1>1. HeldBy(m, a) \in SUBSET Worker /\ WaitedBy(m, a) \in SUBSET Process
  BY DEF HeldBy, WaitedBy
<1>2. IsFiniteSet(HeldBy(m, a)) /\ IsFiniteSet(WaitedBy(m, a))
  BY <1>1, FiniteAssumption, FS_Subset
<1>3. QED BY <1>2, FS_CardinalityType

LEMMA HoldersFiniteNext ==
  ASSUME NEW m \in Msg, NEW a \in Agent
  PROVE  /\ IsFiniteSet(HeldBy(m, a)') /\ IsFiniteSet(WaitedBy(m, a)')
         /\ Cardinality(HeldBy(m, a)') \in Nat /\ Cardinality(WaitedBy(m, a)') \in Nat
<1>1. HeldBy(m, a)' \in SUBSET Worker /\ WaitedBy(m, a)' \in SUBSET Process
  BY DEF HeldBy, WaitedBy
<1>2. IsFiniteSet(HeldBy(m, a)') /\ IsFiniteSet(WaitedBy(m, a)')
  BY <1>1, FiniteAssumption, FS_Subset
<1>3. QED BY <1>2, FS_CardinalityType

\* Nobody new holds anything and nothing is written: what was paid stays paid.
LEMMA PaidKept ==
  ASSUME TypeOK, TypeOK', NEW m \in Msg, NEW a \in Agent, PaidFor(m, a),
         HeldBy(m, a)' \subseteq HeldBy(m, a), WaitedBy(m, a)' \subseteq WaitedBy(m, a),
         writes'[m][a] = writes[m][a],
         \/ taken'[m] = taken[m] /\ Echo(m)' = Echo(m)
         \/ taken'[m] = taken[m] + 1
  PROVE  PaidFor(m, a)'
<1>1. /\ Cardinality(HeldBy(m, a)') <= Cardinality(HeldBy(m, a))
      /\ Cardinality(WaitedBy(m, a)') <= Cardinality(WaitedBy(m, a))
  BY HoldersFinite, FS_Subset
<1>2. /\ Cardinality(HeldBy(m, a)) \in Nat /\ Cardinality(WaitedBy(m, a)) \in Nat
      /\ Cardinality(HeldBy(m, a)') \in Nat /\ Cardinality(WaitedBy(m, a)') \in Nat
  BY HoldersFinite, HoldersFiniteNext
<1>3. writes[m][a] \in Nat /\ taken[m] \in Nat
  BY DEF TypeOK
<1>4. Echo(m) \in 0 .. 1 /\ Echo(m)' \in 0 .. 1
  BY DEF Echo
<1>5. QED BY <1>1, <1>2, <1>3, <1>4 DEF PaidFor

\* A holder lets go, and in its place one write is done or one wait begins.
LEMMA PaidPassed ==
  ASSUME TypeOK, TypeOK', NEW m \in Msg, NEW a \in Agent, PaidFor(m, a),
         taken'[m] = taken[m], Echo(m)' = Echo(m),
         \/ /\ \E w \in HeldBy(m, a) : HeldBy(m, a)' = HeldBy(m, a) \ {w}
            /\ \/ writes'[m][a] \in {writes[m][a], writes[m][a] + 1}
                  /\ WaitedBy(m, a)' = WaitedBy(m, a)
               \/ /\ writes'[m][a] = writes[m][a]
                  /\ \E p : WaitedBy(m, a)' = WaitedBy(m, a) \cup {p}
         \/ /\ HeldBy(m, a)' = HeldBy(m, a)
            /\ \E p \in WaitedBy(m, a) : WaitedBy(m, a)' = WaitedBy(m, a) \ {p}
            /\ writes'[m][a] \in {writes[m][a], writes[m][a] + 1}
  PROVE  PaidFor(m, a)'
<1>1. /\ Cardinality(HeldBy(m, a)) \in Nat /\ Cardinality(WaitedBy(m, a)) \in Nat
      /\ Cardinality(HeldBy(m, a)') \in Nat /\ Cardinality(WaitedBy(m, a)') \in Nat
  BY HoldersFinite, HoldersFiniteNext
<1>2. writes[m][a] \in Nat /\ taken[m] \in Nat /\ Echo(m) \in 0 .. 1
  BY DEF TypeOK, Echo
<1>3. ASSUME NEW w \in HeldBy(m, a), HeldBy(m, a)' = HeldBy(m, a) \ {w}
      PROVE  Cardinality(HeldBy(m, a)') = Cardinality(HeldBy(m, a)) - 1
  BY <1>3, HoldersFinite, FS_RemoveElement
<1>4. ASSUME NEW p, WaitedBy(m, a)' = WaitedBy(m, a) \cup {p}
      PROVE  Cardinality(WaitedBy(m, a)') <= Cardinality(WaitedBy(m, a)) + 1
  <2>1. \/ Cardinality(WaitedBy(m, a)') = Cardinality(WaitedBy(m, a))
        \/ Cardinality(WaitedBy(m, a)') = Cardinality(WaitedBy(m, a)) + 1
    BY <1>4, HoldersFinite, FS_AddElement
  <2>2. QED BY <1>1, <2>1
<1>5. ASSUME NEW p \in WaitedBy(m, a), WaitedBy(m, a)' = WaitedBy(m, a) \ {p}
      PROVE  Cardinality(WaitedBy(m, a)') = Cardinality(WaitedBy(m, a)) - 1
  BY <1>5, HoldersFinite, FS_RemoveElement
<1> DEFINE Cost == writes[m][a] + Cardinality(HeldBy(m, a)) + Cardinality(WaitedBy(m, a))
<1>6. writes'[m][a] + Cardinality(HeldBy(m, a)') + Cardinality(WaitedBy(m, a)') <= Cost
  <2>1. CASE \E w \in HeldBy(m, a) : HeldBy(m, a)' = HeldBy(m, a) \ {w}
    <3>1. Cardinality(HeldBy(m, a)') = Cardinality(HeldBy(m, a)) - 1
      BY <1>3, <2>1
    <3>2. CASE /\ writes'[m][a] \in {writes[m][a], writes[m][a] + 1}
               /\ WaitedBy(m, a)' = WaitedBy(m, a)
      BY <1>1, <1>2, <3>1, <3>2
    <3>3. CASE /\ writes'[m][a] = writes[m][a]
               /\ \E p : WaitedBy(m, a)' = WaitedBy(m, a) \cup {p}
      <4>1. Cardinality(WaitedBy(m, a)') <= Cardinality(WaitedBy(m, a)) + 1
        BY <1>4, <3>3
      <4>2. QED BY <1>1, <1>2, <3>1, <3>3, <4>1
    <3>4. CASE HeldBy(m, a)' = HeldBy(m, a)
      BY <1>1, <3>1, <3>4
    <3>5. QED BY <3>2, <3>3, <3>4
  <2>2. CASE /\ HeldBy(m, a)' = HeldBy(m, a)
             /\ \E p \in WaitedBy(m, a) : WaitedBy(m, a)' = WaitedBy(m, a) \ {p}
             /\ writes'[m][a] \in {writes[m][a], writes[m][a] + 1}
    <3>1. Cardinality(WaitedBy(m, a)') = Cardinality(WaitedBy(m, a)) - 1
      BY <1>5, <2>2
    <3>2. QED BY <1>1, <1>2, <2>2, <3>1
  <2>3. QED BY <2>1, <2>2
<1>7. QED BY <1>1, <1>2, <1>6 DEF PaidFor

\* A winner holds what its insert paid for.
LEMMA PaidTaken ==
  ASSUME TypeOK, TypeOK', NEW m \in Msg, NEW a \in Agent, PaidFor(m, a),
         taken'[m] = taken[m] + 1, Echo(m)' = Echo(m), writes'[m][a] = writes[m][a],
         WaitedBy(m, a)' = WaitedBy(m, a),
         NEW w, HeldBy(m, a)' \subseteq HeldBy(m, a) \cup {w}
  PROVE  PaidFor(m, a)'
<1>1. /\ Cardinality(HeldBy(m, a)) \in Nat /\ Cardinality(WaitedBy(m, a)) \in Nat
      /\ Cardinality(HeldBy(m, a)') \in Nat /\ Cardinality(WaitedBy(m, a)') \in Nat
  BY HoldersFinite, HoldersFiniteNext
<1>2. writes[m][a] \in Nat /\ taken[m] \in Nat /\ Echo(m) \in 0 .. 1
  BY DEF TypeOK, Echo
<1>3. Cardinality(HeldBy(m, a)') <= Cardinality(HeldBy(m, a)) + 1
  <2>1. IsFiniteSet(HeldBy(m, a) \cup {w})
        /\ \/ Cardinality(HeldBy(m, a) \cup {w}) = Cardinality(HeldBy(m, a))
           \/ Cardinality(HeldBy(m, a) \cup {w}) = Cardinality(HeldBy(m, a)) + 1
    BY HoldersFinite, FS_AddElement
  <2>2. Cardinality(HeldBy(m, a)') <= Cardinality(HeldBy(m, a) \cup {w})
    BY <2>1, FS_Subset
  <2>3. QED BY <1>1, <2>1, <2>2
<1>4. QED BY <1>1, <1>2, <1>3 DEF PaidFor

\* At first nothing is written, held or waited for.
LEMMA InitPaid == Init => PaidInv
<1> SUFFICES ASSUME Init, NEW m \in Msg, NEW a \in Agent PROVE PaidFor(m, a)
  BY DEF PaidInv
<1>1. HeldBy(m, a) = {} /\ WaitedBy(m, a) = {}
  BY DEF Init, HeldBy, WaitedBy, Holds
<1>2. Cardinality(HeldBy(m, a)) = 0 /\ Cardinality(WaitedBy(m, a)) = 0
  BY <1>1, FS_EmptySet
<1>3. writes[m][a] = 0 /\ taken[m] = 0 /\ Echo(m) = 0
  BY DEF Init, Echo
<1>4. QED BY <1>2, <1>3 DEF PaidFor

\* What a worker and a wait write, per envelope and agent.
LEMMA OneWrite ==
  ASSUME TypeOK, NEW m \in Msg, NEW a \in Agent, InInbox(m, a) \/ Dropped(m, a)
  PROVE  /\ writes'[m][a] \in {writes[m][a], writes[m][a] + 1}
         /\ \A n \in Msg, b \in Agent : n # m \/ b # a => writes'[n][b] = writes[n][b]
<1>1. writes \in [Msg -> [Agent -> Nat]] BY DEF TypeOK
<1>2. writes' = writes \/ writes' = [writes EXCEPT ![m][a] = @ + 1]
  BY DEF InInbox, Dropped
<1>3. QED BY <1>1, <1>2

LEMMA PaidStep == ASSUME TypeOK, Busy, PaidInv, [Next]_vars PROVE PaidInv'
<1> USE ReceiveAssumption
<1>a. TypeOK' /\ Busy' BY TypeStep
<1>b. ASSUME NEW m \in Msg, NEW a \in Agent PROVE PaidFor(m, a)
  BY DEF PaidInv
<1> DEFINE Still(m, a) ==
      /\ HeldBy(m, a)' \subseteq HeldBy(m, a) /\ WaitedBy(m, a)' \subseteq WaitedBy(m, a)
      /\ writes'[m][a] = writes[m][a]
      /\ taken'[m] = taken[m] /\ Echo(m)' = Echo(m)
<1>c. ASSUME NEW m \in Msg, NEW a \in Agent, Still(m, a) PROVE PaidFor(m, a)'
  BY <1>a, <1>b, <1>c, PaidKept
<1>d. ASSUME UNCHANGED <<writes, taken, wire, jobs, pc, cur, won, todo>>,
             NEW m \in Msg, NEW a \in Agent PROVE Still(m, a)
  BY <1>d DEF HeldBy, WaitedBy, Holds, Echo
<1> SUFFICES ASSUME NEW m \in Msg, NEW a \in Agent PROVE PaidFor(m, a)'
  BY DEF PaidInv
<1>1. CASE Tick
  BY <1>1, <1>c, <1>d DEF Tick, table, local, mail
<1>2. ASSUME NEW d \in DayChoices, Configure(d) PROVE PaidFor(m, a)'
  BY <1>2, <1>c, <1>d DEF Configure, table, local, mail
<1>3. ASSUME NEW n \in Msg, Send(n) PROVE PaidFor(m, a)'
  <2>1. UNCHANGED <<writes, taken, jobs, pc, cur, won, todo>> /\ wire' = wire \cup {n}
        /\ KindOf[n] # "own"
    BY <1>3 DEF Send, table, local, mail
  <2>2. Still(m, a) BY <2>1 DEF HeldBy, WaitedBy, Holds, Echo
  <2>3. QED BY <2>2, <1>c
<1>4. ASSUME NEW n \in Msg, PublishOwn(n) PROVE PaidFor(m, a)'
  <2>1. UNCHANGED <<writes, jobs, pc, cur, won, todo>> /\ wire' = wire \cup {n}
        /\ taken' = [taken EXCEPT ![n] = @ + 1]
    BY <1>4 DEF PublishOwn, AddRow, NoRow, local, mail
  <2>2. HeldBy(m, a)' = HeldBy(m, a) /\ WaitedBy(m, a)' = WaitedBy(m, a)
    BY <2>1 DEF HeldBy, WaitedBy, Holds
  <2>3. CASE m = n
    <3>1. taken'[m] = taken[m] + 1 BY <2>1, <2>3 DEF TypeOK
    <3>2. QED BY <1>a, <1>b, <2>1, <2>2, <3>1, PaidKept
  <2>4. CASE m # n
    <3>1. taken'[m] = taken[m] /\ Echo(m)' = Echo(m) BY <2>1, <2>4 DEF TypeOK, Echo
    <3>2. QED BY <2>1, <2>2, <3>1, <1>c
  <2>5. QED BY <2>3, <2>4
<1>5. ASSUME NEW w \in Worker, NEW n \in wire, Refuse(w, n) PROVE PaidFor(m, a)'
  BY <1>5, <1>c, <1>d DEF Refuse, table, local
<1>6. ASSUME NEW w \in Worker, NEW n \in wire, Admit(w, n) PROVE PaidFor(m, a)'
  <2>1. UNCHANGED <<writes, taken, wire, jobs, won, todo>>
        /\ pc[w] = "idle" /\ pc'[w] = "insert"
        /\ \A v \in Worker \ {w} : pc'[v] = pc[v] /\ cur'[v] = cur[v]
    BY <1>6 DEF Admit, Go, table, mail, TypeOK
  <2>2. Still(m, a) BY <2>1 DEF HeldBy, WaitedBy, Holds, Echo
  <2>3. QED BY <2>2, <1>c
<1>7. ASSUME NEW w \in Worker, Insert(w) PROVE PaidFor(m, a)'
  <2>1. /\ UNCHANGED <<writes, wire, jobs, cur, todo>>
        /\ pc[w] = "insert" /\ pc'[w] = "expire"
        /\ \A v \in Worker \ {w} : pc'[v] = pc[v] /\ won'[v] = won[v]
    BY <1>7 DEF Insert, Go, mail, TypeOK
  <2>2. \/ taken' = [taken EXCEPT ![cur[w]] = @ + 1]
        \/ taken' = taken /\ won'[w] = FALSE
    BY <1>7 DEF Insert, AddRow, NoRow, table, TypeOK
  <2>3. WaitedBy(m, a)' = WaitedBy(m, a) /\ Echo(m)' = Echo(m)
    BY <2>1 DEF WaitedBy, Echo
  <2>4. CASE taken' = [taken EXCEPT ![cur[w]] = @ + 1] /\ cur[w] = m
    <3>1. HeldBy(m, a)' \subseteq HeldBy(m, a) \cup {w}
      BY <2>1 DEF HeldBy, Holds
    <3>2. taken'[m] = taken[m] + 1 BY <2>4 DEF TypeOK
    <3>3. QED BY <1>a, <1>b, <2>1, <2>3, <3>1, <3>2, PaidTaken
  <2>5. CASE \/ taken' = taken /\ won'[w] = FALSE
             \/ taken' = [taken EXCEPT ![cur[w]] = @ + 1] /\ cur[w] # m
    <3>1. taken'[m] = taken[m] BY <2>5 DEF TypeOK
    <3>2. HeldBy(m, a)' \subseteq HeldBy(m, a)
      BY <2>1, <2>5 DEF HeldBy, Holds
    <3>3. QED BY <2>1, <2>3, <3>1, <3>2, <1>c
  <2>6. QED BY <2>2, <2>4, <2>5
<1>8. ASSUME NEW w \in Worker, Expire(w) PROVE PaidFor(m, a)'
  <2>1. /\ UNCHANGED <<writes, wire, jobs, taken>>
        /\ pc[w] = "expire" /\ cur'[w] \in {cur[w], None}
        /\ pc'[w] = "deliver" => won[w] /\ cur'[w] = cur[w]
        /\ pc'[w] \in {"deliver", "idle"}
        /\ \A v \in Worker \ {w} : /\ pc'[v] = pc[v] /\ won'[v] = won[v]
                                   /\ cur'[v] = cur[v] /\ todo'[v] = todo[v]
    BY <1>8 DEF Expire, Go, TypeOK
  <2>2. HeldBy(m, a)' \subseteq HeldBy(m, a)
    BY <2>1 DEF HeldBy, Holds
  <2>3. WaitedBy(m, a)' = WaitedBy(m, a) /\ Echo(m)' = Echo(m)
    BY <2>1 DEF WaitedBy, Echo
  <2>4. QED BY <2>1, <2>2, <2>3, <1>c
<1>9. ASSUME NEW w \in Worker, Deliver(w) PROVE PaidFor(m, a)'
  <2>0. pc[w] = "deliver" /\ cur[w] \in Msg BY <1>9 DEF Deliver, Busy, TypeOK
  <2> PICK b \in todo[w] :
        /\ todo' = [todo EXCEPT ![w] = @ \ {b}]
        /\ \/ (InInbox(cur[w], b) \/ Dropped(cur[w], b)) /\ UNCHANGED jobs
           \/ /\ jobs' = jobs \cup {<<ProcOf[w], cur[w], b>>}
              /\ UNCHANGED writes
    BY <1>9 DEF Deliver
  <2>1. b \in Agent BY DEF TypeOK
  <2>2. /\ UNCHANGED <<wire, taken, pc, cur, won>>
        /\ todo'[w] = todo[w] \ {b} /\ \A v \in Worker \ {w} : todo'[v] = todo[v]
    BY <1>9 DEF Deliver, table, TypeOK
  <2>3. Echo(m)' = Echo(m) BY <2>2 DEF Echo
  <2>4. CASE m = cur[w] /\ a = b
    <3>1. w \in HeldBy(m, a) /\ HeldBy(m, a)' = HeldBy(m, a) \ {w}
      BY <2>0, <2>2, <2>4 DEF HeldBy, Holds
    <3>2. CASE (InInbox(m, a) \/ Dropped(m, a)) /\ UNCHANGED jobs
      <4>1. writes'[m][a] \in {writes[m][a], writes[m][a] + 1}
        BY <3>2, OneWrite
      <4>2. WaitedBy(m, a)' = WaitedBy(m, a) BY <3>2 DEF WaitedBy
      <4>3. QED BY <1>a, <1>b, <2>2, <2>3, <3>1, <4>1, <4>2, PaidPassed
    <3>3. CASE jobs' = jobs \cup {<<ProcOf[w], m, a>>} /\ UNCHANGED writes
      <4>1. WaitedBy(m, a)' = WaitedBy(m, a) \cup {ProcOf[w]}
        BY <3>3 DEF WaitedBy
      <4>2. QED BY <1>a, <1>b, <2>2, <2>3, <3>1, <3>3, <4>1, PaidPassed
    <3>4. QED BY <2>4, <3>2, <3>3
  <2>5. CASE m # cur[w] \/ a # b
    <3>1. HeldBy(m, a)' \subseteq HeldBy(m, a)
      BY <2>2 DEF HeldBy, Holds
    <3>2. WaitedBy(m, a)' = WaitedBy(m, a) BY <2>5 DEF WaitedBy
    <3>3. writes'[m][a] = writes[m][a] BY <2>0, <2>1, <2>5, OneWrite
    <3>4. QED BY <2>2, <2>3, <3>1, <3>2, <3>3, <1>c
  <2>6. QED BY <2>4, <2>5
<1>10. ASSUME NEW w \in Worker, Receipt(w) PROVE PaidFor(m, a)'
  <2>1. /\ UNCHANGED <<writes, wire, jobs, taken, won, todo>>
        /\ pc[w] = "deliver" /\ pc'[w] = "idle"
        /\ \A v \in Worker \ {w} : pc'[v] = pc[v] /\ cur'[v] = cur[v]
    BY <1>10 DEF Receipt, Go, table, TypeOK
  <2>2. Still(m, a) BY <2>1 DEF HeldBy, WaitedBy, Holds, Echo
  <2>3. QED BY <2>2, <1>c
<1>11. ASSUME NEW p \in Process, NEW j \in {p} \X Msg \X Agent, StartWait(j)
       PROVE PaidFor(m, a)'
  BY <1>11, <1>c, <1>d DEF StartWait, table, local
<1>12. ASSUME NEW p \in Process, NEW j \in {p} \X Msg \X Agent, FinishWait(j)
       PROVE PaidFor(m, a)'
  <2>0. PICK n \in Msg, b \in Agent : j = <<p, n, b>>
    OBVIOUS
  <2>1. /\ j \in jobs /\ jobs' = jobs \ {j} /\ UNCHANGED <<wire, taken, pc, cur, won, todo>>
        /\ InInbox(n, b) \/ Dropped(n, b)
    BY <1>12, <2>0 DEF FinishWait, table, local, TypeOK
  <2>2. HeldBy(m, a)' = HeldBy(m, a) /\ Echo(m)' = Echo(m)
    BY <2>1 DEF HeldBy, Holds, Echo
  <2>3. CASE m = n /\ a = b
    <3>1. p \in WaitedBy(m, a) /\ WaitedBy(m, a)' = WaitedBy(m, a) \ {p}
      BY <2>0, <2>1, <2>3 DEF WaitedBy
    <3>2. writes'[m][a] \in {writes[m][a], writes[m][a] + 1}
      BY <2>1, <2>3, OneWrite
    <3>3. QED BY <1>a, <1>b, <2>1, <2>2, <3>1, <3>2, PaidPassed
  <2>4. CASE m # n \/ a # b
    <3>1. WaitedBy(m, a)' \subseteq WaitedBy(m, a) BY <2>1 DEF WaitedBy
    <3>2. writes'[m][a] = writes[m][a] BY <2>1, <2>4, OneWrite
    <3>3. QED BY <2>1, <2>2, <3>1, <3>2, <1>c
  <2>5. QED BY <2>3, <2>4
<1>13. ASSUME NEW p \in Process, Restart(p) PROVE PaidFor(m, a)'
  <2>1. /\ UNCHANGED <<writes, wire, taken>> /\ jobs' \subseteq jobs
        /\ \A v \in Worker : \/ pc'[v] = "idle"
                             \/ /\ pc'[v] = pc[v] /\ won'[v] = won[v]
                                /\ cur'[v] = cur[v] /\ todo'[v] = todo[v]
    BY <1>13 DEF Restart, table
  <2>2. Still(m, a) BY <2>1 DEF HeldBy, WaitedBy, Holds, Echo
  <2>3. QED BY <2>2, <1>c
<1>14. ASSUME NEW b \in Agent, NEW n \in Msg, Read(b, n) PROVE PaidFor(m, a)'
  BY <1>14, <1>c, <1>d DEF Read, table, local
<1>15. CASE UNCHANGED vars
  BY <1>15, <1>c, <1>d DEF vars
<1>16. QED
  BY <1>1, <1>2, <1>3, <1>4, <1>5, <1>6, <1>7, <1>8, <1>9, <1>10, <1>11, <1>12,
     <1>13, <1>14, <1>15 DEF Next, Receive, Work, Wait

LEMMA PaidAlways == ASSUME Margin PROVE Spec => [](ReceiveInv /\ PaidInv)
<1>1. Init => ReceiveInv /\ PaidInv BY InitReceive, InitPaid
<1>2. ReceiveInv /\ PaidInv /\ [Next]_vars => (ReceiveInv /\ PaidInv)'
  <2> SUFFICES ASSUME ReceiveInv, PaidInv, [Next]_vars PROVE ReceiveInv' /\ PaidInv'
    OBVIOUS
  <2>1. TypeOK' /\ Busy' BY TypeStep DEF ReceiveInv
  <2>2. TableInv' /\ AdmittedInv' /\ TakenInv' BY TakenStep
  <2>3. PaidInv' BY PaidStep DEF ReceiveInv
  <2>4. QED BY <2>1, <2>2, <2>3 DEF ReceiveInv
<1>3. QED BY <1>1, <1>2, PTL DEF Spec

\* However many workers are handed an envelope, and whether an agent has read it,
\* still waits for its attachments or lost its process, its inbox gets it once, plus
\* once per insert the store could not write (_write_to_inbox, network.py).
THEOREM WrittenByOne == ASSUME Margin PROVE Spec => []WrittenOnce
<1>1. ReceiveInv /\ PaidInv => WrittenOnce
  <2> SUFFICES ASSUME ReceiveInv, PaidInv, NEW m \in Msg, NEW a \in Agent
               PROVE writes[m][a] <= 1 + errs[m]
    BY DEF WrittenOnce
  <2>1. /\ writes[m][a] \in Nat /\ errs[m] \in Nat /\ taken[m] \in Nat
        /\ taken[m] <= errs[m] + 1 /\ Echo(m) \in 0 .. 1
    BY DEF ReceiveInv, TypeOK, TakenInv, Echo
  <2>2. QED BY <2>1, HoldersFinite DEF PaidInv, PaidFor
<1>2. QED BY <1>1, PaidAlways, PTL

\* The insert before the publish takes the one win there is, so that the echo of an
\* own envelope finds no winner while the store can be written (issue #138).
THEOREM EchoNeverWritten == ASSUME Margin PROVE Spec => []EchoDropped
<1>1. ReceiveInv /\ PaidInv => EchoDropped
  <2> SUFFICES ASSUME ReceiveInv, PaidInv, NEW m \in Msg, NEW a \in Agent,
                      KindOf[m] = "own", writes[m][a] > 0
               PROVE errs[m] > 0
    BY DEF EchoDropped
  <2>1. /\ writes[m][a] \in Nat /\ errs[m] \in Nat /\ taken[m] \in Nat
        /\ taken[m] <= errs[m] + 1 /\ (m \notin wire => taken[m] = 0)
    BY DEF ReceiveInv, TypeOK, TakenInv
  <2>2. writes[m][a] + Echo(m) <= taken[m]
    BY <2>1, HoldersFinite DEF PaidInv, PaidFor, Echo
  <2>3. QED BY <2>1, <2>2 DEF Echo
<1>2. QED BY <1>1, PaidAlways, PTL

(***************************************************************************)
(* Receipts, and what becomes of every recipient.                          *)
(***************************************************************************)
\* The inbox of a has, or had, the envelope, and a row says so.
Reached(m, a) == writes[m][a] > 0 /\ <<"RECEIVED_REMOTE", m, a>> \in rows

\* What an inbox holds was written; what a worker counts as delivered was reached.
HonestInv ==
  /\ ReceiptHonest
  /\ \A a \in Agent : \A m \in inbox[a] : writes[m][a] > 0
  /\ \A w \in Worker : \A a \in got[w] : pc[w] = "deliver" /\ Reached(cur[w], a)

\* An inbox write leaves the envelope reached, whether or not it was there.
LEMMA WriteReaches ==
  ASSUME TypeOK, NEW m \in Msg, NEW a \in Agent, InInbox(m, a),
         \A b \in Agent : \A n \in inbox[b] : writes[n][b] > 0
  PROVE  /\ Reached(m, a)'
         /\ \A b \in Agent : \A n \in inbox'[b] : writes'[n][b] > 0
<1>1. writes \in [Msg -> [Agent -> Nat]] /\ inbox \in [Agent -> SUBSET Msg]
  BY DEF TypeOK
<1>2. /\ inbox' = [inbox EXCEPT ![a] = @ \cup {m}]
      /\ rows' = rows \cup {<<"RECEIVED_REMOTE", m, a>>}
      /\ \/ m \in inbox[a] /\ writes' = writes
         \/ writes' = [writes EXCEPT ![m][a] = @ + 1]
  BY DEF InInbox
<1>3. writes'[m][a] > 0
  BY <1>1, <1>2
<1>4. ASSUME NEW b \in Agent, NEW n \in inbox'[b] PROVE writes'[n][b] > 0
  <2>1. CASE n = m /\ b = a BY <1>3, <2>1
  <2>2. CASE n # m \/ b # a
    <3>1. n \in inbox[b] /\ n \in Msg
      BY <1>1, <1>2, <2>2
    <3>2. writes'[n][b] = writes[n][b]
      BY <1>1, <1>2, <2>2, <3>1
    <3>3. QED BY <3>1, <3>2
  <2>3. QED BY <2>1, <2>2
<1>5. QED BY <1>2, <1>3, <1>4 DEF Reached

\* Rows stay, and what was written or lost stays so.
LEMMA NextLogGrows ==
  ASSUME TypeOK, Busy, [Next]_vars
  PROVE  /\ rows \subseteq rows' /\ lost \subseteq lost'
         /\ \A m \in Msg, a \in Agent : writes[m][a] > 0 => writes'[m][a] > 0
<1> USE ReceiveAssumption DEF table, local, mail, vars
<1>a. writes \in [Msg -> [Agent -> Nat]] BY DEF TypeOK
<1>b. ASSUME NEW m \in Msg, NEW a \in Agent, InInbox(m, a) \/ Dropped(m, a)
      PROVE  /\ rows \subseteq rows'
             /\ \A n \in Msg, b \in Agent : writes[n][b] > 0 => writes'[n][b] > 0
  <2>1. rows \subseteq rows' BY <1>b DEF InInbox, Dropped
  <2>2. writes' = writes \/ writes' = [writes EXCEPT ![m][a] = @ + 1]
    BY <1>b DEF InInbox, Dropped
  <2>3. QED BY <1>a, <2>1, <2>2
<1>1. CASE \/ Tick \/ \E d \in DayChoices : Configure(d)
           \/ \E m \in Msg : Send(m) \/ PublishOwn(m)
           \/ \E w \in Worker : Receive(w) \/ Insert(w) \/ Expire(w) \/ Receipt(w)
           \/ \E p \in Process : Restart(p)
           \/ \E a \in Agent, m \in Msg : Read(a, m)
           \/ UNCHANGED vars
  <2>1. writes' = writes
    BY <1>1 DEF Tick, Configure, Send, PublishOwn, Receive, Refuse, Admit, Insert, Expire,
                Receipt, Restart, Read
  <2>2. rows \subseteq rows'
    BY <1>1 DEF Tick, Configure, Send, PublishOwn, Receive, Refuse, Admit, Insert, Expire,
                Receipt, Restart, Read
  <2>3. lost \subseteq lost'
    BY <1>1 DEF Tick, Configure, Send, PublishOwn, Receive, Refuse, Admit, Insert, Expire,
                Receipt, Restart, Read
  <2>4. QED BY <2>1, <2>2, <2>3
<1>2. ASSUME NEW w \in Worker, Deliver(w)
      PROVE  /\ rows \subseteq rows' /\ lost \subseteq lost'
             /\ \A m \in Msg, a \in Agent : writes[m][a] > 0 => writes'[m][a] > 0
  <2>1. cur[w] \in Msg /\ lost' = lost BY <1>2 DEF Deliver, Busy, TypeOK
  <2> PICK a \in todo[w] :
        \/ InInbox(cur[w], a) \/ Dropped(cur[w], a) \/ UNCHANGED <<writes, rows>>
    BY <1>2 DEF Deliver
  <2>2. a \in Agent BY DEF TypeOK
  <2>3. QED BY <2>1, <2>2, <1>b
<1>3. ASSUME NEW p \in Process, Wait(p)
      PROVE  /\ rows \subseteq rows' /\ lost \subseteq lost'
             /\ \A m \in Msg, a \in Agent : writes[m][a] > 0 => writes'[m][a] > 0
  <2> PICK m \in Msg, a \in Agent :
        /\ lost' = lost
        /\ InInbox(m, a) \/ Dropped(m, a) \/ UNCHANGED <<writes, rows>>
    BY <1>3 DEF Wait, StartWait, FinishWait
  <2>1. QED BY <1>b
<1>4. QED BY <1>1, <1>2, <1>3 DEF Next, Work

LEMMA HonestStep == ASSUME TypeOK, Busy, HonestInv, [Next]_vars PROVE HonestInv'
<1> USE ReceiveAssumption DEF table, local, mail, vars, Go
<1>a. TypeOK' /\ Busy' BY TypeStep
<1>b. ASSUME NEW m \in Msg, NEW a \in Agent, Reached(m, a) PROVE Reached(m, a)'
  BY <1>b, NextLogGrows DEF Reached
<1>c. ASSUME NEW r \in receipts PROVE r[1] \in Msg /\ r[2] \in Agent /\ Reached(r[1], r[2])
  BY DEF TypeOK, HonestInv, ReceiptHonest, Reached
<1>d. ASSUME NEW w \in Worker, NEW a \in got[w]
      PROVE  pc[w] = "deliver" /\ cur[w] \in Msg /\ a \in Agent /\ Reached(cur[w], a)
  BY DEF TypeOK, HonestInv, Busy
<1>e. \A a \in Agent : \A m \in inbox[a] : writes[m][a] > 0 BY DEF HonestInv
<1> DEFINE Stamped == \A r \in receipts' : r \in receipts \/ Reached(r[1], r[2])'
           Filled == \A a \in Agent : \A m \in inbox'[a] : writes'[m][a] > 0
           Counted == \A w \in Worker : \A a \in got'[w] :
                        \/ a \in got[w] /\ pc'[w] = pc[w] /\ cur'[w] = cur[w]
                        \/ pc'[w] = "deliver" /\ Reached(cur[w], a)' /\ cur'[w] = cur[w]
<1>f. ASSUME Stamped, Filled, Counted PROVE HonestInv'
  <2>1. ReceiptHonest'
    BY <1>b, <1>c, <1>f DEF ReceiptHonest, Reached
  <2>2. ASSUME NEW w \in Worker, NEW a \in got'[w]
        PROVE pc'[w] = "deliver" /\ Reached(cur[w], a)' /\ cur'[w] = cur[w]
    BY <1>b, <1>d, <1>f
  <2>3. QED BY <1>f, <2>1, <2>2 DEF HonestInv, Reached
<1>g. ASSUME UNCHANGED <<inbox, writes>> PROVE Filled
  BY <1>e, <1>g
<1>1. CASE \/ Tick \/ \E d \in DayChoices : Configure(d)
           \/ \E m \in Msg : Send(m) \/ PublishOwn(m)
           \/ UNCHANGED vars
  <2>1. UNCHANGED <<inbox, writes, receipts, pc, cur, got>>
    BY <1>1 DEF Tick, Configure, Send, PublishOwn
  <2>2. QED BY <2>1, <1>f, <1>g
<1>2. ASSUME NEW w \in Worker, Receive(w) \/ Insert(w) \/ Expire(w) PROVE HonestInv'
  <2>1. /\ UNCHANGED <<inbox, writes, receipts, got>>
        /\ \A v \in Worker \ {w} : pc'[v] = pc[v] /\ cur'[v] = cur[v]
        /\ pc[w] # "deliver" \/ (pc' = pc /\ cur' = cur)
    BY <1>2 DEF Receive, Refuse, Admit, Insert, Expire, TypeOK
  <2>2. Counted BY <2>1, <1>d
  <2>3. QED BY <2>1, <2>2, <1>f, <1>g
<1>3. ASSUME NEW w \in Worker, Deliver(w) PROVE HonestInv'
  <2>0. pc[w] = "deliver" /\ cur[w] \in Msg BY <1>3 DEF Deliver, Busy, TypeOK
  <2> PICK a \in todo[w] :
        \/ /\ InInbox(cur[w], a) /\ got' = [got EXCEPT ![w] = @ \cup {a}]
           /\ receipts' \in {receipts, receipts \cup {<<cur[w], a, "attachment_failed">>}}
        \/ UNCHANGED <<inbox, writes, got, receipts>>
    BY <1>3 DEF Deliver, Dropped
  <2>1. a \in Agent /\ UNCHANGED <<pc, cur>> BY <1>3 DEF Deliver, TypeOK
  <2>2. CASE /\ InInbox(cur[w], a) /\ got' = [got EXCEPT ![w] = @ \cup {a}]
             /\ receipts' \in {receipts, receipts \cup {<<cur[w], a, "attachment_failed">>}}
    <3>1. Reached(cur[w], a)' /\ Filled
      BY <1>e, <2>0, <2>1, <2>2, WriteReaches
    <3>2. Reached(cur[w], a)' <=> (writes'[cur[w]][a] > 0
                                   /\ <<"RECEIVED_REMOTE", cur[w], a>> \in rows')
      BY <2>1 DEF Reached
    <3>3. Stamped
      BY <2>2, <3>1, <3>2 DEF Reached
    <3>4. Counted
      BY <2>0, <2>1, <2>2, <3>1 DEF TypeOK
    <3>5. QED BY <3>1, <3>3, <3>4, <1>f
  <2>3. CASE UNCHANGED <<inbox, writes, got, receipts>>
    BY <2>1, <2>3, <1>f, <1>g
  <2>4. QED BY <2>2, <2>3
<1>4. ASSUME NEW w \in Worker, Receipt(w) PROVE HonestInv'
  <2>1. /\ UNCHANGED <<inbox, writes, rows>> /\ got' = [got EXCEPT ![w] = {}]
        /\ \A v \in Worker \ {w} : pc'[v] = pc[v] /\ cur'[v] = cur[v]
        /\ \A r \in receipts' : r \in receipts \/ \E a \in got[w] : r = <<cur[w], a, "inbox_write">>
    BY <1>4 DEF Receipt, TypeOK
  <2>2. Stamped
    <3>1. ASSUME NEW a \in got[w], NEW r, r = <<cur[w], a, "inbox_write">>
          PROVE  Reached(r[1], r[2])'
      BY <1>d, <2>1, <3>1 DEF Reached
    <3>2. QED BY <2>1, <3>1
  <2>3. Counted BY <2>1 DEF TypeOK
  <2>4. QED BY <2>1, <2>2, <2>3, <1>f, <1>g
<1>5. ASSUME NEW p \in Process, NEW j \in {p} \X Msg \X Agent, StartWait(j) PROVE HonestInv'
  <2>1. UNCHANGED <<inbox, writes, receipts, pc, cur, got>>
    BY <1>5 DEF StartWait
  <2>2. QED BY <2>1, <1>f, <1>g
<1>6. ASSUME NEW p \in Process, NEW j \in {p} \X Msg \X Agent, FinishWait(j) PROVE HonestInv'
  <2>0. PICK m \in Msg, a \in Agent : j = <<p, m, a>> OBVIOUS
  <2>1. /\ UNCHANGED <<pc, cur, got>>
        /\ \/ /\ InInbox(m, a)
              /\ \E stages \in SUBSET Stages :
                   receipts' = receipts \cup {<<m, a, stage>> : stage \in stages}
           \/ UNCHANGED <<inbox, writes, receipts>>
    BY <1>6, <2>0 DEF FinishWait, Dropped
  <2>2. CASE InInbox(m, a) /\ \E stages \in SUBSET Stages :
               receipts' = receipts \cup {<<m, a, stage>> : stage \in stages}
    <3>1. Reached(m, a)' /\ Filled
      BY <1>e, <2>2, WriteReaches
    <3>2. Stamped
      <4>1. \A r \in receipts' : r \in receipts \/ \E stage \in Stages : r = <<m, a, stage>>
        BY <2>2
      <4>2. QED BY <3>1, <4>1 DEF Reached
    <3>3. QED BY <2>1, <3>1, <3>2, <1>f
  <2>3. CASE UNCHANGED <<inbox, writes, receipts>>
    BY <2>1, <2>3, <1>f, <1>g
  <2>4. QED BY <2>1, <2>2, <2>3
<1>7. ASSUME NEW p \in Process, Restart(p) PROVE HonestInv'
  <2>1. /\ UNCHANGED <<inbox, writes, receipts>>
        /\ \A v \in Worker : \/ got'[v] = {}
                             \/ pc'[v] = pc[v] /\ cur'[v] = cur[v] /\ got'[v] = got[v]
    BY <1>7 DEF Restart
  <2>2. QED BY <2>1, <1>f, <1>g
<1>8. ASSUME NEW b \in Agent, NEW n \in Msg, Read(b, n) PROVE HonestInv'
  <2>1. UNCHANGED <<writes, receipts, pc, cur, got>> /\ inbox' = [inbox EXCEPT ![b] = @ \ {n}]
    BY <1>8 DEF Read
  <2>2. Filled BY <2>1, <1>e DEF TypeOK
  <2>3. QED BY <2>1, <2>2, <1>f
<1>9. QED
  BY <1>1, <1>2, <1>3, <1>4, <1>5, <1>6, <1>7, <1>8 DEF Next, Work, Wait

\* A receipt is sent by a worker or a wait that has written the inbox it names, also
\* when the attachments failed and when the envelope was there already.
THEOREM ReceiptsAreHonest == Spec => []ReceiptHonest
<1>1. Init => TypeOK /\ Busy /\ HonestInv
  <2>1. Init => HonestInv BY DEF Init, HonestInv, ReceiptHonest
  <2>2. QED BY <2>1, InitTypes
<1>2. TypeOK /\ Busy /\ HonestInv /\ [Next]_vars => (TypeOK /\ Busy /\ HonestInv)'
  BY TypeStep, HonestStep
<1>3. HonestInv => ReceiptHonest BY DEF HonestInv
<1>4. QED BY <1>1, <1>2, <1>3, PTL DEF Spec

\* Where a recipient of a taken envelope may be found.
Answered(m, a) ==
  \/ <<"RECEIVED_REMOTE", m, a>> \in rows \/ <<"DROPPED", m, a>> \in rows
  \/ <<m, a>> \in lost
Pending(m, a) ==
  \/ \E w \in Worker : Holds(w, m, a)
  \/ \E p \in Process : <<p, m, a>> \in jobs

LEMMA AccountedStep == ASSUME TypeOK, Busy, Accounted, [Next]_vars PROVE Accounted'
<1> USE ReceiveAssumption DEF table, local, mail, vars, Go
<1>a. TypeOK' /\ Busy' BY TypeStep
<1> SUFFICES ASSUME NEW m \in Msg, NEW a \in To[m],
                    taken'[m] > 0, KindOf[m] \in {"text", "files"}
             PROVE  Answered(m, a)' \/ Pending(m, a)'
  BY DEF Accounted, Answered, Pending, Holds
<1>b. a \in Agent OBVIOUS
<1>c. taken[m] > 0 => Answered(m, a) \/ Pending(m, a)
  BY DEF Accounted, Answered, Pending
<1>d. Answered(m, a) => Answered(m, a)'
  BY NextLogGrows DEF Answered
<1> DEFINE Still == /\ taken'[m] = taken[m]
                    /\ \A w \in Worker : Holds(w, m, a) => Holds(w, m, a)' \/ Pending(m, a)'
                                                           \/ Answered(m, a)'
                    /\ \A p \in Process : <<p, m, a>> \in jobs =>
                         <<p, m, a>> \in jobs' \/ Answered(m, a)'
<1>e. ASSUME Still PROVE Answered(m, a)' \/ Pending(m, a)'
  BY <1>c, <1>d, <1>e DEF Pending
<1>1. CASE \/ Tick \/ \E d \in DayChoices : Configure(d)
           \/ \E n \in Msg : Send(n)
           \/ \E b \in Agent, n \in Msg : Read(b, n)
           \/ \E p \in Process : \E j \in {p} \X Msg \X Agent : StartWait(j)
           \/ UNCHANGED vars
  <2>1. UNCHANGED <<taken, jobs, pc, cur, won, todo>>
    BY <1>1 DEF Tick, Configure, Send, Read, StartWait
  <2>2. QED BY <2>1, <1>e DEF Holds
<1>2. ASSUME NEW n \in Msg, PublishOwn(n) PROVE Answered(m, a)' \/ Pending(m, a)'
  <2>1. /\ UNCHANGED <<jobs, pc, cur, won, todo>> /\ n # m
        /\ taken' = [taken EXCEPT ![n] = @ + 1]
    BY <1>2 DEF PublishOwn, AddRow, NoRow
  <2>2. taken'[m] = taken[m] BY <2>1 DEF TypeOK
  <2>3. QED BY <2>1, <2>2, <1>e DEF Holds
<1>3. ASSUME NEW w \in Worker, Receive(w) PROVE Answered(m, a)' \/ Pending(m, a)'
  <2>1. /\ UNCHANGED <<taken, jobs, won, todo>>
        /\ \A v \in Worker : \/ pc'[v] = pc[v] /\ cur'[v] = cur[v]
                             \/ pc[v] = "idle"
    BY <1>3 DEF Receive, Refuse, Admit, TypeOK
  <2>2. QED BY <2>1, <1>e DEF Holds
<1>4. ASSUME NEW w \in Worker, Insert(w) PROVE Answered(m, a)' \/ Pending(m, a)'
  <2>1. /\ UNCHANGED <<jobs, cur, todo>> /\ pc[w] = "insert" /\ pc'[w] = "expire"
        /\ \A v \in Worker \ {w} : pc'[v] = pc[v] /\ won'[v] = won[v]
    BY <1>4 DEF Insert, TypeOK
  <2>2. \/ taken' = taken
        \/ taken' = [taken EXCEPT ![cur[w]] = @ + 1] /\ won'[w] = TRUE
    BY <1>4 DEF Insert, AddRow, NoRow, TypeOK
  <2>3. CASE cur[w] = m /\ won'[w] = TRUE
    <3>1. Holds(w, m, a)' BY <2>1, <2>3 DEF Holds
    <3>2. QED BY <3>1 DEF Pending
  <2>4. CASE taken'[m] = taken[m]
    <3>1. \A v \in Worker : Holds(v, m, a) => Holds(v, m, a)'
      BY <2>1 DEF Holds
    <3>2. QED BY <2>1, <2>4, <3>1, <1>e
  <2>5. QED BY <2>2, <2>3, <2>4 DEF TypeOK
<1>5. ASSUME NEW w \in Worker, Expire(w) PROVE Answered(m, a)' \/ Pending(m, a)'
  <2>1. /\ UNCHANGED <<jobs, taken>> /\ pc[w] = "expire"
        /\ \A v \in Worker \ {w} : /\ pc'[v] = pc[v] /\ won'[v] = won[v]
                                   /\ cur'[v] = cur[v] /\ todo'[v] = todo[v]
    BY <1>5 DEF Expire, TypeOK
  <2>2. ASSUME Holds(w, m, a) PROVE Holds(w, m, a)'
    <3>1. won[w] /\ cur[w] = m BY <2>1, <2>2 DEF Holds
    <3>2. pc'[w] = "deliver" /\ todo'[w] = To[m] /\ cur'[w] = m
      BY <1>5, <3>1 DEF Expire, TypeOK
    <3>3. QED BY <3>2 DEF Holds
  <2>3. \A v \in Worker \ {w} : Holds(v, m, a) => Holds(v, m, a)' BY <2>1 DEF Holds
  <2>4. QED BY <2>1, <2>2, <2>3, <1>e
<1>6. ASSUME NEW w \in Worker, Deliver(w) PROVE Answered(m, a)' \/ Pending(m, a)'
  <2> PICK b \in todo[w] :
        /\ todo' = [todo EXCEPT ![w] = @ \ {b}]
        /\ \/ InInbox(cur[w], b) /\ jobs' = jobs
           \/ Dropped(cur[w], b) /\ jobs' = jobs
           \/ jobs' = jobs \cup {<<ProcOf[w], cur[w], b>>}
    BY <1>6 DEF Deliver
  <2>1. /\ UNCHANGED <<taken, pc, cur, won>> /\ pc[w] = "deliver"
        /\ todo'[w] = todo[w] \ {b} /\ \A v \in Worker \ {w} : todo'[v] = todo[v]
    BY <1>6 DEF Deliver, TypeOK
  <2>2. ASSUME Holds(w, m, a), ~Holds(w, m, a)' PROVE Answered(m, a)' \/ Pending(m, a)'
    <3>1. cur[w] = m /\ a = b BY <2>1, <2>2 DEF Holds
    <3>2. CASE InInbox(m, a) BY <3>2 DEF InInbox, Answered
    <3>3. CASE Dropped(m, a) BY <3>3 DEF Dropped, Answered
    <3>4. CASE jobs' = jobs \cup {<<ProcOf[w], m, a>>}
      <4>1. ProcOf[w] \in Process /\ <<ProcOf[w], m, a>> \in jobs' BY <3>4
      <4>2. QED BY <4>1 DEF Pending
    <3>5. QED BY <3>1, <3>2, <3>3, <3>4
  <2>3. \A v \in Worker \ {w} : Holds(v, m, a) => Holds(v, m, a)' BY <2>1 DEF Holds
  <2>4. QED BY <2>1, <2>2, <2>3, <1>e
<1>7. ASSUME NEW w \in Worker, Receipt(w) PROVE Answered(m, a)' \/ Pending(m, a)'
  <2>1. /\ UNCHANGED <<taken, jobs, won, todo>> /\ pc[w] = "deliver" /\ todo[w] = {}
        /\ \A v \in Worker \ {w} : pc'[v] = pc[v] /\ cur'[v] = cur[v]
    BY <1>7 DEF Receipt, TypeOK
  <2>2. QED BY <2>1, <1>e DEF Holds
<1>8. ASSUME NEW p \in Process, NEW j \in {p} \X Msg \X Agent, FinishWait(j)
      PROVE Answered(m, a)' \/ Pending(m, a)'
  <2>0. PICK n \in Msg, b \in Agent : j = <<p, n, b>> OBVIOUS
  <2>1. /\ UNCHANGED <<taken, pc, cur, won, todo>> /\ jobs' = jobs \ {j}
        /\ InInbox(n, b) \/ Dropped(n, b)
    BY <1>8, <2>0 DEF FinishWait
  <2>2. \A q \in Process : <<q, m, a>> \in jobs => <<q, m, a>> \in jobs' \/ Answered(m, a)'
    BY <2>0, <2>1 DEF InInbox, Dropped, Answered
  <2>3. QED BY <2>1, <2>2, <1>e DEF Holds
<1>9. ASSUME NEW p \in Process, Restart(p) PROVE Answered(m, a)' \/ Pending(m, a)'
  <2>0. /\ UNCHANGED taken
        /\ \A v \in Worker : \/ ProcOf[v] = p
                             \/ /\ pc'[v] = pc[v] /\ won'[v] = won[v]
                                /\ cur'[v] = cur[v] /\ todo'[v] = todo[v]
        /\ jobs' = jobs \ {j \in jobs : j[1] = p}
    BY <1>9 DEF Restart
  <2>1. ASSUME NEW w \in Worker, ProcOf[w] = p, Holds(w, m, a) PROVE <<m, a>> \in lost'
    <3>1. a \in (IF pc[w] = "deliver" THEN todo[w]
                 ELSE IF pc[w] = "expire" /\ won[w] THEN To[cur[w]] ELSE {}) /\ cur[w] = m
      BY <2>1 DEF Holds
    <3>2. QED BY <1>9, <2>1, <3>1 DEF Restart
  <2>2. ASSUME NEW q \in Process, <<q, m, a>> \in jobs
        PROVE  <<q, m, a>> \in jobs' \/ <<m, a>> \in lost'
    <3>1. CASE q = p
      <4> DEFINE j == <<q, m, a>>
      <4>1. j \in jobs /\ j[1] = p /\ j[2] = m /\ j[3] = a BY <2>2, <3>1
      <4>2. <<j[2], j[3]>> \in lost'
        <5> HIDE DEF j
        <5>1. QED BY <1>9, <4>1 DEF Restart
      <4>3. QED BY <4>1, <4>2
    <3>2. CASE q # p BY <2>0, <2>2, <3>2
    <3>3. QED BY <3>1, <3>2
  <2>3. QED BY <2>0, <2>1, <2>2, <1>e DEF Holds, Answered
<1>10. QED
  BY <1>1, <1>2, <1>3, <1>4, <1>5, <1>6, <1>7, <1>8, <1>9 DEF Next, Work, Wait

\* No recipient of an envelope that was taken is forgotten: a row says that it got it
\* or that it was dropped, or a worker or a wait still has it, or a restart lost it.
THEOREM EveryRecipientAccounted == Spec => []Accounted
<1>1. Init => TypeOK /\ Busy /\ Accounted
  <2>1. Init => Accounted BY DEF Init, Accounted
  <2>2. QED BY <2>1, InitTypes
<1>2. TypeOK /\ Busy /\ Accounted /\ [Next]_vars => (TypeOK /\ Busy /\ Accounted)'
  BY TypeStep, AccountedStep
<1>3. QED BY <1>1, <1>2, PTL DEF Spec
=============================================================================
