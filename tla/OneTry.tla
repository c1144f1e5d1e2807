------------------------------- MODULE OneTry -------------------------------
(***************************************************************************)
(* What a8s promises about one message: each path to a receiver (a local   *)
(* recipient or a remote) takes it at most once and only while the message *)
(* is open; a message is dropped only when no path took it; and a message  *)
(* that was sent or dropped is never touched again.  Nothing promises that *)
(* a path takes it: delivery is best effort, and a crashed router leaves a *)
(* message open for good.                                                  *)
(***************************************************************************)
EXTENDS Naturals

CONSTANTS Msg,   \* messages
          Path   \* ways a message can leave the sender's machine or reach an inbox

VARIABLES stage,   \* stage[m]: "unsent", "open", "sent" or "dropped"
          taken    \* taken[m][p]: how often path p took message m

vars == <<stage, taken>>

Stage == {"unsent", "open", "sent", "dropped"}

Init ==
  /\ stage = [m \in Msg |-> "unsent"]
  /\ taken = [m \in Msg |-> [p \in Path |-> 0]]

Submit(m) ==
  /\ stage[m] = "unsent"
  /\ stage' = [stage EXCEPT ![m] = "open"]
  /\ UNCHANGED taken

Take(m, p) ==
  /\ stage[m] = "open"
  /\ taken[m][p] = 0
  /\ taken' = [taken EXCEPT ![m][p] = 1]
  /\ UNCHANGED stage

Finish(m) ==
  /\ stage[m] = "open"
  /\ stage' = [stage EXCEPT ![m] = "sent"]
  /\ UNCHANGED taken

Drop(m) ==
  /\ stage[m] = "open"
  /\ \A p \in Path : taken[m][p] = 0
  /\ stage' = [stage EXCEPT ![m] = "dropped"]
  /\ UNCHANGED taken

Next ==
  \E m \in Msg :
    \/ Submit(m) \/ Finish(m) \/ Drop(m)
    \/ \E p \in Path : Take(m, p)

Spec == Init /\ [][Next]_vars
=============================================================================
