--------------------------- MODULE MCRemoteReceive ---------------------------
(* Small instances of RemoteReceive: two processes, each with one worker.     *)
EXTENDS RemoteReceive, TLC

\* Each process has the name of its worker, and either may be taken for the other.
MCOwnProc == [w \in Worker |-> w]
MCSymmetry == Permutations(Worker)

MCProcOf == [w \in Worker |-> IF w = "w1" THEN "p1" ELSE "p2"]

\* An envelope with attachments for two agents, a receipt, the echo of an own
\* envelope to an agent of this machine, and mail for somebody else.
MCKindOf ==
  [m \in Msg |-> CASE m = "f" -> "files" [] m = "r" -> "receipt" [] m = "o" -> "own"
                   [] OTHER -> "text"]
MCTo == [m \in Msg |-> CASE m = "f" -> Agent [] m = "o" -> {"a"} [] OTHER -> {}]
=============================================================================
