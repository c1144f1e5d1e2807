---------------------------- MODULE MCTurnDispatch ----------------------------
(* Small instances of TurnDispatch: messages are named for the member they go  *)
(* to.  A turn of one member tells the other, and hears when that fails.       *)
EXTENDS TurnDispatch

MCTo == [m \in Msg |-> IF m \in {"a1", "a2", "an"} THEN "a" ELSE "b"]
MCFrom == [m \in Msg \ Ingress |-> CASE m = "a1" -> "b" [] m = "b1" -> "a" [] OTHER -> None]
MCNotice == [m \in Msg |-> CASE m = "a1" -> "bn" [] m = "b1" -> "an" [] OTHER -> None]
AllEarn == Bucket
=============================================================================
