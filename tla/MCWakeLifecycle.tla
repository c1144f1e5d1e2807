--------------------------- MODULE MCWakeLifecycle ---------------------------
(* Small instances of WakeLifecycle: agents "a" and "b" share a handler, "p" is *)
(* a file proxy.                                                                *)
EXTENDS WakeLifecycle

TwoAgents == <<"a", "b">>
WithProxy == <<"p", "b", "a">>
MCTo == [m \in Msg |-> CASE m \in {"a1", "a2"} -> "a" [] m \in {"b1", "b2"} -> "b" [] OTHER -> "p"]
MCServes == [h \in Handler |-> IF h = "h2" THEN {"b"} ELSE Agent]
AnyRequest == Agent \X {"detach", "kill"}
=============================================================================
