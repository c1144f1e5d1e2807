---------------------------- MODULE MCMailRouting ----------------------------
(* Small instances of MailRouting: two handlers, d1 holds a, c and d2 holds b.*)
EXTENDS MailRouting

Written(sender, claim, kind, members, files) ==
  [sender |-> sender, claim |-> claim, kind |-> kind, members |-> members,
   files |-> files]

MCHandled == [d \in {"d1", "d2"} |-> IF d = "d1" THEN {"a", "c"} ELSE {"b"}]

SharedOutbox == [x \in {"a", "b", "c"} |-> "boxa"]
OwnOutbox == [x \in {"a", "b", "c"} |-> IF x = "b" THEN "boxb" ELSE "boxa"]

\* An alias of both agents, a plain name, a name only a remote may know.
MixedHeaders ==
  { Written("c", "c", "alias", {"a", "b"}, FALSE),
    Written("a", "b", "agent", {"b"}, TRUE),
    Written("b", None, "unknown", {}, TRUE) }

FanoutHeaders ==
  { Written("c", None, "alias", {"a", "b", "c"}, TRUE),
    Written("b", "b", "agent", {"b"}, FALSE),
    Written("a", "a", "unroutable", {}, FALSE) }
=============================================================================
