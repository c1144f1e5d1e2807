---------------------------- MODULE MCHandlerClaim ---------------------------
(* Small instances of HandlerClaim.  p1 and p2 are handlers, p3 gets p1's pid *)
(* once p1 is gone, and c is a command.                                      *)
EXTENDS HandlerClaim

Ids == {"i1", "i2", "i3", "i4"}
ReusedPid == [p \in Proc |-> CASE p = "p1" -> "i1" [] p = "p2" -> "i2"
                               [] p = "p3" -> "i1" [] OTHER -> "i4"]

RolesOf(p1, p2, p3, c) ==
  [p \in Proc |-> CASE p = "p1" -> p1 [] p = "p2" -> p2 [] p = "p3" -> p3
                    [] OTHER -> c]
StartRunRunKill == RolesOf("start", "run", "run", "kill")
StartRunForce == RolesOf("start", "run", "alien", "force")
=============================================================================
