---------------------------- MODULE SingleServer ----------------------------
(* What the lock file of the daemon is for: the daemon processes serve the  *)
(* socket one after another.  A process serves only while it owns the       *)
(* service, it owns it alone, and it gives it up only after it has stopped  *)
(* serving (or by dying, which ends both at once).                          *)
CONSTANTS Daemons,  \* daemon processes
          None      \* no process

VARIABLES owner,    \* the process that owns the service, or None
          serving   \* the processes whose socket accepts connections

Init == owner = None /\ serving = {}

Take(d) == owner = None /\ serving = {} /\ owner' = d /\ serving' = {}

Open(d) == owner = d /\ serving' = {d} /\ UNCHANGED owner

Close == serving' = {} /\ UNCHANGED owner

Resign == serving = {} /\ owner' = None /\ UNCHANGED serving

Die == owner' = None /\ serving' = {}

Next ==
  \/ \E d \in Daemons : Take(d) \/ Open(d)
  \/ Close \/ Resign \/ Die

Spec == Init /\ [][Next]_<<owner, serving>>
=============================================================================
