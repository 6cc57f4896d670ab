---------------------------- MODULE RunnerContract ----------------------------
(* What driver.WDAProcessDriver promises to the device session              *)
(* (src/internal/driver/interfaces.go:90-96): StartWDA either hands over a  *)
(* runner, or fails and leaves none behind; from then on a runner stops     *)
(* when its handle is closed, or dies.                                      *)
CONSTANT Starts  \* calls of StartWDA

VARIABLES waiting,  \* calls that have launched a runner and not returned
          handed,   \* calls that have returned a handle
          runners   \* calls whose runner is running and has not been stopped

vars == <<waiting, handed, runners>>

Init == waiting = {} /\ handed = {} /\ runners = {}

Launch(s) ==
  /\ s \notin waiting \cup handed \cup runners
  /\ waiting' = waiting \cup {s} /\ runners' = runners \cup {s}
  /\ UNCHANGED handed

Ready(s) ==
  /\ s \in waiting
  /\ waiting' = waiting \ {s} /\ handed' = handed \cup {s}
  /\ UNCHANGED runners

GiveUp(s) ==
  /\ s \in waiting
  /\ waiting' = waiting \ {s} /\ runners' = runners \ {s}
  /\ UNCHANGED handed

(* The handle is closed, or the runner dies.                                *)
Stop(s) ==
  /\ s \in runners
  /\ runners' = runners \ {s}
  /\ UNCHANGED <<waiting, handed>>

Next == \E s \in Starts : Launch(s) \/ Ready(s) \/ GiveUp(s) \/ Stop(s)

Spec == Init /\ [][Next]_vars
=============================================================================
