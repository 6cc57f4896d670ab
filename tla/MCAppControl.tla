----------------------------- MODULE MCAppControl -----------------------------
(* Small instances of AppControl and SessionManager.  They share no state,  *)
(* so one run explores one and then the other: part says which.             *)
(* The phone has an app with an extension in a directory named after it, and*)
(* another app whose path does not name it.                                 *)
EXTENDS AppControl, SessionManager, TLC

VARIABLE part

MCInit ==
  /\ Init /\ SessionInit
  /\ part \in {"app", "session"}
  /\ part = "session" =>
       /\ ~connected /\ ~rsd /\ procs = <<>>
       /\ \A r \in Requests : kind[r] = "list" /\ app[r] = "com.x"
MCNext ==
  /\ UNCHANGED part
  /\ \/ part = "app" /\ Next /\ UNCHANGED smVars
     \/ part = "session" /\ SessionNext /\ UNCHANGED vars
MCSpec == MCInit /\ [][MCNext]_<<part, vars, smVars>>

MCBundles == {"com.x", "com.y"}
MCExecs == {"x", "x-widget", "y"}
MCMain == [b \in MCBundles |-> IF b = "com.x" THEN "x" ELSE "y"]
MCMatches == [c \in {"appservice", "instruments"} |->
                {<<"com.x", "x">>} \cup IF c = "appservice" THEN {<<"com.x", "x-widget">>} ELSE {}]
MCName == [e \in MCExecs |-> e]
MCUserApps == {"x", "y"}

Symmetry == Permutations(Requests)
=============================================================================
