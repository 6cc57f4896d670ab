---------------------------- MODULE SessionManager ----------------------------
(* The session manager of the WDA package                                   *)
(* (src/internal/driver/wda/session.go): callers share one session, made    *)
(* when the first of them needs it.  The mutex is held during the HTTP call,*)
(* which WDA may perform although its answer is lost.                       *)
EXTENDS WdaClient, FiniteSets

CONSTANTS Callers,
          MaxSessions, \* bound: sessions that WDA ever creates
          NoSession    \* the empty id

Sessions == 1 .. MaxSessions
ASSUME SessionsAssumption == MaxSessions \in Nat /\ NoSession \notin Sessions

VARIABLES
  sessionID, \* sm.sessionID
  holder,    \* the caller that holds sm.mu, or {}
  cpc,       \* "idle", "ensure" or "destroy" (before Lock), "create" or "delete"
  got,       \* what EnsureSession returned to each caller, NoSession: an error or nothing yet
  made,      \* the sessions that WDA has created
  live,      \* those that have not ended
  adrift     \* those that WDA kept when an answer was lost or a deletion failed (history)

smVars == <<sessionID, holder, cpc, got, made, live, adrift>>

SessionTypeOK ==
  /\ sessionID \in Sessions \cup {NoSession} /\ got \in [Callers -> Sessions \cup {NoSession}]
  /\ holder \in SUBSET Callers /\ Cardinality(holder) <= 1
  /\ cpc \in [Callers -> {"idle", "ensure", "destroy", "create", "delete"}]
  /\ adrift \subseteq made /\ live \subseteq made /\ made \subseteq Sessions

SessionInit ==
  /\ sessionID = NoSession /\ holder = {}
  /\ cpc = [c \in Callers |-> "idle"] /\ got = [c \in Callers |-> NoSession]
  /\ made = {} /\ live = {} /\ adrift = {}

Calls(c) ==
  /\ cpc[c] = "idle"
  /\ \E op \in {"ensure", "destroy"} : cpc' = [cpc EXCEPT ![c] = op]
  /\ UNCHANGED <<sessionID, holder, got, made, live, adrift>>

Return(c, id) ==
  /\ holder' = {}
  /\ cpc' = [cpc EXCEPT ![c] = "idle"] /\ got' = [got EXCEPT ![c] = id]

\* Mutant: the mutex guards the cached id only.
LockUnlock(c) ==
  /\ cpc[c] \in {"ensure", "destroy"} /\ holder = {}
  /\ IF (sessionID # NoSession) = (cpc[c] = "ensure")
       THEN Return(c, sessionID)
       ELSE /\ holder' = {} /\ UNCHANGED got
            /\ cpc' = [cpc EXCEPT ![c] = IF @ = "ensure" THEN "create" ELSE "delete"]
  /\ UNCHANGED <<sessionID, made, live, adrift>>

(* sm.mu.Lock() and the test of the cached id.                              *)
Lock(c) ==
  /\ cpc[c] \in {"ensure", "destroy"} /\ holder = {}
  /\ IF (sessionID # NoSession) = (cpc[c] = "ensure")
       THEN Return(c, sessionID)
       ELSE /\ holder' = {c} /\ UNCHANGED got
            /\ cpc' = [cpc EXCEPT ![c] = IF @ = "ensure" THEN "create" ELSE "delete"]
  /\ UNCHANGED <<sessionID, made, live, adrift>>

(* CreateSession; an answer that refuses a session may still name one.      *)
Create(c) ==
  /\ cpc[c] = "create"
  /\ \E a \in {Success, Failure, FailureInSession, NoAnswer} :
       \/ /\ a \in {Success, NoAnswer} /\ Cardinality(made) < MaxSessions
          /\ LET id == Cardinality(made) + 1 IN
             /\ made' = made \cup {id} /\ live' = live \cup {id}
             /\ IF SessionCreated(a) THEN sessionID' = id /\ Return(c, id) /\ UNCHANGED adrift
                ELSE adrift' = adrift \cup {id} /\ Return(c, NoSession) /\ UNCHANGED sessionID
       \/ /\ a # Success
          /\ IF SessionCreated(a) THEN \E id \in made : sessionID' = id /\ Return(c, id)
             ELSE Return(c, NoSession) /\ UNCHANGED sessionID
          /\ UNCHANGED <<made, live, adrift>>

(* DeleteSession: any answer will do; without one the id is kept.           *)
Delete(c) ==
  /\ cpc[c] = "delete"
  /\ \E a \in {Success, Failure, NoAnswer} :
       /\ \/ a # Failure /\ live' = live \ {sessionID}
          \/ a # Success /\ UNCHANGED live
       /\ IF SessionDeleted(a)
            THEN sessionID' = NoSession /\ adrift' = adrift \cup (live' \cap {sessionID})
            ELSE UNCHANGED <<sessionID, adrift>>
       /\ Return(c, NoSession)
  /\ UNCHANGED made

(* WDA ends a session by itself, or is started anew.                        *)
SessionEnds ==
  /\ \E id \in live : live' = live \ {id}
  /\ UNCHANGED <<sessionID, holder, cpc, got, made, adrift>>

SessionNext == SessionEnds \/ \E c \in Callers : Calls(c) \/ Lock(c) \/ Create(c) \/ Delete(c)
SessionSpec == SessionInit /\ [][SessionNext]_smVars
-----------------------------------------------------------------------------
(* However many callers ask at once, WDA runs one session for them, but for *)
(* those that the manager never heard of, or whose deletion WDA refused     *)
(* (session.go:27-42, client.go:92-103).                                    *)
OneSession == live \subseteq {sessionID} \cup adrift
=============================================================================
