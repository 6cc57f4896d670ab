-------------------------- MODULE DaemonState_proofs --------------------------
(* The safety of the device session for any number of devices, of requests, *)
(* and of requests in progress at a time; then the handlers, which use the  *)
(* session as its module describes it: what is proved of any overlapping    *)
(* requests holds inside the daemon, whatever the log capture and the       *)
(* observers do beside them.  What holds only while no two requests that    *)
(* change the session overlap is proved in the last part.                   *)
EXTENDS DaemonState, TLAPS

(* A request about to commit has determined its mode.                       *)
OutcomeInv == \A r \in Requests : pc[r] = "commit" => outcome[r] \in {"full", "degraded"}

(* A forwarder that is not stored yet holds the port, and none is stored.   *)
StoreInv == \A r \in Requests : pc[r] = "storeFwd" => port = r /\ portForwarder = None

(* A handle stays in the manager while it is connected, or while the request*)
(* that stored it has not committed yet.                                    *)
HeldInv ==
  \A r \in Requests : portForwarder = r \/ wdaProcess = r => connected # None \/ Connecting(r)

Inv == /\ TypeOK
       /\ StateCoherent /\ OutcomeInv
       /\ PortAccounted /\ StoreInv
       /\ HeldInv
-----------------------------------------------------------------------------
(* What Disconnect does to a connected manager.                             *)
LEMMA TearDownCases ==
  ASSUME TearDown, connected # None
  PROVE  /\ connected' = None /\ mode' = "unset" /\ url' = FALSE /\ session' = None
         /\ portForwarder' = None /\ wdaProcess' = None
         /\ runners' = runners \ {wdaProcess}
         /\ port' = IF port = portForwarder THEN None ELSE port
  BY DEF TearDown

(* One more death stays within the bound.                                   *)
LEMMA OneMoreDeath == deaths < MaxDeaths /\ deaths \in 0 .. MaxDeaths => deaths + 1 \in 0 .. MaxDeaths
  BY BoundsAssumption

(* TypeOK is inductive by itself.                                           *)
LEMMA TypeStep == TypeOK /\ [Next]_vars => (TypeOK)'
<1> SUFFICES ASSUME TypeOK, [Next]_vars PROVE (TypeOK)'
  OBVIOUS
<1> USE NoneAssumption DEF TypeOK, Goto, PC, ConnectPC, Connecting, dm, request, world
<1>1. ASSUME NEW r \in Requests, Resolve(r)
      PROVE  (TypeOK)'
  <2>1. UNCHANGED <<dm, kind, outcome, world, sent, panicked>>
    BY <1>1 DEF Resolve
  <2>2. pc[r] = "resolve"
    BY <1>1 DEF Resolve
  <2>3. ASSUME NEW d \in Devices, want' = [want EXCEPT ![r] = d], Goto(r, "forward")
        PROVE  (TypeOK)'
    BY <2>1, <2>2, <2>3
  <2>4. CASE want[r] # None /\ Goto(r, "forward") /\ UNCHANGED want
    BY <2>1, <2>2, <2>4
  <2>5. CASE Goto(r, "done") /\ UNCHANGED want
    BY <2>1, <2>2, <2>5
  <2> QED BY ONLY <1>1, <2>3, <2>4, <2>5 DEF Resolve
<1>2. ASSUME NEW r \in Requests, ForwardPort(r)
      PROVE  (TypeOK)'
  BY <1>2 DEF ForwardPort
<1>3. ASSUME NEW r \in Requests, StoreForwarder(r)
      PROVE  (TypeOK)'
  BY <1>3 DEF StoreForwarder
<1>4. ASSUME NEW r \in Requests, Probe(r)
      PROVE  (TypeOK)'
  BY <1>4 DEF Probe
<1>5. ASSUME NEW r \in Requests, StartWDA(r)
      PROVE  (TypeOK)'
  BY <1>5 DEF StartWDA
<1>6. ASSUME NEW r \in Requests, WaitForWDA(r)
      PROVE  (TypeOK)'
  BY <1>6 DEF WaitForWDA
<1>7. ASSUME NEW r \in Requests, StoreProcess(r)
      PROVE  (TypeOK)'
  BY <1>7 DEF StoreProcess
<1>8. ASSUME NEW r \in Requests, Reprobe(r)
      PROVE  (TypeOK)'
  BY <1>8 DEF Reprobe
<1>9. ASSUME NEW r \in Requests, CreateSession(r)
      PROVE  (TypeOK)'
  <2>1. UNCHANGED <<dm, kind, want, port, runners, external, deaths, sent, panicked>>
    BY <1>9 DEF CreateSession
  <2>2. pc[r] = "session"
    BY <1>9 DEF CreateSession
  <2>3. CASE /\ Answers
               /\ Goto(r, "commit")
               /\ sessOn' = [sessOn EXCEPT ![r] = Target]
               /\ outcome' = [outcome EXCEPT ![r] = "full"]
    BY <2>1, <2>2, <2>3 DEF Answers, Target
  <2>4. CASE /\ Goto(r, "commit")
               /\ outcome' = [outcome EXCEPT ![r] = "degraded"]
               /\ UNCHANGED sessOn
    BY <2>1, <2>2, <2>4
  <2> QED BY ONLY <1>9, <2>3, <2>4 DEF CreateSession
<1>10. ASSUME NEW r \in Requests, Commit(r)
      PROVE  (TypeOK)'
  BY <1>10 DEF Commit
<1>11. ASSUME NEW r \in Requests, Disconnect(r)
      PROVE  (TypeOK)'
  <2>1. /\ pc[r] = "disconnect" /\ TearDown /\ Goto(r, "done")
        /\ UNCHANGED <<kind, want, outcome, external, sessOn, deaths, sent, panicked>>
    BY <1>11 DEF Disconnect
  <2>2. CASE connected = None
    <3>1. UNCHANGED <<dm, port, runners>>
      BY <2>1, <2>2 DEF TearDown
    <3> QED BY <2>1, <3>1
  <2>3. CASE connected # None
    BY <2>1, <2>3, TearDownCases
  <2> QED BY <2>2, <2>3
<1>12. ASSUME NEW r \in Requests, RestartRead(r)
      PROVE  (TypeOK)'
  BY <1>12 DEF RestartRead
<1>13. ASSUME NEW r \in Requests, RestartDisconnect(r)
      PROVE  (TypeOK)'
  <2>1. /\ pc[r] = "rsDisconnect" /\ TearDown /\ Goto(r, "resolve")
        /\ UNCHANGED <<kind, want, outcome, external, sessOn, deaths, sent, panicked>>
    BY <1>13 DEF RestartDisconnect
  <2>2. CASE connected = None
    <3>1. UNCHANGED <<dm, port, runners>>
      BY <2>1, <2>2 DEF TearDown
    <3> QED BY <2>1, <3>1
  <2>3. CASE connected # None
    BY <2>1, <2>3, TearDownCases
  <2> QED BY <2>2, <2>3
<1>14. ASSUME NEW r \in Requests, CheckConnected(r)
      PROVE  (TypeOK)'
  BY <1>14 DEF CheckConnected
<1>15. ASSUME NEW r \in Requests, CheckMode(r)
      PROVE  (TypeOK)'
  BY <1>15 DEF CheckMode
<1>16. ASSUME NEW r \in Requests, ReadDevice(r)
      PROVE  (TypeOK)'
  <2>1. UNCHANGED <<dm, kind, want, outcome, world, sent>>
    BY <1>16 DEF ReadDevice
  <2>2. pc[r] = "getDevice"
    BY <1>16 DEF ReadDevice
  <2>3. CASE panicked' = TRUE /\ UNCHANGED pc
    BY <2>1, <2>2, <2>3
  <2>4. CASE Goto(r, "drive") /\ UNCHANGED panicked
    BY <2>1, <2>2, <2>4
  <2> QED BY ONLY <1>16, <2>3, <2>4 DEF ReadDevice
<1>17. ASSUME NEW r \in Requests, DriveApp(r)
      PROVE  (TypeOK)'
  BY <1>17 DEF DriveApp
<1>18. ASSUME NEW r \in Requests, ReadURL(r)
      PROVE  (TypeOK)'
  BY <1>18 DEF ReadURL
<1>19. ASSUME NEW r \in Requests, ReadSession(r)
      PROVE  (TypeOK)'
  BY <1>19 DEF ReadSession
<1>20. ASSUME NEW r \in Requests, RunnerDies(r)
      PROVE  (TypeOK)'
  <2>1. /\ runners' = runners \ {r} /\ deaths' = deaths + 1
        /\ UNCHANGED <<dm, request, port, external, sessOn, sent, panicked>>
    BY <1>20 DEF RunnerDies
  <2>2. deaths < MaxDeaths /\ deaths \in 0 .. MaxDeaths
    BY <1>20 DEF RunnerDies
  <2>3. deaths + 1 \in 0 .. MaxDeaths
    BY ONLY <2>2, OneMoreDeath
  <2> QED BY <2>1, <2>3
<1>21. ASSUME NEW r \in Requests, NEW k \in Kinds, Begin(r, k)
      PROVE  (TypeOK)'
  <2>1. /\ kind' = [kind EXCEPT ![r] = k]
        /\ UNCHANGED <<dm, want, outcome, world, sent, panicked>>
    BY <1>21 DEF Begin
  <2>2. PICK l \in {"resolve", "disconnect", "rsRead", "isConn"} : Goto(r, l)
    BY <1>21 DEF Begin
  <2>3. kind' \in [Requests -> Kinds \cup {"none"}]
    BY <2>1
  <2>4. pc' \in [Requests -> PC] /\ \A q \in Requests : Connecting(q)' => want'[q] # None
    BY <2>1, <2>2
  <2> QED BY <2>1, <2>3, <2>4
<1>22. ASSUME UNCHANGED vars
      PROVE  (TypeOK)'
  BY <1>22 DEF vars
<1> QED
  BY <1>1, <1>2, <1>3, <1>4, <1>5, <1>6, <1>7, <1>8, <1>9, <1>10, <1>11,
     <1>12, <1>13, <1>14, <1>15, <1>16, <1>17, <1>18, <1>19, <1>20, <1>21,
     <1>22
     DEF Next, ConnectStep, OtherStep

(* The four fields change together.                                         *)
LEMMA CoherentStep == TypeOK /\ StateCoherent /\ OutcomeInv /\ [Next]_vars => (StateCoherent /\ OutcomeInv)'
<1> SUFFICES ASSUME TypeOK, StateCoherent, OutcomeInv, [Next]_vars PROVE (StateCoherent /\ OutcomeInv)'
  OBVIOUS
<1> USE NoneAssumption DEF TypeOK, Goto, PC, ConnectPC, Connecting, dm, request, world,
    StateCoherent, OutcomeInv
<1>1. ASSUME NEW r \in Requests, Resolve(r)
      PROVE  (StateCoherent /\ OutcomeInv)'
  <2>1. UNCHANGED <<dm, kind, outcome, world, sent, panicked>>
    BY <1>1 DEF Resolve
  <2>2. pc[r] = "resolve"
    BY <1>1 DEF Resolve
  <2>3. ASSUME NEW d \in Devices, want' = [want EXCEPT ![r] = d], Goto(r, "forward")
        PROVE  (StateCoherent /\ OutcomeInv)'
    BY <2>1, <2>2, <2>3
  <2>4. CASE want[r] # None /\ Goto(r, "forward") /\ UNCHANGED want
    BY <2>1, <2>2, <2>4
  <2>5. CASE Goto(r, "done") /\ UNCHANGED want
    BY <2>1, <2>2, <2>5
  <2> QED BY ONLY <1>1, <2>3, <2>4, <2>5 DEF Resolve
<1>2. ASSUME NEW r \in Requests, ForwardPort(r)
      PROVE  (StateCoherent /\ OutcomeInv)'
  BY <1>2 DEF ForwardPort
<1>3. ASSUME NEW r \in Requests, StoreForwarder(r)
      PROVE  (StateCoherent /\ OutcomeInv)'
  BY <1>3 DEF StoreForwarder
<1>4. ASSUME NEW r \in Requests, Probe(r)
      PROVE  (StateCoherent /\ OutcomeInv)'
  BY <1>4 DEF Probe
<1>5. ASSUME NEW r \in Requests, StartWDA(r)
      PROVE  (StateCoherent /\ OutcomeInv)'
  BY <1>5 DEF StartWDA
<1>6. ASSUME NEW r \in Requests, WaitForWDA(r)
      PROVE  (StateCoherent /\ OutcomeInv)'
  BY <1>6 DEF WaitForWDA
<1>7. ASSUME NEW r \in Requests, StoreProcess(r)
      PROVE  (StateCoherent /\ OutcomeInv)'
  BY <1>7 DEF StoreProcess
<1>8. ASSUME NEW r \in Requests, Reprobe(r)
      PROVE  (StateCoherent /\ OutcomeInv)'
  BY <1>8 DEF Reprobe
<1>9. ASSUME NEW r \in Requests, CreateSession(r)
      PROVE  (StateCoherent /\ OutcomeInv)'
  BY <1>9 DEF CreateSession
<1>10. ASSUME NEW r \in Requests, Commit(r)
      PROVE  (StateCoherent /\ OutcomeInv)'
  BY <1>10 DEF Commit
<1>11. ASSUME NEW r \in Requests, Disconnect(r)
      PROVE  (StateCoherent /\ OutcomeInv)'
  <2>1. /\ pc[r] = "disconnect" /\ TearDown /\ Goto(r, "done")
        /\ UNCHANGED <<kind, want, outcome, external, sessOn, deaths, sent, panicked>>
    BY <1>11 DEF Disconnect
  <2>2. CASE connected = None
    <3>1. UNCHANGED <<dm, port, runners>>
      BY <2>1, <2>2 DEF TearDown
    <3> QED BY <2>1, <3>1
  <2>3. CASE connected # None
    BY <2>1, <2>3, TearDownCases
  <2> QED BY <2>2, <2>3
<1>12. ASSUME NEW r \in Requests, RestartRead(r)
      PROVE  (StateCoherent /\ OutcomeInv)'
  BY <1>12 DEF RestartRead
<1>13. ASSUME NEW r \in Requests, RestartDisconnect(r)
      PROVE  (StateCoherent /\ OutcomeInv)'
  <2>1. /\ pc[r] = "rsDisconnect" /\ TearDown /\ Goto(r, "resolve")
        /\ UNCHANGED <<kind, want, outcome, external, sessOn, deaths, sent, panicked>>
    BY <1>13 DEF RestartDisconnect
  <2>2. CASE connected = None
    <3>1. UNCHANGED <<dm, port, runners>>
      BY <2>1, <2>2 DEF TearDown
    <3> QED BY <2>1, <3>1
  <2>3. CASE connected # None
    BY <2>1, <2>3, TearDownCases
  <2> QED BY <2>2, <2>3
<1>14. ASSUME NEW r \in Requests, CheckConnected(r)
      PROVE  (StateCoherent /\ OutcomeInv)'
  BY <1>14 DEF CheckConnected
<1>15. ASSUME NEW r \in Requests, CheckMode(r)
      PROVE  (StateCoherent /\ OutcomeInv)'
  BY <1>15 DEF CheckMode
<1>16. ASSUME NEW r \in Requests, ReadDevice(r)
      PROVE  (StateCoherent /\ OutcomeInv)'
  BY <1>16 DEF ReadDevice
<1>17. ASSUME NEW r \in Requests, DriveApp(r)
      PROVE  (StateCoherent /\ OutcomeInv)'
  BY <1>17 DEF DriveApp
<1>18. ASSUME NEW r \in Requests, ReadURL(r)
      PROVE  (StateCoherent /\ OutcomeInv)'
  BY <1>18 DEF ReadURL
<1>19. ASSUME NEW r \in Requests, ReadSession(r)
      PROVE  (StateCoherent /\ OutcomeInv)'
  BY <1>19 DEF ReadSession
<1>20. ASSUME NEW r \in Requests, RunnerDies(r)
      PROVE  (StateCoherent /\ OutcomeInv)'
  BY <1>20 DEF RunnerDies
<1>21. ASSUME NEW r \in Requests, NEW k \in Kinds, Begin(r, k)
      PROVE  (StateCoherent /\ OutcomeInv)'
  BY <1>21 DEF Begin
<1>22. ASSUME UNCHANGED vars
      PROVE  (StateCoherent /\ OutcomeInv)'
  BY <1>22 DEF vars
<1> QED
  BY <1>1, <1>2, <1>3, <1>4, <1>5, <1>6, <1>7, <1>8, <1>9, <1>10, <1>11,
     <1>12, <1>13, <1>14, <1>15, <1>16, <1>17, <1>18, <1>19, <1>20, <1>21,
     <1>22
     DEF Next, ConnectStep, OtherStep

(* The port is taken by ForwardPort and freed with the stored forwarder.    *)
LEMMA PortStep == TypeOK /\ PortAccounted /\ StoreInv /\ [Next]_vars => (PortAccounted /\ StoreInv)'
<1> SUFFICES ASSUME TypeOK, PortAccounted, StoreInv, [Next]_vars PROVE (PortAccounted /\ StoreInv)'
  OBVIOUS
<1> USE NoneAssumption DEF TypeOK, Goto, PC, ConnectPC, Connecting, dm, request, world,
    PortAccounted, StoreInv
<1>1. ASSUME NEW r \in Requests, Resolve(r)
      PROVE  (PortAccounted /\ StoreInv)'
  <2>1. UNCHANGED <<dm, kind, outcome, world, sent, panicked>>
    BY <1>1 DEF Resolve
  <2>2. pc[r] = "resolve"
    BY <1>1 DEF Resolve
  <2>3. ASSUME NEW d \in Devices, want' = [want EXCEPT ![r] = d], Goto(r, "forward")
        PROVE  (PortAccounted /\ StoreInv)'
    BY <2>1, <2>2, <2>3
  <2>4. CASE want[r] # None /\ Goto(r, "forward") /\ UNCHANGED want
    BY <2>1, <2>2, <2>4
  <2>5. CASE Goto(r, "done") /\ UNCHANGED want
    BY <2>1, <2>2, <2>5
  <2> QED BY ONLY <1>1, <2>3, <2>4, <2>5 DEF Resolve
<1>2. ASSUME NEW r \in Requests, ForwardPort(r)
      PROVE  (PortAccounted /\ StoreInv)'
  BY <1>2 DEF ForwardPort
<1>3. ASSUME NEW r \in Requests, StoreForwarder(r)
      PROVE  (PortAccounted /\ StoreInv)'
  BY <1>3 DEF StoreForwarder
<1>4. ASSUME NEW r \in Requests, Probe(r)
      PROVE  (PortAccounted /\ StoreInv)'
  BY <1>4 DEF Probe
<1>5. ASSUME NEW r \in Requests, StartWDA(r)
      PROVE  (PortAccounted /\ StoreInv)'
  BY <1>5 DEF StartWDA
<1>6. ASSUME NEW r \in Requests, WaitForWDA(r)
      PROVE  (PortAccounted /\ StoreInv)'
  BY <1>6 DEF WaitForWDA
<1>7. ASSUME NEW r \in Requests, StoreProcess(r)
      PROVE  (PortAccounted /\ StoreInv)'
  BY <1>7 DEF StoreProcess
<1>8. ASSUME NEW r \in Requests, Reprobe(r)
      PROVE  (PortAccounted /\ StoreInv)'
  BY <1>8 DEF Reprobe
<1>9. ASSUME NEW r \in Requests, CreateSession(r)
      PROVE  (PortAccounted /\ StoreInv)'
  BY <1>9 DEF CreateSession
<1>10. ASSUME NEW r \in Requests, Commit(r)
      PROVE  (PortAccounted /\ StoreInv)'
  BY <1>10 DEF Commit
<1>11. ASSUME NEW r \in Requests, Disconnect(r)
      PROVE  (PortAccounted /\ StoreInv)'
  <2>1. /\ pc[r] = "disconnect" /\ TearDown /\ Goto(r, "done")
        /\ UNCHANGED <<kind, want, outcome, external, sessOn, deaths, sent, panicked>>
    BY <1>11 DEF Disconnect
  <2>2. CASE connected = None
    <3>1. UNCHANGED <<dm, port, runners>>
      BY <2>1, <2>2 DEF TearDown
    <3> QED BY <2>1, <3>1
  <2>3. CASE connected # None
    BY <2>1, <2>3, TearDownCases
  <2> QED BY <2>2, <2>3
<1>12. ASSUME NEW r \in Requests, RestartRead(r)
      PROVE  (PortAccounted /\ StoreInv)'
  BY <1>12 DEF RestartRead
<1>13. ASSUME NEW r \in Requests, RestartDisconnect(r)
      PROVE  (PortAccounted /\ StoreInv)'
  <2>1. /\ pc[r] = "rsDisconnect" /\ TearDown /\ Goto(r, "resolve")
        /\ UNCHANGED <<kind, want, outcome, external, sessOn, deaths, sent, panicked>>
    BY <1>13 DEF RestartDisconnect
  <2>2. CASE connected = None
    <3>1. UNCHANGED <<dm, port, runners>>
      BY <2>1, <2>2 DEF TearDown
    <3> QED BY <2>1, <3>1
  <2>3. CASE connected # None
    BY <2>1, <2>3, TearDownCases
  <2> QED BY <2>2, <2>3
<1>14. ASSUME NEW r \in Requests, CheckConnected(r)
      PROVE  (PortAccounted /\ StoreInv)'
  BY <1>14 DEF CheckConnected
<1>15. ASSUME NEW r \in Requests, CheckMode(r)
      PROVE  (PortAccounted /\ StoreInv)'
  BY <1>15 DEF CheckMode
<1>16. ASSUME NEW r \in Requests, ReadDevice(r)
      PROVE  (PortAccounted /\ StoreInv)'
  BY <1>16 DEF ReadDevice
<1>17. ASSUME NEW r \in Requests, DriveApp(r)
      PROVE  (PortAccounted /\ StoreInv)'
  BY <1>17 DEF DriveApp
<1>18. ASSUME NEW r \in Requests, ReadURL(r)
      PROVE  (PortAccounted /\ StoreInv)'
  BY <1>18 DEF ReadURL
<1>19. ASSUME NEW r \in Requests, ReadSession(r)
      PROVE  (PortAccounted /\ StoreInv)'
  BY <1>19 DEF ReadSession
<1>20. ASSUME NEW r \in Requests, RunnerDies(r)
      PROVE  (PortAccounted /\ StoreInv)'
  BY <1>20 DEF RunnerDies
<1>21. ASSUME NEW r \in Requests, NEW k \in Kinds, Begin(r, k)
      PROVE  (PortAccounted /\ StoreInv)'
  BY <1>21 DEF Begin
<1>22. ASSUME UNCHANGED vars
      PROVE  (PortAccounted /\ StoreInv)'
  BY <1>22 DEF vars
<1> QED
  BY <1>1, <1>2, <1>3, <1>4, <1>5, <1>6, <1>7, <1>8, <1>9, <1>10, <1>11,
     <1>12, <1>13, <1>14, <1>15, <1>16, <1>17, <1>18, <1>19, <1>20, <1>21,
     <1>22
     DEF Next, ConnectStep, OtherStep

(* A commit connects and a disconnect clears the handles.                   *)
LEMMA HeldStep == TypeOK /\ HeldInv /\ [Next]_vars => (HeldInv)'
<1> SUFFICES ASSUME TypeOK, HeldInv, [Next]_vars PROVE (HeldInv)'
  OBVIOUS
<1> USE NoneAssumption DEF TypeOK, Goto, PC, ConnectPC, Connecting, dm, request, world, HeldInv
<1>1. ASSUME NEW r \in Requests, Resolve(r)
      PROVE  (HeldInv)'
  <2>1. UNCHANGED <<dm, kind, outcome, world, sent, panicked>>
    BY <1>1 DEF Resolve
  <2>2. pc[r] = "resolve"
    BY <1>1 DEF Resolve
  <2>3. ASSUME NEW d \in Devices, want' = [want EXCEPT ![r] = d], Goto(r, "forward")
        PROVE  (HeldInv)'
    BY <2>1, <2>2, <2>3
  <2>4. CASE want[r] # None /\ Goto(r, "forward") /\ UNCHANGED want
    BY <2>1, <2>2, <2>4
  <2>5. CASE Goto(r, "done") /\ UNCHANGED want
    BY <2>1, <2>2, <2>5
  <2> QED BY ONLY <1>1, <2>3, <2>4, <2>5 DEF Resolve
<1>2. ASSUME NEW r \in Requests, ForwardPort(r)
      PROVE  (HeldInv)'
  BY <1>2 DEF ForwardPort
<1>3. ASSUME NEW r \in Requests, StoreForwarder(r)
      PROVE  (HeldInv)'
  BY <1>3 DEF StoreForwarder
<1>4. ASSUME NEW r \in Requests, Probe(r)
      PROVE  (HeldInv)'
  BY <1>4 DEF Probe
<1>5. ASSUME NEW r \in Requests, StartWDA(r)
      PROVE  (HeldInv)'
  BY <1>5 DEF StartWDA
<1>6. ASSUME NEW r \in Requests, WaitForWDA(r)
      PROVE  (HeldInv)'
  BY <1>6 DEF WaitForWDA
<1>7. ASSUME NEW r \in Requests, StoreProcess(r)
      PROVE  (HeldInv)'
  BY <1>7 DEF StoreProcess
<1>8. ASSUME NEW r \in Requests, Reprobe(r)
      PROVE  (HeldInv)'
  BY <1>8 DEF Reprobe
<1>9. ASSUME NEW r \in Requests, CreateSession(r)
      PROVE  (HeldInv)'
  BY <1>9 DEF CreateSession
<1>10. ASSUME NEW r \in Requests, Commit(r)
      PROVE  (HeldInv)'
  BY <1>10 DEF Commit
<1>11. ASSUME NEW r \in Requests, Disconnect(r)
      PROVE  (HeldInv)'
  <2>1. /\ pc[r] = "disconnect" /\ TearDown /\ Goto(r, "done")
        /\ UNCHANGED <<kind, want, outcome, external, sessOn, deaths, sent, panicked>>
    BY <1>11 DEF Disconnect
  <2>2. CASE connected = None
    <3>1. UNCHANGED <<dm, port, runners>>
      BY <2>1, <2>2 DEF TearDown
    <3> QED BY <2>1, <3>1
  <2>3. CASE connected # None
    BY <2>1, <2>3, TearDownCases
  <2> QED BY <2>2, <2>3
<1>12. ASSUME NEW r \in Requests, RestartRead(r)
      PROVE  (HeldInv)'
  BY <1>12 DEF RestartRead
<1>13. ASSUME NEW r \in Requests, RestartDisconnect(r)
      PROVE  (HeldInv)'
  <2>1. /\ pc[r] = "rsDisconnect" /\ TearDown /\ Goto(r, "resolve")
        /\ UNCHANGED <<kind, want, outcome, external, sessOn, deaths, sent, panicked>>
    BY <1>13 DEF RestartDisconnect
  <2>2. CASE connected = None
    <3>1. UNCHANGED <<dm, port, runners>>
      BY <2>1, <2>2 DEF TearDown
    <3> QED BY <2>1, <3>1
  <2>3. CASE connected # None
    BY <2>1, <2>3, TearDownCases
  <2> QED BY <2>2, <2>3
<1>14. ASSUME NEW r \in Requests, CheckConnected(r)
      PROVE  (HeldInv)'
  BY <1>14 DEF CheckConnected
<1>15. ASSUME NEW r \in Requests, CheckMode(r)
      PROVE  (HeldInv)'
  BY <1>15 DEF CheckMode
<1>16. ASSUME NEW r \in Requests, ReadDevice(r)
      PROVE  (HeldInv)'
  BY <1>16 DEF ReadDevice
<1>17. ASSUME NEW r \in Requests, DriveApp(r)
      PROVE  (HeldInv)'
  BY <1>17 DEF DriveApp
<1>18. ASSUME NEW r \in Requests, ReadURL(r)
      PROVE  (HeldInv)'
  BY <1>18 DEF ReadURL
<1>19. ASSUME NEW r \in Requests, ReadSession(r)
      PROVE  (HeldInv)'
  BY <1>19 DEF ReadSession
<1>20. ASSUME NEW r \in Requests, RunnerDies(r)
      PROVE  (HeldInv)'
  BY <1>20 DEF RunnerDies
<1>21. ASSUME NEW r \in Requests, NEW k \in Kinds, Begin(r, k)
      PROVE  (HeldInv)'
  BY <1>21 DEF Begin
<1>22. ASSUME UNCHANGED vars
      PROVE  (HeldInv)'
  BY <1>22 DEF vars
<1> QED
  BY <1>1, <1>2, <1>3, <1>4, <1>5, <1>6, <1>7, <1>8, <1>9, <1>10, <1>11,
     <1>12, <1>13, <1>14, <1>15, <1>16, <1>17, <1>18, <1>19, <1>20, <1>21,
     <1>22
     DEF Next, ConnectStep, OtherStep


-----------------------------------------------------------------------------
(* Init, and every step, establish the invariant.                           *)
LEMMA InitInv == Init => Inv
<1> SUFFICES ASSUME Init PROVE Inv
  OBVIOUS
<1>1. TypeOK
  <2>1. pc \in [Requests -> PC] /\ \A r \in Requests : ~Connecting(r)
    BY DEF Init, PC, ConnectPC, Connecting
  <2>2. deaths \in 0 .. MaxDeaths
    <3>1. deaths = 0
      BY DEF Init
    <3>2. 0 \in 0 .. MaxDeaths
      BY ONLY BoundsAssumption
    <3> QED BY <3>1, <3>2
  <2>3. external \subseteq Devices /\ runners \subseteq Requests
    BY DEF Init
  <2> QED BY <2>1, <2>2, <2>3 DEF Init, TypeOK
<1>2. StateCoherent /\ OutcomeInv
  BY DEF Init, StateCoherent, OutcomeInv
<1>3. PortAccounted /\ StoreInv
  BY DEF Init, PortAccounted, StoreInv
<1>4. HeldInv
  BY NoneAssumption DEF Init, HeldInv
<1> QED BY <1>1, <1>2, <1>3, <1>4 DEF Inv

LEMMA InvStep == Inv /\ [Next]_vars => Inv'
  BY TypeStep, CoherentStep, PortStep, HeldStep DEF Inv

(* The inductive invariant holds in every behaviour.                        *)
THEOREM Invariance == Spec => []Inv
  BY InitInv, InvStep, PTL DEF Spec
-----------------------------------------------------------------------------
(* Every variable keeps its type in every behaviour.                        *)
THEOREM TypeCorrect == Spec => []TypeOK
<1>1. Inv => TypeOK
  BY DEF Inv
<1> QED BY <1>1, Invariance, PTL

(* Whatever requests overlap, the four fields of the manager agree.         *)
THEOREM StateAlwaysCoherent == Spec => []StateCoherent
<1>1. Inv => StateCoherent
  BY DEF Inv
<1> QED BY <1>1, Invariance, PTL

(* Whatever requests overlap, the forwarder on port 8100 is never lost.     *)
THEOREM PortAlwaysAccounted == Spec => []PortAccounted
<1>1. Inv => PortAccounted
  BY DEF Inv
<1> QED BY <1>1, Invariance, PTL

(* A disconnected daemon at rest holds no port and no runner handle.        *)
THEOREM DisconnectedAlwaysClean == Spec => []DisconnectedIsClean
<1>1. ASSUME Inv, Quiet, connected = None
      PROVE  port = None /\ wdaProcess = None
  <2>1. \A r \in Requests : pc[r] \in {"new", "done"}
    BY <1>1 DEF Quiet, InProgress
  <2>2. portForwarder = None /\ wdaProcess = None
    BY <1>1, <2>1 DEF Inv, TypeOK, HeldInv, Connecting, ConnectPC
  <2> QED
    BY <1>1, <2>1, <2>2 DEF Inv, TypeOK, PortAccounted
<1>2. Inv => DisconnectedIsClean
  BY <1>1 DEF DisconnectedIsClean
<1> QED BY <1>2, Invariance, PTL
-----------------------------------------------------------------------------

(* A step of the daemon is a step of the device session or leaves it alone. *)
LEMMA StateStep == [StateNext]_stateVars => [Next]_vars
<1> SUFFICES ASSUME [StateNext]_stateVars PROVE [Next]_vars
  OBVIOUS
<1>1. ASSUME ~panicked, NEW r \in Requests, NEW k \in Kinds, BeginRequest(r, k)
      PROVE  Next
  BY <1>1 DEF BeginRequest, Next
<1>2. ASSUME ~panicked, NEW r \in Requests, RequestStep(r)
      PROVE  Next \/ UNCHANGED vars
  <2>1. CASE StopLog(r) \/ ReadStatus(r) \/ StartLog(r)
    BY <2>1 DEF StopLog, ReadStatus, StartLog
  <2>2. CASE MethodStep(r)
    BY <1>2, <2>2 DEF MethodStep, Next
  <2>3. CASE RunnerDies(r)
    BY <1>2, <2>3 DEF Next
  <2> QED BY <1>2, <2>1, <2>2, <2>3 DEF RequestStep
<1>3. ASSUME NEW o \in Observers, NEW k \in ObserverKinds, BeginObserver(o, k)
      PROVE  UNCHANGED vars
  BY <1>3 DEF BeginObserver, Observe
<1>4. ASSUME NEW o \in Observers, ObserverStep(o)
      PROVE  UNCHANGED vars
  BY <1>4
       DEF ObserverStep, Observe, Shoot, ShootMode, ShootURL, ShootWDA, LookMode,
           ReadWDAURL,
             FetchTree, AskApp, Reply
<1>5. CASE DriverEnds
  BY <1>5 DEF DriverEnds
<1>6. CASE UNCHANGED stateVars
  BY <1>6 DEF stateVars
<1> QED BY <1>1, <1>2, <1>3, <1>4, <1>5, <1>6 DEF StateNext

(* The daemon implements the device session, for any number of requests in  *)
(* progress at a time.                                                      *)
THEOREM DeviceLayer == StateSpec => Spec
<1>1. StateInit => Init
  BY DEF StateInit
<1> QED BY <1>1, StateStep, PTL DEF StateSpec, Spec

(* So the fields of the device session agree and its port is accounted for  *)
(* in every state of the daemon.                                            *)
THEOREM DaemonKeepsSession == StateSpec => [](StateCoherent /\ PortAccounted)
<1> QED BY DeviceLayer, StateAlwaysCoherent, PortAlwaysAccounted, PTL
-----------------------------------------------------------------------------
(* The types of the daemon's handlers.                                      *)

HandlerTypes ==
  /\ running \in BOOLEAN
  /\ capture \in Devices \cup {None}
  /\ hpc \in [Requests -> HandlerPC]
  /\ status \in [Requests -> Devices \cup {None}]
  /\ used \subseteq Devices
  /\ overlap \in BOOLEAN
  /\ disturbed \subseteq Requests \cup Observers
  /\ opc \in [Observers -> ObserverPC]
  /\ okind \in [Observers -> ObserverKinds \cup {"none"}]
  /\ haveURL \in [Observers -> BOOLEAN]
  /\ shot \in [Observers -> Devices \cup {None}]
  /\ tree \in [Observers -> Devices \cup {None}]

LEMMA TargetType == TypeOK => Target \in Devices \cup {None}
  BY DEF TypeOK, Target

LEMMA HandlerTypesStep == TypeOK /\ HandlerTypes /\ [StateNext]_stateVars => HandlerTypes'
<1> SUFFICES ASSUME TypeOK, HandlerTypes, [StateNext]_stateVars PROVE HandlerTypes'
  OBVIOUS
<1> USE DEF HandlerTypes, HandlerPC, ObserverPC, HGoto, OGoto, log, history, handlers, observers
<1>1. ASSUME NEW r \in Requests, NEW k \in Kinds, BeginRequest(r, k) PROVE HandlerTypes'
  BY <1>1 DEF BeginRequest
<1>2. ASSUME NEW r \in Requests, StopLog(r) \/ ReadStatus(r) \/ StartLog(r) PROVE HandlerTypes'
  <2>1. CASE StopLog(r)
    BY <2>1 DEF StopLog
  <2>2. CASE ReadStatus(r)
    BY <2>2 DEF ReadStatus, TypeOK
  <2>3. CASE StartLog(r)
    BY <2>3 DEF StartLog
  <2> QED BY <1>2, <2>1, <2>2, <2>3
<1>3. ASSUME NEW r \in Requests, MethodStep(r) PROVE HandlerTypes'
  <2>1. pc[r] = "commit" => want[r] \in Devices
    BY DEF TypeOK, Connecting, ConnectPC
  <2>2. hpc' \in [Requests -> HandlerPC]
    BY <1>3 DEF MethodStep
  <2>3. used' \subseteq Devices
    BY <1>3, <2>1 DEF MethodStep
  <2>4. disturbed' \subseteq Requests \cup Observers
    BY <1>3 DEF MethodStep, Readers
  <2> QED BY <1>3, <2>2, <2>3, <2>4 DEF MethodStep
<1>4. ASSUME NEW r \in Requests, RunnerDies(r), UNCHANGED <<handlers, observers>>
      PROVE  HandlerTypes'
  BY <1>4
<1>5. ASSUME NEW o \in Observers, NEW k \in ObserverKinds, BeginObserver(o, k) PROVE HandlerTypes'
  <2>1. /\ opc' = [opc EXCEPT ![o] = CASE k = "element" -> "url" [] k = "app" -> "app"
                                       [] OTHER -> "shoot"]
        /\ okind' = [okind EXCEPT ![o] = k]
        /\ UNCHANGED <<handlers, haveURL, shot, tree>>
    BY <1>5 DEF BeginObserver, Observe
  <2>2. PICK l \in {"url", "app", "shoot"} : opc' = [opc EXCEPT ![o] = l]
    BY <2>1
  <2> QED BY <2>1, <2>2
<1>6. ASSUME NEW o \in Observers, ObserverStep(o) PROVE HandlerTypes'
  <2> USE DEF Observe
  <2>1. AfterShot(o) \in {"mode", "reply"}
    BY DEF AfterShot
  <2>2. CASE Shoot(o) \/ ShootMode(o)
    BY <2>1, <2>2 DEF Shoot, ShootMode, TypeOK
  <2>3. CASE ShootURL(o) \/ ReadWDAURL(o)
    BY <2>3 DEF ShootURL, ReadWDAURL, TypeOK
  <2>4. CASE ShootWDA(o) \/ FetchTree(o)
    BY <2>1, <2>4, TargetType DEF ShootWDA, FetchTree
  <2>5. CASE LookMode(o) \/ AskApp(o)
    BY <2>5 DEF LookMode, AskApp, TypeOK
  <2>6. CASE Reply(o)
    BY <2>6 DEF Reply
  <2> QED BY <1>6, <2>2, <2>3, <2>4, <2>5, <2>6 DEF ObserverStep
<1>7. CASE DriverEnds
  BY <1>7 DEF DriverEnds
<1>8. CASE UNCHANGED stateVars
  BY <1>8 DEF stateVars
<1> QED BY <1>1, <1>2, <1>3, <1>4, <1>5, <1>6, <1>7, <1>8 DEF StateNext, RequestStep

LEMMA HandlerTypesInitial == StateInit => HandlerTypes
  BY DEF StateInit, HandlerTypes, HandlerPC, ObserverPC

(* The types of the daemon hold for any number of requests and observers in *)
(* progress at a time (state.go:13-23).                                     *)
THEOREM StateTypeCorrect == StateSpec => []StateTypeOK
<1>1. StateInit => HandlerTypes
  BY HandlerTypesInitial
<1>2. TypeOK /\ HandlerTypes /\ [StateNext]_stateVars => HandlerTypes'
  BY HandlerTypesStep
<1>3. TypeOK /\ HandlerTypes => StateTypeOK
  BY DEF StateTypeOK, HandlerTypes
<1> QED BY <1>1, <1>2, <1>3, DeviceLayer, TypeCorrect, PTL DEF StateSpec
-----------------------------------------------------------------------------
(* The invariant.  Its first two parts hold whatever overlaps; the others   *)
(* as long as no two requests that change the session have overlapped, with *)
(* any number of readers and observers beside them.                         *)

RequestBusy(r) == pc[r] \notin {"new", "done"} \/ hpc[r] \in {"status", "startLog"}
ObserverBusy(o) == opc[o] \notin {"new", "done"}

(* Where a tap or a launch is while it reads the session. *)
ReaderPC == {"isConn", "getMode", "getDevice", "drive", "getURL", "getSession"}

(* Where a handler is when its method is at a step, and whose forwarder and *)
(* session there can be.                                                    *)
PlaceInv ==
  \A r \in Requests :
    /\ pc[r] = "new" => hpc[r] = "entry"
    /\ hpc[r] \in {"status", "startLog", "end"} => pc[r] = "done"
    /\ hpc[r] = "stopped" => pc[r] = "disconnect"
    /\ pc[r] = "disconnect" => kind[r] = "disconnect"
    /\ pc[r] \in ConnectPC => kind[r] \in {"connect", "restart"}
    /\ pc[r] \in {"rsRead", "rsDisconnect"} => kind[r] = "restart"
    /\ pc[r] \in ReaderPC => kind[r] \notin SessionKinds
    /\ hpc[r] = "status" => kind[r] \in {"connect", "restart"}
    /\ hpc[r] = "startLog" => kind[r] = "connect"
    /\ port = r => pc[r] \in (ConnectPC \ {"resolve", "forward"}) \cup {"done"}
    /\ session = r => pc[r] = "done"

(* What a tap or a launch has read is still so, unless the session was      *)
(* changed meanwhile.                                                       *)
GuardInv ==
  /\ panicked => \E r \in disturbed \cap Requests : pc[r] = "getDevice"
  /\ \A r \in Requests : sent[r] = "blank" => r \in disturbed
  /\ \A r \in Requests \ disturbed :
       /\ pc[r] \in ReaderPC \ {"isConn"} => connected # None
       /\ pc[r] \in {"getURL", "getSession"} => mode = "full"
       /\ pc[r] = "getSession" => outcome[r] = "full"

(* At most one request that changes the session is being handled.           *)
Changer(r) == RequestBusy(r) /\ kind[r] \in SessionKinds
Alone == \A q, r \in Requests : Changer(q) /\ Changer(r) => q = r

(* The connected device, the session and the far end of port 8100 are among *)
(* the devices connected since the last disconnect.                         *)
UsedInv ==
  /\ connected # None => connected \in used
  /\ session # None => sessOn[session] \in used /\ port # None /\ ~Connecting(port)
  /\ port # None => want[port] \in used \/ Connecting(port)
  /\ \A r \in Requests :
       pc[r] = "commit" /\ outcome[r] = "full" =>
         port # None /\ sessOn[r] \in used \cup {want[r]}

(* The log manager counts a capture as running, or the handler is about to  *)
(* start one or has just ended it; a driver reads a device connected since  *)
(* the last disconnect.                                                     *)
CaptureInv ==
  /\ running => used # {}
  /\ capture # None => running /\ capture \in used
  /\ connected # None =>
       \/ running
       \/ \E r \in Requests : hpc[r] = "stopped"
       \/ \E r \in Requests : kind[r] = "connect" /\ hpc[r] \in {"status", "startLog"}
  /\ \A r \in Requests :
       /\ hpc[r] = "stopped" => ~running
       /\ hpc[r] \in {"status", "startLog"} => connected # None
       /\ hpc[r] = "startLog" => status[r] = connected
       /\ kind[r] = "restart" /\ pc[r] \in ConnectPC \cup {"rsDisconnect"} => running

(* What an observer has seen is of a device connected since the last        *)
(* disconnect, unless the session was changed meanwhile.                    *)
EvidenceInv ==
  /\ \A o \in Observers : opc[o] = "new" => shot[o] = None /\ tree[o] = None
  /\ \A o \in Observers \ disturbed :
       /\ ObserverBusy(o) => {shot[o], tree[o]} \subseteq used \cup {None}
       /\ opc[o] \in {"wdaURL", "wdaShot"} => mode = "full"

AloneInv == Alone /\ UsedInv /\ CaptureInv /\ EvidenceInv
SeqInv == PlaceInv /\ GuardInv /\ (~overlap => AloneInv)

(* The invariant gives the properties.                                      *)
LEMMA SeqGives ==
  ASSUME StateTypeOK, Inv, SeqInv
  PROVE  /\ GuardsHold
         /\ DisconnectEndsCapture
         /\ CaptureFollowsSession
         /\ FullModeWorks
         /\ EvidenceAgrees
<1> USE NoneAssumption
<1>1. GuardsHold
  BY DEF SeqInv, GuardInv, GuardsHold
<1>2. DisconnectEndsCapture
  BY DEF SeqInv, AloneInv, CaptureInv, DisconnectEndsCapture
<1>3. CaptureFollowsSession
  <2>1. SUFFICES ASSUME ~overlap, OneDevice, AtRest, connected # None
                 PROVE  running /\ capture \in {connected, None}
    BY DEF CaptureFollowsSession
  <2>2. /\ \A r \in Requests : pc[r] \in {"new", "done"}
        /\ \A r \in Requests : hpc[r] \notin {"status", "startLog"}
    BY <2>1 DEF AtRest, Busy, InProgress
  <2>3. \A r \in Requests : hpc[r] # "stopped"
    BY <2>2 DEF SeqInv, PlaceInv
  <2>4. running /\ capture \in used \cup {None} /\ connected \in used
    BY <2>1, <2>2, <2>3 DEF SeqInv, AloneInv, CaptureInv, UsedInv
  <2> QED BY <2>1, <2>4 DEF OneDevice
<1>4. FullModeWorks
  <2>1. SUFFICES ASSUME ~overlap, OneDevice, mode = "full"
                 PROVE  sessOn[session] = connected /\ Target = connected
    BY DEF FullModeWorks
  <2>2. connected # None /\ session # None
    BY <2>1 DEF Inv, StateCoherent
  <2>3. /\ port # None
        /\ sessOn[session] \in used /\ want[port] \in used /\ connected \in used
    BY <2>1, <2>2 DEF SeqInv, AloneInv, UsedInv
  <2> QED BY <2>1, <2>3 DEF Target, OneDevice
<1>5. EvidenceAgrees
  <2>1. SUFFICES ASSUME NEW o \in Observers \ disturbed, ~overlap, OneDevice,
                        opc[o] = "reply", tree[o] # None, shot[o] # None
                 PROVE  tree[o] = shot[o]
    BY DEF EvidenceAgrees
  <2>2. tree[o] \in used /\ shot[o] \in used
    BY <2>1 DEF SeqInv, AloneInv, EvidenceInv, ObserverBusy
  <2> QED BY <2>1, <2>2 DEF OneDevice
<1> QED BY <1>1, <1>2, <1>3, <1>4, <1>5
-----------------------------------------------------------------------------
(* Busy and Changing, by where the handlers are.                            *)
LEMMA WhoIsBusy ==
  /\ \A r \in Requests : Changing(r) <=> Changer(r)
  /\ \A r \in Requests : RequestBusy(r) /\ kind[r] \notin SessionKinds => r \in Busy \cap Readers
  /\ \A o \in Observers : ObserverBusy(o) => o \in Busy \cap Readers
  BY ObserversAssumption
     DEF Changing, Changer, RequestBusy, ObserverBusy, Busy, InProgress, Readers

(* Whom a step of the session's methods concerns.                           *)
LEMMA MethodMoves ==
  ASSUME TypeOK, NEW r \in Requests, ConnectStep(r) \/ OtherStep(r)
  PROVE  /\ pc[r] \notin {"new", "done"}
         /\ \E l \in PC : pc' = [pc EXCEPT ![r] = l]
         /\ kind' = kind
         /\ \A q \in Requests \ {r} :
              /\ want'[q] = want[q] /\ outcome'[q] = outcome[q]
              /\ sessOn'[q] = sessOn[q] /\ sent'[q] = sent[q]
         /\ ~ChangesSession(r) => UNCHANGED <<connected, mode, url, session>>
<1> USE DEF Goto, PC, ConnectPC, dm, request, world, TypeOK, ChangesSession
<1>1. CASE Resolve(r)
  BY <1>1 DEF Resolve
<1>2. CASE ForwardPort(r)
  BY <1>2 DEF ForwardPort
<1>3. CASE StoreForwarder(r)
  BY <1>3 DEF StoreForwarder
<1>4. CASE Probe(r)
  BY <1>4 DEF Probe
<1>5. CASE StartWDA(r)
  BY <1>5 DEF StartWDA
<1>6. CASE WaitForWDA(r)
  BY <1>6 DEF WaitForWDA
<1>7. CASE StoreProcess(r)
  BY <1>7 DEF StoreProcess
<1>8. CASE Reprobe(r)
  BY <1>8 DEF Reprobe
<1>9. CASE CreateSession(r)
  BY <1>9 DEF CreateSession
<1>10. CASE Commit(r)
  BY <1>10 DEF Commit
<1>11. CASE Disconnect(r)
  BY <1>11 DEF Disconnect
<1>12. CASE RestartRead(r)
  BY <1>12 DEF RestartRead
<1>13. CASE RestartDisconnect(r)
  BY <1>13 DEF RestartDisconnect
<1>14. CASE CheckConnected(r)
  BY <1>14 DEF CheckConnected
<1>15. CASE CheckMode(r)
  BY <1>15 DEF CheckMode
<1>16. CASE ReadDevice(r)
  BY <1>16 DEF ReadDevice
<1>17. CASE DriveApp(r)
  BY <1>17 DEF DriveApp
<1>18. CASE ReadURL(r)
  BY <1>18 DEF ReadURL
<1>19. CASE ReadSession(r)
  BY <1>19 DEF ReadSession
<1> QED BY <1>1, <1>2, <1>3, <1>4, <1>5, <1>6, <1>7, <1>8, <1>9, <1>10, <1>11, <1>12,
     <1>13, <1>14, <1>15, <1>16, <1>17, <1>18, <1>19
     DEF ConnectStep, OtherStep

(* The same of a handler's step and of an observer's.                       *)
LEMMA HandlerMoves ==
  ASSUME TypeOK, HandlerTypes, PlaceInv, NEW r \in Requests, RequestStep(r)
  PROVE  /\ UNCHANGED observers /\ kind' = kind /\ overlap' = overlap
         /\ \A q \in Requests \ {r} :
              pc'[q] = pc[q] /\ hpc'[q] = hpc[q] /\ status'[q] = status[q]
         /\ \A q \in Requests : RequestBusy(q)' => RequestBusy(q)
         /\ RequestBusy(r) \/ (RunnerDies(r) /\ UNCHANGED handlers)
<1> USE DEF RequestBusy, HGoto, history, log
<1>0. hpc \in [Requests -> HandlerPC] /\ status \in [Requests -> Devices \cup {None}]
  BY DEF HandlerTypes
<1>1. CASE StopLog(r)
  <2>1. /\ pc[r] = "disconnect" /\ hpc' = [hpc EXCEPT ![r] = "stopped"]
        /\ UNCHANGED <<pc, kind, status, overlap, observers>>
    BY <1>1 DEF StopLog, vars
  <2> QED BY <1>0, <2>1
<1>2. CASE MethodStep(r)
  <2>1. /\ pc[r] \notin {"new", "done"} /\ kind' = kind
        /\ \A q \in Requests \ {r} : pc'[q] = pc[q]
    BY <1>2, MethodMoves DEF MethodStep, TypeOK
  <2>2. /\ UNCHANGED <<status, overlap, observers>>
        /\ hpc' \in {hpc, [hpc EXCEPT ![r] = "status"], [hpc EXCEPT ![r] = "end"]}
    BY <1>2 DEF MethodStep
  <2>3. \A q \in Requests \ {r} : hpc'[q] = hpc[q]
    BY <1>0, <2>2
  <2> QED BY <2>1, <2>2, <2>3
<1>3. CASE ReadStatus(r)
  <2>1. /\ hpc[r] = "status" /\ UNCHANGED <<pc, kind, overlap, observers>>
        /\ status' \in {status, [status EXCEPT ![r] = connected]}
        /\ hpc' \in {[hpc EXCEPT ![r] = "startLog"], [hpc EXCEPT ![r] = "end"]}
    BY <1>3 DEF ReadStatus, vars
  <2> QED BY <1>0, <2>1
<1>4. CASE StartLog(r)
  <2>1. /\ hpc[r] = "startLog" /\ hpc' = [hpc EXCEPT ![r] = "end"]
        /\ status' = [status EXCEPT ![r] = None]
        /\ UNCHANGED <<pc, kind, overlap, observers>>
    BY <1>4 DEF StartLog, vars
  <2> QED BY <1>0, <2>1
<1>5. CASE RunnerDies(r) /\ UNCHANGED <<handlers, observers>>
  BY <1>5 DEF RunnerDies, request, handlers
<1> QED BY <1>1, <1>2, <1>3, <1>4, <1>5 DEF RequestStep

LEMMA ObserverMoves ==
  ASSUME HandlerTypes, NEW o \in Observers, ObserverStep(o)
  PROVE  /\ UNCHANGED <<vars, running, capture, hpc, status, used, overlap>>
         /\ disturbed' \in {disturbed, disturbed \ {o}}
         /\ ObserverBusy(o)
         /\ \A p \in Observers \ {o} :
              opc'[p] = opc[p] /\ shot'[p] = shot[p] /\ tree'[p] = tree[p]
         /\ opc'[o] # "new"
<1> USE DEF HandlerTypes, ObserverBusy, OGoto, Observe, AfterShot, handlers, log
<1>1. CASE Shoot(o)
  BY <1>1 DEF Shoot
<1>2. CASE ShootMode(o)
  BY <1>2 DEF ShootMode
<1>3. CASE ShootURL(o)
  BY <1>3 DEF ShootURL
<1>4. CASE ShootWDA(o)
  BY <1>4 DEF ShootWDA
<1>5. CASE LookMode(o)
  BY <1>5 DEF LookMode
<1>6. CASE ReadWDAURL(o)
  BY <1>6 DEF ReadWDAURL
<1>7. CASE FetchTree(o)
  BY <1>7 DEF FetchTree
<1>8. CASE AskApp(o)
  BY <1>8 DEF AskApp
<1>9. CASE Reply(o)
  BY <1>9 DEF Reply
<1> QED BY <1>1, <1>2, <1>3, <1>4, <1>5, <1>6, <1>7, <1>8, <1>9 DEF ObserverStep

(* Begin puts the request at the first step of its method, and notes when   *)
(* it overlaps another one that changes the session.                        *)
LEMMA BeginMoves ==
  ASSUME TypeOK, NEW r \in Requests, NEW k \in Kinds, BeginRequest(r, k)
  PROVE  /\ pc[r] = "new"
         /\ UNCHANGED <<dm, want, outcome, world, sent, panicked>>
         /\ UNCHANGED <<running, capture, hpc, status, used, disturbed, observers>>
         /\ ~overlap' => ~overlap /\ (k \in SessionKinds => \A q \in Requests : ~Changer(q))
         /\ kind' = [kind EXCEPT ![r] = k]
         /\ \/ k = "connect" /\ pc' = [pc EXCEPT ![r] = "resolve"]
            \/ k = "restart" /\ pc' = [pc EXCEPT ![r] = "rsRead"]
            \/ k = "disconnect" /\ pc' = [pc EXCEPT ![r] = "disconnect"]
            \/ k \notin SessionKinds /\ pc' = [pc EXCEPT ![r] = "isConn"]
<1>1. ~overlap' => ~overlap /\ (k \in SessionKinds => \A q \in Requests : ~Changer(q))
  BY WhoIsBusy DEF BeginRequest
<1>2. UNCHANGED <<running, capture, hpc, status, used, disturbed, observers>>
  BY DEF BeginRequest, log
<1> QED BY <1>1, <1>2 DEF BeginRequest, Begin, Goto, SessionKinds

(* While a method changes the session, every other request is new, done or  *)
(* a reader.                                                                *)
LEMMA MethodAlone ==
  ASSUME TypeOK, HandlerTypes, PlaceInv, Alone, NEW r \in Requests, MethodStep(r),
         pc[r] \notin ReaderPC
  PROVE  /\ ConnectStep(r) \/ OtherStep(r)
         /\ kind' = kind
         /\ \A q \in Requests \ {r} :
              /\ pc[q] \in {"new", "done"} \cup ReaderPC /\ pc'[q] = pc[q]
              /\ hpc'[q] = hpc[q] /\ hpc[q] \in {"entry", "end"}
              /\ want'[q] = want[q] /\ outcome'[q] = outcome[q]
              /\ sessOn'[q] = sessOn[q] /\ sent'[q] = sent[q]
<1>1. ConnectStep(r) \/ OtherStep(r)
  BY DEF MethodStep
<1>2. RequestStep(r)
  BY DEF RequestStep
<1>3. /\ pc[r] \notin {"new", "done"} /\ kind' = kind
      /\ \A q \in Requests \ {r} :
           /\ want'[q] = want[q] /\ outcome'[q] = outcome[q]
           /\ sessOn'[q] = sessOn[q] /\ sent'[q] = sent[q]
  BY <1>1, MethodMoves
<1>4. \A q \in Requests \ {r} : pc'[q] = pc[q] /\ hpc'[q] = hpc[q]
  BY <1>2, HandlerMoves
<1>5. Changer(r)
  <2>1. pc[r] \in PC
    BY DEF TypeOK
  <2>2. kind[r] \in SessionKinds
    BY <1>3, <2>1 DEF PlaceInv, PC, ReaderPC, SessionKinds
  <2> QED BY <1>3, <2>2 DEF Changer, RequestBusy
<1>6. \A q \in Requests \ {r} : ~Changer(q)
  BY <1>5 DEF Alone
<1>7. \A q \in Requests \ {r} :
        /\ pc[q] \in {"new", "done"} \cup ReaderPC
        /\ hpc[q] \in {"entry", "end"}
  <2>1. SUFFICES ASSUME NEW q \in Requests \ {r}
                 PROVE  /\ pc[q] \in {"new", "done"} \cup ReaderPC
                        /\ hpc[q] \in {"entry", "end"}
    OBVIOUS
  <2>2. ~Changer(q) /\ pc[q] \in PC /\ hpc[q] \in HandlerPC
    BY <1>6 DEF TypeOK, HandlerTypes
  <2>3. pc[q] \in {"new", "done"} \cup ReaderPC
    BY <2>2 DEF Changer, RequestBusy, PC, ReaderPC, SessionKinds, PlaceInv
  <2>4. hpc[q] \in {"entry", "end"}
    BY <2>2, <2>3 DEF Changer, RequestBusy, HandlerPC, ReaderPC, SessionKinds, PlaceInv
  <2> QED BY <2>3, <2>4
<1> QED BY <1>1, <1>3, <1>4, <1>7

(* A reader changes nothing but where it is and what it has read.           *)
LEMMA ReaderMoves ==
  ASSUME TypeOK, HandlerTypes, PlaceInv, NEW r \in Requests, MethodStep(r), pc[r] \in ReaderPC
  PROVE  /\ UNCHANGED <<dm, kind, want, world, log, status, history, hpc, observers>>
         /\ pc'[r] \in ReaderPC \cup {"done"}
         /\ \A q \in Requests \ {r} : pc'[q] = pc[q] /\ outcome'[q] = outcome[q]
<1> USE DEF ReaderPC, Goto, TypeOK
<1>1. \/ CheckConnected(r) \/ CheckMode(r) \/ ReadDevice(r) \/ DriveApp(r) \/ ReadURL(r)
      \/ ReadSession(r)
  BY DEF MethodStep, ConnectStep, OtherStep, Resolve, ForwardPort, StoreForwarder, Probe,
         StartWDA, WaitForWDA, StoreProcess, Reprobe, CreateSession, Commit, Disconnect,
         RestartRead, RestartDisconnect
<1>2. UNCHANGED <<log, status, history, hpc, observers>>
  BY DEF MethodStep, ChangesSession, history
<1>3. /\ UNCHANGED <<dm, kind, want, world>>
      /\ pc'[r] \in ReaderPC \cup {"done"}
      /\ \A q \in Requests \ {r} : pc'[q] = pc[q] /\ outcome'[q] = outcome[q]
  BY <1>1 DEF CheckConnected, CheckMode, ReadDevice, DriveApp, ReadURL, ReadSession
<1> QED BY <1>2, <1>3

(* What Disconnect leaves, connected or not.                                *)
LEMMA TearDownEffect ==
  ASSUME TypeOK, StateCoherent, PortAccounted, HeldInv, TearDown
  PROVE  /\ connected' = None /\ mode' = "unset" /\ session' = None
         /\ port' # None => port' = port /\ Connecting(port)
<1>1. CASE connected = None
  <2>1. UNCHANGED <<dm, port>> /\ mode = "unset" /\ session = None
    BY <1>1 DEF TearDown, StateCoherent
  <2>2. port # None => Connecting(port)
    BY <1>1 DEF TypeOK, PortAccounted, HeldInv, Connecting, ConnectPC
  <2> QED BY <1>1, <2>1, <2>2 DEF dm
<1>2. CASE connected # None
  <2>1. port # None /\ port # portForwarder => Connecting(port)
    BY DEF PortAccounted, Connecting, ConnectPC
  <2> QED BY <1>2, <2>1, TearDownCases
<1> QED BY <1>1, <1>2
-----------------------------------------------------------------------------
(* A handler calls its own method, whatever the others do.                  *)
LEMMA PlaceInvStep ==
  ASSUME TypeOK, Inv, HandlerTypes, PlaceInv, [StateNext]_stateVars
  PROVE  PlaceInv'
<1> USE NoneAssumption
     DEF PlaceInv, Goto, dm, request, world, ConnectPC, ReaderPC, SessionKinds, HGoto,
         HandlerPC, TypeOK, HandlerTypes
<1>1. ASSUME NEW r \in Requests, NEW k \in Kinds, BeginRequest(r, k) PROVE PlaceInv'
  BY <1>1, BeginMoves
<1>2. ASSUME NEW r \in Requests, StopLog(r) \/ ReadStatus(r) \/ StartLog(r) PROVE PlaceInv'
  BY <1>2 DEF StopLog, ReadStatus, StartLog, vars
<1>3. ASSUME NEW r \in Requests, RunnerDies(r), UNCHANGED <<handlers, observers>> PROVE PlaceInv'
  BY <1>3 DEF RunnerDies, handlers, observers
<1>4. ASSUME NEW r \in Requests, MethodStep(r) PROVE PlaceInv'
  <2>0. /\ ConnectStep(r) \/ OtherStep(r)
        /\ kind' = kind
        /\ \A q \in Requests \ {r} : pc'[q] = pc[q] /\ hpc'[q] = hpc[q]
    BY <1>4, MethodMoves, HandlerMoves DEF MethodStep, RequestStep
  <2>1. CASE Resolve(r)
    BY <1>4, <2>0, <2>1 DEF MethodStep, Resolve
  <2>2. CASE ForwardPort(r)
    BY <1>4, <2>0, <2>2 DEF MethodStep, ForwardPort
  <2>3. CASE StoreForwarder(r)
    BY <1>4, <2>0, <2>3 DEF MethodStep, StoreForwarder
  <2>4. CASE Probe(r)
    BY <1>4, <2>0, <2>4 DEF MethodStep, Probe
  <2>5. CASE StartWDA(r)
    BY <1>4, <2>0, <2>5 DEF MethodStep, StartWDA
  <2>6. CASE WaitForWDA(r)
    BY <1>4, <2>0, <2>6 DEF MethodStep, WaitForWDA
  <2>7. CASE StoreProcess(r)
    BY <1>4, <2>0, <2>7 DEF MethodStep, StoreProcess
  <2>8. CASE Reprobe(r)
    BY <1>4, <2>0, <2>8 DEF MethodStep, Reprobe
  <2>9. CASE CreateSession(r)
    BY <1>4, <2>0, <2>9 DEF MethodStep, CreateSession
  <2>10. CASE Commit(r)
    BY <1>4, <2>0, <2>10 DEF MethodStep, Commit
  <2>11. CASE RestartRead(r)
    BY <1>4, <2>0, <2>11 DEF MethodStep, RestartRead
  <2>12. CASE CheckConnected(r) \/ CheckMode(r) \/ ReadDevice(r)
    BY <1>4, <2>0, <2>12 DEF MethodStep, CheckConnected, CheckMode, ReadDevice
  <2>13. CASE DriveApp(r) \/ ReadURL(r) \/ ReadSession(r)
    BY <1>4, <2>0, <2>13 DEF MethodStep, DriveApp, ReadURL, ReadSession
  <2>14. CASE Disconnect(r)
    <3>1. /\ connected' = None /\ mode' = "unset" /\ session' = None
          /\ port' # None => port' = port /\ Connecting(port)
      BY <2>14, TearDownEffect DEF Inv, Disconnect
    <3> QED BY <1>4, <2>0, <2>14, <3>1 DEF MethodStep, Disconnect, Connecting
  <2>15. CASE RestartDisconnect(r)
    <3>1. /\ connected' = None /\ mode' = "unset" /\ session' = None
          /\ port' # None => port' = port /\ Connecting(port)
      BY <2>15, TearDownEffect DEF Inv, RestartDisconnect
    <3> QED BY <1>4, <2>0, <2>15, <3>1 DEF MethodStep, RestartDisconnect, Connecting
  <2> QED BY <2>0, <2>1, <2>2, <2>3, <2>4, <2>5, <2>6, <2>7, <2>8, <2>9, <2>10, <2>11,
       <2>12, <2>13, <2>14, <2>15
       DEF ConnectStep, OtherStep
<1>5. ASSUME NEW o \in Observers, NEW k \in ObserverKinds, BeginObserver(o, k) PROVE PlaceInv'
  BY <1>5 DEF BeginObserver, Observe, vars, handlers
<1>6. ASSUME NEW o \in Observers, ObserverStep(o) PROVE PlaceInv'
  BY <1>6, ObserverMoves DEF vars
<1>7. CASE DriverEnds
  BY <1>7 DEF DriverEnds, vars
<1>8. CASE UNCHANGED stateVars
  BY <1>8 DEF stateVars, vars, handlers
<1> QED BY <1>1, <1>2, <1>3, <1>4, <1>5, <1>6, <1>7, <1>8 DEF StateNext, RequestStep

(* Whoever changes the session disturbs every reader there is.              *)
LEMMA ChangeDisturbs ==
  ASSUME TypeOK, PlaceInv, NEW r \in Requests, MethodStep(r)
  PROVE  /\ disturbed \subseteq disturbed'
         /\ ChangesSession(r) => /\ \A q \in Requests : pc[q] \in ReaderPC => q \in disturbed'
                                 /\ \A o \in Observers : ObserverBusy(o) => o \in disturbed'
         /\ ~ChangesSession(r) => /\ UNCHANGED <<connected, mode, url, session>>
                                  /\ UNCHANGED <<used, disturbed>>
<1>1. \A q \in Requests : pc[q] \in ReaderPC => RequestBusy(q) /\ kind[q] \notin SessionKinds
  BY DEF PlaceInv, ReaderPC, RequestBusy
<1>2. disturbed' = IF ChangesSession(r) THEN disturbed \cup (Busy \cap Readers) ELSE disturbed
  BY DEF MethodStep
<1>3. ~ChangesSession(r) => UNCHANGED <<connected, mode, url, session>>
  BY MethodMoves DEF MethodStep
<1>4. ~ChangesSession(r) => UNCHANGED used
  BY DEF MethodStep, ChangesSession
<1> QED BY <1>1, <1>2, <1>3, <1>4, WhoIsBusy

(* A tap finds what it has read before, or has been disturbed.              *)
LEMMA GuardInvStep ==
  ASSUME TypeOK, Inv, HandlerTypes, PlaceInv, GuardInv, [StateNext]_stateVars
  PROVE  GuardInv'
<1> USE NoneAssumption DEF TypeOK, GuardInv, Goto, dm, request, world, ReaderPC
<1>0. StateCoherent
  BY DEF Inv
<1>1. ASSUME ~panicked, NEW r \in Requests, NEW k \in Kinds, BeginRequest(r, k) PROVE GuardInv'
  <2>1. /\ UNCHANGED <<connected, mode, outcome, sent, panicked, disturbed>>
        /\ \E l \in {"resolve", "rsRead", "disconnect", "isConn"} : pc' = [pc EXCEPT ![r] = l]
    BY <1>1, BeginMoves
  <2> QED BY <1>1, <2>1
<1>2. ASSUME NEW r \in Requests, StopLog(r) \/ ReadStatus(r) \/ StartLog(r) PROVE GuardInv'
  BY <1>2 DEF StopLog, ReadStatus, StartLog, vars, history
<1>3. ASSUME NEW r \in Requests, RunnerDies(r), UNCHANGED <<handlers, observers>> PROVE GuardInv'
  BY <1>3 DEF RunnerDies, handlers
<1>4. ASSUME ~panicked, NEW r \in Requests, MethodStep(r) PROVE GuardInv'
  <2>0. /\ ConnectStep(r) \/ OtherStep(r)
        /\ pc[r] \notin {"new", "done"}
        /\ \E l \in PC : pc' = [pc EXCEPT ![r] = l]
        /\ \A q \in Requests \ {r} : outcome'[q] = outcome[q] /\ sent'[q] = sent[q]
        /\ disturbed \subseteq disturbed'
    BY <1>4, MethodMoves, ChangeDisturbs DEF MethodStep
  <2>1. CASE ChangesSession(r)
    <3>1. /\ pc'[r] \in {"done", "resolve"}
          /\ UNCHANGED <<sent, panicked>>
      BY <2>0, <2>1
         DEF ChangesSession, ConnectStep, OtherStep, Resolve, ForwardPort, StoreForwarder,
             Probe, StartWDA, WaitForWDA, StoreProcess, Reprobe, CreateSession, Commit,
             Disconnect, RestartRead, RestartDisconnect, CheckConnected, CheckMode,
             ReadDevice, DriveApp, ReadURL, ReadSession
    <3>2. \A q \in Requests : pc[q] \in ReaderPC => q \in disturbed'
      BY <1>4, <2>1, ChangeDisturbs
    <3> QED BY <1>4, <2>0, <3>1, <3>2
  <2>2. CASE ~ChangesSession(r)
    <3>1. UNCHANGED <<connected, mode, url, session, disturbed>>
      BY <1>4, <2>2, ChangeDisturbs
    <3>2. \A q \in Requests \ {r} : pc'[q] = pc[q]
      BY <2>0
    <3>3. CASE pc[r] \notin ReaderPC
      <4>1. pc'[r] \notin ReaderPC \ {"isConn"} /\ UNCHANGED <<sent, panicked>>
        BY <2>0, <2>2, <3>3
           DEF ChangesSession, ConnectStep, OtherStep, Resolve, ForwardPort, StoreForwarder,
               Probe, StartWDA, WaitForWDA, StoreProcess, Reprobe, CreateSession, Commit,
               Disconnect, RestartRead, RestartDisconnect, CheckConnected, CheckMode,
               ReadDevice, DriveApp, ReadURL, ReadSession
      <4> QED BY <1>4, <2>0, <3>1, <3>2, <4>1
    <3>4. CASE pc[r] \in ReaderPC
      <4>1. CASE CheckConnected(r)
        BY <1>4, <2>0, <3>1, <3>2, <4>1 DEF CheckConnected
      <4>2. CASE CheckMode(r)
        BY <1>0, <1>4, <2>0, <3>1, <3>2, <4>2 DEF CheckMode, StateCoherent
      <4>3. CASE ReadDevice(r)
        BY <1>4, <2>0, <3>1, <3>2, <4>3 DEF ReadDevice
      <4>4. CASE DriveApp(r)
        BY <1>4, <2>0, <3>1, <3>2, <4>4 DEF DriveApp
      <4>5. CASE ReadURL(r)
        BY <1>0, <1>4, <2>0, <3>1, <3>2, <4>5 DEF ReadURL, StateCoherent
      <4>6. CASE ReadSession(r)
        BY <1>0, <1>4, <2>0, <3>1, <3>2, <4>6 DEF ReadSession, StateCoherent
      <4>7. \/ CheckConnected(r) \/ CheckMode(r) \/ ReadDevice(r) \/ DriveApp(r) \/ ReadURL(r)
            \/ ReadSession(r)
        BY <2>0, <3>4
           DEF ConnectStep, OtherStep, Resolve, ForwardPort, StoreForwarder, Probe, StartWDA,
               WaitForWDA, StoreProcess, Reprobe, CreateSession, Commit, Disconnect,
               RestartRead, RestartDisconnect
      <4> QED BY <4>1, <4>2, <4>3, <4>4, <4>5, <4>6, <4>7
    <3> QED BY <3>3, <3>4
  <2> QED BY <2>1, <2>2
<1>5. ASSUME NEW o \in Observers, NEW k \in ObserverKinds, BeginObserver(o, k) PROVE GuardInv'
  BY <1>5 DEF BeginObserver, Observe, vars, handlers
<1>6. ASSUME NEW o \in Observers, ObserverStep(o) PROVE GuardInv'
  <2>1. /\ UNCHANGED vars
        /\ \A r \in Requests : r \in disturbed' <=> r \in disturbed
    BY <1>6, ObserverMoves, ObserversAssumption
  <2> QED BY <2>1 DEF vars
<1>7. CASE DriverEnds
  BY <1>7 DEF DriverEnds, vars, history
<1>8. CASE UNCHANGED stateVars
  BY <1>8 DEF stateVars, vars, handlers
<1> QED BY <1>1, <1>2, <1>3, <1>4, <1>5, <1>6, <1>7, <1>8 DEF StateNext, RequestStep
-----------------------------------------------------------------------------
(* One changer at a time stays one at a time, unless the overlap is noted.  *)
LEMMA AloneStep ==
  ASSUME TypeOK, HandlerTypes, PlaceInv, Alone, [StateNext]_stateVars, ~overlap'
  PROVE  Alone'
<1> USE DEF Alone, Changer
<1>1. ASSUME NEW r \in Requests, NEW k \in Kinds, BeginRequest(r, k) PROVE Alone'
  <2>1. /\ k \in SessionKinds => \A q \in Requests : ~Changer(q)
        /\ UNCHANGED hpc /\ kind' = [kind EXCEPT ![r] = k]
        /\ \A q \in Requests \ {r} : pc'[q] = pc[q]
    BY <1>1, BeginMoves DEF TypeOK
  <2>2. \A q \in Requests \ {r} : Changer(q)' => Changer(q)
    BY <2>1 DEF RequestBusy, TypeOK
  <2>3. Changer(r)' => k \in SessionKinds
    BY <2>1 DEF TypeOK
  <2> QED BY <2>1, <2>2, <2>3
<1>2. ASSUME NEW r \in Requests, RequestStep(r) PROVE Alone'
  BY <1>2, HandlerMoves
<1>3. ASSUME NEW o \in Observers, NEW k \in ObserverKinds, BeginObserver(o, k) PROVE Alone'
  BY <1>3 DEF BeginObserver, Observe, RequestBusy, handlers, vars
<1>4. ASSUME NEW o \in Observers, ObserverStep(o) PROVE Alone'
  BY <1>4, ObserverMoves DEF RequestBusy, vars
<1>5. CASE DriverEnds \/ UNCHANGED stateVars
  BY <1>5 DEF DriverEnds, stateVars, vars, handlers, RequestBusy
<1> QED BY <1>1, <1>2, <1>3, <1>4, <1>5 DEF StateNext

(* used grows with each commit and is emptied by device.disconnect.         *)
LEMMA UsedInvStep ==
  ASSUME TypeOK, Inv, HandlerTypes, PlaceInv, Alone, UsedInv, [StateNext]_stateVars
  PROVE  UsedInv'
<1> USE NoneAssumption
     DEF TypeOK, UsedInv, Goto, dm, request, world, Connecting, ConnectPC, ReaderPC
<1>0. UsedInv /\ PlaceInv /\ StateCoherent /\ PortAccounted /\ StoreInv /\ HeldInv
  BY DEF Inv
<1>1. ASSUME NEW r \in Requests, NEW k \in Kinds, BeginRequest(r, k) PROVE UsedInv'
  <2>1. /\ UNCHANGED <<connected, session, port, want, outcome, sessOn, used>>
        /\ pc[r] = "new"
        /\ \E l \in {"resolve", "rsRead", "disconnect", "isConn"} : pc' = [pc EXCEPT ![r] = l]
    BY <1>1, BeginMoves
  <2> QED BY <1>0, <2>1 DEF PlaceInv
<1>2. ASSUME NEW r \in Requests, StopLog(r) \/ ReadStatus(r) \/ StartLog(r) PROVE UsedInv'
  BY <1>0, <1>2 DEF StopLog, ReadStatus, StartLog, vars, history
<1>3. ASSUME NEW r \in Requests, RunnerDies(r), UNCHANGED <<handlers, observers>> PROVE UsedInv'
  BY <1>0, <1>3 DEF RunnerDies, handlers
<1>4. ASSUME NEW r \in Requests, MethodStep(r) PROVE UsedInv'
  <2>1. CASE pc[r] \in ReaderPC
    <3>1. /\ UNCHANGED <<connected, session, port, want, sessOn, used>>
          /\ pc'[r] \in ReaderPC \cup {"done"}
          /\ \A q \in Requests \ {r} : pc'[q] = pc[q] /\ outcome'[q] = outcome[q]
      BY <1>4, <2>1, ReaderMoves DEF history
    <3> QED BY <1>0, <2>1, <3>1 DEF PlaceInv
  <2>2. CASE pc[r] \notin ReaderPC
    <3>0. /\ ConnectStep(r) \/ OtherStep(r)
          /\ \A q \in Requests \ {r} :
               /\ pc[q] \in {"new", "done"} \cup ReaderPC /\ pc'[q] = pc[q]
               /\ hpc'[q] = hpc[q] /\ hpc[q] \in {"entry", "end"}
               /\ want'[q] = want[q] /\ outcome'[q] = outcome[q]
               /\ sessOn'[q] = sessOn[q] /\ sent'[q] = sent[q]
      BY <1>4, <2>2, MethodAlone
    <3>1. CASE Resolve(r)
      BY <1>0, <1>4, <3>0, <3>1 DEF MethodStep, Resolve, PlaceInv
    <3>2. CASE ForwardPort(r)
      BY <1>0, <1>4, <3>0, <3>2 DEF MethodStep, ForwardPort, PlaceInv
    <3>3. CASE StoreForwarder(r)
      BY <1>0, <1>4, <3>0, <3>3 DEF MethodStep, StoreForwarder
    <3>4. CASE Probe(r)
      BY <1>0, <1>4, <3>0, <3>4 DEF MethodStep, Probe
    <3>5. CASE StartWDA(r)
      BY <1>0, <1>4, <3>0, <3>5 DEF MethodStep, StartWDA
    <3>6. CASE WaitForWDA(r)
      BY <1>0, <1>4, <3>0, <3>6 DEF MethodStep, WaitForWDA
    <3>7. CASE StoreProcess(r)
      BY <1>0, <1>4, <3>0, <3>7 DEF MethodStep, StoreProcess
    <3>8. CASE Reprobe(r)
      BY <1>0, <1>4, <3>0, <3>8 DEF MethodStep, Reprobe
    <3>9. CASE CreateSession(r)
      BY <1>0, <1>4, <3>0, <3>9 DEF MethodStep, CreateSession, PlaceInv, Answers, Target
    <3>10. CASE Commit(r)
      BY <1>0, <1>4, <3>0, <3>10 DEF MethodStep, Commit, PlaceInv
    <3>11. CASE RestartRead(r)
      BY <1>0, <1>4, <3>0, <3>11 DEF MethodStep, RestartRead, PlaceInv
    <3>12. CASE Disconnect(r)
      <4>1. /\ connected' = None /\ mode' = "unset" /\ session' = None
            /\ port' # None => port' = port /\ Connecting(port)
        BY <3>12, TearDownEffect DEF Inv, Disconnect
      <4> QED BY <1>0, <1>4, <3>0, <3>12, <4>1 DEF MethodStep, Disconnect, PlaceInv
    <3>13. CASE RestartDisconnect(r)
      <4>1. /\ connected' = None /\ mode' = "unset" /\ session' = None
            /\ port' # None => port' = port /\ Connecting(port)
        BY <3>13, TearDownEffect DEF Inv, RestartDisconnect
      <4> QED BY <1>0, <1>4, <3>0, <3>13, <4>1 DEF MethodStep, RestartDisconnect, PlaceInv
    <3>14. ~(CheckConnected(r) \/ CheckMode(r) \/ ReadDevice(r) \/ DriveApp(r) \/ ReadURL(r)
             \/ ReadSession(r))
      BY <2>2 DEF ReaderPC, CheckConnected, CheckMode, ReadDevice, DriveApp, ReadURL, ReadSession
    <3> QED BY <3>0, <3>1, <3>2, <3>3, <3>4, <3>5, <3>6, <3>7,
         <3>8, <3>9, <3>10, <3>11, <3>12, <3>13, <3>14 DEF ConnectStep, OtherStep
  <2> QED BY <2>1, <2>2
<1>5. ASSUME NEW o \in Observers, NEW k \in ObserverKinds, BeginObserver(o, k) PROVE UsedInv'
  BY <1>0, <1>5 DEF BeginObserver, Observe, vars, handlers
<1>6. ASSUME NEW o \in Observers, ObserverStep(o) PROVE UsedInv'
  BY <1>0, <1>6, ObserverMoves DEF vars
<1>7. CASE DriverEnds
  BY <1>0, <1>7 DEF DriverEnds, vars, history
<1>8. CASE UNCHANGED stateVars
  BY <1>0, <1>8 DEF stateVars, vars, handlers
<1> QED BY <1>1, <1>2, <1>3, <1>4, <1>5, <1>6, <1>7, <1>8 DEF StateNext, RequestStep

(* The capture starts after the commit and stops before the disconnect.     *)
LEMMA CaptureInvStep ==
  ASSUME TypeOK, Inv, HandlerTypes, PlaceInv, Alone, UsedInv, CaptureInv, [StateNext]_stateVars
  PROVE  CaptureInv'
<1> USE NoneAssumption
     DEF TypeOK, HandlerTypes, CaptureInv, Goto, dm, request, world, ConnectPC, HGoto, ReaderPC,
         log
<1>0. CaptureInv /\ PlaceInv /\ (connected # None => connected \in used)
  BY DEF UsedInv
<1>1. ASSUME NEW r \in Requests, NEW k \in Kinds, BeginRequest(r, k) PROVE CaptureInv'
  <2>1. /\ UNCHANGED <<connected, running, capture, hpc, status, used>>
        /\ pc[r] = "new" /\ kind' = [kind EXCEPT ![r] = k]
        /\ \E l \in {"resolve", "rsRead", "disconnect", "isConn"} : pc' = [pc EXCEPT ![r] = l]
        /\ k = "restart" => pc' = [pc EXCEPT ![r] = "rsRead"]
    BY <1>1, BeginMoves DEF SessionKinds
  <2> QED BY <1>0, <2>1 DEF PlaceInv
<1>2. ASSUME NEW r \in Requests, StopLog(r) \/ ReadStatus(r) \/ StartLog(r) PROVE CaptureInv'
  <2>1. RequestBusy(r) /\ Changer(r)
    BY <1>2 DEF RequestBusy, Changer, PlaceInv, SessionKinds, StopLog, ReadStatus, StartLog
  <2>2. \A q \in Requests \ {r} : ~Changer(q)
    BY <2>1 DEF Alone
  <2>3. \A q \in Requests \ {r} : 
          /\ hpc[q] \in {"entry", "end"}
          /\ ~(kind[q] = "restart" /\ pc[q] \in ConnectPC \cup {"rsDisconnect"})
    BY <2>2 DEF Changer, RequestBusy, PlaceInv, HandlerPC, SessionKinds
  <2>4. CASE StopLog(r)
    BY <1>0, <2>3, <2>4 DEF StopLog, vars, history, PlaceInv
  <2>5. CASE ReadStatus(r)
    BY <1>0, <2>3, <2>5 DEF ReadStatus, vars, history, log, PlaceInv
  <2>6. CASE StartLog(r)
    BY <1>0, <2>3, <2>6 DEF StartLog, vars, history, log, PlaceInv
  <2> QED BY <1>2, <2>4, <2>5, <2>6
<1>3. ASSUME NEW r \in Requests, RunnerDies(r), UNCHANGED <<handlers, observers>> PROVE CaptureInv'
  BY <1>0, <1>3 DEF RunnerDies, handlers
<1>4. ASSUME NEW r \in Requests, MethodStep(r) PROVE CaptureInv'
  <2>1. CASE pc[r] \in ReaderPC
    <3>1. /\ UNCHANGED <<connected, kind, running, capture, status, used, hpc>>
          /\ pc'[r] \in ReaderPC \cup {"done"}
          /\ \A q \in Requests \ {r} : pc'[q] = pc[q]
      BY <1>4, <2>1, ReaderMoves DEF history, log
    <3> QED BY <1>0, <2>1, <3>1
  <2>2. CASE pc[r] \notin ReaderPC
    <3>0. /\ ConnectStep(r) \/ OtherStep(r)
          /\ kind' = kind
          /\ \A q \in Requests \ {r} :
               /\ pc[q] \in {"new", "done"} \cup ReaderPC /\ pc'[q] = pc[q]
               /\ hpc'[q] = hpc[q] /\ hpc[q] \in {"entry", "end"}
               /\ want'[q] = want[q] /\ outcome'[q] = outcome[q]
               /\ sessOn'[q] = sessOn[q] /\ sent'[q] = sent[q]
      BY <1>4, <2>2, MethodAlone
    <3>1. CASE Resolve(r)
      BY <1>0, <1>4, <3>0, <3>1 DEF MethodStep, Resolve
    <3>2. CASE ForwardPort(r)
      BY <1>0, <1>4, <3>0, <3>2 DEF MethodStep, ForwardPort
    <3>3. CASE StoreForwarder(r)
      BY <1>0, <1>4, <3>0, <3>3 DEF MethodStep, StoreForwarder
    <3>4. CASE Probe(r)
      BY <1>0, <1>4, <3>0, <3>4 DEF MethodStep, Probe
    <3>5. CASE StartWDA(r)
      BY <1>0, <1>4, <3>0, <3>5 DEF MethodStep, StartWDA
    <3>6. CASE WaitForWDA(r)
      BY <1>0, <1>4, <3>0, <3>6 DEF MethodStep, WaitForWDA
    <3>7. CASE StoreProcess(r)
      BY <1>0, <1>4, <3>0, <3>7 DEF MethodStep, StoreProcess
    <3>8. CASE Reprobe(r)
      BY <1>0, <1>4, <3>0, <3>8 DEF MethodStep, Reprobe
    <3>9. CASE CreateSession(r)
      BY <1>0, <1>4, <3>0, <3>9 DEF MethodStep, CreateSession
    <3>10. CASE Commit(r)
      BY <1>0, <1>4, <3>0, <3>10 DEF MethodStep, Commit, PlaceInv, Connecting
    <3>11. CASE RestartRead(r)
      BY <1>0, <1>4, <3>0, <3>11 DEF MethodStep, RestartRead, PlaceInv
    <3>12. CASE Disconnect(r)
      <4>1. /\ connected' = None /\ mode' = "unset" /\ session' = None
            /\ port' # None => port' = port /\ Connecting(port)
        BY <3>12, TearDownEffect DEF Inv, Disconnect
      <4> QED BY <1>0, <1>4, <3>0, <3>12, <4>1 DEF MethodStep, Disconnect, PlaceInv
    <3>13. CASE RestartDisconnect(r)
      <4>1. /\ connected' = None /\ mode' = "unset" /\ session' = None
            /\ port' # None => port' = port /\ Connecting(port)
        BY <3>13, TearDownEffect DEF Inv, RestartDisconnect
      <4> QED BY <1>0, <1>4, <3>0, <3>13, <4>1 DEF MethodStep, RestartDisconnect, PlaceInv
    <3>14. ~(CheckConnected(r) \/ CheckMode(r) \/ ReadDevice(r) \/ DriveApp(r) \/ ReadURL(r)
             \/ ReadSession(r))
      BY <2>2 DEF ReaderPC, CheckConnected, CheckMode, ReadDevice, DriveApp, ReadURL, ReadSession
    <3> QED BY <3>0, <3>1, <3>2, <3>3, <3>4, <3>5, <3>6, <3>7,
         <3>8, <3>9, <3>10, <3>11, <3>12, <3>13, <3>14 DEF ConnectStep, OtherStep
  <2> QED BY <2>1, <2>2
<1>5. ASSUME NEW o \in Observers, NEW k \in ObserverKinds, BeginObserver(o, k) PROVE CaptureInv'
  BY <1>0, <1>5 DEF BeginObserver, Observe, vars, handlers
<1>6. ASSUME NEW o \in Observers, ObserverStep(o) PROVE CaptureInv'
  BY <1>0, <1>6, ObserverMoves DEF vars
<1>7. CASE DriverEnds
  BY <1>0, <1>7 DEF DriverEnds, vars, history
<1>8. CASE UNCHANGED stateVars
  BY <1>0, <1>8 DEF stateVars, vars, handlers
<1> QED BY <1>1, <1>2, <1>3, <1>4, <1>5, <1>6, <1>7, <1>8 DEF StateNext, RequestStep

(* An observer looks at the connected device or through its port, or has    *)
(* been disturbed.                                                          *)
LEMMA EvidenceStep ==
  ASSUME TypeOK, Inv, HandlerTypes, PlaceInv, UsedInv, EvidenceInv, [StateNext]_stateVars
  PROVE  EvidenceInv'
<1> USE NoneAssumption DEF EvidenceInv
<1>0. EvidenceInv
  OBVIOUS
<1>1. ASSUME NEW r \in Requests, NEW k \in Kinds, BeginRequest(r, k) PROVE EvidenceInv'
  BY <1>0, <1>1, BeginMoves DEF observers, ObserverBusy, dm
<1>2. ASSUME NEW r \in Requests, StopLog(r) \/ ReadStatus(r) \/ StartLog(r) PROVE EvidenceInv'
  BY <1>0, <1>2 DEF StopLog, ReadStatus, StartLog, vars, history, observers, ObserverBusy
<1>3. ASSUME NEW r \in Requests, RunnerDies(r), UNCHANGED <<handlers, observers>> PROVE EvidenceInv'
  BY <1>0, <1>3 DEF RunnerDies, handlers, observers, ObserverBusy, dm
<1>4. ASSUME NEW r \in Requests, MethodStep(r) PROVE EvidenceInv'
  <2>0. UNCHANGED observers
    BY <1>4 DEF MethodStep
  <2>1. CASE ChangesSession(r)
    <3>1. \A o \in Observers : ObserverBusy(o) => o \in disturbed'
      BY <1>4, <2>1, ChangeDisturbs
    <3> QED BY <1>0, <2>0, <3>1 DEF observers, ObserverBusy
  <2>2. CASE ~ChangesSession(r)
    <3>1. UNCHANGED <<mode, used, disturbed>>
      BY <1>4, <2>2, ChangeDisturbs
    <3> QED BY <1>0, <2>0, <3>1 DEF observers, ObserverBusy
  <2> QED BY <2>1, <2>2
<1>5. ASSUME NEW o \in Observers, NEW k \in ObserverKinds, BeginObserver(o, k) PROVE EvidenceInv'
  <2>1. PICK l \in {"url", "app", "shoot"} : opc' = [opc EXCEPT ![o] = l]
    BY <1>5 DEF BeginObserver, OGoto
  <2>2. opc[o] = "new" /\ UNCHANGED <<shot, tree, mode, used, disturbed>>
    BY <1>5 DEF BeginObserver, Observe, vars, handlers
  <2> QED BY <1>0, <2>1, <2>2 DEF ObserverBusy, HandlerTypes
<1>6. ASSUME NEW o \in Observers, ObserverStep(o) PROVE EvidenceInv'
  <2>0. /\ UNCHANGED <<vars, used>> /\ ObserverBusy(o) /\ opc'[o] # "new"
        /\ disturbed' \in {disturbed, disturbed \ {o}}
        /\ \A p \in Observers \ {o} :
             opc'[p] = opc[p] /\ shot'[p] = shot[p] /\ tree'[p] = tree[p]
    BY <1>6, ObserverMoves
  <2>1. SUFFICES ASSUME o \notin disturbed'
                 PROVE  /\ ObserverBusy(o)' => {shot'[o], tree'[o]} \subseteq used \cup {None}
                        /\ opc'[o] \in {"wdaURL", "wdaShot"} => mode = "full"
    BY <1>0, <2>0 DEF ObserverBusy, vars
  <2> USE DEF HandlerTypes, OGoto
  <2>2. CASE Reply(o)
    BY <2>2 DEF Reply, ObserverBusy
  <2>3. CASE ~Reply(o)
    <3>0. o \notin disturbed
      BY <1>6, <2>1, <2>3
         DEF ObserverStep, Shoot, ShootMode, ShootURL, ShootWDA, LookMode, ReadWDAURL,
             FetchTree, AskApp, Observe, handlers
    <3>1. connected \in used \cup {None}
      BY DEF UsedInv
    <3>2. session # None => Target \in used
      BY DEF UsedInv, Target
    <3>3. opc[o] = "wdaShot" => Target \in used
      BY <1>0, <3>0, <3>2 DEF Inv, StateCoherent
    <3>4. {shot[o], tree[o]} \subseteq used \cup {None}
      BY <1>0, <2>0, <3>0
    <3>5. CASE Shoot(o) \/ AskApp(o)
      BY <3>1, <3>4, <3>5 DEF Shoot, AskApp, AfterShot
    <3>6. CASE ShootWDA(o)
      BY <3>3, <3>4, <3>6 DEF ShootWDA, AfterShot
    <3>7. CASE FetchTree(o)
      BY <3>2, <3>4, <3>7 DEF FetchTree
    <3>8. CASE ShootMode(o) \/ LookMode(o) \/ ReadWDAURL(o)
      BY <3>4, <3>8 DEF ShootMode, LookMode, ReadWDAURL
    <3>9. CASE ShootURL(o)
      BY <1>0, <3>0, <3>4, <3>9 DEF ShootURL
    <3> QED BY <1>6, <2>3, <3>5, <3>6, <3>7, <3>8, <3>9 DEF ObserverStep
  <2> QED BY <2>2, <2>3
<1>7. CASE DriverEnds
  BY <1>0, <1>7 DEF DriverEnds, vars, history, observers, ObserverBusy
<1>8. CASE UNCHANGED stateVars
  BY <1>0, <1>8 DEF stateVars, vars, handlers, observers, ObserverBusy
<1> QED BY <1>1, <1>2, <1>3, <1>4, <1>5, <1>6, <1>7, <1>8 DEF StateNext, RequestStep

-----------------------------------------------------------------------------
(* An overlap that was noted is not forgotten.                              *)
LEMMA OverlapStays ==
  ASSUME TypeOK, HandlerTypes, PlaceInv, [StateNext]_stateVars, ~overlap'
  PROVE  ~overlap
<1>1. ASSUME NEW r \in Requests, NEW k \in Kinds, BeginRequest(r, k) PROVE ~overlap
  BY <1>1, BeginMoves
<1>2. ASSUME NEW r \in Requests, RequestStep(r) PROVE ~overlap
  BY <1>2, HandlerMoves
<1>3. ASSUME NEW o \in Observers, NEW k \in ObserverKinds, BeginObserver(o, k) PROVE ~overlap
  BY <1>3 DEF BeginObserver, Observe, handlers
<1>4. ASSUME NEW o \in Observers, ObserverStep(o) PROVE ~overlap
  BY <1>4, ObserverMoves
<1>5. CASE DriverEnds \/ UNCHANGED stateVars
  BY <1>5 DEF DriverEnds, stateVars, handlers, history
<1> QED BY <1>1, <1>2, <1>3, <1>4, <1>5 DEF StateNext

(* The invariant of the handlers, from its parts.                           *)
LEMMA SeqInitial == StateInit => SeqInv
<1> SUFFICES ASSUME StateInit PROVE SeqInv
  OBVIOUS
<1> USE NoneAssumption DEF StateInit, Init
<1>1. PlaceInv /\ GuardInv /\ Alone
  BY DEF Alone, Changer, RequestBusy, PlaceInv, ConnectPC, ReaderPC, GuardInv
<1>2. UsedInv /\ CaptureInv /\ EvidenceInv
  BY DEF UsedInv, CaptureInv, EvidenceInv, ObserverBusy, ConnectPC
<1> QED BY <1>1, <1>2 DEF SeqInv, AloneInv

LEMMA SeqStep ==
  ASSUME TypeOK, Inv, HandlerTypes, SeqInv, [StateNext]_stateVars
  PROVE  SeqInv'
<1>1. PlaceInv' /\ GuardInv'
  BY PlaceInvStep, GuardInvStep DEF SeqInv
<1>2. ASSUME ~overlap' PROVE AloneInv'
  <2>1. AloneInv
    BY <1>2, OverlapStays DEF SeqInv
  <2>2. Alone' /\ UsedInv'
    BY <1>2, <2>1, AloneStep, UsedInvStep DEF SeqInv, AloneInv
  <2>3. CaptureInv' /\ EvidenceInv'
    BY <2>1, CaptureInvStep, EvidenceStep DEF SeqInv, AloneInv
  <2> QED BY <2>2, <2>3 DEF AloneInv
<1> QED BY <1>1, <1>2 DEF SeqInv

(* The invariant and the types of the handlers.                             *)
LEMMA HandlerInvariance == StateSpec => [](StateTypeOK /\ Inv /\ SeqInv)
<1>1. StateInit => HandlerTypes /\ SeqInv
  BY HandlerTypesInitial, SeqInitial
<1>2. TypeOK /\ Inv /\ HandlerTypes /\ SeqInv /\ [StateNext]_stateVars => SeqInv' /\ HandlerTypes'
  BY SeqStep, HandlerTypesStep
<1>3. TypeOK /\ HandlerTypes => StateTypeOK
  BY DEF StateTypeOK, HandlerTypes
<1> QED BY <1>1, <1>2, <1>3, DeviceLayer, TypeCorrect, Invariance, PTL DEF StateSpec

(* Whatever overlaps, a tap or a launch that has found a connected device   *)
(* finds it again and sends no blank URL or session, unless the session was *)
(* changed in the middle of it (app_manager.go:25-30, ui_controller.go:36-44).*)
THEOREM GuardsAlwaysHold == StateSpec => []GuardsHold
<1>1. StateTypeOK /\ Inv /\ SeqInv => GuardsHold
  BY SeqGives
<1> QED BY <1>1, HandlerInvariance, PTL

(* After a device.disconnect no capture runs until the next connect,        *)
(* whatever taps and looks run beside it (state.go:101-108).                *)
THEOREM DisconnectAlwaysEndsCapture == StateSpec => []DisconnectEndsCapture
<1>1. StateTypeOK /\ Inv /\ SeqInv => DisconnectEndsCapture
  BY SeqGives
<1> QED BY <1>1, HandlerInvariance, PTL

(* A capture was started for the connected device, also after wda.restart,  *)
(* and its driver reads that device unless it has ended by itself           *)
(* (state.go:89-95, log_manager.go:113-150).                                *)
THEOREM CaptureAlwaysFollows == StateSpec => []CaptureFollowsSession
<1>1. StateTypeOK /\ Inv /\ SeqInv => CaptureFollowsSession
  BY SeqGives
<1> QED BY <1>1, HandlerInvariance, PTL

(* Full mode means a session on the connected device behind a forwarded     *)
(* port, whichever runners die and also while a connect is under way        *)
(* (device_manager.go:72-160).                                              *)
THEOREM FullModeAlwaysWorks == StateSpec => []FullModeWorks
<1>1. StateTypeOK /\ Inv /\ SeqInv => FullModeWorks
  BY SeqGives
<1> QED BY <1>1, HandlerInvariance, PTL

(* Screenshot and elements of an answer are of one device, unless the       *)
(* session was changed between them (screen_capture.go:93-198,              *)
(* check.go:92-155).                                                        *)
THEOREM EvidenceAlwaysAgrees == StateSpec => []EvidenceAgrees
<1>1. StateTypeOK /\ Inv /\ SeqInv => EvidenceAgrees
  BY SeqGives
<1> QED BY <1>1, HandlerInvariance, PTL
=============================================================================
