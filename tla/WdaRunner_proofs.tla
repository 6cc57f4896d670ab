--------------------------- MODULE WdaRunner_proofs ---------------------------
(* The safety of WdaRunner for any number of connects, of looks at the      *)
(* tunnel, of managers and of faults.                                       *)
EXTENDS WdaRunner, TLAPS

Early == {"new", "ensure", "update", "poll", "device", "forward", "probe", "start",
          "enrich", "browse"}

(* One connect at a time is in UpdateTunnels, for a manager that nobody else*)
(* has seen.                                                                *)
OneUpdates ==
  \A s \in Starts : pc[s] = "update" =>
    /\ tm = 0 /\ made # 0 /\ made \notin cancelled
    /\ \A t \in Starts : pc[t] = "update" => t = s

(* Until StopTunnel cancels one, the first manager stays: whoever polls has *)
(* it, and only it may get the port of the HTTP API.                        *)
FirstManagerStays ==
  cancelled = {} =>
    /\ api \in {0, tm} /\ servers \subseteq {tm}
    /\ \A s \in Starts : pc[s] = "poll" => tm # 0
    /\ ~panicked

OneAlive == updaters \ cancelled \subseteq {tm} \ {0}

ManagerInv == TypeOK /\ OneUpdates /\ OneAlive /\ FirstManagerStays

(* A runner starts once, in the call that waits for it; its context is      *)
(* cancelled when the call has failed or its handle is closed.              *)
RunnerInv ==
  \A s \in Starts :
    /\ pc[s] \in Early => runner[s] = "none"
    /\ s \in stopped => pc[s] \in {"failed", "closed"}

Waiting == {s \in Starts : pc[s] = "wait"}
Handed == {s \in Starts : pc[s] \in {"ready", "closed"}}
Runners == {s \in Starts : runner[s] = "running" /\ s \notin stopped}
-----------------------------------------------------------------------------
(* One more fault, one more manager and one more look stay in their bounds. *)
LEMMA OneMore == ASSUME NEW n \in Nat, NEW i \in 0 .. n, i < n PROVE i + 1 \in 0 .. n
  OBVIOUS

(* The manager of UpdateTunnels exists, so the types hold after every step. *)
LEMMA TypeStep == TypeOK /\ OneUpdates /\ [Next]_vars => TypeOK'
<1> SUFFICES ASSUME TypeOK, OneUpdates, [Next]_vars PROVE TypeOK'
  OBVIOUS
<1> USE DEF TypeOK, PC, tunnel, port, managers, call, process
<1>1. ASSUME NEW s \in Starts, Begin(s) PROVE TypeOK'
  BY <1>1 DEF Begin, Goto
<1>2. ASSUME NEW s \in Starts, EnsureManager(s) PROVE TypeOK'
  <2>1. made' \in 0 .. MaxManagers /\ made <= made'
    BY <1>2, BoundsAssumption DEF EnsureManager, NewManager
  <2>2. UNCHANGED <<tm, cancelled, updaters, servers, api, foreign, faults, tries, fwd,
                    enricher, runner, stopped, up, panicked>>
    BY <1>2 DEF EnsureManager, port
  <2>3. tm \in 0 .. made' /\ api \in 0 .. made' /\ cancelled \subseteq 1 .. made'
        /\ updaters \subseteq 1 .. made' /\ servers \subseteq 1 .. made'
    BY <2>1
  <2>4. pc' \in [Starts -> PC]
    BY <1>2 DEF EnsureManager, NewManager, Goto
  <2> QED BY <2>1, <2>2, <2>3, <2>4
<1>3. ASSUME NEW s \in Starts, PollTunnel(s) PROVE TypeOK'
  <2>1. tries[s] < Polls => tries[s] + 1 \in 0 .. Polls
    BY BoundsAssumption, OneMore
  <2> QED BY <1>3, <2>1 DEF PollTunnel, Goto
<1>4. ASSUME NEW s \in Starts, ForwardPort(s) PROVE TypeOK'
  BY <1>4 DEF ForwardPort, Goto
<1>5. ASSUME NEW s \in Starts, Probe(s) PROVE TypeOK'
  BY <1>5 DEF Probe, Goto
<1>6. ASSUME NEW s \in Starts, StartWDA(s) PROVE TypeOK'
  BY <1>6 DEF StartWDA, Goto
<1>7. ASSUME NEW s \in Starts, ReceiveEntry(s) PROVE TypeOK'
  BY <1>7 DEF ReceiveEntry, Goto
<1>8. ASSUME NEW s \in Starts, Browse(s) PROVE TypeOK'
  BY <1>8 DEF Browse, Goto
<1>9. ASSUME NEW s \in Starts, WaitPoll(s) PROVE TypeOK'
  BY <1>9 DEF WaitPoll, Goto
<1>10. ASSUME NEW s \in Starts, WaitFails(s) PROVE TypeOK'
  BY <1>10 DEF WaitFails, Goto
<1>11. ASSUME NEW s \in Starts, Enrich(s) PROVE TypeOK'
  BY <1>11 DEF Enrich, Goto
<1>12. ASSUME NEW s \in Starts, SendEntry(s) PROVE TypeOK'
  BY <1>12 DEF SendEntry, Goto
<1>13. ASSUME NEW s \in Starts, RunnerServes(s) PROVE TypeOK'
  BY <1>13 DEF RunnerServes, Goto
<1>14. ASSUME NEW s \in Starts, RunnerReturns(s) PROVE TypeOK'
  <2>1. faults < MaxFaults => faults + 1 \in 0 .. MaxFaults
    BY BoundsAssumption, OneMore
  <2> QED BY <1>14, <2>1 DEF RunnerReturns, Fault
<1>15. ASSUME NEW s \in Starts, SendErr(s) PROVE TypeOK'
  BY <1>15 DEF SendErr, Goto
<1>16. ASSUME NEW s \in Starts, Close(s) PROVE TypeOK'
  BY <1>16 DEF Close, Goto
<1>17. ASSUME NEW m \in 1 .. made, UpdaterEnds(m) PROVE TypeOK'
  BY <1>17 DEF UpdaterEnds
<1>18. CASE StopTunnel
  <2>1. faults < MaxFaults => faults + 1 \in 0 .. MaxFaults
    BY BoundsAssumption, OneMore
  <2> QED BY <1>18, <2>1 DEF StopTunnel, Fault
<1>19. CASE UNCHANGED vars
  BY <1>19 DEF vars
<1>20. ASSUME NEW s \in Starts, UpdateReturns(s) PROVE TypeOK'
  <2>1. made \in 1 .. made
    BY <1>20 DEF OneUpdates, UpdateReturns
  <2> QED BY <1>20, <2>1 DEF UpdateReturns, Goto
<1>21. ASSUME NEW s \in Starts, GetDevice(s) PROVE TypeOK'
  BY <1>21 DEF GetDevice, Goto
<1>22. ASSUME NEW m \in 1 .. made, Serve(m) PROVE TypeOK'
  BY <1>22 DEF Serve, managers
<1>23. CASE OtherProcess
  <2>1. faults < MaxFaults => faults + 1 \in 0 .. MaxFaults
    BY BoundsAssumption, OneMore
  <2> QED BY <1>23, <2>1 DEF OtherProcess, Fault, managers
<1> QED
  BY ONLY [Next]_vars, <1>1, <1>2, <1>3, <1>4, <1>5, <1>6, <1>7, <1>8, <1>9, <1>10, <1>11, <1>12,
          <1>13, <1>14, <1>15, <1>16, <1>17, <1>18, <1>19, <1>20, <1>21, <1>22, <1>23
  DEF Next, LocalStep, LockStep, PhoneStep

(* One manager is alive, and the first one stays until it is cancelled.     *)
LEMMA ManagerStep == ManagerInv /\ [Next]_vars => (OneUpdates /\ OneAlive /\ FirstManagerStays)'
<1> SUFFICES ASSUME ManagerInv, [Next]_vars PROVE (OneUpdates /\ OneAlive /\ FirstManagerStays)'
  OBVIOUS
<1> USE DEF ManagerInv, OneUpdates, OneAlive, FirstManagerStays, port, managers, tunnel, call, process
<1>1. ASSUME NEW s \in Starts, Begin(s) PROVE (OneUpdates /\ OneAlive /\ FirstManagerStays)'
  BY <1>1 DEF TypeOK, Begin, Goto
<1>2. ASSUME NEW s \in Starts, EnsureManager(s) PROVE (OneUpdates /\ OneAlive /\ FirstManagerStays)'
  <2>1. UNCHANGED <<tm, cancelled, updaters, servers, api, panicked>> /\ pc[s] = "ensure"
    BY <1>2 DEF EnsureManager, port
  <2>2. \A t \in Starts : pc[t] # "update"
    BY <1>2 DEF EnsureManager, Updating
  <2>3. OneAlive'
    BY <2>1
  <2>4. CASE tm = 0 /\ NewManager(s)
    <3>1. made' # 0 /\ made' \notin cancelled /\ pc' = [pc EXCEPT ![s] = "update"]
      BY <2>4 DEF TypeOK, NewManager, Goto
    <3> QED BY <2>1, <2>2, <2>3, <2>4, <3>1 DEF TypeOK
  <2>5. CASE ~(tm = 0 /\ NewManager(s))
    <3>1. Goto(s, IF tm = 0 THEN "device" ELSE "poll")
      BY <1>2, <2>5 DEF EnsureManager
    <3> QED BY <2>1, <2>2, <2>3, <3>1 DEF TypeOK, Goto
  <2> QED BY <2>4, <2>5
<1>3. ASSUME NEW s \in Starts, PollTunnel(s) PROVE (OneUpdates /\ OneAlive /\ FirstManagerStays)'
  BY <1>3 DEF TypeOK, PollTunnel, Goto
<1>4. ASSUME NEW s \in Starts, ForwardPort(s) PROVE (OneUpdates /\ OneAlive /\ FirstManagerStays)'
  BY <1>4 DEF TypeOK, ForwardPort, Goto
<1>5. ASSUME NEW s \in Starts, Probe(s) PROVE (OneUpdates /\ OneAlive /\ FirstManagerStays)'
  BY <1>5 DEF TypeOK, Probe, Goto
<1>6. ASSUME NEW s \in Starts, StartWDA(s) PROVE (OneUpdates /\ OneAlive /\ FirstManagerStays)'
  BY <1>6 DEF TypeOK, StartWDA, Goto
<1>7. ASSUME NEW s \in Starts, ReceiveEntry(s) PROVE (OneUpdates /\ OneAlive /\ FirstManagerStays)'
  BY <1>7 DEF TypeOK, ReceiveEntry, Goto
<1>8. ASSUME NEW s \in Starts, Browse(s) PROVE (OneUpdates /\ OneAlive /\ FirstManagerStays)'
  BY <1>8 DEF TypeOK, Browse, Goto
<1>9. ASSUME NEW s \in Starts, WaitPoll(s) PROVE (OneUpdates /\ OneAlive /\ FirstManagerStays)'
  BY <1>9 DEF TypeOK, WaitPoll, Goto
<1>10. ASSUME NEW s \in Starts, WaitFails(s) PROVE (OneUpdates /\ OneAlive /\ FirstManagerStays)'
  BY <1>10 DEF TypeOK, WaitFails, Goto
<1>11. ASSUME NEW s \in Starts, Enrich(s) PROVE (OneUpdates /\ OneAlive /\ FirstManagerStays)'
  BY <1>11 DEF TypeOK, Enrich, Goto
<1>12. ASSUME NEW s \in Starts, SendEntry(s) PROVE (OneUpdates /\ OneAlive /\ FirstManagerStays)'
  BY <1>12 DEF TypeOK, SendEntry, Goto
<1>13. ASSUME NEW s \in Starts, RunnerServes(s) PROVE (OneUpdates /\ OneAlive /\ FirstManagerStays)'
  BY <1>13 DEF TypeOK, RunnerServes, Goto
<1>14. ASSUME NEW s \in Starts, RunnerReturns(s) PROVE (OneUpdates /\ OneAlive /\ FirstManagerStays)'
  BY <1>14 DEF TypeOK, RunnerReturns, Goto
<1>15. ASSUME NEW s \in Starts, SendErr(s) PROVE (OneUpdates /\ OneAlive /\ FirstManagerStays)'
  BY <1>15 DEF TypeOK, SendErr, Goto
<1>16. ASSUME NEW s \in Starts, Close(s) PROVE (OneUpdates /\ OneAlive /\ FirstManagerStays)'
  BY <1>16 DEF TypeOK, Close, Goto
<1>17. ASSUME NEW m \in 1 .. made, UpdaterEnds(m) PROVE (OneUpdates /\ OneAlive /\ FirstManagerStays)'
  BY <1>17 DEF UpdaterEnds
<1>18. CASE StopTunnel
  BY <1>18 DEF TypeOK, StopTunnel
<1>19. CASE UNCHANGED vars
  BY <1>19 DEF vars
<1>20. ASSUME NEW s \in Starts, UpdateReturns(s) PROVE (OneUpdates /\ OneAlive /\ FirstManagerStays)'
  <2>1. tm = 0 /\ made # 0 /\ made \notin cancelled /\ (\A t \in Starts : pc[t] = "update" => t = s)
    BY <1>20 DEF OneUpdates, UpdateReturns
  <2>2. cancelled = {} => api = 0 /\ servers = {}
    BY <2>1 DEF TypeOK
  <2>3. pc' = [pc EXCEPT ![s] = "poll"] /\ tm' = made /\ updaters' = updaters \cup {made}
        /\ servers' = servers \cup {made} /\ UNCHANGED <<made, cancelled, api, panicked>>
    BY <1>20 DEF UpdateReturns, Goto
  <2> QED BY <2>1, <2>2, <2>3 DEF TypeOK
<1>21. ASSUME NEW s \in Starts, GetDevice(s) PROVE (OneUpdates /\ OneAlive /\ FirstManagerStays)'
  BY <1>21 DEF TypeOK, GetDevice, Goto
<1>22. ASSUME NEW m \in 1 .. made, Serve(m) PROVE (OneUpdates /\ OneAlive /\ FirstManagerStays)'
  BY <1>22 DEF Serve, managers
<1>23. CASE OtherProcess
  BY <1>23 DEF OtherProcess, managers
<1> QED
  BY ONLY [Next]_vars, <1>1, <1>2, <1>3, <1>4, <1>5, <1>6, <1>7, <1>8, <1>9, <1>10, <1>11, <1>12,
          <1>13, <1>14, <1>15, <1>16, <1>17, <1>18, <1>19, <1>20, <1>21, <1>22, <1>23
  DEF Next, LocalStep, LockStep, PhoneStep

(* A runner starts once and is cancelled only by the end of its call.       *)
LEMMA RunnerStep == TypeOK /\ RunnerInv /\ [Next]_vars => RunnerInv'
<1> SUFFICES ASSUME TypeOK /\ RunnerInv, [Next]_vars PROVE RunnerInv'
  OBVIOUS
<1> USE DEF RunnerInv, Early, tunnel, port, managers, call, process
<1>1. ASSUME NEW s \in Starts, Begin(s) PROVE RunnerInv'
  BY <1>1 DEF TypeOK, Begin, Goto
<1>2. ASSUME NEW s \in Starts, EnsureManager(s) PROVE RunnerInv'
  <2>1. UNCHANGED <<runner, stopped>> /\ pc[s] = "ensure"
    BY <1>2 DEF EnsureManager, process
  <2>2. pc' = [pc EXCEPT ![s] = "update"] \/ pc' = [pc EXCEPT ![s] = "poll"]
        \/ pc' = [pc EXCEPT ![s] = "device"]
    BY <1>2 DEF EnsureManager, NewManager, Goto
  <2> QED BY <2>1, <2>2 DEF TypeOK
<1>3. ASSUME NEW s \in Starts, PollTunnel(s) PROVE RunnerInv'
  BY <1>3 DEF TypeOK, PollTunnel, Goto
<1>4. ASSUME NEW s \in Starts, ForwardPort(s) PROVE RunnerInv'
  BY <1>4 DEF TypeOK, ForwardPort, Goto
<1>5. ASSUME NEW s \in Starts, Probe(s) PROVE RunnerInv'
  BY <1>5 DEF TypeOK, Probe, Goto
<1>6. ASSUME NEW s \in Starts, StartWDA(s) PROVE RunnerInv'
  BY <1>6 DEF TypeOK, StartWDA, Goto
<1>7. ASSUME NEW s \in Starts, ReceiveEntry(s) PROVE RunnerInv'
  BY <1>7 DEF TypeOK, ReceiveEntry, Goto
<1>8. ASSUME NEW s \in Starts, Browse(s) PROVE RunnerInv'
  BY <1>8 DEF TypeOK, Browse, Goto
<1>9. ASSUME NEW s \in Starts, WaitPoll(s) PROVE RunnerInv'
  BY <1>9 DEF TypeOK, WaitPoll, Goto
<1>10. ASSUME NEW s \in Starts, WaitFails(s) PROVE RunnerInv'
  BY <1>10 DEF TypeOK, WaitFails, Goto
<1>11. ASSUME NEW s \in Starts, Enrich(s) PROVE RunnerInv'
  BY <1>11 DEF TypeOK, Enrich, Goto
<1>12. ASSUME NEW s \in Starts, SendEntry(s) PROVE RunnerInv'
  BY <1>12 DEF TypeOK, SendEntry, Goto
<1>13. ASSUME NEW s \in Starts, RunnerServes(s) PROVE RunnerInv'
  BY <1>13 DEF TypeOK, RunnerServes, Goto
<1>14. ASSUME NEW s \in Starts, RunnerReturns(s) PROVE RunnerInv'
  BY <1>14 DEF TypeOK, RunnerReturns, Goto
<1>15. ASSUME NEW s \in Starts, SendErr(s) PROVE RunnerInv'
  BY <1>15 DEF TypeOK, SendErr, Goto
<1>16. ASSUME NEW s \in Starts, Close(s) PROVE RunnerInv'
  BY <1>16 DEF TypeOK, Close, Goto
<1>17. ASSUME NEW m \in 1 .. made, UpdaterEnds(m) PROVE RunnerInv'
  BY <1>17 DEF UpdaterEnds
<1>18. CASE StopTunnel
  BY <1>18 DEF StopTunnel
<1>19. CASE UNCHANGED vars
  BY <1>19 DEF vars
<1>20. ASSUME NEW s \in Starts, UpdateReturns(s) PROVE RunnerInv'
  BY <1>20 DEF TypeOK, UpdateReturns, Goto
<1>21. ASSUME NEW s \in Starts, GetDevice(s) PROVE RunnerInv'
  BY <1>21 DEF TypeOK, GetDevice, Goto
<1>22. ASSUME NEW m \in 1 .. made, Serve(m) PROVE RunnerInv'
  BY <1>22 DEF Serve
<1>23. CASE OtherProcess
  BY <1>23 DEF OtherProcess
<1> QED
  BY ONLY [Next]_vars, <1>1, <1>2, <1>3, <1>4, <1>5, <1>6, <1>7, <1>8, <1>9, <1>10, <1>11, <1>12,
          <1>13, <1>14, <1>15, <1>16, <1>17, <1>18, <1>19, <1>20, <1>21, <1>22, <1>23
  DEF Next, LocalStep, LockStep, PhoneStep

LEMMA InitInv == Init => ManagerInv /\ RunnerInv
<1> SUFFICES ASSUME Init PROVE ManagerInv /\ RunnerInv
  OBVIOUS
<1>1. 0 \in 0 .. MaxManagers /\ 0 \in 0 .. MaxFaults /\ 0 \in 0 .. Polls /\ 0 \in 0 .. 0
  BY BoundsAssumption
<1>2. pc \in [Starts -> PC] /\ tries \in [Starts -> 0 .. Polls]
  BY <1>1 DEF Init, PC
<1>3. TypeOK
  BY <1>1, <1>2 DEF Init, TypeOK
<1>4. OneUpdates /\ OneAlive /\ FirstManagerStays /\ RunnerInv
  BY DEF Init, OneUpdates, OneAlive, FirstManagerStays, RunnerInv, Early
<1> QED BY <1>3, <1>4 DEF ManagerInv

LEMMA InvStep == ManagerInv /\ RunnerInv /\ [Next]_vars => (ManagerInv /\ RunnerInv)'
  BY TypeStep, ManagerStep, RunnerStep DEF ManagerInv

LEMMA AlwaysInv == Spec => [](ManagerInv /\ RunnerInv)
  BY InitInv, InvStep, PTL DEF Spec

(* The types hold in every reachable state.                                 *)
THEOREM WdaTypesHold == Spec => []TypeOK
<1>1. ManagerInv => TypeOK
  BY DEF ManagerInv
<1> QED BY <1>1, AlwaysInv, PTL

(* One tunnel manager is alive however many connects come at once; until it *)
(* is stopped no other of this process gets the port of the HTTP API, and   *)
(* the poll without the lock finds a manager (tunnel.go:48, 131-178).       *)
THEOREM AlwaysOneTunnelManager == Spec => []OneTunnelManager
<1>1. ManagerInv => OneTunnelManager
  BY DEF ManagerInv, OneAlive, FirstManagerStays, OneTunnelManager
<1> QED BY <1>1, AlwaysInv, PTL

-----------------------------------------------------------------------------
(* Every step of the calls is a step of the contract, or none of it.        *)
LEMMA ContractStep == TypeOK /\ RunnerInv /\ [Next]_vars => [Contract!Next]_(Contract!vars)
<1> SUFFICES ASSUME TypeOK, RunnerInv, [Next]_vars
             PROVE  [Contract!Next]_<<Waiting, Handed, Runners>>
  BY DEF Contract!vars, Waiting, Handed, Runners
<1> DEFINE Still == UNCHANGED <<Waiting, Handed, Runners>>
<1>1. ASSUME NEW s \in Starts, Begin(s) PROVE Still
  BY <1>1 DEF Begin, Goto, TypeOK, call, process, Waiting, Handed, Runners
<1>2. ASSUME NEW s \in Starts, EnsureManager(s) PROVE Still
  <2>1. UNCHANGED <<runner, stopped>> /\ pc[s] = "ensure"
    BY <1>2 DEF EnsureManager, process
  <2>2. pc' = [pc EXCEPT ![s] = "update"] \/ pc' = [pc EXCEPT ![s] = "poll"]
        \/ pc' = [pc EXCEPT ![s] = "device"]
    BY <1>2 DEF EnsureManager, NewManager, Goto
  <2> QED BY <2>1, <2>2 DEF TypeOK, Waiting, Handed, Runners
<1>3. ASSUME NEW s \in Starts, PollTunnel(s) PROVE Still
  BY <1>3 DEF PollTunnel, Goto, TypeOK, call, process, Waiting, Handed, Runners
<1>4. ASSUME NEW s \in Starts, ForwardPort(s) PROVE Still
  BY <1>4 DEF ForwardPort, Goto, TypeOK, call, process, Waiting, Handed, Runners
<1>5. ASSUME NEW s \in Starts, Probe(s) PROVE Still
  BY <1>5 DEF Probe, Goto, TypeOK, call, process, Waiting, Handed, Runners
<1>6. ASSUME NEW s \in Starts, StartWDA(s) PROVE Still
  BY <1>6 DEF StartWDA, Goto, TypeOK, call, process, Waiting, Handed, Runners
<1>7. ASSUME NEW s \in Starts, ReceiveEntry(s) PROVE Still
  BY <1>7 DEF ReceiveEntry, Goto, TypeOK, call, process, Waiting, Handed, Runners
<1>8. ASSUME NEW s \in Starts, Browse(s) PROVE Contract!Launch(s) \/ Still
  BY <1>8 DEF Browse, Goto, TypeOK, RunnerInv, Early, call, process, Waiting, Handed, Runners,
     Contract!Launch, Contract!Ready, Contract!GiveUp, Contract!Stop
<1>9. ASSUME NEW s \in Starts, WaitPoll(s) PROVE Contract!Ready(s)
  BY <1>9 DEF WaitPoll, Goto, TypeOK, RunnerInv, Early, call, process, Waiting, Handed, Runners,
     Contract!Launch, Contract!Ready, Contract!GiveUp, Contract!Stop
<1>10. ASSUME NEW s \in Starts, WaitFails(s) PROVE Contract!GiveUp(s)
  BY <1>10 DEF WaitFails, Goto, TypeOK, RunnerInv, Early, call, process, Waiting, Handed, Runners,
     Contract!Launch, Contract!Ready, Contract!GiveUp, Contract!Stop
<1>11. ASSUME NEW s \in Starts, Enrich(s) PROVE Still
  BY <1>11 DEF Enrich, Goto, TypeOK, call, process, Waiting, Handed, Runners
<1>12. ASSUME NEW s \in Starts, SendEntry(s) PROVE Still
  BY <1>12 DEF SendEntry, Goto, TypeOK, call, process, Waiting, Handed, Runners
<1>13. ASSUME NEW s \in Starts, RunnerServes(s) PROVE Still
  BY <1>13 DEF RunnerServes, Goto, TypeOK, call, process, Waiting, Handed, Runners
<1>14. ASSUME NEW s \in Starts, RunnerReturns(s) PROVE Contract!Stop(s) \/ Still
  BY <1>14 DEF RunnerReturns, Goto, TypeOK, RunnerInv, Early, call, process, Waiting, Handed, Runners,
     Contract!Launch, Contract!Ready, Contract!GiveUp, Contract!Stop
<1>15. ASSUME NEW s \in Starts, SendErr(s) PROVE Still
  BY <1>15 DEF SendErr, Goto, TypeOK, call, process, Waiting, Handed, Runners
<1>16. ASSUME NEW s \in Starts, Close(s) PROVE Contract!Stop(s) \/ Still
  BY <1>16 DEF Close, Goto, TypeOK, RunnerInv, Early, call, process, Waiting, Handed, Runners,
     Contract!Launch, Contract!Ready, Contract!GiveUp, Contract!Stop
<1>17. ASSUME NEW m \in 1 .. made, UpdaterEnds(m) PROVE Still
  BY <1>17 DEF UpdaterEnds, call, process, Waiting, Handed, Runners
<1>18. ASSUME StopTunnel PROVE Still
  BY <1>18 DEF StopTunnel, call, process, Waiting, Handed, Runners
<1>19. ASSUME UNCHANGED vars PROVE Still
  BY <1>19 DEF vars, Waiting, Handed, Runners
<1>21. ASSUME NEW s \in Starts, UpdateReturns(s) PROVE Still
  BY <1>21 DEF UpdateReturns, Goto, TypeOK, process, Waiting, Handed, Runners
<1>22. ASSUME NEW s \in Starts, GetDevice(s) PROVE Still
  BY <1>22 DEF GetDevice, Goto, TypeOK, process, Waiting, Handed, Runners
<1>23. ASSUME NEW m \in 1 .. made, Serve(m) PROVE Still
  BY <1>23 DEF Serve, call, process, Waiting, Handed, Runners
<1>24. ASSUME OtherProcess PROVE Still
  BY <1>24 DEF OtherProcess, call, process, Waiting, Handed, Runners
<1>20. (\E s \in Starts : Contract!Launch(s) \/ Contract!Ready(s) \/ Contract!GiveUp(s) \/ Contract!Stop(s)) \/ Still
  BY ONLY [Next]_vars, <1>1, <1>2, <1>3, <1>4, <1>5, <1>6, <1>7, <1>8, <1>9, <1>10, <1>11, <1>12,
          <1>13, <1>14, <1>15, <1>16, <1>17, <1>18, <1>19, <1>21, <1>22, <1>23, <1>24
  DEF Next, LocalStep, LockStep, PhoneStep
<1> QED BY <1>20 DEF Contract!Next

(* StartWDA keeps the promise of driver.WDAProcessDriver: a call that fails *)
(* leaves no runner behind (interfaces.go:90-96).                           *)
THEOREM StartWDAKeepsContract == Spec => ImplementsContract
<1>1. Init => Contract!Init
  BY DEF Init, Contract!Init
<1> QED BY <1>1, AlwaysInv, ContractStep, PTL DEF Spec, ManagerInv, ImplementsContract, Contract!Spec
-----------------------------------------------------------------------------
(* Liveness.  ENABLED has no proof rule here, so fairness is stated with    *)
(* the guards written out: a goroutine is at rest again and again, or takes *)
(* its step again and again; and t.mu is free for a connect only so often,  *)
(* or the connect takes it again and again.                                 *)
LocalReady(s) == ~panicked /\ pc[s] \in {"poll", "probe", "enrich", "wait"}
LockReady(s) == ~panicked /\ pc[s] \in {"ensure", "forward"} /\ ~Updating
SendsEntry(s) == ~panicked /\ enricher[s] = "sending"
SendsErr(s) == ~panicked /\ runner[s] = "sending"
Cancelled(s) == ~panicked /\ s \in stopped /\ runner[s] = "running"

ConnectScheduled(s) ==
  /\ []<>~LocalReady(s) \/ []<><<LocalStep(s)>>_vars
  /\ <>[]~LockReady(s) \/ []<><<LockStep(s)>>_vars
GoroutinesScheduled(s) ==
  /\ []<>~SendsEntry(s) \/ []<><<SendEntry(s)>>_vars
  /\ []<>~SendsErr(s) \/ []<><<SendErr(s)>>_vars
  /\ []<>~Cancelled(s) \/ []<><<s \in stopped /\ RunnerReturns(s)>>_vars

RunnerGone(s) == runner[s] = "ended" \/ panicked

(* A call starts one enrichment, and has started the runner that it waits   *)
(* for or has cancelled.                                                    *)
StartedOnce ==
  \A s \in Starts :
    /\ pc[s] \in Early \ {"enrich", "browse"} => enricher[s] = "none"
    /\ pc[s] \in {"wait", "ready", "closed"} \/ s \in stopped => runner[s] # "none"

LEMMA StartedStep == TypeOK /\ StartedOnce /\ [Next]_vars => StartedOnce'
<1> SUFFICES ASSUME TypeOK, StartedOnce, [Next]_vars PROVE StartedOnce'
  OBVIOUS
<1> USE DEF TypeOK, StartedOnce, Early, tunnel, port, managers, call, process
<1>1. ASSUME NEW s \in Starts, Begin(s) \/ Enrich(s) \/ SendEntry(s) \/ RunnerServes(s)
                               \/ RunnerReturns(s) \/ SendErr(s) \/ Close(s)
      PROVE  StartedOnce'
  BY <1>1 DEF Begin, Enrich, SendEntry, RunnerServes, RunnerReturns, SendErr, Close, Goto
<1>2. ASSUME NEW s \in Starts, PollTunnel(s) \/ ForwardPort(s) \/ Probe(s) \/ StartWDA(s)
                               \/ ReceiveEntry(s) \/ Browse(s) \/ WaitPoll(s) \/ WaitFails(s)
      PROVE  StartedOnce'
  BY <1>2 DEF PollTunnel, ForwardPort, Probe, StartWDA, ReceiveEntry, Browse, WaitPoll, WaitFails, Goto
<1>3. ASSUME NEW s \in Starts, EnsureManager(s) PROVE StartedOnce'
  <2>1. UNCHANGED <<enricher, runner, stopped>> /\ pc[s] = "ensure"
    BY <1>3 DEF EnsureManager
  <2>2. pc' = [pc EXCEPT ![s] = "update"] \/ pc' = [pc EXCEPT ![s] = "poll"]
        \/ pc' = [pc EXCEPT ![s] = "device"]
    BY <1>3 DEF EnsureManager, NewManager, Goto
  <2> QED BY <2>1, <2>2
<1>4. ASSUME NEW m \in 1 .. made, UpdaterEnds(m) \/ Serve(m) PROVE StartedOnce'
  BY <1>4 DEF UpdaterEnds, Serve
<1>5. CASE StopTunnel \/ OtherProcess \/ UNCHANGED vars
  BY <1>5 DEF StopTunnel, OtherProcess, vars
<1>6. ASSUME NEW s \in Starts, UpdateReturns(s) PROVE StartedOnce'
  BY <1>6 DEF UpdateReturns, Goto
<1>7. ASSUME NEW s \in Starts, GetDevice(s) PROVE StartedOnce'
  BY <1>7 DEF GetDevice, Goto
<1> QED
  BY ONLY [Next]_vars, <1>1, <1>2, <1>3, <1>4, <1>5, <1>6, <1>7
  DEF Next, LocalStep, LockStep, PhoneStep

LEMMA AlwaysStarted == Spec => [](TypeOK /\ RunnerInv /\ StartedOnce)
<1>1. Init => StartedOnce
  BY DEF Init, StartedOnce
<1>2. ManagerInv => TypeOK
  BY DEF ManagerInv
<1> QED BY <1>1, <1>2, StartedStep, AlwaysInv, PTL DEF Spec

(* Only its own step moves a goroutine that has a result to send, and a     *)
(* runner that is cancelled.                                                *)
LEMMA GoroutineStep ==
  ASSUME NEW s \in Starts, TypeOK, RunnerInv, StartedOnce, ~panicked, [Next]_vars
  PROVE  /\ enricher[s] = "sending" => IF SendEntry(s) THEN enricher'[s] = "ended" ELSE enricher'[s] = "sending"
         /\ runner[s] = "sending" => IF SendErr(s) THEN runner'[s] = "ended" ELSE runner'[s] = "sending"
         /\ s \in stopped => s \in stopped'
         /\ s \in stopped /\ runner[s] = "running" =>
              IF RunnerReturns(s) THEN runner'[s] = "sending" ELSE runner'[s] = "running"
         /\ runner[s] = "ended" => runner'[s] = "ended"
<1> DEFINE Goal == /\ enricher[s] = "sending" => IF SendEntry(s) THEN enricher'[s] = "ended" ELSE enricher'[s] = "sending"
                   /\ runner[s] = "sending" => IF SendErr(s) THEN runner'[s] = "ended" ELSE runner'[s] = "sending"
                   /\ s \in stopped => s \in stopped'
                   /\ s \in stopped /\ runner[s] = "running" =>
                        IF RunnerReturns(s) THEN runner'[s] = "sending" ELSE runner'[s] = "running"
                   /\ runner[s] = "ended" => runner'[s] = "ended"
<1> USE DEF TypeOK, RunnerInv, StartedOnce, Early, tunnel, port, managers, call, process, SendEntry, SendErr, RunnerReturns
<1>1. ASSUME UNCHANGED process PROVE Goal
  BY <1>1
<1>2. ASSUME NEW t \in Starts, Begin(t) \/ PollTunnel(t) \/ ForwardPort(t) \/ Probe(t) \/ ReceiveEntry(t)
                               \/ EnsureManager(t) \/ WaitPoll(t) \/ UpdateReturns(t) \/ GetDevice(t)
      PROVE  UNCHANGED process
  BY <1>2 DEF Begin, PollTunnel, ForwardPort, Probe, ReceiveEntry, EnsureManager, WaitPoll,
              UpdateReturns, GetDevice
<1>3. ASSUME NEW t \in Starts, StartWDA(t) PROVE Goal
  BY <1>3 DEF StartWDA
<1>4. ASSUME NEW t \in Starts, Browse(t) PROVE Goal
  BY <1>4 DEF Browse
<1>5. ASSUME NEW t \in Starts, WaitFails(t) \/ Close(t) PROVE Goal
  BY <1>5 DEF WaitFails, Close
<1>6. ASSUME NEW t \in Starts, Enrich(t) PROVE Goal
  BY <1>6 DEF Enrich
<1>7. ASSUME NEW t \in Starts, SendEntry(t) PROVE Goal
  BY <1>7
<1>8. ASSUME NEW t \in Starts, RunnerServes(t) PROVE Goal
  BY <1>8 DEF RunnerServes
<1>9. ASSUME NEW t \in Starts, RunnerReturns(t) PROVE Goal
  BY <1>9
<1>10. ASSUME NEW t \in Starts, SendErr(t) PROVE Goal
  BY <1>10
<1>11. ASSUME NEW m \in 1 .. made, UpdaterEnds(m) \/ Serve(m) PROVE UNCHANGED process
  BY <1>11 DEF UpdaterEnds, Serve
<1>12. ASSUME StopTunnel \/ OtherProcess \/ UNCHANGED vars PROVE Goal
  BY <1>12, <1>1 DEF StopTunnel, OtherProcess, vars
<1> HIDE DEF Goal
<1>13. Goal
  BY ONLY [Next]_vars, <1>1, <1>2, <1>3, <1>4, <1>5, <1>6, <1>7, <1>8, <1>9, <1>10, <1>11, <1>12
  DEF Next, LocalStep, LockStep, PhoneStep
<1> QED BY <1>13 DEF Goal

(* No goroutine waits for ever to hand over its result, for any number of   *)
(* connects: both channels have room for the one result that is sent, and   *)
(* a cancelled runner comes to its send (wda_process.go:78-110).            *)
THEOREM NoGoroutineStays ==
  Spec /\ (\A s \in Starts : GoroutinesScheduled(s)) => NoGoroutineLeft
<1> DEFINE Inv == TypeOK /\ RunnerInv /\ StartedOnce
           EntryAtRest(s) == enricher[s] # "sending" \/ panicked
           RunnerAtRest(s) == s \notin stopped \/ runner[s] = "ended" \/ panicked
<1>1. ASSUME NEW s \in Starts
      PROVE  Spec /\ GoroutinesScheduled(s) => []<>EntryAtRest(s) /\ []<>RunnerAtRest(s)
  <2> USE DEF SendsEntry, SendsErr, Cancelled, RunnerGone
  <2>1. Inv /\ SendsEntry(s) /\ [Next]_vars /\ <<SendEntry(s)>>_vars => ~SendsEntry(s)'
    BY GoroutineStep
  <2>2. ~SendsEntry(s) => EntryAtRest(s)
    OBVIOUS
  <2>3. Inv /\ Cancelled(s) /\ [Next]_vars => Cancelled(s)' \/ SendsErr(s)' \/ RunnerGone(s)'
    BY GoroutineStep
  <2>4. Inv /\ Cancelled(s) /\ [Next]_vars /\ <<s \in stopped /\ RunnerReturns(s)>>_vars =>
          SendsErr(s)' \/ RunnerGone(s)'
    BY GoroutineStep
  <2>5. Inv /\ SendsErr(s) /\ [Next]_vars => SendsErr(s)' \/ RunnerGone(s)'
    BY GoroutineStep
  <2>6. Inv /\ SendsErr(s) /\ [Next]_vars /\ <<SendErr(s)>>_vars => RunnerGone(s)'
    BY GoroutineStep
  <2>7. Inv => RunnerAtRest(s) \/ Cancelled(s) \/ SendsErr(s)
    BY DEF TypeOK, StartedOnce
  <2>8. RunnerGone(s) => RunnerAtRest(s)
    OBVIOUS
  <2>9. Spec => []Inv
    BY AlwaysStarted
  <2> HIDE DEF Inv, EntryAtRest, RunnerAtRest, SendsEntry, SendsErr, Cancelled, RunnerGone
  <2> QED
    BY <2>1, <2>2, <2>3, <2>4, <2>5, <2>6, <2>7, <2>8, <2>9, PTL DEF Spec, GoroutinesScheduled
<1>2. ASSUME NEW s \in Starts
      PROVE  (\A t \in Starts : GoroutinesScheduled(t)) => GoroutinesScheduled(s)
  OBVIOUS
<1>3. Spec /\ (\A t \in Starts : GoroutinesScheduled(t)) => \A s \in Starts : []<>EntryAtRest(s) /\ []<>RunnerAtRest(s)
  BY <1>1, <1>2
<1> QED BY <1>3 DEF NoGoroutineLeft

(* How far a connect has come; a panic ends it as well.                     *)
Place(l) ==
  CASE l = "new" -> 0 [] l = "ensure" -> 1 [] l = "update" -> 2 [] l = "poll" -> 3
    [] l = "device" -> 4 [] l = "forward" -> 5 [] l = "probe" -> 6 [] l = "start" -> 7
    [] l = "enrich" -> 8 [] l = "browse" -> 9 [] l = "wait" -> 10 [] OTHER -> 11
Reached(s, n) == panicked \/ Place(pc[s]) >= n

ConnectStep(s) == LocalStep(s) \/ LockStep(s) \/ PhoneStep(s)

(* No step leads a connect back, and each of its own steps leads it on; but *)
(* a look at the tunnel may leave it where it is.                           *)
LEMMA ConnectAdvances ==
  ASSUME NEW s \in Starts, TypeOK, ~panicked, [Next]_vars
  PROVE  /\ Place(pc'[s]) >= Place(pc[s])
         /\ ConnectStep(s) /\ pc[s] # "poll" => Place(pc'[s]) > Place(pc[s])
<1> DEFINE Goal == /\ Place(pc'[s]) >= Place(pc[s])
                   /\ ConnectStep(s) /\ pc[s] # "poll" => Place(pc'[s]) > Place(pc[s])
<1>1. ASSUME pc'[s] = pc[s] PROVE Place(pc'[s]) >= Place(pc[s])
  BY <1>1 DEF Place
<1>2. pc \in [Starts -> PC]
  BY DEF TypeOK
<1>3. ASSUME ConnectStep(s), pc[s] # "poll" PROVE Place(pc'[s]) > Place(pc[s])
  <2> USE <1>2 DEF Place, Goto
  <2>1. CASE EnsureManager(s)
    <3>1. pc[s] = "ensure" /\ \E l \in {"update", "poll", "device"} : pc' = [pc EXCEPT ![s] = l]
      BY <2>1 DEF EnsureManager, NewManager
    <3> QED BY <3>1
  <2>2. CASE PollTunnel(s)
    BY <1>3, <2>2 DEF PollTunnel
  <2>3. CASE ForwardPort(s)
    BY <2>3 DEF ForwardPort
  <2>4. CASE Probe(s)
    BY <2>4 DEF Probe
  <2>5. CASE StartWDA(s)
    BY <2>5 DEF StartWDA
  <2>6. CASE ReceiveEntry(s)
    BY <2>6 DEF ReceiveEntry
  <2>7. CASE Browse(s)
    BY <2>7 DEF Browse
  <2>8. CASE WaitPoll(s) \/ WaitFails(s)
    BY <2>8 DEF WaitPoll, WaitFails
  <2>9. CASE UpdateReturns(s)
    BY <2>9 DEF UpdateReturns
  <2>10. CASE GetDevice(s)
    BY <2>10 DEF GetDevice
  <2> QED
    BY ONLY <1>3, <2>1, <2>2, <2>3, <2>4, <2>5, <2>6, <2>7, <2>8, <2>9, <2>10
    DEF ConnectStep, LocalStep, LockStep, PhoneStep
<1>4. ASSUME PollTunnel(s) PROVE Place(pc'[s]) >= Place(pc[s])
  BY <1>2, <1>4 DEF PollTunnel, Goto, Place
<1>5. ASSUME Begin(s) \/ Close(s) PROVE Place(pc'[s]) >= Place(pc[s])
  BY <1>2, <1>5 DEF Begin, Close, Goto, Place
<1>6. ASSUME NEW t \in Starts, t # s, Begin(t) \/ ConnectStep(t) \/ Close(t)
      PROVE  pc'[s] = pc[s]
  BY <1>2, <1>6 DEF ConnectStep, LocalStep, LockStep, PhoneStep, Begin, EnsureManager, NewManager,
                    UpdateReturns, PollTunnel, GetDevice, ForwardPort, Probe, StartWDA,
                    ReceiveEntry, Browse, WaitPoll, WaitFails, Close, Goto
<1>7. ASSUME NEW t \in Starts, Enrich(t) \/ SendEntry(t) \/ RunnerServes(t) \/ RunnerReturns(t) \/ SendErr(t)
      PROVE  pc'[s] = pc[s]
  BY <1>7 DEF Enrich, SendEntry, RunnerServes, RunnerReturns, SendErr, call
<1>8. ASSUME NEW m \in 1 .. made, UpdaterEnds(m) \/ Serve(m) PROVE pc'[s] = pc[s]
  BY <1>8 DEF UpdaterEnds, Serve, call
<1>9. ASSUME StopTunnel \/ OtherProcess \/ UNCHANGED vars PROVE pc'[s] = pc[s]
  BY <1>9 DEF StopTunnel, OtherProcess, call, vars
<1>10. Place(pc[s]) \in Nat /\ Place(pc'[s]) \in Nat
  BY DEF Place
<1>11. ASSUME ConnectStep(s) PROVE Place(pc'[s]) >= Place(pc[s])
  <2>1. CASE pc[s] = "poll"
    BY <1>11, <2>1, <1>4
    DEF ConnectStep, LocalStep, LockStep, PhoneStep, EnsureManager, UpdateReturns, GetDevice,
        ForwardPort, Probe, StartWDA, ReceiveEntry, Browse, WaitPoll, WaitFails
  <2>2. CASE pc[s] # "poll"
    BY <1>11, <2>2, <1>3, <1>10
  <2> QED BY <2>1, <2>2
<1>12. Place(pc'[s]) >= Place(pc[s])
  BY ONLY [Next]_vars, s \in Starts, <1>1, <1>5, <1>6, <1>7, <1>8, <1>9, <1>11 DEF Next, ConnectStep
<1> QED BY <1>3, <1>12

(* EnsureTunnel makes at most thirty looks, Polls of them (tunnel.go:47-53).*)
(* That a bounded loop ends is an induction over time, which cannot be      *)
(* made here: TLC checks it, as part of ConnectsReturn.                     *)
PollsEnd(s) == pc[s] = "poll" ~> (pc[s] # "poll" \/ panicked)

(* A connect that has reached a place stays there or beyond, and goes on    *)
(* unless it is held for ever.                                              *)
Advances(s, n, m) ==
  Spec /\ ConnectScheduled(s) /\ PollsEnd(s) =>
    (Reached(s, n) ~> Reached(s, m)) \/ <>[]Held(s)

LEMMA ConnectReaches ==
  ASSUME NEW s \in Starts, NEW n \in 1 .. 10, NEW m \in 2 .. 11, m = n + 1
  PROVE  Advances(s, n, m)
<1>1. TypeOK /\ Reached(s, n) /\ [Next]_vars => Reached(s, n)'
  <2> SUFFICES ASSUME TypeOK, Reached(s, n), [Next]_vars PROVE Reached(s, n)'
    OBVIOUS
  <2>1. CASE panicked
    BY <2>1 DEF Next, vars, Reached
  <2>2. CASE ~panicked
    <3>1. Place(pc'[s]) >= Place(pc[s]) /\ Place(pc[s]) >= n
      BY <2>2, ConnectAdvances DEF Reached
    <3>2. Place(pc[s]) \in Nat /\ Place(pc'[s]) \in Nat
      BY DEF Place
    <3> QED BY <3>1, <3>2 DEF Reached
  <2> QED BY <2>1, <2>2
<1>2. n # 3 /\ TypeOK /\ Reached(s, n) /\ [Next]_vars /\ <<ConnectStep(s)>>_vars => Reached(s, m)'
  <2> SUFFICES ASSUME n # 3, TypeOK, Reached(s, n), [Next]_vars, <<ConnectStep(s)>>_vars
               PROVE  Reached(s, m)'
    OBVIOUS
  <2>1. CASE panicked
    BY <2>1 DEF Next, vars, Reached
  <2>2. CASE ~panicked
    <3>1. /\ Place(pc[s]) >= n /\ Place(pc'[s]) >= Place(pc[s])
          /\ pc[s] # "poll" => Place(pc'[s]) > Place(pc[s])
      BY <2>2, ConnectAdvances DEF Reached
    <3>2. Place(pc[s]) \in Nat /\ Place(pc'[s]) \in Nat /\ (pc[s] = "poll" => Place(pc[s]) = 3)
      BY DEF Place
    <3>3. Place(pc'[s]) >= m
      BY <3>1, <3>2
    <3> QED BY <3>3 DEF Reached
  <2> QED BY <2>1, <2>2
<1>3. TypeOK /\ Reached(s, n) /\ ~Reached(s, m) =>
        /\ ~panicked /\ Place(pc[s]) = n
        /\ pc[s] \in {"ensure", "update", "poll", "device", "forward", "probe", "start", "enrich",
                     "browse", "wait"}
  BY DEF TypeOK, PC, Reached, Place
<1>4. Spec => []TypeOK
  BY WdaTypesHold
<1>5. CASE n = 3
  <2>1. TypeOK /\ Reached(s, n) => Reached(s, m) \/ pc[s] = "poll"
    BY <1>3, <1>5 DEF Place
  <2>2. TypeOK /\ Reached(s, n) /\ (pc[s] # "poll" \/ panicked) => Reached(s, m)
    BY <1>3, <1>5 DEF Place
  <2> QED BY <1>1, <1>4, <2>1, <2>2, PTL DEF Spec, PollsEnd, Advances
<1>6. CASE n \in {6, 8, 10}
  <2>1. TypeOK /\ Reached(s, n) => Reached(s, m) \/ LocalReady(s)
    BY <1>3, <1>6 DEF Place, LocalReady
  <2>2. TypeOK /\ Reached(s, n) /\ [Next]_vars /\ <<LocalStep(s)>>_vars => Reached(s, m)'
    BY <1>2, <1>6 DEF ConnectStep
  <2> QED BY <1>1, <1>4, <2>1, <2>2, PTL DEF Spec, ConnectScheduled, Advances
<1>7. CASE n \in {1, 5}
  <2>1. TypeOK /\ Reached(s, n) => Reached(s, m) \/ Held(s) \/ LockReady(s)
    BY <1>3, <1>7 DEF Place, LockReady, Held
  <2>2. TypeOK /\ Reached(s, n) /\ [Next]_vars /\ <<LockStep(s)>>_vars => Reached(s, m)'
    BY <1>2, <1>7 DEF ConnectStep
  <2> QED BY <1>1, <1>4, <2>1, <2>2, PTL DEF Spec, ConnectScheduled, Advances
<1>8. CASE n \in {2, 4, 7, 9}
  <2>1. TypeOK /\ Reached(s, n) => Reached(s, m) \/ Held(s)
    BY <1>3, <1>8 DEF Place, Held
  <2> QED BY <1>1, <1>4, <2>1, PTL DEF Spec, Advances
<1> QED BY <1>5, <1>6, <1>7, <1>8

(* Every connect returns, however many there are, unless it is held for     *)
(* ever by a call that waits for usbmuxd or for the phone, its own or that  *)
(* of the connect which holds t.mu through UpdateTunnels.  That the loop of *)
(* EnsureTunnel ends is assumed; none of the other waits, on the HTTP API,  *)
(* on the runner and on WDA, holds a connect (tunnel.go:47-53, 132, 148;    *)
(* wda_process.go:44, 106-110, 156, 177-186).                               *)
THEOREM ConnectsReturnAfterPolls ==
  Spec /\ (\A s \in Starts : ConnectScheduled(s) /\ PollsEnd(s)) => ConnectsReturn
<1> DEFINE AtRest(s) == pc[s] \in {"new"} \cup Returned \/ panicked
<1>1. ASSUME NEW s \in Starts
      PROVE  Spec /\ ConnectScheduled(s) /\ PollsEnd(s) => []<>AtRest(s) \/ <>[]Held(s)
  <2>1. /\ Advances(s, 1, 2) /\ Advances(s, 2, 3) /\ Advances(s, 3, 4) /\ Advances(s, 4, 5)
        /\ Advances(s, 5, 6) /\ Advances(s, 6, 7) /\ Advances(s, 7, 8) /\ Advances(s, 8, 9)
        /\ Advances(s, 9, 10) /\ Advances(s, 10, 11)
    BY ConnectReaches
  <2>2. TypeOK => AtRest(s) \/ Reached(s, 1)
    BY DEF TypeOK, PC, Reached, Place
  <2>3. TypeOK /\ Reached(s, 11) => AtRest(s)
    BY DEF TypeOK, PC, Reached, Place, Returned
  <2>4. Spec => []TypeOK
    BY WdaTypesHold
  <2> HIDE DEF AtRest
  <2> QED BY <2>1, <2>2, <2>3, <2>4, PTL DEF Advances
<1>2. ASSUME NEW s \in Starts
      PROVE  (\A t \in Starts : ConnectScheduled(t) /\ PollsEnd(t)) => ConnectScheduled(s) /\ PollsEnd(s)
  OBVIOUS
<1>3. Spec /\ (\A t \in Starts : ConnectScheduled(t) /\ PollsEnd(t)) =>
        \A s \in Starts : []<>AtRest(s) \/ <>[]Held(s)
  BY <1>1, <1>2
<1> QED BY <1>3 DEF ConnectsReturn
=============================================================================
