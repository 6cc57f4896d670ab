----------------------- MODULE DaemonLifecycle_proofs -----------------------
(* The safety of DaemonLifecycle for any number of daemon and CLI processes,*)
(* commands, idle expiries, polls and crashes.                              *)
EXTENDS DaemonLifecycle, TLAPS

(* The variables the safety of the daemons is about, and the steps by which *)
(* they change.                                                             *)
core == <<lock, pidFile, sockFile, dpc, lis, stop>>

ForkStep(d) ==
  dpc[d] = "unused" /\ Goto(d, "lock") /\ UNCHANGED <<lock, pidFile, sockFile, lis, stop, srv, sess>>
CleanUpStep ==
  pidFile' = None /\ UNCHANGED <<lock, sockFile, dpc, lis, stop, srv, sess>>

CoreStep(d) ==
  \/ AcquireLock(d) \/ StartTimer(d) \/ WritePIDFile(d) \/ RemoveStaleSocket(d)
  \/ Listen(d) \/ Publish(d) \/ NotifySignals(d) \/ GotSignal(d)
  \/ RemovePIDFile(d) \/ ReleaseLock(d) \/ ForkStep(d)
  \/ \E s \in Stoppers : StopClose(d, s) \/ StopWait(d, s) \/ StopRemove(d, s) \/ Fire(d, s)

(* Main's call of Server.Stop is in progress exactly while the main         *)
(* goroutine is in it, and the socket is closed from its first step on.     *)
MainStop(d) ==
  /\ stop[d]["main"] \in {"close", "wait", "remove"} <=> dpc[d] = "stopping"
  /\ stop[d]["main"] = "done" => dpc[d] \in {"rmpid", "unlock", "exit"}
  /\ stop[d]["main"] \in {"wait", "remove", "done"} => lis[d] # "open"
  /\ lis[d] = "open" => dpc[d] \in {"publish", "notify", "serve", "stopping"}

StopInv == \A d \in Daemons : MainStop(d)

LockInv == \A d \in Daemons : Locked(d) <=> lock = d

(* The PID file, and the socket path, name a process only while its main    *)
(* goroutine is in the section that removes it again, or was killed there.  *)
PidInv ==
  \A d \in Daemons : pidFile = d => Recorded(d) \/ dpc[d] = "gone"

SockInv ==
  \A d \in Daemons :
    sockFile = d => dpc[d] \in {"publish", "notify", "serve", "stopping", "gone"}

(* The accept loop holds one connection at a time, and after StopWait only  *)
(* that one can still be served.                                            *)
OneAccepted(d) ==
  \A c1, c2 \in Clients :
    srv[c1] = d /\ srv[c2] = d /\ sess[c1] = "accepted" /\ sess[c2] = "accepted" => c1 = c2
OneLeft(d) ==
  stop[d]["main"] \in {"remove", "done"} => \A c1, c2 \in Leftover(d) : c1 = c2
ConnInv == \A d \in Daemons : OneAccepted(d) /\ OneLeft(d)

Inv ==
  /\ TypeOK
  /\ StopInv /\ LockInv
  /\ PidFileNamesServer /\ PidInv
  /\ SocketLeadsToServer /\ SockInv
  /\ ConnInv
-----------------------------------------------------------------------------
(* A dial attempt that is not the last stays within the bound.              *)
LEMMA OneMore == \A n \in 0 .. MaxPolls : n # MaxPolls => n + 1 \in 0 .. MaxPolls
  BY SMTT(30), BoundsAssumption

(* TypeOK is inductive by itself.                                           *)
LEMMA TypeStep == TypeOK /\ [Next]_vars => TypeOK'
<1> SUFFICES ASSUME TypeOK, [Next]_vars PROVE TypeOK'
  OBVIOUS
<1> USE DEF TypeOK, files, daemon, client, conn, DaemonPC, ClientPC, Finished, Stoppers,
        Goto, CGoto
<1>1. ASSUME NEW d \in Daemons, AcquireLock(d)
      PROVE  TypeOK'
  <2>1. /\ \/ lock' = d /\ Goto(d, "timer")
           \/ lock' = lock /\ Goto(d, "exit")
        /\ UNCHANGED <<pidFile, sockFile, lis, timer, stop, sig, crashes, client, conn>>
    BY <1>1 DEF AcquireLock
  <2>2. CASE lock' = d /\ Goto(d, "timer")
    BY <2>1, <2>2
  <2>3. CASE lock' = lock /\ Goto(d, "exit")
    BY <2>1, <2>3
  <2> QED BY <2>1, <2>2, <2>3
<1>2. ASSUME NEW d \in Daemons, StartTimer(d)
      PROVE  TypeOK'
  BY <1>2 DEF StartTimer
<1>3. ASSUME NEW d \in Daemons, WritePIDFile(d)
      PROVE  TypeOK'
  <2>1. CASE pidFile' = d /\ Goto(d, "unlink")
    BY <1>3, <2>1 DEF WritePIDFile
  <2>2. CASE pidFile' = pidFile /\ Goto(d, "unlock")
    BY <1>3, <2>2 DEF WritePIDFile
  <2> QED BY ONLY <1>3, <2>1, <2>2 DEF WritePIDFile
<1>4. ASSUME NEW d \in Daemons, RemoveStaleSocket(d)
      PROVE  TypeOK'
  BY <1>4 DEF RemoveStaleSocket
<1>5. ASSUME NEW d \in Daemons, Listen(d)
      PROVE  TypeOK'
  <2>1. CASE /\ sockFile' = d
             /\ lis' = [lis EXCEPT ![d] = "open"]
             /\ Goto(d, "publish")
    BY <1>5, <2>1 DEF Listen
  <2>2. CASE Goto(d, "rmpid") /\ UNCHANGED <<sockFile, lis>>
    BY <1>5, <2>2 DEF Listen
  <2> QED BY <1>5, <2>1, <2>2 DEF Listen
<1>6. ASSUME NEW d \in Daemons, Publish(d)
      PROVE  TypeOK'
  BY <1>6 DEF Publish
<1>7. ASSUME NEW d \in Daemons, NotifySignals(d)
      PROVE  TypeOK'
  BY <1>7 DEF NotifySignals
<1>8. ASSUME NEW d \in Daemons, GotSignal(d)
      PROVE  TypeOK'
  BY <1>8 DEF GotSignal
<1>9. ASSUME NEW d \in Daemons, RemovePIDFile(d)
      PROVE  TypeOK'
  BY <1>9 DEF RemovePIDFile
<1>10. ASSUME NEW d \in Daemons, ReleaseLock(d)
      PROVE  TypeOK'
  BY <1>10 DEF ReleaseLock
<1>11. ASSUME NEW d \in Daemons, Exit(d)
      PROVE  TypeOK'
  BY <1>11 DEF Exit, Die
<1>12. ASSUME NEW d \in Daemons, Crash(d)
      PROVE  TypeOK'
  BY <1>12, BoundsAssumption DEF Crash, Die
<1>13. ASSUME NEW d \in Daemons, NEW s \in Stoppers, StopClose(d, s)
      PROVE  TypeOK'
  <2>1. CASE Published(d) /\ lis[d] = "open"
    <3>1. /\ lis' = [lis EXCEPT ![d] = "closed"]
          /\ sockFile' = None
          /\ sess' = [c \in Clients |->
                       IF srv[c] = d /\ sess[c] = "backlog" THEN "closed" ELSE sess[c]]
          /\ stop' = [stop EXCEPT ![d][s] = "wait"]
          /\ UNCHANGED <<lock, pidFile, dpc, timer, sig, crashes, client, srv, pending>>
      BY <1>13, <2>1 DEF StopClose
    <3>2. sess' \in [Clients -> {"none", "backlog", "accepted", "reading", "handling", "closed"}]
      BY <3>1
    <3> QED BY <3>1, <3>2
  <2>2. CASE ~(Published(d) /\ lis[d] = "open")
    <3>1. /\ stop' = [stop EXCEPT ![d][s] = "wait"]
          /\ UNCHANGED <<files, dpc, lis, timer, sig, crashes, client, conn>>
      BY <1>13, <2>2 DEF StopClose
    <3> QED BY <3>1
  <2> QED BY <2>1, <2>2
<1>14. ASSUME NEW d \in Daemons, NEW s \in Stoppers, StopWait(d, s)
      PROVE  TypeOK'
  BY <1>14 DEF StopWait
<1>15. ASSUME NEW d \in Daemons, NEW s \in Stoppers, StopRemove(d, s)
      PROVE  TypeOK'
  BY <1>15 DEF StopRemove
<1>16. ASSUME NEW d \in Daemons, NEW s \in Stoppers, Fire(d, s)
      PROVE  TypeOK'
  BY <1>16 DEF Fire, Alive
<1>17. ASSUME NEW c \in Clients, Accept(c)
      PROVE  TypeOK'
  BY <1>17 DEF Accept
<1>18. ASSUME NEW c \in Clients, Register(c)
      PROVE  TypeOK'
  BY <1>18 DEF Register
<1>19. ASSUME NEW c \in Clients, ReadRequest(c)
      PROVE  TypeOK'
  BY <1>19 DEF ReadRequest
<1>20. ASSUME NEW c \in Clients, Respond(c)
      PROVE  TypeOK'
  <2>1. CASE ClientOpen(c)
    <3>1. /\ sess' = [sess EXCEPT ![c] = "reading"]
          /\ CGoto(c, "pause") \/ CGoto(c, "answered")
          /\ UNCHANGED <<files, daemon, cmd, tries, target, srv, pending>>
      BY <1>20, <2>1 DEF Respond
    <3> QED BY <3>1
  <2>2. CASE ~ClientOpen(c)
    <3>1. /\ sess' = [sess EXCEPT ![c] = "closed"]
          /\ UNCHANGED <<files, daemon, client, srv, pending>>
      BY <1>20, <2>2 DEF Respond
    <3> QED BY <3>1
  <2> QED BY <2>1, <2>2
<1>21. ASSUME NEW c \in Clients, HandlerPanics(c)
      PROVE  TypeOK'
  BY <1>21 DEF HandlerPanics, Die
<1>22. ASSUME NEW c \in Clients, ReadEOF(c)
      PROVE  TypeOK'
  BY <1>22 DEF ReadEOF
<1>23. ASSUME NEW c \in Clients, CheckRunning(c)
      PROVE  TypeOK'
  BY <1>23 DEF CheckRunning
<1>24. ASSUME NEW c \in Clients, ReadPID(c)
      PROVE  TypeOK'
  BY <1>24 DEF ReadPID
<1>25. ASSUME NEW c \in Clients, Kill(c)
      PROVE  TypeOK'
  <2>1. CASE ~Alive(target[c])
    <3>1. /\ CGoto(c, "cleanup")
          /\ UNCHANGED <<files, daemon, cmd, tries, target, conn>>
      BY <1>25, <2>1 DEF Kill
    <3> QED BY <3>1
  <2>2. CASE Alive(target[c]) /\ Notified(target[c])
    <3>1. /\ CGoto(c, "signalled")
          /\ sig' = [sig EXCEPT ![target[c]] = TRUE]
          /\ UNCHANGED <<files, dpc, lis, timer, stop, crashes, cmd, tries, target, conn>>
      BY <1>25, <2>2 DEF Kill
    <3> QED BY <3>1
  <2>3. CASE Alive(target[c]) /\ ~Notified(target[c])
    <3>1. Die(target[c]) /\ CGoto(c, "signalled") /\ UNCHANGED <<crashes, cmd, tries, target>>
      BY <1>25, <2>3 DEF Kill
    <3> QED BY <3>1 DEF Die
  <2> QED BY <2>1, <2>2, <2>3
<1>26. ASSUME NEW c \in Clients, CleanUpPIDFile(c)
      PROVE  TypeOK'
  BY <1>26 DEF CleanUpPIDFile
<1>27. ASSUME NEW c \in Clients, Dial(c)
      PROVE  TypeOK'
  <2>1. CASE Reachable
    <3>1. Connect(c) /\ UNCHANGED <<files, daemon, cmd, target>>
      BY <1>27, <2>1 DEF Dial
    <3> QED BY <3>1 DEF Connect
  <2>2. CASE ~Reachable
    <3>1. CGoto(c, "fork") /\ UNCHANGED <<files, daemon, cmd, tries, target, conn>>
      BY <1>27, <2>2 DEF Dial
    <3> QED BY <3>1
  <2> QED BY <2>1, <2>2
<1>28. ASSUME NEW c \in Clients, Fork(c)
      PROVE  TypeOK'
  <2>1. ASSUME NEW d \in Daemons, Goto(d, "lock"), CGoto(c, "poll")
        PROVE  TypeOK'
    BY <1>28, <2>1 DEF Fork
  <2>2. CASE CGoto(c, "failed") /\ UNCHANGED dpc
    BY <1>28, <2>2 DEF Fork
  <2> QED BY <1>28, <2>1, <2>2 DEF Fork
<1>29. ASSUME NEW c \in Clients, Poll(c)
      PROVE  TypeOK'
  <2>1. CASE tries[c] = MaxPolls
    <3>1. CGoto(c, "failed") /\ UNCHANGED <<files, daemon, cmd, tries, target, conn>>
      BY <1>29, <2>1 DEF Poll
    <3> QED BY <3>1
  <2>2. CASE tries[c] # MaxPolls /\ Reachable
    <3>1. Connect(c) /\ UNCHANGED <<files, daemon, cmd, target>>
      BY <1>29, <2>2 DEF Poll
    <3> QED BY <3>1 DEF Connect
  <2>3. CASE tries[c] # MaxPolls /\ ~Reachable
    <3>1. /\ tries' = [tries EXCEPT ![c] = @ + 1]
          /\ UNCHANGED <<cpc, conn, files, daemon, cmd, target>>
      BY <1>29, <2>3 DEF Poll
    <3>2. tries[c] \in 0 .. MaxPolls
      OBVIOUS
    <3>3. tries[c] # MaxPolls
      BY <2>3
    <3>4. tries[c] + 1 \in 0 .. MaxPolls
      BY <3>2, <3>3, OneMore
    <3> QED BY <3>1, <3>4
  <2> QED BY <2>1, <2>2, <2>3
<1>30. ASSUME NEW c \in Clients, Send(c)
      PROVE  TypeOK'
  <2>1. CASE sess[c] = "closed"
    <3>1. CGoto(c, "failed") /\ UNCHANGED <<files, daemon, cmd, tries, target, conn>>
      BY <1>30, <2>1 DEF Send
    <3> QED BY <3>1
  <2>2. CASE sess[c] # "closed"
    <3>1. /\ CGoto(c, "await") /\ pending' = [pending EXCEPT ![c] = TRUE]
          /\ UNCHANGED <<files, daemon, cmd, tries, target, srv, sess>>
      BY <1>30, <2>2 DEF Send
    <3> QED BY <3>1
  <2> QED BY <2>1, <2>2
<1>31. ASSUME NEW c \in Clients, FollowAgain(c)
      PROVE  TypeOK'
  BY <1>31 DEF FollowAgain
<1>32. ASSUME NEW c \in Clients, LostConnection(c)
      PROVE  TypeOK'
  BY <1>32 DEF LostConnection
<1>33. ASSUME NEW c \in Clients, TimeOut(c)
      PROVE  TypeOK'
  BY <1>33 DEF TimeOut
<1>34. ASSUME NEW c \in Clients, Interrupt(c)
      PROVE  TypeOK'
  BY <1>34 DEF Interrupt
<1>35. ASSUME NEW c \in Clients, NEW k \in Commands, Launch(c, k)
      PROVE  TypeOK'
  BY <1>35, CommandsAssumption DEF Launch, AllCommands
<1>36. ASSUME UNCHANGED vars
      PROVE  TypeOK'
  BY <1>36 DEF vars
<1>37. ASSUME NEW d \in Daemons, Terminate(d)
      PROVE  TypeOK'
  <2>1. crashes + 1 \in 0 .. MaxCrashes
    <3>1. crashes \in 0 .. MaxCrashes /\ crashes < MaxCrashes
      BY <1>37 DEF Terminate
    <3> QED BY ONLY <3>1, BoundsAssumption
  <2>2. /\ crashes' = crashes + 1 /\ sig' = [sig EXCEPT ![d] = TRUE]
        /\ UNCHANGED <<files, dpc, lis, timer, stop, client, conn>>
    BY <1>37 DEF Terminate
  <2> QED BY <2>1, <2>2
<1> QED
  BY <1>1, <1>2, <1>3, <1>4, <1>5, <1>6, <1>7, <1>8, <1>9, <1>10, <1>11, <1>12, <1>13, <1>14, <1>15, <1>16, <1>17, <1>18, <1>19, <1>20, <1>21, <1>22, <1>23, <1>24, <1>25, <1>26, <1>27, <1>28, <1>29, <1>30, <1>31, <1>32, <1>33, <1>34, <1>35, <1>36, <1>37
  DEF Next, MainStep, StopStep, ConnStep, ClientStep

(* Every variable keeps its type in every behaviour.                        *)
THEOREM TypeCorrect == Spec => []TypeOK
<1>1. Init => TypeOK
  BY BoundsAssumption DEF Init, TypeOK, DaemonPC, ClientPC, Stoppers
<1> QED BY <1>1, TypeStep, PTL DEF Spec
-----------------------------------------------------------------------------
(* Every step is a step of one daemon's main goroutine or Stop call, the    *)
(* end of a process, the removal of a stale PID file, or leaves the core    *)
(* variables alone.                                                         *)
LEMMA StepCases ==
  ASSUME [Next]_vars
  PROVE  \/ \E d \in Daemons : CoreStep(d)
         \/ \E d : Die(d)
         \/ CleanUpStep
         \/ UNCHANGED core
<1> USE DEF core, files, daemon, client, conn
<1>1. ASSUME NEW d \in Daemons, MainStep(d)
      PROVE  CoreStep(d) \/ Die(d)
  BY <1>1 DEF MainStep, CoreStep, Exit
<1>2. ASSUME NEW d \in Daemons, Crash(d)
      PROVE  Die(d)
  BY <1>2 DEF Crash
<1>3. ASSUME NEW d \in Daemons, NEW s \in Stoppers, StopStep(d, s) \/ Fire(d, s)
      PROVE  CoreStep(d)
  BY <1>3 DEF StopStep, CoreStep
<1>4. ASSUME NEW c \in Clients, ConnStep(c)
      PROVE  UNCHANGED core \/ \E d : Die(d)
  BY <1>4 DEF ConnStep, Accept, Register, ReadRequest, Respond, HandlerPanics, ReadEOF
<1>5. ASSUME NEW c \in Clients, Kill(c)
      PROVE  UNCHANGED core \/ \E d : Die(d)
  BY <1>5 DEF Kill
<1>6. ASSUME NEW c \in Clients, Fork(c)
      PROVE  UNCHANGED core \/ \E d \in Daemons : CoreStep(d)
  BY <1>6 DEF Fork, CoreStep, ForkStep
<1>7. ASSUME NEW c \in Clients, CleanUpPIDFile(c)
      PROVE  CleanUpStep
  BY <1>7 DEF CleanUpPIDFile, CleanUpStep
<1>8. ASSUME NEW c \in Clients,
             \/ CheckRunning(c) \/ ReadPID(c) \/ Dial(c) \/ Poll(c) \/ Send(c)
             \/ FollowAgain(c) \/ LostConnection(c) \/ TimeOut(c) \/ Interrupt(c)
      PROVE  UNCHANGED core
  BY <1>8 DEF CheckRunning, ReadPID, Dial, Poll, Send, FollowAgain, LostConnection,
              TimeOut, Interrupt
<1>9. ASSUME NEW c \in Clients, NEW k \in Commands, Launch(c, k)
      PROVE  UNCHANGED core
  BY <1>9 DEF Launch
<1>10. UNCHANGED vars => UNCHANGED core
  BY DEF vars
<1>11. ASSUME NEW d \in Daemons, Terminate(d)
      PROVE  UNCHANGED core
  BY <1>11 DEF Terminate
<1> QED
  BY <1>1, <1>2, <1>3, <1>4, <1>5, <1>6, <1>7, <1>8, <1>9, <1>10, <1>11 DEF Next, ClientStep

(* The end of a process keeps StopInv: its socket is closed.                *)
LEMMA DieStop == ASSUME TypeOK, StopInv, NEW d, Die(d) PROVE StopInv'
<1> SUFFICES ASSUME NEW e \in Daemons PROVE MainStop(e)'
  BY DEF StopInv
<1>1. CASE e = d
  BY <1>1 DEF TypeOK, Die, Goto, MainStop, Stoppers
<1>2. CASE e # d
  BY <1>2 DEF TypeOK, Die, Goto, StopInv, MainStop
<1> QED BY <1>1, <1>2

LEMMA StopStepInv == TypeOK /\ StopInv /\ [Next]_vars => StopInv'
<1> SUFFICES ASSUME TypeOK, StopInv, [Next]_vars PROVE StopInv'
  OBVIOUS
<1>1. ASSUME NEW d \in Daemons, CoreStep(d)
      PROVE  StopInv'
  <2> SUFFICES ASSUME NEW e \in Daemons PROVE MainStop(e)'
    BY DEF StopInv
  <2> USE FiresAssumption DEF TypeOK, StopInv, MainStop, Stoppers, Goto
  <2>1. CASE AcquireLock(d)
    BY <2>1 DEF AcquireLock
  <2>2. CASE StartTimer(d)
    BY <2>2 DEF StartTimer
  <2>3. CASE WritePIDFile(d)
    BY <2>3 DEF WritePIDFile
  <2>4. CASE RemoveStaleSocket(d)
    BY <2>4 DEF RemoveStaleSocket
  <2>5. CASE Listen(d)
    BY <2>5 DEF Listen
  <2>6. CASE Publish(d)
    BY <2>6 DEF Publish
  <2>7. CASE NotifySignals(d)
    BY <2>7 DEF NotifySignals
  <2>8. CASE GotSignal(d)
    BY <2>8 DEF GotSignal
  <2>9. CASE RemovePIDFile(d)
    BY <2>9 DEF RemovePIDFile
  <2>10. CASE ReleaseLock(d)
    BY <2>10 DEF ReleaseLock
  <2>11. CASE ForkStep(d)
    BY <2>11 DEF ForkStep
  <2>12. ASSUME NEW s \in Stoppers, StopClose(d, s)
         PROVE  MainStop(e)'
    BY <2>12 DEF StopClose, Published
  <2>13. ASSUME NEW s \in Stoppers, StopWait(d, s)
         PROVE  MainStop(e)'
    BY <2>13 DEF StopWait
  <2>14. ASSUME NEW s \in Stoppers, StopRemove(d, s)
         PROVE  MainStop(e)'
    BY <2>14 DEF StopRemove
  <2>15. ASSUME NEW s \in Stoppers, Fire(d, s)
         PROVE  MainStop(e)'
    BY <2>15 DEF Fire
  <2> QED
    BY <1>1, <2>1, <2>2, <2>3, <2>4, <2>5, <2>6, <2>7, <2>8, <2>9, <2>10, <2>11,
       <2>12, <2>13, <2>14, <2>15 DEF CoreStep
<1>2. CASE CleanUpStep
  BY <1>2 DEF CleanUpStep, StopInv, MainStop
<1>3. CASE UNCHANGED core
  BY <1>3 DEF core, StopInv, MainStop
<1> QED BY <1>1, <1>2, <1>3, StepCases, DieStop

(* The two steps that may fail: where they lead and what they leave alone.  *)
LEMMA WriteCases ==
  ASSUME NEW d, WritePIDFile(d)
  PROVE  dpc[d] = "pid" /\ lock' = lock /\ (Goto(d, "unlink") \/ Goto(d, "unlock"))
  BY DEF WritePIDFile

LEMMA ListenCases ==
  ASSUME NEW d, Listen(d)
  PROVE  /\ dpc[d] = "listen" /\ lock' = lock /\ pidFile' = pidFile
         /\ Goto(d, "publish") \/ Goto(d, "rmpid")
  BY DEF Listen, files

(* The flock is taken and released only by the main goroutine that holds it. *)
LEMMA LockStepInv ==
  TypeOK /\ StopInv /\ LockInv /\ [Next]_vars => LockInv'
<1> SUFFICES ASSUME TypeOK, StopInv, LockInv, [Next]_vars PROVE LockInv'
  OBVIOUS
<1> SUFFICES ASSUME NEW e \in Daemons PROVE (Locked(e) <=> lock = e)'
  BY DEF LockInv
<1> USE NoneAssumption DEF TypeOK, Goto, files, LockInv, Locked, Alive
<1>1. ASSUME NEW d \in Daemons, CoreStep(d)
      PROVE  (Locked(e) <=> lock = e)'
  <2>1. CASE AcquireLock(d)
    BY <2>1 DEF AcquireLock
  <2>2. CASE StartTimer(d)
    BY <2>2 DEF StartTimer
  <2>3. CASE WritePIDFile(d)
    <3>1. /\ dpc[d] = "pid" /\ UNCHANGED lock
          /\ Goto(d, "unlink") \/ Goto(d, "unlock")
      BY ONLY <2>3, WriteCases
    <3>2. CASE Goto(d, "unlink")
      BY <3>1, <3>2
    <3>3. CASE Goto(d, "unlock")
      BY <3>1, <3>3
    <3> QED BY ONLY <3>1, <3>2, <3>3
  <2>4. CASE RemoveStaleSocket(d)
    BY <2>4 DEF RemoveStaleSocket
  <2>5. CASE Listen(d)
    <3>1. /\ dpc[d] = "listen" /\ UNCHANGED lock
          /\ Goto(d, "publish") \/ Goto(d, "rmpid")
      BY ONLY <2>5, ListenCases
    <3>2. CASE Goto(d, "publish")
      BY <3>1, <3>2
    <3>3. CASE Goto(d, "rmpid")
      BY <3>1, <3>3
    <3> QED BY ONLY <3>1, <3>2, <3>3
  <2>6. CASE Publish(d)
    BY <2>6 DEF Publish
  <2>7. CASE NotifySignals(d)
    BY <2>7 DEF NotifySignals
  <2>8. CASE GotSignal(d)
    BY <2>8 DEF GotSignal
  <2>9. CASE RemovePIDFile(d)
    BY <2>9 DEF RemovePIDFile
  <2>10. CASE ReleaseLock(d)
    BY <2>10 DEF ReleaseLock
  <2>11. CASE ForkStep(d)
    BY <2>11 DEF ForkStep
  <2>12. ASSUME NEW s \in Stoppers, StopClose(d, s)
         PROVE  (Locked(e) <=> lock = e)'
    BY <2>12 DEF StopClose
  <2>13. ASSUME NEW s \in Stoppers, StopWait(d, s)
         PROVE  (Locked(e) <=> lock = e)'
    BY <2>13 DEF StopWait
  <2>14. ASSUME NEW s \in Stoppers, StopRemove(d, s)
         PROVE  (Locked(e) <=> lock = e)'
    BY <2>14 DEF StopRemove, StopInv, MainStop
  <2>15. ASSUME NEW s \in Stoppers, Fire(d, s)
         PROVE  (Locked(e) <=> lock = e)'
    BY <2>15 DEF Fire
  <2> QED
    BY <1>1, <2>1, <2>2, <2>3, <2>4, <2>5, <2>6, <2>7, <2>8, <2>9, <2>10, <2>11, <2>12, <2>13, <2>14, <2>15 DEF CoreStep
<1>2. ASSUME NEW d, Die(d)
      PROVE  (Locked(e) <=> lock = e)'
  BY <1>2 DEF Die
<1>3. CASE CleanUpStep
  BY <1>3 DEF CleanUpStep
<1>4. CASE UNCHANGED core
  BY <1>4 DEF core
<1> QED BY <1>1, <1>2, <1>3, <1>4, StepCases

(* The part of the invariant about the PID file, for one daemon.           *)
PidFacts(d) ==
  /\ Recorded(d) => pidFile \in {d, None}
  /\ pidFile = d => Recorded(d) \/ dpc[d] = "gone"

(* The PID file is written and removed under the lock, but for the clean-up. *)
LEMMA PidStepInv ==
  TypeOK /\ StopInv /\ LockInv /\ PidFileNamesServer /\ PidInv /\ [Next]_vars => (PidFileNamesServer /\ PidInv)'
<1> SUFFICES ASSUME TypeOK, StopInv, LockInv, PidFileNamesServer, PidInv, [Next]_vars PROVE (PidFileNamesServer /\ PidInv)'
  OBVIOUS
<1> SUFFICES ASSUME NEW e \in Daemons PROVE (PidFacts(e))'
  BY DEF PidFacts, PidFileNamesServer, PidInv
<1> USE NoneAssumption DEF TypeOK, Goto, files, LockInv, PidFileNamesServer, PidInv, PidFacts, Recorded, Locked, Alive
<1>1. ASSUME NEW d \in Daemons, CoreStep(d)
      PROVE  (PidFacts(e))'
  <2>1. CASE AcquireLock(d)
    <3>1. /\ dpc[d] = "lock" /\ UNCHANGED pidFile
          /\ Goto(d, "timer") \/ Goto(d, "exit")
      BY <2>1 DEF AcquireLock
    <3> QED BY <3>1
  <2>2. CASE StartTimer(d)
    BY <2>2 DEF StartTimer
  <2>3. CASE WritePIDFile(d)
    BY <2>3 DEF WritePIDFile
  <2>4. CASE RemoveStaleSocket(d)
    BY <2>4 DEF RemoveStaleSocket
  <2>5. CASE Listen(d)
    <3>1. /\ dpc[d] = "listen" /\ UNCHANGED pidFile
          /\ Goto(d, "publish") \/ Goto(d, "rmpid")
      BY ONLY <2>5, ListenCases
    <3>2. CASE Goto(d, "publish")
      BY <3>1, <3>2
    <3>3. CASE Goto(d, "rmpid")
      BY <3>1, <3>3
    <3> QED BY ONLY <3>1, <3>2, <3>3
  <2>6. CASE Publish(d)
    BY <2>6 DEF Publish
  <2>7. CASE NotifySignals(d)
    BY <2>7 DEF NotifySignals
  <2>8. CASE GotSignal(d)
    BY <2>8 DEF GotSignal
  <2>9. CASE RemovePIDFile(d)
    BY <2>9 DEF RemovePIDFile
  <2>10. CASE ReleaseLock(d)
    BY <2>10 DEF ReleaseLock
  <2>11. CASE ForkStep(d)
    BY <2>11 DEF ForkStep
  <2>12. ASSUME NEW s \in Stoppers, StopClose(d, s)
         PROVE  (PidFacts(e))'
    BY <2>12 DEF StopClose
  <2>13. ASSUME NEW s \in Stoppers, StopWait(d, s)
         PROVE  (PidFacts(e))'
    BY <2>13 DEF StopWait
  <2>14. ASSUME NEW s \in Stoppers, StopRemove(d, s)
         PROVE  (PidFacts(e))'
    BY <2>14 DEF StopRemove, StopInv, MainStop
  <2>15. ASSUME NEW s \in Stoppers, Fire(d, s)
         PROVE  (PidFacts(e))'
    BY <2>15 DEF Fire
  <2> QED
    BY <1>1, <2>1, <2>2, <2>3, <2>4, <2>5, <2>6, <2>7, <2>8, <2>9, <2>10, <2>11, <2>12, <2>13, <2>14, <2>15 DEF CoreStep
<1>2. ASSUME NEW d, Die(d)
      PROVE  (PidFacts(e))'
  BY <1>2 DEF Die
<1>3. CASE CleanUpStep
  BY <1>3 DEF CleanUpStep
<1>4. CASE UNCHANGED core
  BY <1>4 DEF core
<1> QED BY <1>1, <1>2, <1>3, <1>4, StepCases

(* The part of the invariant about the socket path, for one daemon.        *)
SockFacts(d) ==
  /\ lis[d] = "open" => sockFile \in {d, None}
  /\ sockFile = d => dpc[d] \in {"publish", "notify", "serve", "stopping", "gone"}

(* The socket is bound under the lock; Stop may only unbind it. *)
LEMMA SockStepInv ==
  TypeOK /\ StopInv /\ LockInv /\ SocketLeadsToServer /\ SockInv /\ [Next]_vars => (SocketLeadsToServer /\ SockInv)'
<1> SUFFICES ASSUME TypeOK, StopInv, LockInv, SocketLeadsToServer, SockInv, [Next]_vars PROVE (SocketLeadsToServer /\ SockInv)'
  OBVIOUS
<1> SUFFICES ASSUME NEW e \in Daemons PROVE (SockFacts(e))'
  BY DEF SockFacts, SocketLeadsToServer, SockInv
<1> USE NoneAssumption DEF TypeOK, Goto, files, StopInv, MainStop, LockInv, SocketLeadsToServer, SockInv, SockFacts, Locked, Alive
<1>1. ASSUME NEW d \in Daemons, CoreStep(d)
      PROVE  (SockFacts(e))'
  <2>1. CASE AcquireLock(d)
    BY <2>1 DEF AcquireLock
  <2>2. CASE StartTimer(d)
    BY <2>2 DEF StartTimer
  <2>3. CASE WritePIDFile(d)
    BY <2>3 DEF WritePIDFile
  <2>4. CASE RemoveStaleSocket(d)
    BY <2>4 DEF RemoveStaleSocket
  <2>5. CASE Listen(d)
    BY <2>5 DEF Listen
  <2>6. CASE Publish(d)
    BY <2>6 DEF Publish
  <2>7. CASE NotifySignals(d)
    BY <2>7 DEF NotifySignals
  <2>8. CASE GotSignal(d)
    BY <2>8 DEF GotSignal
  <2>9. CASE RemovePIDFile(d)
    BY <2>9 DEF RemovePIDFile
  <2>10. CASE ReleaseLock(d)
    BY <2>10 DEF ReleaseLock
  <2>11. CASE ForkStep(d)
    BY <2>11 DEF ForkStep
  <2>12. ASSUME NEW s \in Stoppers, StopClose(d, s)
         PROVE  (SockFacts(e))'
    BY <2>12 DEF StopClose
  <2>13. ASSUME NEW s \in Stoppers, StopWait(d, s)
         PROVE  (SockFacts(e))'
    BY <2>13 DEF StopWait
  <2>14. ASSUME NEW s \in Stoppers, StopRemove(d, s)
         PROVE  (SockFacts(e))'
    BY <2>14 DEF StopRemove
  <2>15. ASSUME NEW s \in Stoppers, Fire(d, s)
         PROVE  (SockFacts(e))'
    BY <2>15 DEF Fire
  <2> QED
    BY <1>1, <2>1, <2>2, <2>3, <2>4, <2>5, <2>6, <2>7, <2>8, <2>9, <2>10, <2>11, <2>12, <2>13, <2>14, <2>15 DEF CoreStep
<1>2. ASSUME NEW d, Die(d)
      PROVE  (SockFacts(e))'
  BY <1>2 DEF Die
<1>3. CASE CleanUpStep
  BY <1>3 DEF CleanUpStep
<1>4. CASE UNCHANGED core
  BY <1>4 DEF core
<1> QED BY <1>1, <1>2, <1>3, <1>4, StepCases

(* What Leftover and OneAccepted depend on. *)
LEMMA ConnSame ==
  ASSUME UNCHANGED <<srv, sess>>, NEW d, OneAccepted(d)
  PROVE  OneAccepted(d)' /\ Leftover(d)' = Leftover(d)
  BY DEF OneAccepted, Leftover, Active

(* The connections of a process that ended are over; those of the others    *)
(* are untouched.                                                           *)
LEMMA DieConn ==
  ASSUME TypeOK, ConnInv, NEW d, Die(d), NEW e \in Daemons
  PROVE  OneAccepted(e)' /\ OneLeft(e)'
<1>1. \A c \in Clients : sess'[c] = IF srv[c] = d THEN "closed" ELSE sess[c]
  BY DEF Die
<1>2. srv' = srv
  BY DEF Die
<1>3. OneAccepted(e)'
  BY <1>1, <1>2 DEF ConnInv, OneAccepted
<1>4. Leftover(e)' \subseteq Leftover(e)
  BY <1>1, <1>2 DEF Leftover, Active
<1>5. CASE e = d
  <2>1. stop'[e] = [s \in Stoppers |-> "idle"]
    BY <1>5 DEF Die, TypeOK
  <2>2. stop'[e]["main"] = "idle"
    BY <2>1 DEF Stoppers
  <2> QED BY <2>2, <1>3 DEF OneLeft
<1>6. CASE e # d
  <2>1. stop'[e] = stop[e]
    BY <1>6 DEF Die, TypeOK
  <2> QED BY <2>1, <1>4, <1>3 DEF OneLeft, ConnInv
<1> QED BY <1>3, <1>5, <1>6

(* A connection is accepted only while the socket is open and no other one  *)
(* waits for its registration; Stop waits for all the registered ones.      *)
LEMMA ConnStepInv ==
  TypeOK /\ StopInv /\ ConnInv /\ [Next]_vars => ConnInv'
<1> SUFFICES ASSUME TypeOK, StopInv, ConnInv, [Next]_vars, NEW e \in Daemons
             PROVE  OneAccepted(e)' /\ OneLeft(e)'
  BY DEF ConnInv
<1>0. OneAccepted(e) /\ OneLeft(e)
  BY DEF ConnInv
<1> USE DEF files, daemon, client, conn
<1>1. ASSUME UNCHANGED <<srv, sess>>, stop'[e]["main"] \notin {"remove", "done"} \/ stop'[e]["main"] = stop[e]["main"]
      PROVE  OneAccepted(e)' /\ OneLeft(e)'
  BY <1>0, <1>1, ConnSame DEF OneLeft
<1>2. ASSUME NEW d \in Daemons, MainStep(d) \/ Crash(d)
      PROVE  OneAccepted(e)' /\ OneLeft(e)'
  <2>1. CASE Exit(d) \/ Crash(d)
    BY <2>1, DieConn DEF Exit, Crash
  <2>2. CASE GotSignal(d)
    BY <2>2, <1>1, FiresAssumption DEF GotSignal, TypeOK, Stoppers
  <2>3. CASE ~Exit(d) /\ ~GotSignal(d) /\ ~Crash(d)
    <3>1. UNCHANGED <<srv, sess, stop>>
      BY <1>2, <2>3 DEF MainStep, AcquireLock, StartTimer, WritePIDFile, RemoveStaleSocket,
                        Listen, Publish, NotifySignals, RemovePIDFile, ReleaseLock
    <3> QED BY <3>1, <1>1
  <2> QED BY <2>1, <2>2, <2>3
<1>3. ASSUME NEW d \in Daemons, NEW s \in Stoppers, StopClose(d, s)
      PROVE  OneAccepted(e)' /\ OneLeft(e)'
  <2>1. stop'[e]["main"] \notin {"remove", "done"} \/ stop'[e]["main"] = stop[e]["main"]
    BY <1>3 DEF StopClose, TypeOK, Stoppers
  <2>2. srv' = srv /\ \A c \in Clients : sess'[c] = sess[c] \/ (sess[c] = "backlog" /\ sess'[c] = "closed")
    BY <1>3 DEF StopClose, TypeOK
  <2>3. OneAccepted(e)' /\ Leftover(e)' \subseteq Leftover(e)
    BY <1>0, <2>2 DEF OneAccepted, Leftover, Active
  <2> QED BY <1>0, <2>1, <2>3 DEF OneLeft
<1>4. ASSUME NEW d \in Daemons, NEW s \in Stoppers, StopWait(d, s)
      PROVE  OneAccepted(e)' /\ OneLeft(e)'
  <2>1. UNCHANGED <<srv, sess>>
    BY <1>4 DEF StopWait
  <2>2. OneAccepted(e)' /\ Leftover(e)' = Leftover(e)
    BY <1>0, <2>1, ConnSame
  <2>3. CASE d = e
    <3>1. Leftover(e) = {c \in Clients : srv[c] = e /\ sess[c] = "accepted"}
      BY <1>4, <2>3 DEF StopWait, Leftover
    <3> QED BY <3>1, <2>2, <1>0 DEF OneAccepted, OneLeft
  <2>4. CASE d # e
    BY <1>4, <2>2, <2>4, <1>0 DEF StopWait, OneLeft, TypeOK
  <2> QED BY <2>3, <2>4
<1>5. ASSUME NEW d \in Daemons, NEW s \in Stoppers, StopRemove(d, s)
      PROVE  OneAccepted(e)' /\ OneLeft(e)'
  <2>1. UNCHANGED <<srv, sess>>
    BY <1>5 DEF StopRemove
  <2>2. OneAccepted(e)' /\ Leftover(e)' = Leftover(e)
    BY <1>0, <2>1, ConnSame
  <2>3. stop'[e]["main"] \in {"remove", "done"} => stop[e]["main"] \in {"remove", "done"}
    BY <1>5 DEF StopRemove, TypeOK, Stoppers
  <2> QED BY <1>0, <2>2, <2>3 DEF OneLeft
<1>6. ASSUME NEW d \in Daemons, NEW s \in Stoppers, Fire(d, s)
      PROVE  OneAccepted(e)' /\ OneLeft(e)'
  <2>1. UNCHANGED <<srv, sess>> /\ stop'[e]["main"] = stop[e]["main"]
    BY <1>6, FiresAssumption DEF Fire, TypeOK, Stoppers
  <2> QED BY <2>1, <1>1
<1>7. ASSUME NEW c \in Clients, ConnStep(c)
      PROVE  OneAccepted(e)' /\ OneLeft(e)'
  <2>1. CASE Accept(c)
    <3>1. /\ srv' = srv /\ stop' = stop
          /\ sess' = [sess EXCEPT ![c] = "accepted"]
          /\ lis[srv[c]] = "open" /\ \A b \in Clients : srv[b] = srv[c] => sess[b] # "accepted"
      BY <2>1 DEF Accept, Accepting
    <3>2. OneAccepted(e)'
      BY <1>0, <3>1 DEF OneAccepted, TypeOK
    <3>3. CASE srv[c] = e
      BY <3>1, <3>2, <3>3 DEF StopInv, MainStop, OneLeft
    <3>4. CASE srv[c] # e
      <4>1. Leftover(e)' = Leftover(e)
        BY <3>1, <3>4 DEF Leftover, Active, TypeOK
      <4> QED BY <1>0, <3>1, <3>2, <4>1 DEF OneLeft
    <3> QED BY <3>2, <3>3, <3>4
  <2>2. CASE Register(c) \/ ReadRequest(c) \/ Respond(c) \/ ReadEOF(c)
    <3>1. /\ srv' = srv /\ stop' = stop
          /\ \A b \in Clients : b # c => sess'[b] = sess[b]
          /\ sess[c] \in {"accepted", "reading", "handling"}
          /\ sess'[c] # "accepted"
      BY <2>2 DEF Register, ReadRequest, Respond, ReadEOF, TypeOK
    <3>2. OneAccepted(e)'
      BY <1>0, <3>1 DEF OneAccepted
    <3>3. Leftover(e)' \subseteq Leftover(e)
      BY <3>1 DEF Leftover, Active
    <3> QED BY <1>0, <3>1, <3>2, <3>3 DEF OneLeft
  <2>3. CASE HandlerPanics(c)
    BY <2>3, DieConn DEF HandlerPanics
  <2> QED BY <1>7, <2>1, <2>2, <2>3 DEF ConnStep
<1>8. ASSUME NEW c \in Clients, Dial(c) \/ Poll(c)
      PROVE  OneAccepted(e)' /\ OneLeft(e)'
  <2>1. CASE Connect(c)
    <3>1. /\ sess' = [sess EXCEPT ![c] = "backlog"] /\ stop' = stop
          /\ \A b \in Clients : b # c => srv'[b] = srv[b]
      BY <1>8, <2>1 DEF Dial, Poll, Connect, TypeOK
    <3>2. sess'[c] = "backlog" /\ \A b \in Clients : b # c => sess'[b] = sess[b]
      BY <3>1 DEF TypeOK
    <3>3. OneAccepted(e)'
      BY <1>0, <3>1, <3>2 DEF OneAccepted
    <3>4. Leftover(e)' \subseteq Leftover(e)
      BY <3>1, <3>2 DEF Leftover, Active
    <3> QED BY <1>0, <3>1, <3>3, <3>4 DEF OneLeft
  <2>2. CASE ~Connect(c)
    <3>1. UNCHANGED <<srv, sess, stop>>
      BY <1>8, <2>2 DEF Dial, Poll
    <3> QED BY <3>1, <1>1
  <2> QED BY <2>1, <2>2
<1>9. ASSUME NEW c \in Clients, Kill(c)
      PROVE  OneAccepted(e)' /\ OneLeft(e)'
  <2>1. CASE Die(target[c])
    BY <2>1, DieConn
  <2>2. CASE ~Die(target[c])
    <3>1. UNCHANGED <<srv, sess, stop>>
      BY <1>9, <2>2 DEF Kill
    <3> QED BY <3>1, <1>1
  <2> QED BY <2>1, <2>2
<1>10. ASSUME NEW c \in Clients,
              \/ CheckRunning(c) \/ ReadPID(c) \/ CleanUpPIDFile(c) \/ Fork(c) \/ Send(c)
              \/ FollowAgain(c) \/ LostConnection(c) \/ TimeOut(c) \/ Interrupt(c)
       PROVE  OneAccepted(e)' /\ OneLeft(e)'
  <2>1. UNCHANGED <<srv, sess, stop>>
    BY <1>10 DEF CheckRunning, ReadPID, CleanUpPIDFile, Fork, Send, FollowAgain,
                 LostConnection, TimeOut, Interrupt
  <2> QED BY <2>1, <1>1
<1>11. ASSUME NEW c \in Clients, NEW k \in Commands, Launch(c, k)
       PROVE  OneAccepted(e)' /\ OneLeft(e)'
  <2>1. UNCHANGED <<srv, sess, stop>>
    BY <1>11 DEF Launch
  <2> QED BY <2>1, <1>1
<1>12. CASE UNCHANGED vars
  <2>1. UNCHANGED <<srv, sess, stop>>
    BY <1>12 DEF vars
  <2> QED BY <2>1, <1>1
<1>13. ASSUME NEW d \in Daemons, Terminate(d)
       PROVE  OneAccepted(e)' /\ OneLeft(e)'
  <2>1. UNCHANGED <<srv, sess, stop>>
    BY <1>13 DEF Terminate
  <2> QED BY <2>1, <1>1
<1> QED
  BY <1>2, <1>3, <1>4, <1>5, <1>6, <1>7, <1>8, <1>9, <1>10, <1>11, <1>12, <1>13
  DEF Next, StopStep, ClientStep
-----------------------------------------------------------------------------
(* The inductive invariant. *)
LEMMA InvInit == Init => Inv
<1> SUFFICES ASSUME Init PROVE Inv
  OBVIOUS
<1>1. TypeOK
  BY BoundsAssumption DEF Init, TypeOK, DaemonPC, ClientPC, Stoppers
<1>2. StopInv
  BY DEF Init, StopInv, MainStop, Stoppers
<1>3. LockInv /\ PidFileNamesServer /\ PidInv /\ SocketLeadsToServer /\ SockInv
  BY NoneAssumption DEF Init, LockInv, Locked, Alive, PidFileNamesServer, PidInv,
     Recorded, SocketLeadsToServer, SockInv
<1>4. ConnInv
  BY DEF Init, ConnInv, OneAccepted, OneLeft, Stoppers
<1> QED BY <1>1, <1>2, <1>3, <1>4 DEF Inv

LEMMA InvStep == Inv /\ [Next]_vars => Inv'
  BY TypeStep, StopStepInv, LockStepInv, PidStepInv, SockStepInv, ConnStepInv DEF Inv

LEMMA Invariance == Spec => []Inv
  BY InvInit, InvStep, PTL DEF Spec

(* Never two daemons serving: an open listener implies the flock, whatever  *)
(* crashes, expiries and commands happen in between.                        *)
THEOREM ListenerHoldsLockAlways == Spec => []ListenerHoldsLock
<1>1. Inv => ListenerHoldsLock
  BY DEF Inv, StopInv, MainStop, LockInv, ListenerHoldsLock, Locked, Alive
<1> QED BY <1>1, Invariance, PTL

(* "daemon stop" cannot find another process in the PID file of a daemon    *)
(* that has written it.                                                     *)
THEOREM PidFileNamesServerAlways == Spec => []PidFileNamesServer
<1>1. Inv => PidFileNamesServer
  BY DEF Inv
<1> QED BY <1>1, Invariance, PTL

(* The socket path never leads a client to another daemon than the one that *)
(* listens.                                                                 *)
THEOREM SocketLeadsToServerAlways == Spec => []SocketLeadsToServer
<1>1. Inv => SocketLeadsToServer
  BY DEF Inv
<1> QED BY <1>1, Invariance, PTL

(* A daemon that reaches its exit has removed both of its files.            *)
THEOREM CleanExitAlways == Spec => []CleanExit
<1>1. Inv => CleanExit
  BY DEF Inv, PidInv, SockInv, CleanExit, Recorded, Locked, Alive
<1> QED BY <1>1, Invariance, PTL

(* When main's Server.Stop returns, at most one connection is still served. *)
THEOREM StopLeavesAtMostOneAlways == Spec => []StopLeavesAtMostOne
<1>1. Inv => StopLeavesAtMostOne
  BY DEF Inv, ConnInv, OneLeft, StopLeavesAtMostOne
<1> QED BY <1>1, Invariance, PTL
-----------------------------------------------------------------------------
(* Only an idle expiry takes the socket from under a daemon that listens.   *)
THEOREM SocketKeptAlways == Spec => SocketKeptWhileServing
<1>1. Inv /\ [Next]_vars => SocketKept
  <2> SUFFICES ASSUME Inv, [Next]_vars, NEW d \in Daemons, lis[d] = "open", sockFile = d
               PROVE  \/ lis'[d] # "open"
                      \/ sockFile' = d
                      \/ \E e \in Daemons, s \in Fires : stop[e][s] = "remove" /\ stop'[e][s] = "done"
    BY DEF SocketKept
  <2>1. ASSUME NEW e \in Daemons, Locked(e)
        PROVE  e = d
    BY <2>1 DEF Inv, StopInv, MainStop, LockInv, Locked, Alive
  <2>2. dpc[d] \in {"publish", "notify", "serve", "stopping"}
    BY DEF Inv, StopInv, MainStop
  <2>3. ASSUME NEW e \in Daemons, CoreStep(e)
        PROVE  \/ lis'[d] # "open"
               \/ sockFile' = d
               \/ \E s \in Fires : stop[e][s] = "remove" /\ stop'[e][s] = "done"
    <3>1. CASE RemoveStaleSocket(e) \/ Listen(e)
      <4>1. dpc[e] \in {"unlink", "listen"}
        BY <3>1 DEF RemoveStaleSocket, Listen
      <4>2. Locked(e)
        BY <4>1 DEF Locked, Alive
      <4> QED BY <4>1, <4>2, <2>1, <2>2
    <3>2. ASSUME NEW s \in Stoppers, StopClose(e, s)
          PROVE  lis'[d] # "open" \/ sockFile' = d
      <4>1. CASE lis[e] = "open"
        <5>1. dpc[e] \in {"publish", "notify", "serve", "stopping"}
          BY <4>1 DEF Inv, StopInv, MainStop
        <5>2. e = d
          BY <5>1, <2>1 DEF Locked, Alive
        <5> QED BY <3>2, <4>1, <5>2 DEF StopClose, Inv, TypeOK, files
      <4>2. CASE lis[e] # "open"
        BY <3>2, <4>2 DEF StopClose, files
      <4> QED BY <4>1, <4>2
    <3>3. ASSUME NEW s \in Stoppers, StopRemove(e, s)
          PROVE  \E f \in Fires : stop[e][f] = "remove" /\ stop'[e][f] = "done"
      <4>1. CASE s \in Fires
        BY <3>3, <4>1 DEF StopRemove, Inv, TypeOK, Stoppers
      <4>2. CASE s = "main"
        <5>1. dpc[e] = "stopping" /\ lis[e] # "open"
          BY <3>3, <4>2 DEF StopRemove, Inv, StopInv, MainStop
        <5>2. e = d
          BY <5>1, <2>1 DEF Locked, Alive
        <5> QED BY <5>1, <5>2
      <4> QED BY <4>1, <4>2 DEF Stoppers
    <3>4. CASE \/ AcquireLock(e) \/ StartTimer(e) \/ WritePIDFile(e) \/ Publish(e)
               \/ NotifySignals(e) \/ GotSignal(e) \/ RemovePIDFile(e) \/ ReleaseLock(e)
               \/ ForkStep(e) \/ \E s \in Stoppers : StopWait(e, s) \/ Fire(e, s)
      BY <3>4 DEF AcquireLock, StartTimer, WritePIDFile, Publish, NotifySignals, GotSignal,
                  RemovePIDFile, ReleaseLock, ForkStep, StopWait, Fire, files
    <3> QED BY <2>3, <3>1, <3>2, <3>3, <3>4 DEF CoreStep
  <2>4. (\E e : Die(e)) \/ CleanUpStep \/ UNCHANGED core => sockFile' = sockFile
    BY DEF Die, CleanUpStep, core
  <2> QED BY <2>3, <2>4, StepCases
<1> QED BY <1>1, Invariance, PTL DEF Spec, SocketKeptWhileServing
-----------------------------------------------------------------------------
(* Refinement: the lock and the listening sockets behave as SingleServer.   *)
Serving == {d \in Daemons : lis[d] = "open"}

(* An open listener belongs to the owner of the lock.                       *)
OwnerServes == \A d \in Serving : lock = d
LEMMA ServingOwner == Inv => OwnerServes
  BY DEF OwnerServes, Inv, StopInv, MainStop, LockInv, Locked, Alive, Serving

(* While main is outside the section in which it may listen, its process    *)
(* does not serve.                                                          *)
LEMMA NotServing ==
  Inv => \A d \in Daemons :
           dpc[d] \notin {"publish", "notify", "serve", "stopping"} => d \notin Serving
  BY DEF Inv, StopInv, MainStop, Serving

THEOREM Refinement == Spec => ImplementsSingleServer
<1>1. Init => Single!Init
  BY DEF Init, Single!Init
<1>2. Inv /\ Inv' /\ [Next]_vars => [Single!Next]_<<lock, Serving>>
  <2> SUFFICES ASSUME Inv, Inv', [Next]_vars PROVE [Single!Next]_<<lock, Serving>>
    OBVIOUS
  <2> USE DEF Single!Next, Single!Take, Single!Open, Single!Close, Single!Resign, Single!Die
  <2>1. ASSUME NEW d \in Daemons, CoreStep(d)
        PROVE  [Single!Next]_<<lock, Serving>>
    <3>1. CASE AcquireLock(d)
      <4>1. UNCHANGED lis /\ UNCHANGED Serving
        BY <3>1 DEF AcquireLock, Serving
      <4>2. CASE lock = None
        BY <3>1, <4>1, <4>2, ServingOwner, NoneAssumption DEF AcquireLock, Serving, OwnerServes
      <4>3. CASE lock # None
        BY <3>1, <4>1, <4>3 DEF AcquireLock
      <4> QED BY <4>2, <4>3
    <3>2. CASE Listen(d)
      <4>1. UNCHANGED lock /\ lock = d
        BY <3>2 DEF Listen, Inv, LockInv, Locked, Alive
      <4>2. CASE UNCHANGED lis
        BY <4>1, <4>2 DEF Serving
      <4>3. CASE lis' = [lis EXCEPT ![d] = "open"]
        <5>1. d \in Serving'
          BY <4>3 DEF Serving, Inv, TypeOK
        <5>2. \A e \in Serving' : e = d
          <6>1. OwnerServes'
            BY ServingOwner, PTL
          <6> QED BY <6>1, <4>1 DEF OwnerServes
        <5>3. Serving' = {d}
          BY <5>1, <5>2
        <5> QED BY <4>1, <5>3 DEF Serving
      <4> QED BY <3>2, <4>2, <4>3 DEF Listen
    <3>3. ASSUME NEW s \in Stoppers, StopClose(d, s)
          PROVE  [Single!Next]_<<lock, Serving>>
      <4>1. UNCHANGED lock
        BY <3>3 DEF StopClose
      <4>2. CASE UNCHANGED lis
        BY <4>1, <4>2 DEF Serving
      <4>3. CASE lis[d] = "open" /\ lis' = [lis EXCEPT ![d] = "closed"]
        <5>1. \A e \in Serving : e = d
          BY <4>3, ServingOwner DEF Serving, OwnerServes
        <5>2. Serving' = {}
          BY <4>3, <5>1 DEF Serving, Inv, TypeOK
        <5> QED BY <4>1, <5>2 DEF Serving
      <4> QED BY <3>3, <4>2, <4>3 DEF StopClose
    <3>4. CASE ReleaseLock(d)
      <4>1. lock = d /\ lock' = None /\ UNCHANGED Serving
        BY <3>4 DEF ReleaseLock, Inv, LockInv, Locked, Alive, Serving
      <4>2. d \notin Serving
        BY <3>4, NotServing DEF ReleaseLock
      <4>3. Serving = {}
        BY <4>1, <4>2, ServingOwner DEF OwnerServes
      <4> QED BY <4>1, <4>3 DEF Serving
    <3>5. CASE \/ StartTimer(d) \/ WritePIDFile(d) \/ RemoveStaleSocket(d) \/ Publish(d)
               \/ NotifySignals(d) \/ GotSignal(d) \/ RemovePIDFile(d) \/ ForkStep(d)
      BY <3>5 DEF StartTimer, WritePIDFile, RemoveStaleSocket, Publish, NotifySignals,
                  GotSignal, RemovePIDFile, ForkStep, files, Serving
    <3>6. ASSUME NEW s \in Stoppers, StopWait(d, s) \/ StopRemove(d, s) \/ Fire(d, s)
          PROVE  [Single!Next]_<<lock, Serving>>
      BY <3>6 DEF StopWait, StopRemove, Fire, files, Serving
    <3> QED BY <2>1, <3>1, <3>2, <3>3, <3>4, <3>5, <3>6 DEF CoreStep
  <2>2. ASSUME NEW d, Die(d)
        PROVE  [Single!Next]_<<lock, Serving>>
    <3>1. Serving' = Serving \ {d}
      BY <2>2 DEF Die, Serving, Inv, TypeOK
    <3>2. CASE lock = d
      <4>1. Serving' = {} /\ lock' = None
        BY <2>2, <3>1, <3>2, ServingOwner DEF Die, OwnerServes
      <4> QED BY <4>1 DEF Serving
    <3>3. CASE lock # d
      <4>1. d \notin Serving
        BY <3>3, ServingOwner DEF OwnerServes
      <4> QED BY <2>2, <3>1, <3>3, <4>1 DEF Die
    <3> QED BY <3>2, <3>3
  <2>3. CASE CleanUpStep \/ UNCHANGED core
    BY <2>3 DEF CleanUpStep, core, Serving
  <2> QED BY <2>1, <2>2, <2>3, StepCases
<1> QED
  BY <1>1, <1>2, Invariance, PTL DEF Spec, ImplementsSingleServer, Single!Spec, Serving
-----------------------------------------------------------------------------
(* Liveness.  ENABLED has no proof rule here, so fairness is stated with    *)
(* guards written out that imply that the step is possible: the main        *)
(* goroutine of d is at rest again and again, or takes its step again and   *)
(* again, and so does its call of Server.Stop.                              *)
MainCanMove(d) ==
  \/ dpc[d] \in {"rmpid", "unlock", "exit"}
  \/ dpc[d] = "serve" /\ sig[d]
StopCanMove(d) == stop[d]["main"] \in {"close", "remove"}
ShutdownScheduled(d) ==
  /\ []<>~MainCanMove(d) \/ []<><<MainStep(d)>>_vars
  /\ []<>~StopCanMove(d) \/ []<><<StopStep(d, "main")>>_vars

(* How far the shutdown of d has come. *)
Shutdown(d) ==
  CASE dpc[d] = "serve" -> 1
    [] dpc[d] = "stopping" /\ stop[d]["main"] = "close" -> 2
    [] dpc[d] = "stopping" /\ stop[d]["main"] = "wait" -> 3
    [] dpc[d] = "stopping" /\ stop[d]["main"] = "remove" -> 4
    [] dpc[d] = "rmpid" -> 5
    [] dpc[d] = "unlock" -> 6
    [] dpc[d] = "exit" -> 7
    [] dpc[d] = "gone" -> 8
    [] OTHER -> 0

(* A signal waits only where main has asked for signals, or has gone on.    *)
SigInv == \A d \in Daemons : sig[d] => Notified(d)

LEMMA ShutdownRange == ASSUME NEW d PROVE Shutdown(d) \in 0 .. 8 /\ Shutdown(d)' \in 0 .. 8
  BY DEF Shutdown

(* No step of anybody leads a shutdown back.                                *)
LEMMA ShutdownAdvances ==
  ASSUME NEW d \in Daemons, TypeOK, StopInv, [Next]_vars
  PROVE  Shutdown(d)' >= Shutdown(d)
<1>1. ASSUME dpc'[d] = dpc[d], stop'[d]["main"] = stop[d]["main"]
      PROVE  Shutdown(d)' >= Shutdown(d)
  <2>1. Shutdown(d)' = Shutdown(d)
    BY <1>1 DEF Shutdown
  <2> QED BY <2>1, ShutdownRange
<1>2. ASSUME NEW e \in Daemons, e # d, CoreStep(e)
      PROVE  dpc'[d] = dpc[d] /\ stop'[d]["main"] = stop[d]["main"]
  <2> USE <1>2 DEF TypeOK, Goto
  <2>1. ASSUME NEW s \in Stoppers, StopClose(e, s) \/ StopWait(e, s) \/ StopRemove(e, s) \/ Fire(e, s)
        PROVE  dpc'[d] = dpc[d] /\ stop'[d]["main"] = stop[d]["main"]
    BY <2>1 DEF StopClose, StopWait, StopRemove, Fire
  <2>2. ASSUME \/ AcquireLock(e) \/ StartTimer(e) \/ WritePIDFile(e) \/ RemoveStaleSocket(e)
               \/ Listen(e) \/ Publish(e) \/ NotifySignals(e) \/ GotSignal(e)
               \/ RemovePIDFile(e) \/ ReleaseLock(e) \/ ForkStep(e)
        PROVE  dpc'[d] = dpc[d] /\ stop'[d]["main"] = stop[d]["main"]
    BY <2>2 DEF AcquireLock, StartTimer, WritePIDFile, RemoveStaleSocket, Listen, Publish,
                NotifySignals, GotSignal, RemovePIDFile, ReleaseLock, ForkStep
  <2> QED BY <1>2, <2>1, <2>2 DEF CoreStep
<1>3. ASSUME CoreStep(d) PROVE Shutdown(d)' >= Shutdown(d)
  <2> USE FiresAssumption DEF TypeOK, Goto, Shutdown, Stoppers
  <2>1. CASE AcquireLock(d) \/ StartTimer(d) \/ RemoveStaleSocket(d) \/ Publish(d) \/ NotifySignals(d)
             \/ GotSignal(d) \/ RemovePIDFile(d) \/ ReleaseLock(d) \/ ForkStep(d)
    BY <2>1 DEF AcquireLock, StartTimer, RemoveStaleSocket, Publish, NotifySignals, GotSignal,
                RemovePIDFile, ReleaseLock, ForkStep
  <2>2. CASE WritePIDFile(d) \/ Listen(d)
    BY <2>2 DEF WritePIDFile, Listen
  <2>3. ASSUME NEW s \in Stoppers, StopClose(d, s) \/ StopWait(d, s) \/ Fire(d, s)
        PROVE  Shutdown(d)' >= Shutdown(d)
    BY <2>3 DEF StopClose, StopWait, Fire
  <2>4. ASSUME NEW s \in Stoppers, StopRemove(d, s)
        PROVE  Shutdown(d)' >= Shutdown(d)
    BY <2>4 DEF StopRemove, StopInv, MainStop
  <2> QED BY <1>3, <2>1, <2>2, <2>3, <2>4 DEF CoreStep
<1>4. ASSUME NEW e, Die(e) PROVE Shutdown(d)' >= Shutdown(d)
  <2>1. CASE e = d
    <3>1. dpc'[d] = "gone"
      BY <1>4, <2>1 DEF Die, Goto, TypeOK
    <3>2. Shutdown(d)' = 8
      BY <3>1 DEF Shutdown
    <3> QED BY <3>2, ShutdownRange
  <2>2. CASE e # d
    BY <1>1, <1>4, <2>2 DEF Die, Goto, TypeOK
  <2> QED BY <2>1, <2>2
<1>5. CASE CleanUpStep
  BY <1>1, <1>5 DEF CleanUpStep
<1>6. CASE UNCHANGED core
  BY <1>1, <1>6 DEF core
<1> QED BY <1>1, <1>2, <1>3, <1>4, <1>5, <1>6, StepCases

(* Main and its call of Server.Stop lead it on.                             *)
LEMMA ShutdownGoesOn ==
  ASSUME NEW d \in Daemons, TypeOK, StopInv
  PROVE  /\ MainStep(d) /\ Shutdown(d) \in {1, 5, 6, 7} => Shutdown(d)' > Shutdown(d)
         /\ StopStep(d, "main") /\ Shutdown(d) \in {2, 4} => Shutdown(d)' > Shutdown(d)
<1> USE DEF TypeOK, Goto, Shutdown, Stoppers
<1>1. ASSUME MainStep(d), Shutdown(d) \in {1, 5, 6, 7} PROVE Shutdown(d)' > Shutdown(d)
  <2>1. dpc[d] \in {"serve", "rmpid", "unlock", "exit"}
    BY <1>1
  <2>2. GotSignal(d) \/ RemovePIDFile(d) \/ ReleaseLock(d) \/ Exit(d)
    BY <1>1, <2>1 DEF MainStep, AcquireLock, StartTimer, WritePIDFile, RemoveStaleSocket, Listen,
                      Publish, NotifySignals
  <2> QED BY <2>2 DEF GotSignal, RemovePIDFile, ReleaseLock, Exit, Die
<1>2. ASSUME StopStep(d, "main"), Shutdown(d) \in {2, 4} PROVE Shutdown(d)' > Shutdown(d)
  <2>1. dpc[d] = "stopping" /\ stop[d]["main"] \in {"close", "remove"}
    BY <1>2
  <2>2. StopClose(d, "main") \/ StopRemove(d, "main")
    BY <1>2, <2>1 DEF StopStep, StopWait
  <2> QED BY <2>1, <2>2 DEF StopClose, StopRemove
<1> QED BY <1>1, <1>2

(* A signal is kept until main takes it or the process ends.                *)
LEMMA SignalSteps ==
  ASSUME NEW d \in Daemons, TypeOK, SigInv, [Next]_vars
  PROVE  /\ sig'[d] => Notified(d)'
         /\ sig[d] => sig'[d] \/ dpc'[d] \in {"stopping", "gone"}
<1> DEFINE Goal == /\ sig'[d] => Notified(d)'
                   /\ sig[d] => sig'[d] \/ dpc'[d] \in {"stopping", "gone"}
<1> USE DEF TypeOK, SigInv, Notified, Goto, files, daemon, client, conn
<1>1. ASSUME UNCHANGED <<dpc, sig>> PROVE Goal
  BY <1>1
<1>2. ASSUME NEW e, Die(e) PROVE Goal
  BY <1>2 DEF Die
<1>3. ASSUME NEW e \in Daemons, MainStep(e) PROVE Goal
  <2>1. CASE \/ AcquireLock(e) \/ StartTimer(e) \/ WritePIDFile(e) \/ RemoveStaleSocket(e)
             \/ Listen(e) \/ Publish(e) \/ NotifySignals(e)
    BY <2>1 DEF AcquireLock, StartTimer, WritePIDFile, RemoveStaleSocket, Listen, Publish, NotifySignals
  <2>2. CASE GotSignal(e)
    BY <2>2 DEF GotSignal
  <2>3. CASE RemovePIDFile(e) \/ ReleaseLock(e)
    BY ZenonT(60), <2>3 DEF RemovePIDFile, ReleaseLock
  <2>4. CASE Exit(e)
    BY <2>4, <1>2 DEF Exit
  <2> QED BY <1>3, <2>1, <2>2, <2>3, <2>4 DEF MainStep
<1>4. ASSUME NEW e \in Daemons, Crash(e) PROVE Goal
  BY <1>2, <1>4 DEF Crash
<1>5. ASSUME NEW e \in Daemons, Terminate(e) PROVE Goal
  BY <1>5 DEF Terminate
<1>6. ASSUME NEW e \in Daemons, NEW s \in Stoppers, StopClose(e, s) \/ StopWait(e, s) \/ Fire(e, s)
      PROVE  UNCHANGED <<dpc, sig>>
  BY <1>6 DEF StopClose, StopWait, Fire
<1>7. ASSUME NEW e \in Daemons, NEW s \in Stoppers, StopRemove(e, s) PROVE Goal
  BY <1>7 DEF StopRemove
<1>8. ASSUME NEW c \in Clients, ConnStep(c) PROVE UNCHANGED <<dpc, sig>> \/ Die(srv[c])
  BY <1>8 DEF ConnStep, Accept, Register, ReadRequest, Respond, HandlerPanics, ReadEOF
<1>9. ASSUME NEW c \in Clients, Kill(c) PROVE Goal
  <2>1. CASE ~Alive(target[c])
    BY <1>1, <1>9, <2>1 DEF Kill
  <2>2. CASE Alive(target[c]) /\ Notified(target[c])
    <3>1. sig' = [sig EXCEPT ![target[c]] = TRUE] /\ UNCHANGED dpc
      BY <1>9, <2>2 DEF Kill
    <3> QED BY <2>2, <3>1
  <2>3. CASE Alive(target[c]) /\ ~Notified(target[c])
    BY <1>2, <1>9, <2>3 DEF Kill
  <2> QED BY <2>1, <2>2, <2>3
<1>10. ASSUME NEW c \in Clients, Fork(c) PROVE Goal
  BY <1>10 DEF Fork
<1>11. ASSUME NEW c \in Clients,
              \/ CheckRunning(c) \/ ReadPID(c) \/ CleanUpPIDFile(c) \/ Dial(c) \/ Poll(c) \/ Send(c)
              \/ FollowAgain(c) \/ LostConnection(c) \/ TimeOut(c) \/ Interrupt(c)
       PROVE  UNCHANGED <<dpc, sig>>
  BY <1>11 DEF CheckRunning, ReadPID, CleanUpPIDFile, Dial, Poll, Send, FollowAgain, LostConnection,
               TimeOut, Interrupt
<1>12. ASSUME NEW c \in Clients, NEW k \in Commands, Launch(c, k) PROVE UNCHANGED <<dpc, sig>>
  BY <1>12 DEF Launch
<1>13. ASSUME UNCHANGED vars PROVE UNCHANGED <<dpc, sig>>
  BY <1>13 DEF vars
<1> HIDE DEF Goal
<1>14. Goal
  BY ONLY [Next]_vars, <1>1, <1>2, <1>3, <1>4, <1>5, <1>6, <1>7, <1>8, <1>9, <1>10, <1>11, <1>12, <1>13
  DEF Next, StopStep, ClientStep
<1> QED BY <1>14 DEF Goal

(* The wait of Server.Stop for the connections comes to an end.  This is    *)
(* what a log --follow prevents (server.go:82-85).                          *)
WaitReturns(d) == stop[d]["main"] = "wait" ~> stop[d]["main"] # "wait"

(* The shutdown has been asked for, and has come to its n-th place.         *)
Down(d, n) == Shutdown(d) >= n /\ (Shutdown(d) = 1 => sig[d])
DownInv == TypeOK /\ StopInv /\ SigInv

Advances(d, n, m) ==
  Spec /\ ShutdownScheduled(d) /\ WaitReturns(d) => (Down(d, n) ~> Down(d, m))

LEMMA AlwaysDownInv == Spec => []DownInv
<1>1. Init => DownInv
  BY InvInit DEF Init, Inv, DownInv, SigInv
<1>2. DownInv /\ [Next]_vars => DownInv'
  <2> SUFFICES ASSUME DownInv, [Next]_vars PROVE DownInv'
    OBVIOUS
  <2>1. TypeOK' /\ StopInv'
    BY TypeStep, StopStepInv DEF DownInv
  <2>2. ASSUME NEW d \in Daemons PROVE sig'[d] => Notified(d)'
    BY SignalSteps DEF DownInv
  <2> QED BY <2>1, <2>2 DEF DownInv, SigInv
<1> QED BY <1>1, <1>2, PTL DEF Spec

LEMMA ShutdownReaches ==
  ASSUME NEW d \in Daemons, NEW n \in 1 .. 7, NEW m \in 2 .. 8, m = n + 1
  PROVE  Advances(d, n, m)
<1>1. DownInv /\ Down(d, n) /\ [Next]_vars => Down(d, n)'
  <2> SUFFICES ASSUME DownInv, Down(d, n), [Next]_vars PROVE Down(d, n)'
    OBVIOUS
  <2>1. Shutdown(d)' >= Shutdown(d) /\ Shutdown(d) >= n /\ (Shutdown(d) = 1 => sig[d])
    BY ShutdownAdvances DEF DownInv, Down
  <2>2. Shutdown(d)' = 1 => Shutdown(d) = 1
    BY <2>1, ShutdownRange
  <2>3. Shutdown(d)' = 1 => dpc'[d] = "serve"
    BY DEF Shutdown
  <2>4. sig[d] => sig'[d] \/ dpc'[d] \in {"stopping", "gone"}
    BY SignalSteps DEF DownInv
  <2>5. Shutdown(d)' = 1 => sig'[d]
    BY <2>1, <2>2, <2>3, <2>4
  <2>6. Shutdown(d)' >= n
    BY <2>1, ShutdownRange
  <2> QED BY <2>5, <2>6 DEF Down
<1>2. ASSUME DownInv, Down(d, n), [Next]_vars, Shutdown(d) = n => Shutdown(d)' > Shutdown(d)
      PROVE  Down(d, m)'
  <2>1. Shutdown(d)' >= Shutdown(d) /\ Shutdown(d) >= n
    BY <1>2, ShutdownAdvances DEF DownInv, Down
  <2>2. Shutdown(d)' >= m
    BY <1>2, <2>1, ShutdownRange
  <2> QED BY <2>2 DEF Down
<1>3. DownInv /\ Down(d, n) => Down(d, m) \/ Shutdown(d) = n
  BY ShutdownRange DEF Down
<1>4. CASE n \in {1, 5, 6, 7}
  <2>1. DownInv /\ Down(d, n) /\ [Next]_vars /\ <<MainStep(d)>>_vars => Down(d, m)'
    BY <1>2, <1>4, ShutdownGoesOn DEF DownInv
  <2>2. DownInv /\ Down(d, n) => Down(d, m) \/ MainCanMove(d)
    <3>1. Shutdown(d) = n => dpc[d] \in {"serve", "rmpid", "unlock", "exit"}
      BY <1>4 DEF Shutdown
    <3>2. dpc[d] = "serve" => Shutdown(d) = 1
      BY DEF Shutdown
    <3> SUFFICES ASSUME DownInv, Down(d, n), ~Down(d, m) PROVE MainCanMove(d)
      OBVIOUS
    <3>3. Shutdown(d) = n
      BY <1>3
    <3>4. CASE dpc[d] = "serve"
      <4>1. sig[d]
        BY <3>2, <3>4 DEF Down
      <4> QED BY <3>4, <4>1 DEF MainCanMove
    <3>5. CASE dpc[d] \in {"rmpid", "unlock", "exit"}
      BY <3>5 DEF MainCanMove
    <3>6. dpc[d] = "serve" \/ dpc[d] \in {"rmpid", "unlock", "exit"}
      BY <3>1, <3>3
    <3> QED BY <3>4, <3>5, <3>6
  <2>3. Spec => []DownInv
    BY AlwaysDownInv
  <2> QED BY <1>1, <2>1, <2>2, <2>3, PTL DEF Spec, ShutdownScheduled, Advances
<1>5. CASE n \in {2, 4}
  <2>1. DownInv /\ Down(d, n) /\ [Next]_vars /\ <<StopStep(d, "main")>>_vars => Down(d, m)'
    BY <1>2, <1>5, ShutdownGoesOn DEF DownInv
  <2>2. DownInv /\ Down(d, n) => Down(d, m) \/ StopCanMove(d)
    BY <1>3, <1>5 DEF Shutdown, StopCanMove
  <2>3. Spec => []DownInv
    BY AlwaysDownInv
  <2> QED BY <1>1, <2>1, <2>2, <2>3, PTL DEF Spec, ShutdownScheduled, Advances
<1>6. CASE n = 3
  <2>1. DownInv /\ Down(d, n) => Down(d, m) \/ stop[d]["main"] = "wait"
    BY <1>3, <1>6 DEF Shutdown
  <2>2. DownInv /\ Down(d, n) /\ stop[d]["main"] # "wait" => Down(d, m)
    BY <1>3, <1>6 DEF Shutdown
  <2>3. Spec => []DownInv
    BY AlwaysDownInv
  <2> QED BY <1>1, <2>1, <2>2, <2>3, PTL DEF Spec, WaitReturns, Advances
<1> QED BY <1>4, <1>5, <1>6

(* A daemon that has been signalled exits, whatever expiries, crashes and   *)
(* other daemons do meanwhile, unless its call of Server.Stop waits for     *)
(* ever for a connection: that is the only place where the shutdown of      *)
(* runDaemonServe can stay (root.go:275-285, server.go:77-87).              *)
THEOREM SignalledDaemonExitsAfterWait ==
  Spec /\ (\A d \in Daemons : ShutdownScheduled(d) /\ WaitReturns(d)) => SignalledDaemonExits
<1>1. ASSUME NEW d \in Daemons
      PROVE  Spec /\ ShutdownScheduled(d) /\ WaitReturns(d) => (sig[d] ~> dpc[d] = "gone")
  <2>1. /\ Advances(d, 1, 2) /\ Advances(d, 2, 3) /\ Advances(d, 3, 4) /\ Advances(d, 4, 5)
        /\ Advances(d, 5, 6) /\ Advances(d, 6, 7) /\ Advances(d, 7, 8)
    BY ShutdownReaches
  <2>2. DownInv /\ sig[d] => Down(d, 1)
    BY DEF DownInv, SigInv, Notified, StopInv, MainStop, Down, Shutdown
  <2>3. Down(d, 8) => dpc[d] = "gone"
    BY DEF Down, Shutdown
  <2>4. Spec => []DownInv
    BY AlwaysDownInv
  <2> QED BY <2>1, <2>2, <2>3, <2>4, PTL DEF Advances
<1>2. ASSUME NEW d \in Daemons
      PROVE  (\A e \in Daemons : ShutdownScheduled(e) /\ WaitReturns(e)) =>
                ShutdownScheduled(d) /\ WaitReturns(d)
  OBVIOUS
<1>3. Spec /\ (\A e \in Daemons : ShutdownScheduled(e) /\ WaitReturns(e)) =>
        \A d \in Daemons : sig[d] ~> dpc[d] = "gone"
  BY <1>1, <1>2
<1> QED BY <1>3 DEF SignalledDaemonExits
=============================================================================
