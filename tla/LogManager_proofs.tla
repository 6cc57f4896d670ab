-------------------------- MODULE LogManager_proofs --------------------------
(* What the log capture guarantees for any number of captures, devices,     *)
(* messages and subscribers: one capture is live, its types, the bound on   *)
(* what a stopped capture still adds, and the order of entries in the buffer*)
(* and in the subscribers' channels.                                        *)
EXTENDS LogManager, SequenceTheorems, TLAPS

(* The last capture begun is live exactly while running is set; the earlier *)
(* ones are cancelled and the later ones have not been begun.               *)
LiveInv ==
  /\ running \in BOOLEAN
  /\ starts \in 0 .. MaxStarts
  /\ cancelled \in [Captures -> BOOLEAN]
  /\ running => starts # 0
  /\ \A g \in Captures :
       cancelled[g] <=> (g < starts \/ (g = starts /\ ~running))

(* Only Start and Stop change what LiveInv is about.                        *)
LEMMA OthersKeepLive ==
  ASSUME NEW g, DriverStep(g) \/ DeviceStep(g) \/ DrainerStep(g)
  PROVE  UNCHANGED <<running, starts, cancelled>>
<1>1. DriverStep(g) => UNCHANGED <<running, starts, cancelled>>
  BY DEF DriverStep, DriverOpen, DriverCheck, DriverSend, DriverDone, DriverLeaves, manager
<1>2. DeviceStep(g) => UNCHANGED <<running, starts, cancelled>>
  BY DEF DeviceStep, DriverRead, DriverFails, DriverLeaves, manager
<1>3. DrainerStep(g) => UNCHANGED <<running, starts, cancelled>>
  BY DEF DrainerStep, DrainerTake, DrainerDone, DrainerAdd, FanOutCopy, FanOutSend, FanOutEnd,
         manager
<1> QED BY <1>1, <1>2, <1>3

LEMMA SubscribersKeepLive ==
  ASSUME NEW s, Subscribe(s) \/ Unsubscribe(s) \/ Receive(s)
  PROVE  UNCHANGED <<running, starts, cancelled>>
  BY DEF Subscribe, Unsubscribe, Receive, manager

LEMMA LiveStep == LiveInv /\ [Next]_vars => LiveInv'
<1> SUFFICES ASSUME LiveInv, [Next]_vars PROVE LiveInv'
  OBVIOUS
<1> USE BoundsAssumption DEF LiveInv, Captures
<1>1. ASSUME NEW d \in Devices, Start(d)
      PROVE  LiveInv'
  <2>1. CASE running
    BY <1>1, <2>1 DEF Start
  <2>2. CASE ~running
    <3>1. /\ running' = TRUE /\ starts' = starts + 1 /\ UNCHANGED cancelled
          /\ starts < MaxStarts
      BY <1>1, <2>2 DEF Start
    <3> QED BY <2>2, <3>1
  <2> QED BY <2>1, <2>2
<1>2. CASE Stop
  <2>1. /\ running /\ running' = FALSE
        /\ cancelled' = [cancelled EXCEPT ![starts] = TRUE]
        /\ UNCHANGED starts
    BY <1>2 DEF Stop
  <2>2. starts \in Captures
    BY <2>1
  <2>3. ASSUME NEW g \in Captures
        PROVE  cancelled'[g] <=> (g < starts' \/ (g = starts' /\ ~running'))
    BY <2>1, <2>2
  <2>4. cancelled' \in [Captures -> BOOLEAN]
    BY <2>1
  <2> QED BY <2>1, <2>3, <2>4
<1>3. ASSUME UNCHANGED <<running, starts, cancelled>>
      PROVE  LiveInv'
  BY <1>3
<1>4. CASE UNCHANGED vars
  BY <1>3, <1>4 DEF vars
<1> QED
  BY <1>1, <1>2, <1>3, <1>4, OthersKeepLive, SubscribersKeepLive DEF Next

LEMMA LiveInitial == Init => LiveInv
<1> SUFFICES ASSUME Init PROVE LiveInv
  OBVIOUS
<1>1. running = FALSE /\ starts = 0 /\ cancelled = [g \in Captures |-> FALSE]
  BY DEF Init
<1>2. running \in BOOLEAN /\ (running => starts # 0)
  BY <1>1
<1>3. starts \in 0 .. MaxStarts
  BY <1>1, BoundsAssumption
<1>4. cancelled \in [Captures -> BOOLEAN]
  BY <1>1
<1>5. ASSUME NEW g \in Captures
      PROVE  cancelled[g] <=> (g < starts \/ (g = starts /\ ~running))
  <2>1. g \in Nat /\ g >= 1
    BY <1>5, BoundsAssumption DEF Captures
  <2>2. ~ cancelled[g]
    BY <1>1
  <2> QED BY <1>1, <2>1, <2>2
<1> QED BY <1>2, <1>3, <1>4, <1>5 DEF LiveInv

(* However Start and Stop are called, at most one capture is live: the last *)
(* one begun, while running is set.                                         *)
THEOREM OneLiveCaptureAlways == Spec => []OneLiveCapture
<1>1. LiveInv => OneLiveCapture
  <2> SUFFICES ASSUME LiveInv PROVE OneLiveCapture
    OBVIOUS
  <2>1. CASE running
    BY <2>1, BoundsAssumption DEF LiveInv, OneLiveCapture, Started, Captures
  <2>2. CASE ~running
    BY <2>2, BoundsAssumption DEF LiveInv, OneLiveCapture, Started, Captures
  <2> QED BY <2>1, <2>2
<1> QED BY <1>1, LiveInitial, LiveStep, PTL DEF Spec
-----------------------------------------------------------------------------
(* Types, and the way of an entry from the device to the log.               *)

ManagerTypes ==
  /\ running \in BOOLEAN
  /\ starts \in 0 .. MaxStarts
  /\ device \in [Captures -> Devices \cup {None}]
  /\ asked \in Devices \cup {None}
  /\ cancelled \in [Captures -> BOOLEAN]
  /\ atStop \in [Captures -> 0 .. MaxMessages]
  /\ panicked \in BOOLEAN

PipeTypes ==
  /\ drv \in [Captures -> DriverPC]
  /\ got \in [Captures -> 0 .. MaxMessages]
  /\ ch \in [Captures -> Seq(1 .. MaxMessages)]
  /\ \A g \in Captures : Len(ch[g]) <= ChanCap
  /\ drain \in [Captures -> DrainerPC]
  /\ cur \in [Captures -> 0 .. MaxMessages]
  /\ snap \in [Captures -> Seq(Subs)]
  /\ added \in [Captures -> 0 .. MaxMessages]

LogTypes == log \in Seq(Entries) /\ Len(log) <= BufferSize

SubTypes ==
  /\ subs \in Seq(Subs)
  /\ subCh \in [Subs -> Seq(Entries)]
  /\ \A s \in Subs : Len(subCh[s]) <= SubCap
  /\ closed \subseteq Subs
  /\ seen \in [Subs -> [Captures -> 0 .. MaxMessages]]

LEMMA TypesInParts ==
  /\ TypeOK => ManagerTypes /\ PipeTypes /\ LogTypes /\ SubTypes
  /\ ManagerTypes /\ PipeTypes /\ LogTypes /\ SubTypes => TypeOK
  BY DEF TypeOK, ManagerTypes, PipeTypes, LogTypes, SubTypes

(* What is between the device and the log: the entry the drainer holds, the *)
(* channel and the message the driver wants to send.                        *)
Held(g) == IF drain[g] = "add" THEN 1 ELSE 0
Sending(g) == IF drv[g] = "send" THEN 1 ELSE 0
Moving(g) == IF drv[g] \in {"read", "send"} THEN 1 ELSE 0

(* Nothing is added that was not read, and a cancelled capture can add only *)
(* what is under way, and one more message if the driver is in a read.      *)
Flow(g) ==
  /\ drv[g] = "send" => got[g] # 0
  /\ drain[g] \in {"add", "copy", "fan"} => cur[g] # 0
  /\ added[g] + Held(g) + Len(ch[g]) + Sending(g) <= got[g]
  /\ cancelled[g] => added[g] + Held(g) + Len(ch[g]) + Moving(g) <= atStop[g] + ChanCap + 2

FlowInv == \A g \in Captures : Flow(g)

LEMMA FlowGivesBound == TypeOK /\ FlowInv => StopIsBounded
<1> SUFFICES ASSUME TypeOK, FlowInv, NEW g \in Captures, cancelled[g]
             PROVE  added[g] - atStop[g] <= ChanCap + 2
  BY DEF StopIsBounded
<1>1. /\ added[g] \in Nat /\ atStop[g] \in Nat /\ Len(ch[g]) \in Nat /\ ChanCap \in Nat
      /\ Held(g) \in Nat
  BY BoundsAssumption, LenProperties DEF TypeOK, Held
<1>2. /\ Moving(g) \in Nat
      /\ added[g] + Held(g) + Len(ch[g]) + Moving(g) <= atStop[g] + ChanCap + 2
  BY DEF FlowInv, Flow, Moving
<1>3. \A a, h, l, m, t, c \in Nat : a + h + l + m <= t + c + 2 => a - t <= c + 2
  OBVIOUS
<1> QED BY <1>1, <1>2, <1>3

LEMMA TypesInitial == Init => TypeOK /\ FlowInv
<1> SUFFICES ASSUME Init PROVE TypeOK /\ FlowInv
  OBVIOUS
<1> USE BoundsAssumption
<1>1. ManagerTypes
  <2>1. 0 \in 0 .. MaxStarts /\ 0 \in 0 .. MaxMessages
    OBVIOUS
  <2> QED BY <2>1 DEF Init, ManagerTypes
<1>2. PipeTypes
  BY DEF Init, PipeTypes, DriverPC, DrainerPC
<1>3. LogTypes
  BY DEF Init, Buffer!Init, LogTypes
<1>4. SubTypes
  BY DEF Init, SubTypes
<1>5. FlowInv
  BY DEF Init, FlowInv, Flow, Held, Sending, Moving
<1> QED BY <1>1, <1>2, <1>3, <1>4, <1>5, TypesInParts

(* Of the other captures nothing changes.                                   *)
LEMMA FlowOfOthers ==
  ASSUME NEW q \in Captures, Flow(q), drv'[q] = drv[q], got'[q] = got[q], ch'[q] = ch[q],
         drain'[q] = drain[q], cur'[q] = cur[q], added'[q] = added[q],
         cancelled'[q] = cancelled[q], atStop'[q] = atStop[q]
  PROVE  Flow(q)'
  BY DEF Flow, Held, Sending, Moving

LEMMA CaptureTypes ==
  ASSUME TypeOK, NEW g \in Captures
  PROVE  /\ added[g] \in Nat /\ atStop[g] \in Nat /\ got[g] \in Nat /\ Len(ch[g]) \in Nat
         /\ ChanCap \in Nat /\ Len(ch[g]) <= ChanCap
         /\ ch[g] \in Seq(1 .. MaxMessages)
         /\ Held(g) \in {0, 1} /\ Sending(g) \in {0, 1} /\ Moving(g) \in {0, 1}
         /\ Sending(g) <= Moving(g)
  BY BoundsAssumption, LenProperties DEF TypeOK, Held, Sending, Moving

LEMMA FlowWithoutMoves ==
  ASSUME TypeOK, NEW g \in Captures, Flow(g)
  PROVE  /\ added[g] + 0 + Len(ch[g]) + 0 <= got[g]
         /\ cancelled[g] => added[g] + 0 + Len(ch[g]) + 0 <= atStop[g] + ChanCap + 2
<1> DEFINE a == added[g]
           l == Len(ch[g])
           h == Held(g)
           s == Sending(g)
           m == Moving(g)
<1>1. /\ a \in Nat /\ l \in Nat /\ h \in {0, 1} /\ s \in {0, 1} /\ m \in {0, 1}
      /\ got[g] \in Nat /\ atStop[g] \in Nat /\ ChanCap \in Nat
  BY CaptureTypes
<1>2. a + h + l + s <= got[g] /\ (cancelled[g] => a + h + l + m <= atStop[g] + ChanCap + 2)
  BY DEF Flow
<1> HIDE DEF a, l, h, s, m
<1>3. a + 0 + l + 0 <= got[g] /\ (cancelled[g] => a + 0 + l + 0 <= atStop[g] + ChanCap + 2)
  BY <1>1, <1>2
<1> QED BY <1>3 DEF a, l

LEMMA FlowStart ==
  ASSUME TypeOK, FlowInv, NEW udid \in Devices, Start(udid)
  PROVE  TypeOK' /\ FlowInv'
<1>1. CASE running
  <2>1. TypeOK'
    BY <1>1 DEF Start, TypeOK, subscribers
  <2>2. FlowInv'
    BY <1>1, FlowOfOthers DEF Start, FlowInv
  <2> QED BY <2>1, <2>2
<1>2. CASE ~running
  <2>1. /\ starts < MaxStarts /\ starts' = starts + 1 /\ running' = TRUE /\ asked' = udid
        /\ device' = [device EXCEPT ![starts + 1] = udid]
        /\ drv' = [drv EXCEPT ![starts + 1] = "open"]
        /\ drain' = [drain EXCEPT ![starts + 1] = "select"]
        /\ UNCHANGED <<cancelled, atStop, got, ch, cur, snap, added, log, subscribers, panicked>>
    BY <1>2 DEF Start
  <2>2. starts + 1 \in Captures /\ starts' \in 0 .. MaxStarts
    BY <2>1, BoundsAssumption DEF TypeOK, Captures
  <2>3. ManagerTypes' /\ PipeTypes' /\ LogTypes' /\ SubTypes'
    BY <2>1, <2>2, TypesInParts
       DEF ManagerTypes, PipeTypes, LogTypes, SubTypes, subscribers, DriverPC, DrainerPC
  <2>4. ASSUME NEW q \in Captures PROVE Flow(q)'
    <3>1. CASE q = starts + 1
      <4>1. drv'[q] = "open" /\ drain'[q] = "select"
        BY <2>1, <3>1 DEF TypeOK
      <4>2. Held(q)' = 0 /\ Sending(q)' = 0 /\ Moving(q)' = 0
        BY <4>1 DEF Held, Sending, Moving
      <4>3. /\ added'[q] = added[q] /\ ch'[q] = ch[q] /\ got'[q] = got[q]
            /\ cancelled'[q] = cancelled[q] /\ atStop'[q] = atStop[q]
        BY <2>1
      <4>4. /\ added[q] + 0 + Len(ch[q]) + 0 <= got[q]
            /\ cancelled[q] => added[q] + 0 + Len(ch[q]) + 0 <= atStop[q] + ChanCap + 2
        BY FlowWithoutMoves DEF FlowInv
      <4> QED BY <4>1, <4>2, <4>3, <4>4 DEF Flow
    <3>2. CASE q # starts + 1
      BY <2>1, <2>2, <3>2, FlowOfOthers DEF FlowInv, TypeOK
    <3> QED BY <3>1, <3>2
  <2> QED BY <2>3, <2>4, TypesInParts DEF FlowInv, TypeOK, ManagerTypes, PipeTypes, LogTypes, SubTypes
<1> QED BY <1>1, <1>2

LEMMA FlowStop ==
  ASSUME TypeOK, FlowInv, LiveInv, Stop
  PROVE  TypeOK' /\ FlowInv'
<1>1. /\ running /\ running' = FALSE
      /\ cancelled' = [cancelled EXCEPT ![starts] = TRUE]
      /\ atStop' = [atStop EXCEPT ![starts] = added[starts]]
      /\ UNCHANGED <<starts, device, asked, driver, ch, drainer, subscribers, panicked>>
  BY DEF Stop
<1>2. starts \in Captures
  BY <1>1, BoundsAssumption DEF LiveInv, Captures
<1>3. TypeOK'
  <2>1. ManagerTypes' /\ PipeTypes' /\ LogTypes' /\ SubTypes'
    BY <1>1, <1>2, TypesInParts
       DEF ManagerTypes, PipeTypes, LogTypes, SubTypes, driver, drainer, subscribers
  <2> QED BY <2>1 DEF TypeOK, ManagerTypes, PipeTypes, LogTypes, SubTypes
<1>4. UNCHANGED <<drv, got, ch, drain, cur, added>>
  BY <1>1 DEF driver, drainer
<1>5. ASSUME NEW q \in Captures PROVE Flow(q)'
  <2>1. CASE q # starts
    BY <1>1, <1>2, <1>4, <2>1, FlowOfOthers DEF FlowInv, TypeOK
  <2>2. CASE q = starts
    <3>1. /\ atStop'[q] = added[q] /\ added'[q] = added[q] /\ ch'[q] = ch[q]
          /\ Held(q)' = Held(q) /\ Sending(q)' = Sending(q) /\ Moving(q)' = Moving(q)
      BY <1>1, <1>2, <1>4, <2>2 DEF TypeOK, Held, Sending, Moving
    <3>2. added[q] + Held(q) + Len(ch[q]) + Moving(q) <= added[q] + ChanCap + 2
      <4> DEFINE a == added[q]
                 l == Len(ch[q])
                 h == Held(q)
                 m == Moving(q)
      <4>1. a \in Nat /\ l \in Nat /\ l <= ChanCap /\ ChanCap \in Nat /\ h \in {0, 1} /\ m \in {0, 1}
        BY CaptureTypes
      <4> HIDE DEF a, l, h, m
      <4>2. a + h + l + m <= a + ChanCap + 2
        BY <4>1
      <4> QED BY <4>2 DEF a, l, h, m
    <3> QED BY <1>4, <3>1, <3>2 DEF FlowInv, Flow
  <2> QED BY <2>1, <2>2
<1> QED BY <1>3, <1>5 DEF FlowInv

(* What a step of a capture must keep: no more under way than was read, and *)
(* after its Stop no more than before the step.                             *)
LEMMA FlowChanged ==
  ASSUME TypeOK, NEW g \in Captures, Flow(g),
         cancelled'[g] = cancelled[g], atStop'[g] = atStop[g],
         drv'[g] = "send" => got'[g] # 0,
         drain'[g] \in {"add", "copy", "fan"} => cur'[g] # 0,
         added'[g] \in Nat, Len(ch'[g]) \in Nat, got'[g] \in Nat,
         added'[g] + Held(g)' + Len(ch'[g]) + Sending(g)' + got[g]
           <= added[g] + Held(g) + Len(ch[g]) + Sending(g) + got'[g],
         cancelled[g] =>
           added'[g] + Held(g)' + Len(ch'[g]) + Moving(g)'
             <= added[g] + Held(g) + Len(ch[g]) + Moving(g)
  PROVE  Flow(g)'
<1> DEFINE w == added[g] + Held(g) + Len(ch[g])
           v == added'[g] + Held(g)' + Len(ch'[g])
           s == Sending(g)
           s2 == Sending(g)'
           m == Moving(g)
           m2 == Moving(g)'
<1>1. Held(g) \in Nat /\ Held(g)' \in Nat
  BY DEF Held
<1>2. /\ s \in Nat /\ s2 \in Nat /\ m \in Nat /\ m2 \in Nat
  BY DEF Sending, Moving
<1>3. added[g] \in Nat /\ Len(ch[g]) \in Nat /\ got[g] \in Nat /\ atStop[g] \in Nat /\ ChanCap \in Nat
  BY CaptureTypes
<1>4. w \in Nat /\ v \in Nat
  <2>1. \A i, j, k \in Nat : i + j + k \in Nat
    OBVIOUS
  <2> QED BY <1>1, <1>3, <2>1
<1>5. /\ v + s2 + got[g] <= w + s + got'[g]
      /\ cancelled[g] => v + m2 <= w + m
  OBVIOUS
<1>6. w + s <= got[g] /\ (cancelled[g] => w + m <= atStop[g] + ChanCap + 2)
  BY DEF Flow
<1> HIDE DEF w, v, s, s2, m, m2
<1>7. v + s2 <= got'[g] /\ (cancelled[g] => v + m2 <= atStop[g] + ChanCap + 2)
  BY SMTT(30), <1>2, <1>3, <1>4, <1>5, <1>6
<1> QED BY <1>7 DEF Flow, v, s2, m2


(* A step of the driver or of the device moves one driver.                  *)
LEMMA FlowDriver ==
  ASSUME TypeOK, FlowInv, NEW g \in Captures, DriverStep(g) \/ DeviceStep(g)
  PROVE  TypeOK' /\ FlowInv'
<1> DEFINE Same(q) == /\ drv'[q] = drv[q] /\ got'[q] = got[q] /\ ch'[q] = ch[q]
<1>1. UNCHANGED <<manager, drainer, subscribers, panicked>>
  BY DEF DriverStep, DeviceStep, DriverOpen, DriverCheck, DriverSend, DriverDone, DriverRead,
         DriverFails, DriverLeaves
<1>2. /\ drv[g] \in DriverPC /\ got[g] \in Nat /\ got[g] <= MaxMessages
      /\ ch[g] \in Seq(1 .. MaxMessages) /\ Len(ch[g]) \in Nat /\ Len(ch[g]) <= ChanCap
      /\ added[g] \in Nat /\ Held(g) \in Nat /\ MaxMessages \in Nat
  BY CaptureTypes, BoundsAssumption DEF TypeOK, Held
<1>3. /\ Held(g)' = Held(g) /\ UNCHANGED <<added, drain, cur, cancelled, atStop>>
      /\ drain[g] \in {"add", "copy", "fan"} => cur[g] # 0
      /\ drv[g] = "send" => got[g] # 0
      /\ Flow(g)
  BY <1>1 DEF Held, manager, drainer, FlowInv, Flow
<1>4. /\ drv' \in [Captures -> DriverPC] /\ got' \in [Captures -> 0 .. MaxMessages]
      /\ ch' \in [Captures -> Seq(1 .. MaxMessages)] /\ \A q \in Captures : Len(ch'[q]) <= ChanCap
      /\ \A q \in Captures \ {g} : Same(q)
      /\ Flow(g)'
  <2>1. CASE DriverOpen(g) \/ DriverCheck(g) \/ DriverFails(g) \/ DriverDone(g)
    <3>1. PICK pc \in DriverPC : drv' = [drv EXCEPT ![g] = pc] /\ UNCHANGED <<got, ch>>
                                 /\ pc # "send" /\ (cancelled[g] => pc # "read")
      BY <2>1 DEF DriverOpen, DriverCheck, DriverFails, DriverDone, DriverGoto, DriverPC
    <3>2. drv'[g] = pc
      BY <3>1 DEF TypeOK
    <3>3. Sending(g)' = 0 /\ (cancelled[g] => Moving(g)' = 0)
      BY <3>1, <3>2 DEF Sending, Moving
    <3>4. Sending(g) \in Nat /\ Moving(g) \in Nat
      BY DEF Sending, Moving
    <3>5. Flow(g)'
      BY SMTT(30), <1>2, <1>3, <3>1, <3>2, <3>3, <3>4, FlowChanged
    <3> QED BY <3>1, <3>5 DEF TypeOK
  <2>2. CASE DriverRead(g)
    <3>1. /\ drv[g] = "read" /\ got[g] < MaxMessages /\ UNCHANGED ch
          /\ got' = [got EXCEPT ![g] = got[g] + 1] /\ drv' = [drv EXCEPT ![g] = "send"]
      BY <2>2 DEF DriverRead, DriverGoto
    <3>2. drv'[g] = "send" /\ got'[g] = got[g] + 1
      BY <3>1 DEF TypeOK
    <3>3. Sending(g) = 0 /\ Sending(g)' = 1 /\ Moving(g) = 1 /\ Moving(g)' = 1
      BY <3>1, <3>2 DEF Sending, Moving
    <3>4. Flow(g)'
      <4>1. \A a, h, l, k \in Nat : a + h + l + 1 + k <= a + h + l + 0 + (k + 1)
        OBVIOUS
      <4>2. /\ added'[g] + Held(g)' + Len(ch'[g]) + Sending(g)' + got[g]
                 <= added[g] + Held(g) + Len(ch[g]) + Sending(g) + got'[g]
            /\ added'[g] + Held(g)' + Len(ch'[g]) + Moving(g)'
                 <= added[g] + Held(g) + Len(ch[g]) + Moving(g)
        BY <1>2, <1>3, <3>1, <3>2, <3>3, <4>1
      <4>3. added'[g] \in Nat /\ Len(ch'[g]) \in Nat /\ got'[g] \in Nat /\ got'[g] # 0
        BY <1>2, <1>3, <3>1, <3>2
      <4> QED BY <1>3, <3>2, <4>2, <4>3, FlowChanged
    <3> QED BY SMTT(30), <1>2, <3>1, <3>4 DEF TypeOK, DriverPC
  <2>3. CASE DriverSend(g)
    <3>1. /\ drv[g] = "send" /\ Len(ch[g]) < ChanCap /\ UNCHANGED got
          /\ ch' = [ch EXCEPT ![g] = Append(ch[g], got[g])] /\ drv' = [drv EXCEPT ![g] = "check"]
      BY <2>3 DEF DriverSend, DriverGoto
    <3>2. drv'[g] = "check" /\ ch'[g] = Append(ch[g], got[g])
      BY <3>1 DEF TypeOK
    <3>3. Sending(g) = 1 /\ Sending(g)' = 0 /\ Moving(g) = 1 /\ Moving(g)' = 0
      BY <3>1, <3>2 DEF Sending, Moving
    <3>4. got[g] \in 1 .. MaxMessages
      BY <1>2, <1>3, <3>1
    <3>5. ch'[g] \in Seq(1 .. MaxMessages) /\ Len(ch'[g]) = Len(ch[g]) + 1
      BY <1>2, <3>2, <3>4, AppendProperties
    <3>6. Flow(g)'
      <4>1. \A a, h, l, k \in Nat : /\ a + h + (l + 1) + 0 + k <= a + h + l + 1 + k
                                    /\ a + h + (l + 1) + 0 <= a + h + l + 1
        OBVIOUS
      <4>2. /\ added'[g] + Held(g)' + Len(ch'[g]) + Sending(g)' + got[g]
                 <= added[g] + Held(g) + Len(ch[g]) + Sending(g) + got'[g]
            /\ added'[g] + Held(g)' + Len(ch'[g]) + Moving(g)'
                 <= added[g] + Held(g) + Len(ch[g]) + Moving(g)
        BY <1>2, <1>3, <3>1, <3>3, <3>5, <4>1
      <4>3. added'[g] \in Nat /\ Len(ch'[g]) \in Nat /\ got'[g] \in Nat
        BY <1>2, <1>3, <3>1, <3>5
      <4> QED BY <1>3, <3>2, <4>2, <4>3, FlowChanged
    <3>7. Len(ch'[g]) <= ChanCap
      BY <1>2, <3>1, <3>5, BoundsAssumption
    <3> QED BY <3>1, <3>5, <3>6, <3>7 DEF TypeOK, DriverPC
  <2> QED BY <2>1, <2>2, <2>3 DEF DriverStep, DeviceStep
<1>5. TypeOK'
  BY <1>1, <1>4 DEF TypeOK, manager, drainer, subscribers
<1>6. ASSUME NEW q \in Captures \ {g} PROVE Flow(q)'
  BY <1>3, <1>4, FlowOfOthers DEF FlowInv
<1> QED BY <1>4, <1>5, <1>6 DEF FlowInv


(* A step of the drainer takes an entry, stores it or fans it out.          *)
LEMMA FlowDrainer ==
  ASSUME TypeOK, FlowInv, NEW g \in Captures, DrainerStep(g)
  PROVE  TypeOK' /\ FlowInv'
<1>1. UNCHANGED <<manager, driver, subs, closed, seen>>
  BY DEF DrainerStep, DrainerTake, DrainerDone, DrainerAdd, FanOutCopy, FanOutSend, FanOutEnd,
         subscribers
<1>2. /\ drain[g] \in DrainerPC /\ got[g] \in Nat /\ added[g] \in Nat
      /\ ch[g] \in Seq(1 .. MaxMessages) /\ Len(ch[g]) \in Nat /\ Len(ch[g]) <= ChanCap
      /\ Held(g) \in Nat /\ Sending(g) \in Nat /\ Moving(g) \in Nat
  BY CaptureTypes DEF TypeOK, Held, Sending, Moving
<1>3. /\ UNCHANGED <<running, starts, device, asked, cancelled, atStop, drv, got>>
      /\ Sending(g)' = Sending(g) /\ Moving(g)' = Moving(g)
      /\ drv[g] = "send" => got[g] # 0
      /\ drain[g] \in {"add", "copy", "fan"} => cur[g] # 0
      /\ added[g] + Held(g) + Len(ch[g]) + Sending(g) <= got[g]
      /\ Flow(g)
  BY <1>1 DEF manager, driver, Sending, Moving, FlowInv, Flow
<1>4. CASE DrainerTake(g)
  <2>1. /\ drain[g] = "select" /\ ch[g] # <<>>
        /\ cur' = [cur EXCEPT ![g] = Head(ch[g])] /\ ch' = [ch EXCEPT ![g] = Tail(ch[g])]
        /\ drain' = [drain EXCEPT ![g] = "add"]
        /\ UNCHANGED <<snap, added, log, subscribers, panicked>>
    BY <1>4 DEF DrainerTake, DrainerGoto
  <2>2. /\ Head(ch[g]) \in 1 .. MaxMessages /\ Tail(ch[g]) \in Seq(1 .. MaxMessages)
        /\ Len(Tail(ch[g])) = Len(ch[g]) - 1
    BY <1>2, <2>1, HeadTailProperties
  <2>3. Len(ch[g]) # 0
    BY <1>2, <2>1, EmptySeq
  <2>4. /\ drain'[g] = "add" /\ cur'[g] = Head(ch[g]) /\ ch'[g] = Tail(ch[g])
        /\ \A q \in Captures \ {g} : drain'[q] = drain[q] /\ cur'[q] = cur[q] /\ ch'[q] = ch[q]
    BY <2>1 DEF TypeOK
  <2>5. Held(g) = 0 /\ Held(g)' = 1
    BY <2>1, <2>4 DEF Held
  <2>6. Flow(g)'
    <3>1. \A a, l, k, m \in Nat : l # 0 => /\ a + 1 + (l - 1) + m + k <= a + 0 + l + m + k
                                          /\ a + 1 + (l - 1) + m <= a + 0 + l + m
      OBVIOUS
    <3>2. /\ added'[g] + Held(g)' + Len(ch'[g]) + Sending(g)' + got[g]
               <= added[g] + Held(g) + Len(ch[g]) + Sending(g) + got'[g]
          /\ added'[g] + Held(g)' + Len(ch'[g]) + Moving(g)'
               <= added[g] + Held(g) + Len(ch[g]) + Moving(g)
      BY <1>2, <1>3, <2>1, <2>2, <2>3, <2>4, <2>5, <3>1
    <3>3. /\ added'[g] \in Nat /\ Len(ch'[g]) \in Nat /\ got'[g] \in Nat /\ cur'[g] # 0
      BY <1>2, <1>3, <2>1, <2>2, <2>3, <2>4
    <3> QED BY <1>3, <3>2, <3>3, FlowChanged
  <2>7. TypeOK'
    <3>1. \A q \in Captures : Len(ch'[q]) <= ChanCap
      <4>1. Len(ch'[g]) <= ChanCap
        BY <1>2, <2>2, <2>4, BoundsAssumption
      <4> QED BY <2>4, <4>1 DEF TypeOK
    <3>2. /\ ch' \in [Captures -> Seq(1 .. MaxMessages)] /\ cur' \in [Captures -> 0 .. MaxMessages]
          /\ drain' \in [Captures -> DrainerPC]
      BY <2>1, <2>2 DEF TypeOK, DrainerPC
    <3> QED BY <1>3, <2>1, <3>1, <3>2 DEF TypeOK, subscribers
  <2> QED BY <1>3, <2>1, <2>4, <2>6, <2>7, FlowOfOthers DEF FlowInv
<1>5. CASE DrainerAdd(g)
  <2>1. /\ drain[g] = "add" /\ added' = [added EXCEPT ![g] = added[g] + 1]
        /\ drain' = [drain EXCEPT ![g] = "copy"]
        /\ Buffer!Record([capture |-> g, n |-> cur[g]])
        /\ UNCHANGED <<ch, cur, snap, subscribers, panicked>>
    BY <1>5 DEF DrainerAdd, DrainerGoto
  <2>2. /\ drain'[g] = "copy" /\ added'[g] = added[g] + 1
        /\ \A q \in Captures \ {g} : drain'[q] = drain[q] /\ added'[q] = added[q]
    BY <2>1 DEF TypeOK
  <2>3. Held(g) = 1 /\ Held(g)' = 0
    BY <2>1, <2>2 DEF Held
  <2>4. Flow(g)'
    <3>1. \A a, l, k, m \in Nat : /\ a + 1 + 0 + l + m + k <= a + 1 + l + m + k
                                  /\ a + 1 + 0 + l + m <= a + 1 + l + m
      OBVIOUS
    <3>2. /\ added'[g] + Held(g)' + Len(ch'[g]) + Sending(g)' + got[g]
               <= added[g] + Held(g) + Len(ch[g]) + Sending(g) + got'[g]
          /\ added'[g] + Held(g)' + Len(ch'[g]) + Moving(g)'
               <= added[g] + Held(g) + Len(ch[g]) + Moving(g)
      BY <1>2, <1>3, <2>1, <2>2, <2>3, <3>1
    <3>3. /\ added'[g] \in Nat /\ Len(ch'[g]) \in Nat /\ got'[g] \in Nat /\ cur'[g] # 0
      BY <1>2, <1>3, <2>1, <2>2
    <3> QED BY <1>3, <3>2, <3>3, FlowChanged
  <2>5. TypeOK'
    <3>1. added' \in [Captures -> 0 .. MaxMessages] /\ drain' \in [Captures -> DrainerPC]
      <4>1. \A a, l, k, m, n \in Nat : a + 1 + l + m <= k /\ k <= n => a + 1 \in 0 .. n
        OBVIOUS
      <4>2. got[g] <= MaxMessages /\ MaxMessages \in Nat
        BY BoundsAssumption DEF TypeOK
      <4>3. added[g] + 1 \in 0 .. MaxMessages
        BY <1>2, <1>3, <2>3, <4>1, <4>2
      <4> QED BY <2>1, <4>3 DEF TypeOK, DrainerPC
    <3>2. log' \in Seq(Entries) /\ Len(log') <= BufferSize
      <4>1. cur[g] \in 1 .. MaxMessages
        BY <1>3, <2>1, BoundsAssumption DEF TypeOK
      <4> DEFINE e == [capture |-> g, n |-> cur[g]]
      <4>2. e \in Entries
        BY <4>1 DEF Entries
      <4>3. log' = Append(IF Len(log) < BufferSize THEN log ELSE Tail(log), e)
        BY <2>1 DEF Buffer!Record
      <4> HIDE DEF e
      <4>4. log \in Seq(Entries) /\ Len(log) \in Nat /\ Len(log) <= BufferSize
        BY LenProperties DEF TypeOK
      <4>5. CASE Len(log) < BufferSize
        <5>1. Append(log, e) \in Seq(Entries) /\ Len(Append(log, e)) = Len(log) + 1
          BY <4>2, <4>4, AppendProperties
        <5> QED BY <4>3, <4>4, <4>5, <5>1, BoundsAssumption
      <4>6. CASE ~(Len(log) < BufferSize)
        <5>1. Len(log) = BufferSize /\ log # <<>>
          BY <4>4, <4>6, BoundsAssumption, EmptySeq
        <5>2. Tail(log) \in Seq(Entries) /\ Len(Tail(log)) = Len(log) - 1
          BY <4>4, <5>1, HeadTailProperties
        <5>3. Append(Tail(log), e) \in Seq(Entries) /\ Len(Append(Tail(log), e)) = Len(Tail(log)) + 1
          BY <4>2, <5>2, AppendProperties
        <5> QED BY <4>3, <4>4, <4>6, <5>1, <5>2, <5>3, BoundsAssumption
      <4> QED BY <4>5, <4>6
    <3> QED BY <1>3, <2>1, <3>1, <3>2 DEF TypeOK, subscribers
  <2> QED BY <1>3, <2>1, <2>2, <2>4, <2>5, FlowOfOthers DEF FlowInv
<1>6. CASE DrainerDone(g) \/ FanOutCopy(g) \/ FanOutEnd(g) \/ FanOutSend(g)
  <2>1. /\ UNCHANGED <<ch, cur, added, log>>
        /\ drain[g] # "add"
        /\ \E pc \in DrainerPC : /\ drain' = [drain EXCEPT ![g] = pc] /\ pc # "add"
                                 /\ pc \in {"copy", "fan"} => drain[g] \in {"copy", "fan"}
    <3>1. CASE FanOutSend(g)
      <4>1. UNCHANGED <<ch, cur, added, log, drain>> /\ drain[g] = "fan"
        BY <3>1 DEF FanOutSend
      <4>2. drain' = [drain EXCEPT ![g] = "fan"]
        BY <4>1 DEF TypeOK
      <4> QED BY <4>1, <4>2 DEF DrainerPC
    <3> QED BY <1>6, <3>1 DEF DrainerDone, FanOutCopy, FanOutEnd, DrainerGoto, DrainerPC
  <2>2. /\ drain'[g] # "add" /\ drain' \in [Captures -> DrainerPC]
        /\ drain'[g] \in {"copy", "fan"} => drain[g] \in {"copy", "fan"}
        /\ \A q \in Captures \ {g} : drain'[q] = drain[q]
    BY <2>1 DEF TypeOK
  <2>3. Held(g) = 0 /\ Held(g)' = 0
    BY <2>1, <2>2 DEF Held
  <2>4. Flow(g)'
    <3>1. /\ added'[g] + Held(g)' + Len(ch'[g]) + Sending(g)' + got[g]
               <= added[g] + Held(g) + Len(ch[g]) + Sending(g) + got'[g]
          /\ added'[g] + Held(g)' + Len(ch'[g]) + Moving(g)'
               <= added[g] + Held(g) + Len(ch[g]) + Moving(g)
      BY <1>2, <1>3, <2>1, <2>3
    <3> QED BY <1>2, <1>3, <2>1, <2>2, <3>1, FlowChanged
  <2>5. snap' \in [Captures -> Seq(Subs)] /\ subCh' \in [Subs -> Seq(Entries)]
        /\ (\A s \in Subs : Len(subCh'[s]) <= SubCap) /\ panicked' \in BOOLEAN
    <3>1. CASE ~FanOutSend(g)
      BY <1>6, <3>1 DEF DrainerDone, FanOutCopy, FanOutEnd, TypeOK, subscribers
    <3>2. CASE FanOutSend(g)
      <4> DEFINE s == Head(snap[g])
                 e == [capture |-> g, n |-> cur[g]]
      <4>1. drain[g] = "fan" /\ snap[g] # <<>> /\ snap[g] \in Seq(Subs)
        BY <3>2 DEF FanOutSend, TypeOK
      <4>2. s \in Subs /\ Tail(snap[g]) \in Seq(Subs)
        BY <4>1, HeadTailProperties
      <4>3. e \in Entries
        BY <1>3, <4>1, BoundsAssumption DEF TypeOK, Entries
      <4>4. \/ panicked' = TRUE /\ UNCHANGED <<subCh, snap>>
            \/ /\ subCh' = [subCh EXCEPT ![s] = IF Len(subCh[s]) < SubCap
                                                  THEN Append(subCh[s], e) ELSE subCh[s]]
               /\ snap' = [snap EXCEPT ![g] = Tail(snap[g])] /\ UNCHANGED panicked
        BY <3>2 DEF FanOutSend
      <4> HIDE DEF s, e
      <4>5. /\ subCh[s] \in Seq(Entries) /\ Len(subCh[s]) \in Nat /\ Len(subCh[s]) <= SubCap
            /\ Append(subCh[s], e) \in Seq(Entries)
            /\ Len(Append(subCh[s], e)) = Len(subCh[s]) + 1
        BY <4>2, <4>3, AppendProperties, LenProperties DEF TypeOK
      <4>6. CASE panicked' = TRUE /\ UNCHANGED <<subCh, snap>>
        BY <4>6 DEF TypeOK
      <4>7. CASE /\ subCh' = [subCh EXCEPT ![s] = IF Len(subCh[s]) < SubCap
                                                  THEN Append(subCh[s], e) ELSE subCh[s]]
                 /\ snap' = [snap EXCEPT ![g] = Tail(snap[g])] /\ UNCHANGED panicked
        <5>1. subCh'[s] \in Seq(Entries) /\ Len(subCh'[s]) <= SubCap
          BY <4>2, <4>5, <4>7, BoundsAssumption DEF TypeOK
        <5>2. \A t \in Subs \ {s} : subCh'[t] = subCh[t]
          BY <4>7 DEF TypeOK
        <5>3. subCh' \in [Subs -> Seq(Entries)] /\ \A t \in Subs : Len(subCh'[t]) <= SubCap
          BY <4>7, <5>1, <5>2 DEF TypeOK
        <5> QED BY <4>2, <4>7, <5>3 DEF TypeOK
      <4> QED BY <4>4, <4>6, <4>7
    <3> QED BY <3>1, <3>2
  <2>6. TypeOK'
    BY <1>1, <1>3, <2>1, <2>2, <2>5 DEF TypeOK
  <2> QED BY <1>3, <2>1, <2>2, <2>4, <2>6, FlowOfOthers DEF FlowInv
<1> QED BY <1>4, <1>5, <1>6 DEF DrainerStep


(* Subscribers touch their own channels.                                    *)
LEMMA FlowSubscribers ==
  ASSUME TypeOK, FlowInv, NEW s \in Subs, Subscribe(s) \/ Unsubscribe(s) \/ Receive(s)
  PROVE  TypeOK' /\ FlowInv'
<1>1. UNCHANGED <<manager, driver, ch, drainer, panicked>>
  BY DEF Subscribe, Unsubscribe, Receive
<1>2. FlowInv'
  BY <1>1, FlowOfOthers DEF FlowInv, manager, driver, drainer
<1>3. SubTypes'
  <2>1. CASE Subscribe(s)
    <3>1. subs' = Append(subs, s) /\ UNCHANGED <<subCh, closed, seen>>
      BY <2>1 DEF Subscribe
    <3>2. subs' \in Seq(Subs)
      BY <3>1, AppendProperties DEF TypeOK
    <3> QED BY <3>1, <3>2 DEF SubTypes, TypeOK
  <2>2. CASE Unsubscribe(s)
    <3>1. PICK i \in DOMAIN subs : subs' = SubSeq(subs, 1, i - 1) \o SubSeq(subs, i + 1, Len(subs))
      BY <2>2 DEF Unsubscribe
    <3>2. /\ subs \in Seq(Subs) /\ Len(subs) \in Nat /\ DOMAIN subs = 1 .. Len(subs)
          /\ \A j \in 1 .. Len(subs) : subs[j] \in Subs
      BY LenProperties, ElementOfSeq DEF TypeOK
    <3>3. /\ i - 1 \in Int /\ i + 1 \in Int /\ Len(subs) \in Int
          /\ \A j \in 1 .. i - 1 : subs[j] \in Subs
          /\ \A j \in i + 1 .. Len(subs) : subs[j] \in Subs
      BY <3>2
    <3>4. SubSeq(subs, 1, i - 1) \in Seq(Subs) /\ SubSeq(subs, i + 1, Len(subs)) \in Seq(Subs)
      BY <3>3, SubSeqProperties
    <3>5. subs' \in Seq(Subs)
      BY <3>1, <3>4, ConcatProperties
    <3> QED BY <2>2, <3>5 DEF Unsubscribe, SubTypes, TypeOK
  <2>3. CASE Receive(s)
    <3> DEFINE e == Head(subCh[s])
    <3>1. /\ subCh[s] # <<>> /\ subCh[s] \in Seq(Entries) /\ UNCHANGED <<subs, closed>>
          /\ seen' = [seen EXCEPT ![s][e.capture] = e.n]
          /\ subCh' = [subCh EXCEPT ![s] = Tail(subCh[s])]
      BY <2>3 DEF Receive, TypeOK
    <3>2. e \in Entries /\ Tail(subCh[s]) \in Seq(Entries) /\ Len(Tail(subCh[s])) = Len(subCh[s]) - 1
      BY <3>1, HeadTailProperties
    <3>3. e.capture \in Captures /\ e.n \in 0 .. MaxMessages
      BY <3>2, BoundsAssumption DEF Entries
    <3> HIDE DEF e
    <3>4. seen' \in [Subs -> [Captures -> 0 .. MaxMessages]]
      BY <3>1, <3>3 DEF TypeOK
    <3>5. Len(Tail(subCh[s])) <= SubCap
      BY <3>1, <3>2, LenProperties, BoundsAssumption DEF TypeOK
    <3>6. subCh' \in [Subs -> Seq(Entries)] /\ \A t \in Subs : Len(subCh'[t]) <= SubCap
      BY <3>1, <3>2, <3>5 DEF TypeOK
    <3> QED BY <3>1, <3>4, <3>6 DEF SubTypes, TypeOK
  <2> QED BY <2>1, <2>2, <2>3
<1>4. TypeOK'
  BY <1>1, <1>3 DEF SubTypes, TypeOK, manager, driver, drainer
<1> QED BY <1>2, <1>4

LogInv == LiveInv /\ TypeOK /\ FlowInv

LEMMA LogInvInitial == Init => LogInv
  BY LiveInitial, TypesInitial DEF LogInv

LEMMA LogInvStep == LogInv /\ [Next]_vars => LogInv'
<1> SUFFICES ASSUME LogInv, [Next]_vars PROVE TypeOK' /\ FlowInv'
  BY LiveStep DEF LogInv
<1>1. LiveInv /\ TypeOK /\ FlowInv
  BY DEF LogInv
<1>2. CASE UNCHANGED vars
  <2>1. TypeOK'
    BY <1>1, <1>2 DEF vars, subscribers, TypeOK
  <2>2. FlowInv'
    BY <1>1, <1>2, FlowOfOthers DEF vars, FlowInv
  <2> QED BY <2>1, <2>2
<1> QED BY <1>1, <1>2, FlowStart, FlowStop, FlowDriver, FlowDrainer, FlowSubscribers DEF Next

(* The types of the log capture hold for any number of captures, devices,   *)
(* messages and subscribers; no channel and no buffer holds more than its   *)
(* capacity (log_manager.go:91-109).                                         *)
THEOREM TypeCorrect == Spec => []TypeOK
<1>1. LogInv => TypeOK
  BY DEF LogInv
<1> QED BY <1>1, LogInvInitial, LogInvStep, PTL DEF Spec

(* After a Stop, which waits for nobody, a capture still adds at most what  *)
(* the channel holds and two entries more (log_manager.go:119-165).         *)
THEOREM StopAlwaysBounded == Spec => []StopIsBounded
<1>1. LogInv => StopIsBounded
  BY FlowGivesBound DEF LogInv
<1> QED BY <1>1, LogInvInitial, LogInvStep, PTL DEF Spec
-----------------------------------------------------------------------------
(* The order of entries.                                                    *)

(* Where the n-th message of a capture is: stored, held by the drainer, in  *)
(* the channel or with the driver, in this order and without a gap.         *)
Pipe(g) ==
  /\ g > starts => drv[g] = "off" /\ drain[g] = "off"
  /\ drain[g] = "add" => cur[g] = added[g] + 1
  /\ drain[g] \in {"copy", "fan"} => cur[g] = added[g]
  /\ \A i \in 1 .. Len(ch[g]) : ch[g][i] = added[g] + Held(g) + i
  /\ drv[g] \in {"off", "open", "check", "read"} => got[g] = added[g] + Held(g) + Len(ch[g])
  /\ drv[g] = "send" => got[g] = added[g] + Held(g) + Len(ch[g]) + 1

PipeInv == \A g \in Captures : Pipe(g)

(* A fan-out serves nobody twice. *)
Distinct(q) == \A i, j \in DOMAIN q : q[i] = q[j] => i = j
DistinctInv == Distinct(subs) /\ \A g \in Captures : Distinct(snap[g])

(* The drainer of g may still send the entry it has just added to s: all    *)
(* that s was sent by g before is below it.                                 *)
Due(s, g) == drain[g] = "copy" \/ (drain[g] = "fan" /\ \E i \in DOMAIN snap[g] : snap[g][i] = s)
Top(s, g) == IF Due(s, g) THEN added[g] - 1 ELSE added[g]

Carried(s, g) ==
  /\ seen[s][g] <= Top(s, g)
  /\ \A i \in DOMAIN subCh[s] :
       subCh[s][i].capture = g => seen[s][g] < subCh[s][i].n /\ subCh[s][i].n <= Top(s, g)

SubInv == \A s \in Subs : Ascending(subCh[s]) /\ \A g \in Captures : Carried(s, g)

OrderInv == PipeInv /\ NoGap /\ DistinctInv /\ SubInv

(* Sequences with distinct elements, and ascending sequences of entries.    *)
LEMMA DistinctTail ==
  ASSUME NEW S, NEW q \in Seq(S), q # <<>>, Distinct(q)
  PROVE  /\ Distinct(Tail(q))
         /\ \A i \in DOMAIN Tail(q) : Tail(q)[i] # Head(q)
<1>1. /\ Len(q) \in Nat \ {0} /\ DOMAIN q = 1 .. Len(q)
      /\ Tail(q) \in Seq(S) /\ Len(Tail(q)) = Len(q) - 1
      /\ \A i \in 1 .. Len(Tail(q)) : Tail(q)[i] = q[i + 1]
  BY EmptySeq, LenProperties, HeadTailProperties
<1>2. DOMAIN Tail(q) = 1 .. Len(q) - 1
  BY <1>1, LenProperties
<1>3. Head(q) = q[1]
  OBVIOUS
<1> QED BY <1>1, <1>2, <1>3 DEF Distinct

LEMMA DistinctAppend ==
  ASSUME NEW S, NEW q \in Seq(S), NEW s \in S, Distinct(q), \A i \in DOMAIN q : q[i] # s
  PROVE  Distinct(Append(q, s))
<1>1. /\ Len(q) \in Nat /\ DOMAIN q = 1 .. Len(q)
      /\ Append(q, s) \in Seq(S) /\ Len(Append(q, s)) = Len(q) + 1
      /\ Append(q, s)[Len(q) + 1] = s
      /\ \A i \in 1 .. Len(q) : Append(q, s)[i] = q[i]
  BY LenProperties, AppendProperties
<1>2. DOMAIN Append(q, s) = 1 .. Len(q) + 1
  BY <1>1, LenProperties
<1> QED BY <1>1, <1>2 DEF Distinct

LEMMA DistinctWithout ==
  ASSUME NEW S, NEW q \in Seq(S), NEW i \in DOMAIN q, Distinct(q)
  PROVE  Distinct(SubSeq(q, 1, i - 1) \o SubSeq(q, i + 1, Len(q)))
<1> DEFINE a == SubSeq(q, 1, i - 1)
           b == SubSeq(q, i + 1, Len(q))
<1>1. Len(q) \in Nat /\ i \in 1 .. Len(q) /\ DOMAIN q = 1 .. Len(q)
      /\ \A j \in 1 .. Len(q) : q[j] \in S
  BY LenProperties, ElementOfSeq
<1>2. /\ 1 \in Int /\ i - 1 \in Int /\ i + 1 \in Int /\ Len(q) \in Int
      /\ \A j \in 1 .. i - 1 : q[j] \in S
      /\ \A j \in i + 1 .. Len(q) : q[j] \in S
  BY <1>1
<1>3. /\ a \in Seq(S) /\ Len(a) = i - 1 /\ \A j \in 1 .. i - 1 : a[j] = q[j]
  <2>1. /\ a \in Seq(S) /\ Len(a) = IF 1 <= i - 1 THEN i - 1 - 1 + 1 ELSE 0
        /\ \A j \in 1 .. i - 1 - 1 + 1 : a[j] = q[1 + j - 1]
    BY ONLY <1>2, SubSeqProperties
  <2> HIDE DEF a
  <2> QED BY <1>1, <2>1
<1>4. /\ b \in Seq(S) /\ Len(b) = Len(q) - i /\ \A j \in 1 .. Len(q) - i : b[j] = q[i + j]
  <2>1. /\ b \in Seq(S) /\ Len(b) = IF i + 1 <= Len(q) THEN Len(q) - (i + 1) + 1 ELSE 0
        /\ \A j \in 1 .. Len(q) - (i + 1) + 1 : b[j] = q[i + 1 + j - 1]
    BY ONLY <1>2, SubSeqProperties
  <2> HIDE DEF b
  <2>2. \A j \in 1 .. Len(q) - i : j \in 1 .. Len(q) - (i + 1) + 1 /\ i + 1 + j - 1 = i + j
    BY <1>1
  <2> QED BY <1>1, <2>1, <2>2
<1> HIDE DEF a, b
<1>5. /\ a \o b \in Seq(S) /\ Len(a \o b) = Len(q) - 1
      /\ \A j \in 1 .. Len(q) - 1 : (a \o b)[j] = IF j <= i - 1 THEN q[j] ELSE q[j + 1]
  <2>1. /\ a \o b \in Seq(S) /\ Len(a \o b) = Len(a) + Len(b)
        /\ \A j \in 1 .. Len(a) + Len(b) : (a \o b)[j] = IF j <= Len(a) THEN a[j] ELSE b[j - Len(a)]
    BY <1>3, <1>4, ConcatProperties
  <2>2. ASSUME NEW j \in 1 .. Len(q) - 1
        PROVE  (a \o b)[j] = IF j <= i - 1 THEN q[j] ELSE q[j + 1]
    <3>1. CASE j <= i - 1
      BY <1>1, <1>3, <1>4, <2>1, <3>1
    <3>2. CASE ~(j <= i - 1)
      <4>1. PICK k \in 1 .. Len(q) - i : k = j - (i - 1) /\ i + k = j + 1
        BY <1>1, <3>2
      <4>2. j \in 1 .. Len(a) + Len(b) /\ ~(j <= Len(a)) /\ j - Len(a) = k
        BY SMTT(30), <1>1, <1>3, <1>4, <3>2, <4>1
      <4>3. (a \o b)[j] = b[k]
        BY <2>1, <4>2
      <4> QED BY <1>4, <3>2, <4>1, <4>3
    <3> QED BY <3>1, <3>2
  <2>3. Len(a) + Len(b) = Len(q) - 1
    BY SMTT(30), <1>1, <1>3, <1>4
  <2> QED BY <2>1, <2>2, <2>3
<1>6. DOMAIN (a \o b) = 1 .. Len(q) - 1
  BY <1>5, LenProperties
<1>7. Distinct(a \o b)
  <2> DEFINE place(j) == IF j <= i - 1 THEN j ELSE j + 1
  <2>1. \A j \in 1 .. Len(q) - 1 : place(j) \in 1 .. Len(q) /\ (a \o b)[j] = q[place(j)]
    BY <1>1, <1>5
  <2>2. \A j, k \in 1 .. Len(q) - 1 : place(j) = place(k) => j = k
    BY <1>1
  <2> HIDE DEF place
  <2> QED BY <1>1, <1>6, <2>1, <2>2 DEF Distinct
<1> QED BY <1>7 DEF a, b

LEMMA AscendingTail ==
  ASSUME NEW q \in Seq(Entries), q # <<>>, Ascending(q)
  PROVE  /\ Ascending(Tail(q))
         /\ \A i \in DOMAIN Tail(q) :
              /\ i + 1 \in DOMAIN q /\ Tail(q)[i] = q[i + 1]
              /\ Tail(q)[i].capture = Head(q).capture => Head(q).n < Tail(q)[i].n
<1>1. /\ Len(q) \in Nat \ {0} /\ DOMAIN q = 1 .. Len(q)
      /\ Tail(q) \in Seq(Entries) /\ Len(Tail(q)) = Len(q) - 1
      /\ \A i \in 1 .. Len(Tail(q)) : Tail(q)[i] = q[i + 1]
  BY EmptySeq, LenProperties, HeadTailProperties
<1>2. DOMAIN Tail(q) = 1 .. Len(q) - 1
  BY <1>1, LenProperties
<1>3. Head(q) = q[1]
  OBVIOUS
<1> QED BY SMTT(30), <1>1, <1>2, <1>3 DEF Ascending

LEMMA AscendingAppend ==
  ASSUME NEW q \in Seq(Entries), NEW e \in Entries, Ascending(q),
         \A i \in DOMAIN q : q[i].capture = e.capture => q[i].n < e.n
  PROVE  Ascending(Append(q, e))
<1>1. /\ Len(q) \in Nat /\ DOMAIN q = 1 .. Len(q)
      /\ Append(q, e) \in Seq(Entries) /\ Len(Append(q, e)) = Len(q) + 1
      /\ Append(q, e)[Len(q) + 1] = e
      /\ \A i \in 1 .. Len(q) : Append(q, e)[i] = q[i]
  BY LenProperties, AppendProperties
<1>2. DOMAIN Append(q, e) = 1 .. Len(q) + 1
  BY <1>1, LenProperties
<1> QED BY <1>1, <1>2 DEF Ascending

(* The pipe: only the capture that moves changes its own.                   *)
LEMMA PipeOfOthers ==
  ASSUME NEW q \in Captures, Pipe(q), drv'[q] = drv[q], got'[q] = got[q], ch'[q] = ch[q],
         drain'[q] = drain[q], cur'[q] = cur[q], added'[q] = added[q],
         q > starts' => q > starts
  PROVE  Pipe(q)'
  BY DEF Pipe, Held

LEMMA PipeStart ==
  ASSUME TypeOK, PipeInv, NEW udid \in Devices, Start(udid)
  PROVE  PipeInv'
<1>1. CASE running
  BY <1>1, PipeOfOthers DEF Start, PipeInv
<1>2. CASE ~running
  <2>1. /\ starts < MaxStarts /\ starts' = starts + 1 /\ starts \in Nat
        /\ drv' = [drv EXCEPT ![starts + 1] = "open"]
        /\ drain' = [drain EXCEPT ![starts + 1] = "select"]
        /\ UNCHANGED <<got, ch, cur, added>>
    BY SMTT(30), <1>2, BoundsAssumption DEF Start, TypeOK
  <2>2. starts + 1 \in Captures /\ \A q \in Captures : q \in Nat
    BY <2>1, BoundsAssumption DEF Captures
  <2>3. ASSUME NEW q \in Captures PROVE Pipe(q)'
    <3>1. CASE q = starts + 1
      <4>1. drv'[q] = "open" /\ drain'[q] = "select" /\ drv[q] = "off" /\ drain[q] = "off"
        BY <2>1, <2>2, <3>1 DEF TypeOK, PipeInv, Pipe
      <4>2. Held(q)' = Held(q) /\ ~(q > starts')
        BY <2>1, <3>1, <4>1 DEF Held
      <4> QED BY <2>1, <4>1, <4>2 DEF PipeInv, Pipe
    <3>2. CASE q # starts + 1
      <4>1. q > starts' => q > starts
        BY <2>1, <2>2
      <4> QED BY <2>1, <3>2, <4>1, PipeOfOthers DEF PipeInv, TypeOK
    <3> QED BY <3>1, <3>2
  <2> QED BY <2>3 DEF PipeInv
<1> QED BY <1>1, <1>2

LEMMA PipeDriver ==
  ASSUME TypeOK, PipeInv, NEW g \in Captures, DriverStep(g) \/ DeviceStep(g)
  PROVE  PipeInv'
<1>1. UNCHANGED <<starts, drain, cur, added>> /\ Held(g)' = Held(g)
  BY DEF DriverStep, DeviceStep, DriverOpen, DriverCheck, DriverSend, DriverDone, DriverRead,
         DriverFails, DriverLeaves, manager, drainer, Held
<1>2. /\ ch[g] \in Seq(1 .. MaxMessages) /\ Len(ch[g]) \in Nat /\ added[g] \in Nat
      /\ Held(g) \in Nat /\ got[g] \in Nat
  BY CaptureTypes
<1>3. Pipe(g)
  BY DEF PipeInv
<1>4. /\ drv' \in [Captures -> DriverPC] /\ \A q \in Captures \ {g} :
           drv'[q] = drv[q] /\ got'[q] = got[q] /\ ch'[q] = ch[q]
      /\ Pipe(g)'
  <2>1. CASE DriverOpen(g) \/ DriverCheck(g) \/ DriverFails(g) \/ DriverDone(g)
    <3>1. PICK pc \in {"check", "read", "ended"} :
            /\ drv' = [drv EXCEPT ![g] = pc] /\ UNCHANGED <<got, ch>>
            /\ drv[g] # "off" /\ (pc # "ended" => drv[g] \in {"open", "check"})
      BY <2>1 DEF DriverOpen, DriverCheck, DriverFails, DriverDone, DriverGoto
    <3>2. drv'[g] = pc
      BY <3>1 DEF TypeOK
    <3> QED BY <1>1, <1>3, <3>1, <3>2 DEF TypeOK, DriverPC, Pipe
  <2>2. CASE DriverRead(g)
    <3>1. /\ drv[g] = "read" /\ UNCHANGED ch
          /\ got' = [got EXCEPT ![g] = got[g] + 1] /\ drv' = [drv EXCEPT ![g] = "send"]
      BY <2>2 DEF DriverRead, DriverGoto
    <3>2. drv'[g] = "send" /\ got'[g] = got[g] + 1
      BY <3>1 DEF TypeOK
    <3> QED BY <1>1, <1>2, <1>3, <3>1, <3>2 DEF TypeOK, DriverPC, Pipe
  <2>3. CASE DriverSend(g)
    <3>1. /\ drv[g] = "send" /\ UNCHANGED got
          /\ ch' = [ch EXCEPT ![g] = Append(ch[g], got[g])] /\ drv' = [drv EXCEPT ![g] = "check"]
      BY <2>3 DEF DriverSend, DriverGoto
    <3>2. drv'[g] = "check" /\ ch'[g] = Append(ch[g], got[g])
      BY <3>1 DEF TypeOK
    <3>3. /\ Len(ch'[g]) = Len(ch[g]) + 1 /\ ch'[g][Len(ch[g]) + 1] = got[g]
          /\ \A i \in 1 .. Len(ch[g]) : ch'[g][i] = ch[g][i]
      <4>1. ch[g] \in Seq(Nat)
        BY <1>2, SeqMonotonic, 1 .. MaxMessages \subseteq Nat, BoundsAssumption
      <4> QED BY <1>2, <3>2, <4>1, AppendProperties
    <3>4. got[g] = added[g] + Held(g) + Len(ch[g]) + 1
      BY <1>3, <3>1 DEF Pipe
    <3>5. got[g] = added[g] + Held(g) + (Len(ch[g]) + 1)
      BY SMTT(30), <1>2, <3>4
    <3>6. \A i \in 1 .. Len(ch'[g]) : ch'[g][i] = added[g] + Held(g) + i
      <4> SUFFICES ASSUME NEW i \in 1 .. Len(ch'[g]) PROVE ch'[g][i] = added[g] + Held(g) + i
        OBVIOUS
      <4>1. CASE i = Len(ch[g]) + 1
        BY <3>3, <3>5, <4>1
      <4>2. CASE i # Len(ch[g]) + 1
        <5>1. i \in 1 .. Len(ch[g])
          BY <1>2, <3>3, <4>2
        <5> QED BY <1>3, <3>3, <5>1 DEF Pipe
      <4> QED BY <4>1, <4>2
    <3>7. drv' \in [Captures -> DriverPC] /\ \A q \in Captures \ {g} :
            drv'[q] = drv[q] /\ got'[q] = got[q] /\ ch'[q] = ch[q]
      BY <3>1 DEF TypeOK, DriverPC
    <3> QED BY <1>1, <1>3, <3>1, <3>2, <3>3, <3>5, <3>6, <3>7 DEF Pipe
  <2> QED BY <2>1, <2>2, <2>3 DEF DriverStep, DeviceStep
<1> QED BY <1>1, <1>4, PipeOfOthers DEF PipeInv

LEMMA PipeDrainer ==
  ASSUME TypeOK, PipeInv, NEW g \in Captures, DrainerStep(g)
  PROVE  PipeInv'
<1>1. UNCHANGED <<starts, drv, got>>
  BY DEF DrainerStep, DrainerTake, DrainerDone, DrainerAdd, FanOutCopy, FanOutSend, FanOutEnd,
         manager, driver
<1>2. /\ ch[g] \in Seq(1 .. MaxMessages) /\ Len(ch[g]) \in Nat /\ added[g] \in Nat
      /\ Held(g) \in Nat /\ got[g] \in Nat
  BY CaptureTypes
<1>3. Pipe(g)
  BY DEF PipeInv
<1>4. CASE DrainerTake(g)
  <2>1. /\ drain[g] = "select" /\ ch[g] # <<>> /\ UNCHANGED added
        /\ cur' = [cur EXCEPT ![g] = Head(ch[g])] /\ ch' = [ch EXCEPT ![g] = Tail(ch[g])]
        /\ drain' = [drain EXCEPT ![g] = "add"]
    BY <1>4 DEF DrainerTake, DrainerGoto
  <2>2. /\ drain'[g] = "add" /\ cur'[g] = Head(ch[g]) /\ ch'[g] = Tail(ch[g])
        /\ \A q \in Captures \ {g} : drain'[q] = drain[q] /\ cur'[q] = cur[q] /\ ch'[q] = ch[q]
    BY <2>1 DEF TypeOK
  <2>3. /\ Len(ch'[g]) = Len(ch[g]) - 1 /\ Len(ch[g]) # 0 /\ Head(ch[g]) = ch[g][1]
        /\ \A i \in 1 .. Len(ch[g]) - 1 : ch'[g][i] = ch[g][i + 1]
    <3>1. Len(ch[g]) # 0
      BY <1>2, <2>1, EmptySeq
    <3>2. Head(ch[g]) = ch[g][1]
      OBVIOUS
    <3>3. /\ Len(Tail(ch[g])) = Len(ch[g]) - 1
          /\ \A i \in 1 .. Len(Tail(ch[g])) : Tail(ch[g])[i] = ch[g][i + 1]
      BY <1>2, <2>1, HeadTailProperties
    <3> QED BY <2>2, <3>1, <3>2, <3>3
  <2>4. Held(g) = 0 /\ Held(g)' = 1
    BY <2>1, <2>2 DEF Held
  <2>5. cur'[g] = added[g] + 1
    BY <1>2, <1>3, <2>2, <2>3, <2>4 DEF Pipe
  <2>6. \A i \in 1 .. Len(ch'[g]) : ch'[g][i] = added[g] + 1 + i
    <3>1. \A i \in 1 .. Len(ch[g]) - 1 : i + 1 \in 1 .. Len(ch[g]) /\ added[g] + 0 + (i + 1) = added[g] + 1 + i
      BY <1>2
    <3> QED BY <1>2, <1>3, <2>3, <2>4, <3>1 DEF Pipe
  <2>7. added[g] + 1 + Len(ch'[g]) = added[g] + 0 + Len(ch[g])
    <3>1. \A a, l \in Nat : l # 0 => a + 1 + (l - 1) = a + 0 + l
      OBVIOUS
    <3> QED BY ZenonT(60), <1>2, <2>3, <3>1
  <2>8. Pipe(g)'
    BY <1>1, <1>3, <2>1, <2>2, <2>4, <2>5, <2>6, <2>7 DEF Pipe
  <2> QED BY <1>1, <2>1, <2>2, <2>8, PipeOfOthers DEF PipeInv
<1>5. CASE DrainerAdd(g)
  <2>1. /\ drain[g] = "add" /\ added' = [added EXCEPT ![g] = added[g] + 1]
        /\ drain' = [drain EXCEPT ![g] = "copy"] /\ UNCHANGED <<ch, cur>>
    BY <1>5 DEF DrainerAdd, DrainerGoto
  <2>2. /\ drain'[g] = "copy" /\ added'[g] = added[g] + 1
        /\ \A q \in Captures \ {g} : drain'[q] = drain[q] /\ added'[q] = added[q]
    BY <2>1 DEF TypeOK
  <2>3. Held(g) = 1 /\ Held(g)' = 0
    BY <2>1, <2>2 DEF Held
  <2>4. \A k \in Nat : added'[g] + 0 + k = added[g] + 1 + k
    BY <1>2, <2>2
  <2>5. Pipe(g)'
    BY SMTT(30), <1>1, <1>2, <1>3, <2>1, <2>2, <2>3, <2>4 DEF Pipe
  <2> QED BY <1>1, <2>1, <2>2, <2>5, PipeOfOthers DEF PipeInv
<1>6. CASE DrainerDone(g) \/ FanOutCopy(g) \/ FanOutEnd(g) \/ FanOutSend(g)
  <2>1. /\ UNCHANGED <<ch, cur, added>>
        /\ drain[g] \notin {"add", "off"}
        /\ \E pc \in DrainerPC : /\ drain' = [drain EXCEPT ![g] = pc] /\ pc # "add"
                                 /\ pc \in {"copy", "fan"} => drain[g] \in {"copy", "fan"}
    <3>1. CASE FanOutSend(g)
      <4>1. UNCHANGED <<ch, cur, added, drain>> /\ drain[g] = "fan"
        BY <3>1 DEF FanOutSend
      <4>2. drain' = [drain EXCEPT ![g] = "fan"]
        BY <4>1 DEF TypeOK
      <4> QED BY <4>1, <4>2 DEF DrainerPC
    <3> QED BY <1>6, <3>1 DEF DrainerDone, FanOutCopy, FanOutEnd, DrainerGoto, DrainerPC
  <2>2. /\ drain'[g] # "add"
        /\ drain'[g] \in {"copy", "fan"} => drain[g] \in {"copy", "fan"}
        /\ \A q \in Captures \ {g} : drain'[q] = drain[q]
    BY <2>1 DEF TypeOK
  <2>3. Held(g) = 0 /\ Held(g)' = 0
    BY <2>1, <2>2 DEF Held
  <2>4. Pipe(g)'
    BY <1>1, <1>3, <2>1, <2>2, <2>3 DEF Pipe
  <2> QED BY <1>1, <2>1, <2>2, <2>4, PipeOfOthers DEF PipeInv
<1> QED BY <1>4, <1>5, <1>6 DEF DrainerStep

LEMMA PipeStep ==
  ASSUME TypeOK, PipeInv, [Next]_vars
  PROVE  PipeInv'
<1>1. ASSUME UNCHANGED <<starts, drv, got, ch, drain, cur, added>> PROVE PipeInv'
  BY <1>1, PipeOfOthers DEF PipeInv
<1>2. CASE Stop
  BY <1>1, <1>2 DEF Stop, driver, drainer
<1>3. ASSUME NEW s \in Subs, Subscribe(s) \/ Unsubscribe(s) \/ Receive(s) PROVE PipeInv'
  BY <1>1, <1>3 DEF Subscribe, Unsubscribe, Receive, manager, driver, drainer
<1>4. CASE UNCHANGED vars
  BY <1>1, <1>4 DEF vars
<1> QED BY <1>2, <1>3, <1>4, PipeStart, PipeDriver, PipeDrainer DEF Next

(* What the log keeps when it forgets its oldest entry still has no gap.    *)
LEMMA NoGapAdd ==
  ASSUME TypeOK, PipeInv, NoGap, NEW g \in Captures, DrainerAdd(g)
  PROVE  NoGap'
<1> DEFINE e == [capture |-> g, n |-> cur[g]]
           kept == IF Len(log) < BufferSize THEN log ELSE Tail(log)
<1>1. /\ drain[g] = "add" /\ added' = [added EXCEPT ![g] = added[g] + 1]
      /\ log' = Append(kept, e)
  BY DEF DrainerAdd, Buffer!Record
<1>2. /\ cur[g] = added[g] + 1 /\ cur[g] \in 1 .. MaxMessages /\ added[g] \in Nat
      /\ \A q \in Captures : added[q] \in Nat
  BY <1>1, BoundsAssumption DEF TypeOK, PipeInv, Pipe
<1>3. /\ e \in Entries /\ e.capture = g /\ e.n = added[g] + 1
      /\ \A x \in Entries : x.capture \in Captures /\ x.n \in Nat
      /\ \A x \in Entries : x = [capture |-> x.capture, n |-> x.n]
  BY <1>2 DEF Entries
<1>4. log \in Seq(Entries) /\ Len(log) \in Nat /\ DOMAIN log = 1 .. Len(log)
      /\ \A i \in DOMAIN log : log[i] \in Entries
  BY LenProperties, ElementOfSeq DEF TypeOK
<1> DEFINE Kept == {kept[i] : i \in DOMAIN kept}
<1>5. /\ kept \in Seq(Entries) /\ Ascending(kept) /\ Kept \subseteq Entries
      /\ \A x \in Kept :
           /\ x.n <= added[x.capture]
           /\ \A n \in x.n .. added[x.capture] : [capture |-> x.capture, n |-> n] \in Kept
  <2>1. CASE Len(log) < BufferSize
    BY ZenonT(60), <1>4, <2>1 DEF NoGap, Stored
  <2>2. CASE ~(Len(log) < BufferSize)
    <3>1. log # <<>> /\ kept = Tail(log) /\ Len(log) # 0
      BY <1>4, <2>2, EmptySeq, BoundsAssumption
    <3>2. /\ Ascending(Tail(log)) /\ Tail(log) \in Seq(Entries)
          /\ Len(Tail(log)) = Len(log) - 1
          /\ DOMAIN Tail(log) = 1 .. Len(Tail(log))
          /\ \A i \in DOMAIN Tail(log) :
               /\ i + 1 \in DOMAIN log /\ Tail(log)[i] = log[i + 1]
               /\ Tail(log)[i].capture = Head(log).capture => Head(log).n < Tail(log)[i].n
      BY <1>4, <3>1, AscendingTail, HeadTailProperties, LenProperties DEF NoGap
    <3>3. Head(log) = log[1]
      OBVIOUS
    <3> HIDE DEF kept
    <3>4. \A x \in Kept : x \in Stored /\ x \in Entries
                          /\ (x.capture = log[1].capture => log[1].n < x.n)
      BY <1>4, <3>1, <3>2, <3>3 DEF Stored
    <3>5. \A x \in Stored : x = log[1] \/ x \in Kept
      <4> SUFFICES ASSUME NEW i \in DOMAIN log, i # 1 PROVE log[i] \in Kept
        BY DEF Stored
      <4>1. i - 1 \in DOMAIN Tail(log) /\ (i - 1) + 1 = i
        BY <1>4, <3>2
      <4> QED BY <3>1, <3>2, <4>1
    <3>6. log[1] \in Entries
      BY <1>4, <3>1
    <3>7. ASSUME NEW x \in Kept
          PROVE  /\ x.n <= added[x.capture]
                 /\ \A n \in x.n .. added[x.capture] : [capture |-> x.capture, n |-> n] \in Kept
      <4>1. x \in Stored /\ x.n \in Nat /\ x.capture \in Captures /\ added[x.capture] \in Nat
        BY <1>2, <1>3, <3>4
      <4>2. ASSUME NEW n \in x.n .. added[x.capture]
            PROVE  [capture |-> x.capture, n |-> n] \in Kept
        <5>1. [capture |-> x.capture, n |-> n] \in Stored
          BY <4>1 DEF NoGap
        <5>2. ASSUME [capture |-> x.capture, n |-> n] = log[1] PROVE FALSE
          <6>1. log[1].capture = x.capture /\ log[1].n = n
            BY <5>2
          <6>2. n < x.n
            BY <3>4, <6>1
          <6> QED BY <4>1, <6>2
        <5> QED BY <3>5, <5>1, <5>2
      <4> QED BY <4>1, <4>2 DEF NoGap
    <3> QED BY <3>1, <3>2, <3>4, <3>7
  <2> QED BY <2>1, <2>2
<1> HIDE DEF e, kept
<1>6. ASSUME NEW i \in DOMAIN kept, kept[i].capture = e.capture PROVE kept[i].n < e.n
  <2>1. kept[i] \in Kept /\ kept[i] \in Entries
    BY <1>5
  <2>2. kept[i].n \in Nat /\ kept[i].n <= added[g]
    BY <1>3, <1>5, <1>6, <2>1
  <2>3. \A k, a \in Nat : k <= a => k < a + 1
    OBVIOUS
  <2> QED BY <1>2, <1>3, <2>2, <2>3
<1>7. Ascending(log')
  BY <1>1, <1>3, <1>5, <1>6, AscendingAppend
<1>8. Stored' = Kept \cup {e}
  <2>1. /\ Len(kept) \in Nat /\ DOMAIN kept = 1 .. Len(kept)
        /\ log' \in Seq(Entries) /\ Len(log') = Len(kept) + 1
        /\ log'[Len(kept) + 1] = e
        /\ \A i \in 1 .. Len(kept) : log'[i] = kept[i]
    BY <1>1, <1>3, <1>5, LenProperties, AppendProperties
  <2>2. DOMAIN log' = 1 .. Len(kept) + 1
    BY <2>1, LenProperties
  <2>3. ASSUME NEW i \in 1 .. Len(kept) + 1 PROVE log'[i] \in Kept \cup {e}
    <3>1. CASE i = Len(kept) + 1
      BY <2>1, <3>1
    <3>2. CASE i # Len(kept) + 1
      BY <2>1, <3>2
    <3> QED BY <3>1, <3>2
  <2>4. \A i \in 1 .. Len(kept) : i \in 1 .. Len(kept) + 1 /\ Len(kept) + 1 \in 1 .. Len(kept) + 1
    BY <2>1
  <2>5. Len(kept) + 1 \in 1 .. Len(kept) + 1
    BY <2>1
  <2>6. \A x \in Kept \cup {e} : \E i \in 1 .. Len(kept) + 1 : log'[i] = x
    BY <2>1, <2>4, <2>5
  <2> QED BY <2>2, <2>3, <2>6 DEF Stored
<1> HIDE DEF Kept
<1>9. added'[g] = added[g] + 1 /\ \A q \in Captures \ {g} : added'[q] = added[q]
  BY <1>1 DEF TypeOK
<1>10. ASSUME NEW x \in Stored'
       PROVE  /\ x.n <= added'[x.capture]
              /\ \A n \in x.n .. added'[x.capture] : [capture |-> x.capture, n |-> n] \in Stored'
  <2>1. CASE x = e
    <3>1. x.n = added[g] + 1 /\ x.capture = g /\ x = [capture |-> g, n |-> added[g] + 1]
      BY <1>3, <2>1
    <3>2. \A n \in x.n .. added'[x.capture] : n = x.n
      BY <1>2, <1>9, <3>1
    <3> QED BY <1>2, <1>9, <3>1, <3>2
  <2>2. CASE x \in Kept
    <3>1. x \in Entries /\ x.capture \in Captures /\ x.n \in Nat /\ x.n <= added[x.capture]
          /\ \A n \in x.n .. added[x.capture] : [capture |-> x.capture, n |-> n] \in Kept
      BY <1>3, <1>5, <2>2
    <3>2. CASE x.capture # g
      BY <1>8, <1>9, <3>1, <3>2
    <3>3. CASE x.capture = g
      <4>1. x.n <= added'[x.capture]
        BY <1>2, <1>9, <3>1, <3>3
      <4>2. ASSUME NEW n \in x.n .. added'[x.capture]
            PROVE  [capture |-> x.capture, n |-> n] \in Stored'
        <5>1. CASE n = added[g] + 1
          <6>1. [capture |-> x.capture, n |-> n] = e
            BY <1>3, <3>3, <5>1
          <6> QED BY <1>8, <6>1
        <5>2. CASE n # added[g] + 1
          <6>1. n \in x.n .. added[x.capture]
            BY <1>2, <1>9, <3>1, <3>3, <5>2
          <6> QED BY <1>8, <3>1, <6>1
        <5> QED BY <5>1, <5>2
      <4> QED BY <4>1, <4>2
    <3> QED BY <3>2, <3>3
  <2> QED BY <1>8, <2>1, <2>2
<1> QED BY <1>7, <1>10 DEF NoGap

LEMMA NoGapStep ==
  ASSUME TypeOK, PipeInv, NoGap, [Next]_vars
  PROVE  NoGap'
<1>1. ASSUME UNCHANGED <<log, added>> PROVE NoGap'
  BY <1>1 DEF NoGap, Stored, Ascending
<1>2. ASSUME NEW d \in Devices, Start(d) PROVE NoGap'
  BY <1>1, <1>2 DEF Start
<1>3. CASE Stop
  BY <1>1, <1>3 DEF Stop, drainer
<1>4. ASSUME NEW g \in Captures, DriverStep(g) \/ DeviceStep(g) PROVE NoGap'
  BY <1>1, <1>4 DEF DriverStep, DeviceStep, DriverOpen, DriverCheck, DriverSend, DriverDone,
                    DriverRead, DriverFails, DriverLeaves, drainer
<1>5. ASSUME NEW g \in Captures, DrainerStep(g) PROVE NoGap'
  <2>1. CASE DrainerAdd(g)
    BY <2>1, NoGapAdd
  <2>2. CASE ~DrainerAdd(g)
    BY <1>1, <1>5, <2>2 DEF DrainerStep, DrainerTake, DrainerDone, FanOutCopy, FanOutSend, FanOutEnd
  <2> QED BY <2>1, <2>2
<1>6. ASSUME NEW s \in Subs, Subscribe(s) \/ Unsubscribe(s) \/ Receive(s) PROVE NoGap'
  BY <1>1, <1>6 DEF Subscribe, Unsubscribe, Receive, drainer
<1>7. CASE UNCHANGED vars
  BY <1>1, <1>7 DEF vars
<1> QED BY <1>2, <1>3, <1>4, <1>5, <1>6, <1>7 DEF Next

(* Which subscribers a capture still has to serve.                          *)
LEMMA DistinctStep ==
  ASSUME TypeOK, DistinctInv, [Next]_vars
  PROVE  DistinctInv'
<1>1. ASSUME UNCHANGED <<subs, snap>> PROVE DistinctInv'
  BY <1>1 DEF DistinctInv, Distinct
<1>2. ASSUME NEW d \in Devices, Start(d) PROVE DistinctInv'
  BY <1>1, <1>2 DEF Start, subscribers
<1>3. CASE Stop
  BY <1>1, <1>3 DEF Stop, drainer, subscribers
<1>4. ASSUME NEW g \in Captures, DriverStep(g) \/ DeviceStep(g) PROVE DistinctInv'
  BY <1>1, <1>4 DEF DriverStep, DeviceStep, DriverOpen, DriverCheck, DriverSend, DriverDone,
                    DriverRead, DriverFails, DriverLeaves, drainer, subscribers
<1>5. ASSUME NEW g \in Captures, DrainerStep(g) PROVE DistinctInv'
  <2>1. CASE FanOutCopy(g)
    <3>1. snap' = [snap EXCEPT ![g] = subs] /\ UNCHANGED subs
      BY <2>1 DEF FanOutCopy, subscribers
    <3>2. \A q \in Captures : snap'[q] = IF q = g THEN subs ELSE snap[q]
      BY <3>1 DEF TypeOK
    <3> QED BY <3>1, <3>2 DEF DistinctInv, Distinct
  <2>2. CASE FanOutSend(g)
    <3>1. /\ snap[g] # <<>> /\ UNCHANGED subs
          /\ UNCHANGED snap \/ snap' = [snap EXCEPT ![g] = Tail(snap[g])]
      BY <2>2 DEF FanOutSend
    <3>2. CASE UNCHANGED snap
      BY <1>1, <3>1, <3>2
    <3>3. CASE snap' = [snap EXCEPT ![g] = Tail(snap[g])]
      <4>1. \A q \in Captures : snap'[q] = IF q = g THEN Tail(snap[g]) ELSE snap[q]
        BY <3>3 DEF TypeOK
      <4>2. Distinct(Tail(snap[g]))
        BY <3>1, DistinctTail DEF TypeOK, DistinctInv
      <4> QED BY <3>1, <4>1, <4>2 DEF DistinctInv, Distinct
    <3> QED BY <3>1, <3>2, <3>3
  <2>3. CASE ~FanOutCopy(g) /\ ~FanOutSend(g)
    BY <1>1, <1>5, <2>3 DEF DrainerStep, DrainerTake, DrainerDone, DrainerAdd, FanOutEnd, subscribers
  <2> QED BY <2>1, <2>2, <2>3
<1>6. ASSUME NEW s \in Subs, Subscribe(s) \/ Unsubscribe(s) \/ Receive(s) PROVE DistinctInv'
  <2>1. UNCHANGED snap
    BY <1>6 DEF Subscribe, Unsubscribe, Receive, drainer
  <2>2. subs \in Seq(Subs) /\ Distinct(subs)
    BY DEF TypeOK, DistinctInv
  <2>3. Distinct(subs')
    <3>1. CASE Subscribe(s)
      BY <2>2, <3>1, DistinctAppend DEF Subscribe, Listed
    <3>2. CASE Unsubscribe(s)
      <4>1. PICK i \in DOMAIN subs : subs' = SubSeq(subs, 1, i - 1) \o SubSeq(subs, i + 1, Len(subs))
        BY <3>2 DEF Unsubscribe
      <4> QED BY <2>2, <4>1, DistinctWithout
    <3>3. CASE Receive(s)
      BY <2>2, <3>3 DEF Receive
    <3> QED BY <1>6, <3>1, <3>2, <3>3
  <2> QED BY <2>1, <2>3 DEF DistinctInv, Distinct
<1>7. CASE UNCHANGED vars
  BY <1>1, <1>7 DEF vars, subscribers
<1> QED BY <1>2, <1>3, <1>4, <1>5, <1>6, <1>7 DEF Next

LEMMA SubTyped ==
  ASSUME TypeOK, NEW s \in Subs
  PROVE  /\ subCh[s] \in Seq(Entries) /\ Len(subCh[s]) \in Nat
         /\ DOMAIN subCh[s] = 1 .. Len(subCh[s])
         /\ \A i \in DOMAIN subCh[s] :
              subCh[s][i] \in Entries /\ subCh[s][i].capture \in Captures /\ subCh[s][i].n \in Nat
         /\ \A g \in Captures : seen[s][g] \in Nat /\ Top(s, g) \in Int /\ added[g] \in Nat
<1>1. subCh[s] \in Seq(Entries)
  BY DEF TypeOK
<1>2. /\ Len(subCh[s]) \in Nat /\ DOMAIN subCh[s] = 1 .. Len(subCh[s])
      /\ \A i \in DOMAIN subCh[s] : subCh[s][i] \in Entries
  BY <1>1, ElementOfSeq, LenProperties
<1>3. \A x \in Entries : x.capture \in Captures /\ x.n \in Nat
  BY BoundsAssumption DEF Entries
<1>4. \A g \in Captures : seen[s][g] \in Nat /\ added[g] \in Nat
  BY BoundsAssumption DEF TypeOK
<1> QED BY <1>1, <1>2, <1>3, <1>4 DEF Top

(* What a subscriber has keeps its order when nothing new is delivered and  *)
(* no delivery becomes due again.                                           *)
LEMMA CarriedKeep ==
  ASSUME TypeOK, NEW s \in Subs, NEW g \in Captures, Carried(s, g),
         subCh'[s] = subCh[s], seen'[s][g] = seen[s][g],
         Top(s, g)' \in Int, Top(s, g) <= Top(s, g)'
  PROVE  Carried(s, g)'
<1>1. /\ Top(s, g) \in Int /\ seen[s][g] \in Nat
      /\ \A i \in DOMAIN subCh[s] : subCh[s][i].n \in Nat
  BY SubTyped
<1>2. seen'[s][g] <= Top(s, g)'
  BY <1>1 DEF Carried
<1>3. ASSUME NEW i \in DOMAIN subCh[s], subCh[s][i].capture = g
      PROVE  seen[s][g] < subCh[s][i].n /\ subCh[s][i].n <= Top(s, g)'
  <2>1. seen[s][g] < subCh[s][i].n /\ subCh[s][i].n <= Top(s, g) /\ subCh[s][i].n \in Nat
    BY <1>1, <1>3 DEF Carried
  <2> QED BY <1>1, <2>1
<1> QED BY <1>2, <1>3 DEF Carried

LEMMA TopKeep ==
  ASSUME TypeOK, NEW s \in Subs, NEW g \in Captures, added'[g] = added[g],
         Due(s, g)' => Due(s, g)
  PROVE  Top(s, g)' \in Int /\ Top(s, g) <= Top(s, g)'
<1>1. added[g] \in Nat
  BY SubTyped
<1>2. Top(s, g)' = IF Due(s, g)' THEN added'[g] - 1 ELSE added'[g]
  BY DEF Top
<1> QED BY <1>1, <1>2 DEF Top

LEMMA SubKeep ==
  ASSUME TypeOK, SubInv, UNCHANGED <<subCh, seen, added>>,
         \A s \in Subs, g \in Captures : Due(s, g)' => Due(s, g)
  PROVE  SubInv'
<1>1. ASSUME NEW s \in Subs, NEW g \in Captures PROVE Carried(s, g)'
  BY CarriedKeep, TopKeep DEF SubInv
<1>2. \A s \in Subs : Ascending(subCh'[s])
  BY DEF SubInv
<1> QED BY <1>1, <1>2 DEF SubInv

LEMMA SubAdd ==
  ASSUME TypeOK, SubInv, NEW g \in Captures, DrainerAdd(g)
  PROVE  SubInv'
<1>1. /\ added' = [added EXCEPT ![g] = added[g] + 1] /\ drain[g] = "add"
      /\ drain' = [drain EXCEPT ![g] = "copy"] /\ UNCHANGED <<snap, subCh, seen>>
  BY DEF DrainerAdd, DrainerGoto, subscribers
<1>2. ASSUME NEW s \in Subs, NEW q \in Captures PROVE Carried(s, q)'
  <2>1. CASE q = g
    <3>1. added'[g] = added[g] + 1 /\ added[g] \in Nat /\ drain'[g] = "copy"
      BY <1>1, SubTyped DEF TypeOK
    <3>2. Due(s, g)' /\ ~Due(s, g)
      BY <1>1, <3>1 DEF Due
    <3>3. Top(s, g)' = added'[g] - 1 /\ Top(s, g) = added[g]
      BY <3>2 DEF Top
    <3>4. Top(s, g)' \in Int /\ Top(s, g) <= Top(s, g)'
      BY <3>1, <3>3
    <3> QED BY <1>1, <2>1, <3>4, CarriedKeep DEF SubInv
  <2>2. CASE q # g
    <3>1. added'[q] = added[q] /\ drain'[q] = drain[q]
      BY <1>1, <2>2 DEF TypeOK
    <3>2. Due(s, q)' <=> Due(s, q)
      BY <1>1, <3>1 DEF Due
    <3> QED BY <1>1, <3>1, <3>2, CarriedKeep, TopKeep DEF SubInv
  <2> QED BY <2>1, <2>2
<1>3. \A s \in Subs : Ascending(subCh'[s])
  BY <1>1 DEF SubInv
<1> QED BY <1>2, <1>3 DEF SubInv

LEMMA SubSend ==
  ASSUME TypeOK, FlowInv, PipeInv, DistinctInv, SubInv, NEW g \in Captures, FanOutSend(g)
  PROVE  SubInv'
<1> DEFINE e == [capture |-> g, n |-> cur[g]]
<1>1. /\ drain[g] = "fan" /\ snap[g] # <<>> /\ snap[g] \in Seq(Subs)
      /\ UNCHANGED <<seen, added, drain>>
  BY DEF FanOutSend, TypeOK
<1>2. PICK s \in Subs : s = Head(snap[g]) /\ snap[g][1] = s /\ 1 \in DOMAIN snap[g]
  BY <1>1, HeadTailProperties, EmptySeq, LenProperties
<1>3. /\ e \in Entries /\ e.capture = g /\ e.n = added[g] /\ added[g] \in Nat
  <2>1. cur[g] = added[g] /\ cur[g] \in 1 .. MaxMessages
    BY <1>1, BoundsAssumption DEF TypeOK, FlowInv, Flow, PipeInv, Pipe
  <2> QED BY <2>1, CaptureTypes DEF Entries
<1>4. CASE UNCHANGED <<subCh, snap>>
  <2>1. \A t \in Subs, q \in Captures : Due(t, q)' => Due(t, q)
    BY <1>1, <1>4 DEF Due
  <2> QED BY <1>1, <1>4, <2>1, SubKeep
<1>5. CASE /\ subCh' = [subCh EXCEPT ![s] = IF Len(subCh[s]) < SubCap
                                              THEN Append(subCh[s], e) ELSE subCh[s]]
           /\ snap' = [snap EXCEPT ![g] = Tail(snap[g])]
  <2> HIDE DEF e
  <2>1. \A i \in DOMAIN Tail(snap[g]) :
          /\ i + 1 \in DOMAIN snap[g] /\ Tail(snap[g])[i] = snap[g][i + 1]
          /\ Tail(snap[g])[i] # s
    <3>1. /\ Len(snap[g]) \in Nat /\ DOMAIN snap[g] = 1 .. Len(snap[g])
          /\ Tail(snap[g]) \in Seq(Subs) /\ Len(Tail(snap[g])) = Len(snap[g]) - 1
          /\ \A i \in 1 .. Len(Tail(snap[g])) : Tail(snap[g])[i] = snap[g][i + 1]
      BY <1>1, HeadTailProperties, LenProperties
    <3>2. DOMAIN Tail(snap[g]) = 1 .. Len(snap[g]) - 1
      BY <3>1, LenProperties
    <3>3. \A i \in DOMAIN Tail(snap[g]) : Tail(snap[g])[i] # s
      BY <1>1, <1>2, DistinctTail DEF DistinctInv
    <3> QED BY <3>1, <3>2, <3>3
  <2>2. /\ subCh'[s] \in {Append(subCh[s], e), subCh[s]}
        /\ \A t \in Subs \ {s} : subCh'[t] = subCh[t]
        /\ snap'[g] = Tail(snap[g]) /\ \A q \in Captures \ {g} : snap'[q] = snap[q]
    BY <1>2, <1>5 DEF TypeOK
  <2>3. \A t \in Subs, q \in Captures : Due(t, q)' => Due(t, q)
    <3> SUFFICES ASSUME NEW t \in Subs, NEW q \in Captures, Due(t, q)' PROVE Due(t, q)
      OBVIOUS
    <3>1. CASE q = g
      <4>1. drain'[g] = "fan"
        BY <1>1
      <4>2. PICK i \in DOMAIN Tail(snap[g]) : Tail(snap[g])[i] = t
        BY <2>2, <3>1, <4>1 DEF Due
      <4>3. snap[g][i + 1] = t /\ i + 1 \in DOMAIN snap[g]
        BY <2>1, <4>2
      <4> QED BY <1>1, <3>1, <4>3 DEF Due
    <3>2. CASE q # g
      BY <1>1, <2>2, <3>2 DEF Due
    <3> QED BY <3>1, <3>2
  <2>4. Due(s, g) /\ ~Due(s, g)'
    BY <1>1, <1>2, <2>1, <2>2 DEF Due
  <2>5. \A t \in Subs, q \in Captures : Top(t, q)' \in Int /\ Top(t, q) <= Top(t, q)'
    BY <1>1, <2>3, TopKeep
  <2>6. Top(s, g) = added[g] - 1 /\ Top(s, g)' = added[g]
    BY <1>1, <2>4 DEF Top
  <2>7. ASSUME NEW t \in Subs, subCh'[t] = subCh[t]
        PROVE  Ascending(subCh'[t]) /\ \A q \in Captures : Carried(t, q)'
    BY <1>1, <2>5, <2>7, CarriedKeep DEF SubInv
  <2>8. ASSUME subCh'[s] = Append(subCh[s], e)
        PROVE  Ascending(subCh'[s]) /\ \A q \in Captures : Carried(s, q)'
    <3>1. /\ subCh[s] \in Seq(Entries) /\ Len(subCh[s]) \in Nat
          /\ DOMAIN subCh[s] = 1 .. Len(subCh[s])
          /\ \A i \in DOMAIN subCh[s] : subCh[s][i].n \in Nat
          /\ \A q \in Captures : seen[s][q] \in Nat /\ Top(s, q) \in Int
      BY <1>2, SubTyped
    <3>2. \A q \in Captures : Carried(s, q)
      BY <1>2 DEF SubInv
    <3>3. \A i \in DOMAIN subCh[s] : subCh[s][i].capture = g => subCh[s][i].n < added[g]
      BY <1>3, <2>6, <3>1, <3>2 DEF Carried
    <3>4. Ascending(subCh'[s])
      BY <1>2, <1>3, <2>8, <3>1, <3>3, AscendingAppend DEF SubInv
    <3>5. /\ Len(Append(subCh[s], e)) = Len(subCh[s]) + 1
          /\ Append(subCh[s], e)[Len(subCh[s]) + 1] = e
          /\ \A i \in 1 .. Len(subCh[s]) : Append(subCh[s], e)[i] = subCh[s][i]
          /\ DOMAIN Append(subCh[s], e) = 1 .. Len(subCh[s]) + 1
      BY <1>3, <3>1, AppendProperties, LenProperties
    <3>6. ASSUME NEW q \in Captures PROVE Carried(s, q)'
      <4>1. seen'[s][q] = seen[s][q] /\ seen[s][q] <= Top(s, q)'
        BY <1>1, <1>2, <2>5, <3>1, <3>2 DEF Carried
      <4>2. ASSUME NEW i \in 1 .. Len(subCh[s]) + 1, subCh'[s][i].capture = q
            PROVE  seen[s][q] < subCh'[s][i].n /\ subCh'[s][i].n <= Top(s, q)'
        <5>1. CASE i = Len(subCh[s]) + 1
          <6>1. subCh'[s][i] = e /\ q = g
            BY <1>3, <2>8, <3>5, <4>2, <5>1
          <6>2. seen[s][g] <= added[g] - 1
            BY <2>6, <3>2 DEF Carried
          <6> QED BY <1>3, <2>6, <3>1, <6>1, <6>2
        <5>2. CASE i # Len(subCh[s]) + 1
          <6>1. i \in DOMAIN subCh[s] /\ subCh'[s][i] = subCh[s][i] /\ subCh[s][i].n \in Nat
            BY <2>8, <3>1, <3>5, <5>2
          <6>2. seen[s][q] < subCh[s][i].n /\ subCh[s][i].n <= Top(s, q)
            BY <3>2, <4>2, <6>1 DEF Carried
          <6> QED BY <1>2, <2>5, <3>1, <6>1, <6>2
        <5> QED BY <5>1, <5>2
      <4>3. DOMAIN subCh'[s] = 1 .. Len(subCh[s]) + 1
        BY <2>8, <3>5
      <4> QED BY <4>1, <4>2, <4>3 DEF Carried
    <3> QED BY <3>4, <3>6
  <2>9. ASSUME NEW t \in Subs
        PROVE  Ascending(subCh'[t]) /\ \A q \in Captures : Carried(t, q)'
    <3>1. CASE subCh'[t] = subCh[t]
      BY <2>7, <3>1
    <3>2. CASE subCh'[t] # subCh[t]
      <4>1. t = s /\ subCh'[s] = Append(subCh[s], e)
        BY <2>2, <3>2
      <4> QED BY <2>8, <4>1
    <3> QED BY <3>1, <3>2
  <2> QED BY <2>9 DEF SubInv
<1> QED BY <1>2, <1>4, <1>5 DEF FanOutSend

LEMMA SubReceive ==
  ASSUME TypeOK, SubInv, NEW s \in Subs, Receive(s)
  PROVE  SubInv'
<1> DEFINE e == Head(subCh[s])
           rest == Tail(subCh[s])
<1>1. /\ subCh[s] # <<>> /\ subCh[s] \in Seq(Entries)
      /\ seen' = [seen EXCEPT ![s][e.capture] = e.n]
      /\ subCh' = [subCh EXCEPT ![s] = rest] /\ UNCHANGED <<added, drain, snap>>
  BY DEF Receive, TypeOK, drainer
<1>2. e = subCh[s][1] /\ 1 \in DOMAIN subCh[s]
  BY <1>1, EmptySeq, LenProperties
<1>3. /\ Ascending(rest)
      /\ \A i \in DOMAIN rest :
           /\ i + 1 \in DOMAIN subCh[s] /\ rest[i] = subCh[s][i + 1]
           /\ rest[i].capture = e.capture => e.n < rest[i].n
  BY <1>1, AscendingTail DEF SubInv
<1> HIDE DEF e, rest
<1>4. e \in Entries /\ e.capture \in Captures
  BY <1>2, SubTyped
<1>5. /\ subCh'[s] = rest /\ \A t \in Subs \ {s} : subCh'[t] = subCh[t] /\ seen'[t] = seen[t]
      /\ \A q \in Captures : seen'[s][q] = IF q = e.capture THEN e.n ELSE seen[s][q]
  BY <1>1, <1>4 DEF TypeOK
<1>6. \A t \in Subs, q \in Captures : Top(t, q)' = Top(t, q)
  BY <1>1 DEF Top, Due
<1>7. ASSUME NEW t \in Subs, NEW q \in Captures PROVE Carried(t, q)'
  <2>1. CASE t # s
    <3>1. Top(t, q)' \in Int /\ Top(t, q) <= Top(t, q)'
      BY <1>6, SubTyped
    <3> QED BY <1>5, <2>1, <3>1, CarriedKeep DEF SubInv
  <2>2. CASE t = s
    <3>1. Carried(s, q)
      BY DEF SubInv
    <3>2. seen'[s][q] <= Top(s, q)
      BY <1>2, <1>5, <3>1 DEF Carried
    <3>3. ASSUME NEW i \in DOMAIN rest, rest[i].capture = q
          PROVE  seen'[s][q] < rest[i].n /\ rest[i].n <= Top(s, q)
      BY <1>3, <1>5, <3>1, <3>3 DEF Carried
    <3> QED BY <1>5, <1>6, <2>2, <3>2, <3>3 DEF Carried
  <2> QED BY <2>1, <2>2
<1>8. \A t \in Subs : Ascending(subCh'[t])
  BY <1>3, <1>5 DEF SubInv
<1> QED BY <1>7, <1>8 DEF SubInv

LEMMA SubStep ==
  ASSUME TypeOK, FlowInv, PipeInv, DistinctInv, SubInv, [Next]_vars
  PROVE  SubInv'
<1>1. ASSUME UNCHANGED <<subCh, seen, added, drain, snap>> PROVE SubInv'
  BY <1>1, SubKeep DEF Due
<1>2. ASSUME NEW d \in Devices, Start(d) PROVE SubInv'
  <2>1. CASE running
    BY <1>1, <1>2, <2>1 DEF Start, subscribers
  <2>2. CASE ~running
    <3>1. /\ starts < MaxStarts /\ starts \in Nat
          /\ drain' = [drain EXCEPT ![starts + 1] = "select"]
          /\ UNCHANGED <<subCh, seen, added, snap>>
      BY <1>2, <2>2, BoundsAssumption DEF Start, TypeOK, subscribers
    <3>2. \A q \in Captures : drain'[q] = drain[q] \/ drain'[q] = "select"
      BY <3>1 DEF TypeOK
    <3>3. \A t \in Subs, q \in Captures : Due(t, q)' => Due(t, q)
      BY <3>1, <3>2 DEF Due
    <3> QED BY <3>1, <3>3, SubKeep
  <2> QED BY <2>1, <2>2
<1>3. CASE Stop
  BY <1>1, <1>3 DEF Stop, drainer, subscribers
<1>4. ASSUME NEW g \in Captures, DriverStep(g) \/ DeviceStep(g) PROVE SubInv'
  BY <1>1, <1>4 DEF DriverStep, DeviceStep, DriverOpen, DriverCheck, DriverSend, DriverDone,
                    DriverRead, DriverFails, DriverLeaves, drainer, subscribers
<1>5. ASSUME NEW g \in Captures, DrainerStep(g) PROVE SubInv'
  <2>1. CASE DrainerTake(g) \/ DrainerDone(g) \/ FanOutCopy(g) \/ FanOutEnd(g)
    <3>1. /\ UNCHANGED <<subCh, seen, added>>
          /\ \E pc \in DrainerPC : /\ drain' = [drain EXCEPT ![g] = pc] /\ pc # "copy"
                                   /\ pc = "fan" => drain[g] = "copy"
          /\ \A q \in Captures \ {g} : snap'[q] = snap[q]
      BY <2>1 DEF DrainerTake, DrainerDone, FanOutCopy, FanOutEnd, DrainerGoto, DrainerPC,
                  subscribers, TypeOK
    <3>2. \A q \in Captures \ {g} : drain'[q] = drain[q] /\ snap'[q] = snap[q]
      BY <3>1 DEF TypeOK
    <3>3. drain'[g] # "copy" /\ (drain'[g] = "fan" => drain[g] = "copy")
      BY <3>1 DEF TypeOK
    <3>4. \A t \in Subs, q \in Captures : Due(t, q)' => Due(t, q)
      BY <3>2, <3>3 DEF Due
    <3> QED BY <3>1, <3>4, SubKeep
  <2>2. CASE DrainerAdd(g)
    BY <2>2, SubAdd
  <2>3. CASE FanOutSend(g)
    BY <2>3, SubSend
  <2> QED BY <1>5, <2>1, <2>2, <2>3 DEF DrainerStep
<1>6. ASSUME NEW s \in Subs, Subscribe(s) \/ Unsubscribe(s) \/ Receive(s) PROVE SubInv'
  <2>1. CASE Receive(s)
    BY <2>1, SubReceive
  <2>2. CASE ~Receive(s)
    BY <1>1, <1>6, <2>2 DEF Subscribe, Unsubscribe, drainer
  <2> QED BY <2>1, <2>2
<1>7. CASE UNCHANGED vars
  BY <1>1, <1>7 DEF vars, subscribers
<1> QED BY <1>2, <1>3, <1>4, <1>5, <1>6, <1>7 DEF Next

OrderAndTypes == LogInv /\ OrderInv

LEMMA OrderInitial == Init => OrderAndTypes
<1> SUFFICES ASSUME Init PROVE OrderInv
  BY LogInvInitial DEF OrderAndTypes
<1> USE BoundsAssumption
<1>1. PipeInv
  BY DEF Init, PipeInv, Pipe, Held
<1>2. NoGap
  BY DEF Init, Buffer!Init, NoGap, Ascending, Stored
<1>3. DistinctInv
  BY DEF Init, DistinctInv, Distinct
<1>4. SubInv
  BY DEF Init, SubInv, Ascending, Carried, Top, Due
<1> QED BY <1>1, <1>2, <1>3, <1>4 DEF OrderInv

LEMMA OrderStep == OrderAndTypes /\ [Next]_vars => OrderAndTypes'
<1> SUFFICES ASSUME OrderAndTypes, [Next]_vars PROVE OrderAndTypes'
  OBVIOUS
<1>1. /\ LogInv /\ TypeOK /\ FlowInv /\ PipeInv /\ NoGap /\ DistinctInv /\ SubInv
  BY DEF OrderAndTypes, OrderInv, LogInv
<1>2. LogInv'
  BY <1>1, LogInvStep
<1>3. PipeInv' /\ NoGap' /\ DistinctInv' /\ SubInv'
  BY <1>1, PipeStep, NoGapStep, DistinctStep, SubStep
<1> QED BY <1>2, <1>3 DEF OrderAndTypes, OrderInv

(* The buffer has no gap, no repetition and no reordering within a capture, *)
(* however many drainers add to it at once (log_manager.go:119-135).        *)
THEOREM NoGapAlways == Spec => []NoGap
<1>1. OrderAndTypes => NoGap
  BY DEF OrderAndTypes, OrderInv
<1> QED BY <1>1, OrderInitial, OrderStep, PTL DEF Spec

(* A subscriber receives the entries of a capture in order, each once, and  *)
(* only after they were added to the buffer (log_manager.go:226-245).       *)
THEOREM SubscriberOrderAlways == Spec => []SubscriberOrder
<1>1. OrderAndTypes => SubscriberOrder
  <2> SUFFICES ASSUME OrderAndTypes, NEW s \in Subs, NEW i \in DOMAIN subCh[s]
               PROVE  /\ seen[s][subCh[s][i].capture] < subCh[s][i].n
                      /\ subCh[s][i].n <= added[subCh[s][i].capture]
    BY DEF SubscriberOrder, OrderAndTypes, OrderInv, SubInv
  <2>1. TypeOK /\ SubInv
    BY DEF OrderAndTypes, OrderInv, LogInv
  <2> DEFINE g == subCh[s][i].capture
  <2>2. /\ g \in Captures /\ subCh[s][i].n \in Nat /\ added[g] \in Nat /\ Top(s, g) \in Int
    BY <2>1, SubTyped
  <2>3. /\ seen[s][g] < subCh[s][i].n /\ subCh[s][i].n <= Top(s, g)
    BY <2>1, <2>2 DEF SubInv, Carried
  <2> QED BY <2>2, <2>3 DEF Top
<1> QED BY <1>1, OrderInitial, OrderStep, PTL DEF Spec
=============================================================================
