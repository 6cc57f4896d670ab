------------------------------ MODULE LogManager ------------------------------
(* core.LogManager (src/internal/core/log_manager.go) and the syslog driver *)
(* it runs (src/internal/driver/goios/syslog.go).  Every Start that is not a*)
(* no-op begins a capture: a context, a channel, a driver goroutine that    *)
(* reads the device and a drainer goroutine that stores each entry in the   *)
(* log buffer and fans it out.  Stop cancels the context and waits for      *)
(* nobody, so the goroutines of earlier captures run beside later ones.     *)
EXTENDS Naturals, Sequences, FiniteSets

CONSTANTS Devices,     \* UDIDs
          Subs,        \* channels made by Subscribe; each is used once
          MaxStarts,   \* bound: captures begun
          MaxMessages, \* bound: messages the device sends in one capture
          ChanCap,     \* capacity of a capture's channel (256 in the code)
          SubCap,      \* capacity of a subscriber's channel (100 in the code)
          BufferSize,  \* log_buffer_size
          DefaultN,    \* entries a log request asks for by default (50)
          None         \* no device

ASSUME BoundsAssumption ==
  /\ MaxStarts \in Nat /\ MaxMessages \in Nat
  /\ ChanCap \in Nat \ {0} /\ SubCap \in Nat \ {0} /\ BufferSize \in Nat \ {0}
  /\ DefaultN \in Nat \ {0}

Captures == 1 .. MaxStarts

(* An entry is the n-th message of a capture. *)
Entries == [capture : Captures, n : 1 .. MaxMessages]

VARIABLES
  running,    \* lm.running
  starts,     \* captures begun; the last one's cancel is lm.cancel
  device,     \* the device each capture reads
  asked,      \* the device the last call of Start named (history)
  cancelled,  \* the context of each capture is done
  drv,        \* driver goroutine of each capture
  got,        \* messages the driver has read
  ch,         \* the channel between driver and drainer
  drain,      \* drainer goroutine of each capture
  cur,        \* number of the message the drainer holds
  snap,       \* fanOut's copy of the subscribers still to be served
  added,      \* entries of each capture stored so far (history)
  atStop,     \* that number when the capture was cancelled (history)
  log,        \* what the ring buffer holds, oldest first
  subs,       \* lm.subscribers
  subCh,      \* each subscriber's channel
  closed,     \* subscriber channels that were closed
  seen,       \* last entry of each capture a subscriber received (history)
  panicked    \* the process died of a panic

manager == <<running, starts, device, asked, cancelled, atStop>>
driver == <<drv, got>>
drainer == <<drain, cur, snap, added, log>>
subscribers == <<subs, subCh, closed, seen>>
vars == <<running, starts, device, asked, cancelled, drv, got, ch, drain, cur, snap, added,
          atStop, log, subs, subCh, closed, seen, panicked>>

(* The ring buffer, by what it is proved to implement. *)
Buffer == INSTANCE RecentLog WITH Size <- BufferSize, Entry <- Entries

Started == 1 .. starts
DriverPC == {"off", "open", "check", "read", "send", "ended"}
DrainerPC == {"off", "select", "add", "copy", "fan", "ended"}

TypeOK ==
  /\ running \in BOOLEAN
  /\ starts \in 0 .. MaxStarts
  /\ device \in [Captures -> Devices \cup {None}]
  /\ asked \in Devices \cup {None}
  /\ cancelled \in [Captures -> BOOLEAN]
  /\ drv \in [Captures -> DriverPC]
  /\ got \in [Captures -> 0 .. MaxMessages]
  /\ ch \in [Captures -> Seq(1 .. MaxMessages)]
  /\ \A g \in Captures : Len(ch[g]) <= ChanCap
  /\ drain \in [Captures -> DrainerPC]
  /\ cur \in [Captures -> 0 .. MaxMessages]
  /\ snap \in [Captures -> Seq(Subs)]
  /\ added \in [Captures -> 0 .. MaxMessages]
  /\ atStop \in [Captures -> 0 .. MaxMessages]
  /\ log \in Seq(Entries) /\ Len(log) <= BufferSize
  /\ subs \in Seq(Subs)
  /\ subCh \in [Subs -> Seq(Entries)]
  /\ \A s \in Subs : Len(subCh[s]) <= SubCap
  /\ closed \subseteq Subs
  /\ seen \in [Subs -> [Captures -> 0 .. MaxMessages]]
  /\ panicked \in BOOLEAN

Init ==
  /\ running = FALSE /\ starts = 0 /\ panicked = FALSE
  /\ device = [g \in Captures |-> None] /\ asked = None
  /\ cancelled = [g \in Captures |-> FALSE]
  /\ drv = [g \in Captures |-> "off"] /\ drain = [g \in Captures |-> "off"]
  /\ got = [g \in Captures |-> 0] /\ cur = [g \in Captures |-> 0]
  /\ added = [g \in Captures |-> 0] /\ atStop = [g \in Captures |-> 0]
  /\ ch = [g \in Captures |-> <<>>] /\ snap = [g \in Captures |-> <<>>]
  /\ Buffer!Init
  /\ subs = <<>> /\ closed = {}
  /\ subCh = [s \in Subs |-> <<>>]
  /\ seen = [s \in Subs |-> [g \in Captures |-> 0]]
-----------------------------------------------------------------------------
(* Start and Stop, under lm.mu.                                             *)

(* handleDeviceConnect calls it with the device it has just connected; while*)
(* a capture runs it is a no-op, whatever device it names.                  *)
Start(udid) ==
  /\ asked' = udid
  /\ running' = TRUE
  /\ IF running THEN UNCHANGED <<starts, device, drv, drain>>
     ELSE /\ starts < MaxStarts
          /\ starts' = starts + 1
          /\ device' = [device EXCEPT ![starts'] = udid]
          /\ drv' = [drv EXCEPT ![starts'] = "open"]
          /\ drain' = [drain EXCEPT ![starts'] = "select"]
  /\ UNCHANGED <<cancelled, atStop, got, ch, cur, snap, added, log, subscribers, panicked>>

\* Mutant: Stop only resets the flag.
StopKeepsContext ==
  /\ running /\ running' = FALSE
  /\ UNCHANGED <<starts, device, asked, cancelled, atStop, driver, ch, drainer, subscribers, panicked>>

(* Nothing happens unless running. *)
Stop ==
  /\ running /\ running' = FALSE
  /\ cancelled' = [cancelled EXCEPT ![starts] = TRUE]
  /\ atStop' = [atStop EXCEPT ![starts] = added[starts]]
  /\ UNCHANGED <<starts, device, asked, driver, ch, drainer, subscribers, panicked>>
-----------------------------------------------------------------------------
(* The driver goroutine of capture g: StartSyslog.                          *)
DriverGoto(g, pc) == drv' = [drv EXCEPT ![g] = pc]
DriverLeaves == UNCHANGED <<manager, drainer, subscribers, panicked>>

(* GetDevice and syslog.New; an error ends the driver and is dropped.       *)
DriverOpen(g) ==
  /\ drv[g] = "open"
  /\ DriverGoto(g, "check") \/ DriverGoto(g, "ended")
  /\ UNCHANGED <<got, ch>> /\ DriverLeaves

\* Mutant: the loop does not look at the context.
DriverNeverChecks(g) ==
  /\ drv[g] = "check"
  /\ DriverGoto(g, "read")
  /\ UNCHANGED <<got, ch>> /\ DriverLeaves

DriverCheck(g) ==
  /\ drv[g] = "check"
  /\ DriverGoto(g, IF cancelled[g] THEN "ended" ELSE "read")
  /\ UNCHANGED <<got, ch>> /\ DriverLeaves

(* The device sends its next message; nothing wakes ReadLogMessage before.  *)
DriverRead(g) ==
  /\ drv[g] = "read" /\ got[g] < MaxMessages
  /\ got' = [got EXCEPT ![g] = @ + 1]
  /\ DriverGoto(g, "send")
  /\ UNCHANGED ch /\ DriverLeaves

(* End of stream or a read error. *)
DriverFails(g) ==
  /\ drv[g] = "read"
  /\ DriverGoto(g, "ended")
  /\ UNCHANGED <<got, ch>> /\ DriverLeaves

\* Mutant: after a send the loop goes on with the same message.
DriverSendAgain(g) ==
  /\ drv[g] = "send" /\ Len(ch[g]) < ChanCap
  /\ ch' = [ch EXCEPT ![g] = Append(@, got[g])]
  /\ UNCHANGED <<drv, got>> /\ DriverLeaves

(* Both cases of the select may be ready: then either is taken.             *)
DriverSend(g) ==
  /\ drv[g] = "send" /\ Len(ch[g]) < ChanCap
  /\ ch' = [ch EXCEPT ![g] = Append(@, got[g])]
  /\ DriverGoto(g, "check")
  /\ UNCHANGED got /\ DriverLeaves

DriverDone(g) ==
  /\ drv[g] = "send" /\ cancelled[g]
  /\ DriverGoto(g, "ended")
  /\ UNCHANGED <<got, ch>> /\ DriverLeaves
-----------------------------------------------------------------------------
(* The drainer goroutine of capture g.  Nobody closes ch.                   *)
DrainerGoto(g, pc) == drain' = [drain EXCEPT ![g] = pc]

\* Mutant: the entry is fanned out first and never stored.
DrainerTakeSkipsAdd(g) ==
  /\ drain[g] = "select" /\ ch[g] # <<>>
  /\ cur' = [cur EXCEPT ![g] = Head(ch[g])]
  /\ ch' = [ch EXCEPT ![g] = Tail(@)]
  /\ DrainerGoto(g, "copy")
  /\ UNCHANGED <<manager, driver, snap, added, log, subscribers, panicked>>

DrainerTake(g) ==
  /\ drain[g] = "select" /\ ch[g] # <<>>
  /\ cur' = [cur EXCEPT ![g] = Head(ch[g])]
  /\ ch' = [ch EXCEPT ![g] = Tail(@)]
  /\ DrainerGoto(g, "add")
  /\ UNCHANGED <<manager, driver, snap, added, log, subscribers, panicked>>

\* Mutant: range over a channel that the driver closes when it ends.
DrainerRangesOverChannel(g) ==
  /\ drain[g] = "select" /\ ch[g] = <<>> /\ drv[g] = "ended"
  /\ DrainerGoto(g, "ended")
  /\ UNCHANGED <<manager, driver, ch, cur, snap, added, log, subscribers, panicked>>

DrainerDone(g) ==
  /\ drain[g] = "select" /\ cancelled[g]
  /\ DrainerGoto(g, "ended")
  /\ UNCHANGED <<manager, driver, ch, cur, snap, added, log, subscribers, panicked>>

(* lm.buffer.Add(entry) *)
DrainerAdd(g) ==
  /\ drain[g] = "add"
  /\ Buffer!Record([capture |-> g, n |-> cur[g]])
  /\ added' = [added EXCEPT ![g] = @ + 1]
  /\ DrainerGoto(g, "copy")
  /\ UNCHANGED <<manager, driver, ch, cur, snap, subscribers, panicked>>

(* fanOut copies the subscribers under lm.mu and sends without it.          *)
FanOutCopy(g) ==
  /\ drain[g] = "copy"
  /\ snap' = [snap EXCEPT ![g] = subs]
  /\ DrainerGoto(g, "fan")
  /\ UNCHANGED <<manager, driver, ch, cur, added, log, subscribers, panicked>>

\* Mutant: without the default case fanOut waits for a slow subscriber.
FanOutBlocks(g) ==
  /\ drain[g] = "fan" /\ snap[g] # <<>>
  /\ LET s == Head(snap[g]) IN
     /\ s \notin closed /\ Len(subCh[s]) < SubCap
     /\ subCh' = [subCh EXCEPT ![s] = Append(@, [capture |-> g, n |-> cur[g]])]
     /\ snap' = [snap EXCEPT ![g] = Tail(@)]
     /\ UNCHANGED panicked
  /\ UNCHANGED <<manager, driver, ch, drain, cur, added, log, subs, closed, seen>>

(* One send of the loop: on a closed channel it panics, on a full one the   *)
(* entry is dropped for this subscriber.                                    *)
FanOutSend(g) ==
  /\ drain[g] = "fan" /\ snap[g] # <<>>
  /\ LET s == Head(snap[g]) IN
     IF s \in closed
       THEN panicked' = TRUE /\ UNCHANGED <<subCh, snap>>
       ELSE /\ subCh' = [subCh EXCEPT ![s] =
                           IF Len(@) < SubCap
                             THEN Append(@, [capture |-> g, n |-> cur[g]]) ELSE @]
            /\ snap' = [snap EXCEPT ![g] = Tail(@)]
            /\ UNCHANGED panicked
  /\ UNCHANGED <<manager, driver, ch, drain, cur, added, log, subs, closed, seen>>

FanOutEnd(g) ==
  /\ drain[g] = "fan" /\ snap[g] = <<>>
  /\ DrainerGoto(g, "select")
  /\ UNCHANGED <<manager, driver, ch, cur, snap, added, log, subscribers, panicked>>
-----------------------------------------------------------------------------
(* Subscribers.                                                             *)
Listed(s) == \E i \in DOMAIN subs : subs[i] = s

Subscribe(s) ==
  /\ ~Listed(s) /\ s \notin closed
  /\ subs' = Append(subs, s)
  /\ UNCHANGED <<manager, driver, ch, drainer, subCh, closed, seen, panicked>>

(* unsub removes the channel from the list and closes it. *)
Unsubscribe(s) ==
  /\ \E i \in DOMAIN subs :
       /\ subs[i] = s
       /\ subs' = SubSeq(subs, 1, i - 1) \o SubSeq(subs, i + 1, Len(subs))
  /\ closed' = closed \cup {s}
  /\ UNCHANGED <<manager, driver, ch, drainer, subCh, seen, panicked>>

Receive(s) ==
  /\ subCh[s] # <<>>
  /\ LET e == Head(subCh[s]) IN seen' = [seen EXCEPT ![s][e.capture] = e.n]
  /\ subCh' = [subCh EXCEPT ![s] = Tail(@)]
  /\ UNCHANGED <<manager, driver, ch, drainer, subs, closed, panicked>>
-----------------------------------------------------------------------------
DriverStep(g) == DriverOpen(g) \/ DriverCheck(g) \/ DriverSend(g) \/ DriverDone(g)
DrainerStep(g) ==
  \/ DrainerTake(g) \/ DrainerDone(g) \/ DrainerAdd(g)
  \/ FanOutCopy(g) \/ FanOutSend(g) \/ FanOutEnd(g)
DeviceStep(g) == DriverRead(g) \/ DriverFails(g)

Next ==
  /\ ~panicked
  /\ \/ \E d \in Devices : Start(d)
     \/ Stop
     \/ \E g \in Captures : DriverStep(g) \/ DeviceStep(g) \/ DrainerStep(g)
     \/ \E s \in Subs : Subscribe(s) \/ Unsubscribe(s) \/ Receive(s)

Spec == Init /\ [][Next]_vars

(* Goroutines that can move are scheduled.  The device may stay silent for  *)
(* ever, subscribers may stop receiving, and nobody has to start or stop.   *)
Fairness ==
  \A g \in Captures : WF_vars(~panicked /\ DriverStep(g)) /\ WF_vars(~panicked /\ DrainerStep(g))

FairSpec == Spec /\ Fairness
-----------------------------------------------------------------------------
(* GetLogs takes the last n entries first and filters them afterwards; keep *)
(* stands for the conjunction of the three filters.                         *)
LastOf(s, n) == SubSeq(s, IF n > 0 /\ n < Len(s) THEN Len(s) - n + 1 ELSE 1, Len(s))
GetLogs(n, keep) == SelectSeq(LastOf(log, n), LAMBDA e : e \in keep)
-----------------------------------------------------------------------------
(* Safety.                                                                  *)

(* However Start and Stop are called, at most one capture has a live        *)
(* context: the last one begun, and only while running is set; so a Stop    *)
(* that finds running always cancels the one capture there is to cancel.    *)
OneLiveCapture ==
  {g \in Started : ~cancelled[g]} = IF running THEN {starts} ELSE {}

(* The entries of one capture are in order and none is there twice.         *)
Ascending(s) ==
  \A i, j \in DOMAIN s : i < j /\ s[i].capture = s[j].capture => s[i].n < s[j].n

Stored == {log[i] : i \in DOMAIN log}

(* In the buffer an entry is followed by all later ones of its capture, up  *)
(* to the last one added: no gap, no repetition and no reordering, although *)
(* the drainers of several captures add to it at once.                      *)
NoGap ==
  /\ Ascending(log)
  /\ \A e \in Stored :
       /\ e.n <= added[e.capture]
       /\ \A n \in e.n .. added[e.capture] : [capture |-> e.capture, n |-> n] \in Stored

(* A subscriber gets entries of a capture in order, each once, and only     *)
(* after a reader of the buffer could have seen them.                       *)
SubscriberOrder ==
  \A s \in Subs :
    /\ Ascending(subCh[s])
    /\ \A i \in DOMAIN subCh[s] :
         LET e == subCh[s][i] IN seen[s][e.capture] < e.n /\ e.n <= added[e.capture]

(* After Stop at most the contents of the channel, the entry the drainer    *)
(* holds and the one the driver is about to send still reach the buffer.    *)
StopIsBounded ==
  \A g \in Captures : cancelled[g] => added[g] - atStop[g] <= ChanCap + 2
-----------------------------------------------------------------------------
(* Liveness.                                                                *)

(* A message handed to the channel reaches the buffer, unless the capture is *)
(* stopped: a subscriber that never receives does not stall the collection  *)
(* ("non-blocking", log_manager.go:226).                                    *)
Handed(g) == added[g] + Len(ch[g]) + (IF drain[g] = "add" THEN 1 ELSE 0)
EntriesReachBuffer ==
  \A g \in Captures, n \in 1 .. MaxMessages :
    Handed(g) >= n ~> (added[g] >= n \/ cancelled[g] \/ panicked)

(* The drainer of a cancelled capture ends, although its select may prefer  *)
(* the channel to ctx.Done() as long as entries are there.                  *)
DrainerEnds ==
  \A g \in Captures : cancelled[g] ~> (drain[g] = "ended" \/ panicked)
-----------------------------------------------------------------------------
(* Claims of comments and documents that the code does not keep.            *)

(* "fanOut delivers entry to all current subscribers" (log_manager.go:226): *)
(* never to one that has unsubscribed.                                      *)
SendsToCurrentOnly == ~panicked

(* "IsRunning reports whether log collection is active" (log_manager.go:164).*)
IsRunningTruthful == running => drv[starts] # "ended"

(* "Auto-start log capture on connect" (state.go:89): after the Start of a  *)
(* connect handler the device captured is the one connected.                *)
CaptureFollowsConnect == running => device[starts] = asked

(* "It blocks until ctx is cancelled or an unrecoverable error occurs"      *)
(* (syslog.go:25): the driver of a cancelled capture ends.                  *)
DriverEnds ==
  \A g \in Captures : cancelled[g] ~> (drv[g] = "ended" \/ panicked)

(* "Text search in buffer" (design.md:249): a search with the default limit *)
(* finds an entry of the buffer when there is one.                          *)
SearchCoversBuffer ==
  \A e \in Entries : e \in Stored => GetLogs(DefaultN, {e}) # <<>>
=============================================================================
