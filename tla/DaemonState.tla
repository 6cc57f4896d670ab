------------------------------ MODULE DaemonState ------------------------------
(* The request handlers of the daemon (src/internal/daemon/state.go), which *)
(* tie the device session, the log capture and the observation commands     *)
(* together.  Around the methods of DeviceManager, modelled by the module   *)
(* of that name, device.connect starts the log capture and device.disconnect*)
(* stops it, each after or before the method and under no common lock.  The *)
(* observers are the requests that only look at the device: look            *)
(* (core/screen_capture.go) and check.* (core/check.go).                    *)
EXTENDS DeviceManager

CONSTANTS Observers,     \* requests look and check.*; each is handled once
          ObserverKinds  \* what they may ask for

AllObserverKinds == {"look", "screen", "element", "app"}

ASSUME ObserversAssumption ==
  ObserverKinds \subseteq AllObserverKinds /\ Observers \cap Requests = {}

VARIABLES
  running,   \* lm.running: the log manager counts a capture as running
  capture,   \* the device whose log the driver is reading, or None
  hpc,       \* the handler of each request, around its DeviceManager method
  status,    \* the device it found connected, while it starts the capture
  used,      \* devices connected since the last device.disconnect (history)
  overlap,   \* two requests that change the session have overlapped (history)
  disturbed, \* readers of the session during which it was changed (history)
  opc,       \* where each observer is
  okind,     \* what it asks for
  haveURL,   \* the WDA URL it has read is not empty
  shot,      \* the device on its screenshot: None when it asked for no device
  tree       \* the device its elements or its foreground app are from, or None

log == <<running, capture>>
history == <<used, overlap, disturbed>>
handlers == <<running, capture, hpc, status, used, overlap, disturbed>>
observers == <<opc, okind, haveURL, shot, tree>>
stateVars == <<vars, handlers, observers>>

HandlerPC == {"entry", "stopped", "status", "startLog", "end"}
ObserverPC == {"new", "shoot", "wdaMode", "wdaURL", "wdaShot", "mode", "url", "tree",
               "app", "reply", "done"}

StateTypeOK ==
  /\ TypeOK
  /\ running \in BOOLEAN
  /\ capture \in Devices \cup {None}
  /\ hpc \in [Requests -> HandlerPC]
  /\ status \in [Requests -> Devices \cup {None}]
  /\ used \subseteq Devices
  /\ overlap \in BOOLEAN
  /\ disturbed \subseteq Requests \cup Observers
  /\ opc \in [Observers -> ObserverPC]
  /\ okind \in [Observers -> ObserverKinds \cup {"none"}]
  /\ haveURL \in [Observers -> BOOLEAN]
  /\ shot \in [Observers -> Devices \cup {None}]
  /\ tree \in [Observers -> Devices \cup {None}]

StateInit ==
  /\ Init
  /\ running = FALSE /\ capture = None
  /\ used = {} /\ overlap = FALSE /\ disturbed = {}
  /\ hpc = [r \in Requests |-> "entry"]
  /\ status = [r \in Requests |-> None]
  /\ opc = [o \in Observers |-> "new"]
  /\ okind = [o \in Observers |-> "none"]
  /\ haveURL = [o \in Observers |-> FALSE]
  /\ shot = [o \in Observers |-> None]
  /\ tree = [o \in Observers |-> None]

(* Requests and observers whose handler has begun and not returned.         *)
Busy == InProgress \cup {r \in Requests : hpc[r] \in {"status", "startLog"}}
                   \cup {o \in Observers : opc[o] \notin {"new", "done"}}
AtRest == Busy = {}

HGoto(r, l) == hpc' = [hpc EXCEPT ![r] = l]
OGoto(o, l) == opc' = [opc EXCEPT ![o] = l]
-----------------------------------------------------------------------------
(* device.connect, device.disconnect, wda.restart, act and app.*.           *)

SessionKinds == {"connect", "disconnect", "restart"}
Readers == Observers \cup {r \in Requests : kind[r] \notin SessionKinds}

(* A request that is in the middle of changing the session or the capture.  *)
Changing(r) == r \in Busy /\ kind[r] \in SessionKinds

(* The steps that change the session.                                       *)
ChangesSession(r) == pc[r] \in {"commit", "disconnect", "rsDisconnect"}

BeginRequest(r, k) ==
  /\ Cardinality(Busy) < Parallel
  /\ Begin(r, k)
  /\ overlap' = (overlap \/ (k \in SessionKinds /\ \E q \in Requests : Changing(q)))
  /\ UNCHANGED <<log, hpc, status, used, disturbed, observers>>

\* Mutant: the capture is left running.
StopLogNever(r) ==
  /\ pc[r] = "disconnect" /\ hpc[r] = "entry"
  /\ HGoto(r, "stopped")
  /\ UNCHANGED <<vars, log, status, history, observers>>

(* handleDeviceDisconnect stops the capture before it disconnects.          *)
StopLog(r) ==
  /\ pc[r] = "disconnect" /\ hpc[r] = "entry"
  /\ running' = FALSE /\ capture' = None
  /\ HGoto(r, "stopped")
  /\ UNCHANGED <<vars, status, history, observers>>

(* A step of the DeviceManager method that the handler has called; Connect  *)
(* returns the status it reads after its commit.                            *)
MethodStep(r) ==
  /\ pc[r] = "disconnect" => hpc[r] = "stopped"
  /\ ConnectStep(r) \/ OtherStep(r)
  /\ hpc' = IF pc[r] = "commit" THEN [hpc EXCEPT ![r] = "status"]
            ELSE IF pc[r] = "disconnect" THEN [hpc EXCEPT ![r] = "end"] ELSE hpc
  /\ used' = IF pc[r] = "commit" THEN used \cup {want[r]}
             ELSE IF pc[r] = "disconnect" THEN {} ELSE used
  /\ disturbed' = IF ChangesSession(r) THEN disturbed \cup (Busy \cap Readers)
                  ELSE disturbed
  /\ UNCHANGED <<log, status, overlap, observers>>

(* buildStatus, under a read lock taken after Connect released dm.mu.       *)
ReadStatus(r) ==
  /\ hpc[r] = "status"
  /\ IF kind[r] = "connect" /\ connected # None
       THEN status' = [status EXCEPT ![r] = connected] /\ HGoto(r, "startLog")
       ELSE HGoto(r, "end") /\ UNCHANGED status
  /\ UNCHANGED <<vars, log, history, observers>>

\* Mutant: the log is captured in full mode only.
StartLogInFullMode(r) ==
  /\ hpc[r] = "startLog"
  /\ IF running \/ mode # "full" THEN UNCHANGED log
     ELSE running' = TRUE /\ capture' = status[r]
  /\ status' = [status EXCEPT ![r] = None]
  /\ HGoto(r, "end")
  /\ UNCHANGED <<vars, history, observers>>

(* LogManager.Start does nothing while it counts a capture as running.      *)
StartLog(r) ==
  /\ hpc[r] = "startLog"
  /\ IF running THEN UNCHANGED log
     ELSE running' = TRUE /\ capture' = status[r]
  /\ status' = [status EXCEPT ![r] = None]
  /\ HGoto(r, "end")
  /\ UNCHANGED <<vars, history, observers>>

(* The syslog stream ends or never began: the driver returns, its error is  *)
(* dropped and the flag stays.                                              *)
DriverEnds ==
  /\ capture # None /\ capture' = None
  /\ UNCHANGED <<vars, running, hpc, status, history, observers>>
-----------------------------------------------------------------------------
(* Observers.  None of them requires a connected device.                    *)
Observe == UNCHANGED <<vars, handlers>>

(* look begins with its screenshot, check.element with the element tree,    *)
(* check.app_running with the foreground app, check.screen has nothing else.*)
BeginObserver(o, k) ==
  /\ opc[o] = "new" /\ Cardinality(Busy) < Parallel
  /\ okind' = [okind EXCEPT ![o] = k]
  /\ OGoto(o, CASE k = "element" -> "url" [] k = "app" -> "app" [] OTHER -> "shoot")
  /\ UNCHANGED <<haveURL, shot, tree>> /\ Observe

AfterShot(o) == IF okind[o] = "look" THEN "mode" ELSE "reply"

\* Mutant: the screenshot is taken of the default device.
ShootDefault(o) ==
  /\ opc[o] = "shoot"
  /\ \/ \E d \in Devices : shot' = [shot EXCEPT ![o] = d]
        /\ OGoto(o, AfterShot(o))
     \/ OGoto(o, "wdaMode") /\ UNCHANGED shot
  /\ UNCHANGED <<okind, haveURL, tree>> /\ Observe

(* captureRaw reads the connected device (an empty UDID when there is none) *)
(* and asks instruments for its screen, which may fail.                     *)
Shoot(o) ==
  /\ opc[o] = "shoot"
  /\ \/ shot' = [shot EXCEPT ![o] = connected] /\ OGoto(o, AfterShot(o))
     \/ OGoto(o, "wdaMode") /\ UNCHANGED shot
  /\ UNCHANGED <<okind, haveURL, tree>> /\ Observe

(* The WDA fallback of captureRaw, in full mode only.  A check goes on      *)
(* without a screenshot, a look fails.                                      *)
ShootMode(o) ==
  /\ opc[o] = "wdaMode"
  /\ OGoto(o, IF mode = "full" THEN "wdaURL" ELSE "reply")
  /\ UNCHANGED <<okind, haveURL, shot, tree>> /\ Observe

ShootURL(o) ==
  /\ opc[o] = "wdaURL"
  /\ haveURL' = [haveURL EXCEPT ![o] = url]
  /\ OGoto(o, "wdaShot")
  /\ UNCHANGED <<okind, shot, tree>> /\ Observe

(* Whatever device answers on localhost:8100 takes the screenshot.          *)
ShootWDA(o) ==
  /\ opc[o] = "wdaShot"
  /\ \/ /\ haveURL[o] /\ Answers
        /\ shot' = [shot EXCEPT ![o] = Target]
        /\ OGoto(o, AfterShot(o))
     \/ OGoto(o, "reply") /\ UNCHANGED shot
  /\ UNCHANGED <<okind, haveURL, tree>> /\ Observe

(* Look reads the mode once more, for its answer and for the elements.      *)
LookMode(o) ==
  /\ opc[o] = "mode"
  /\ OGoto(o, IF mode = "full" THEN "url" ELSE "reply")
  /\ UNCHANGED <<okind, haveURL, shot, tree>> /\ Observe

ReadWDAURL(o) ==
  /\ opc[o] = "url"
  /\ haveURL' = [haveURL EXCEPT ![o] = url]
  /\ OGoto(o, "tree")
  /\ UNCHANGED <<okind, shot, tree>> /\ Observe

(* WDASessionID and the element tree.  Look goes on without elements when   *)
(* that fails, check.element fails.                                         *)
FetchTree(o) ==
  /\ opc[o] = "tree"
  /\ \/ /\ haveURL[o] /\ session # None /\ Answers
        /\ tree' = [tree EXCEPT ![o] = Target]
        /\ OGoto(o, IF okind[o] = "look" THEN "reply" ELSE "shoot")
     \/ OGoto(o, "reply") /\ UNCHANGED tree
  /\ UNCHANGED <<okind, haveURL, shot>> /\ Observe

(* ForegroundApp of the connected device, which may fail.                   *)
AskApp(o) ==
  /\ opc[o] = "app"
  /\ \/ tree' = [tree EXCEPT ![o] = connected] /\ OGoto(o, "shoot")
     \/ OGoto(o, "reply") /\ UNCHANGED tree
  /\ UNCHANGED <<okind, haveURL, shot>> /\ Observe

(* The answer is sent, the variables of the handler are gone.               *)
Reply(o) ==
  /\ opc[o] = "reply" /\ OGoto(o, "done")
  /\ okind' = [okind EXCEPT ![o] = "none"]
  /\ haveURL' = [haveURL EXCEPT ![o] = FALSE]
  /\ shot' = [shot EXCEPT ![o] = None]
  /\ tree' = [tree EXCEPT ![o] = None]
  /\ disturbed' = disturbed \ {o}
  /\ UNCHANGED <<vars, log, hpc, status, used, overlap>>
-----------------------------------------------------------------------------
ObserverStep(o) ==
  \/ Shoot(o) \/ ShootMode(o) \/ ShootURL(o) \/ ShootWDA(o) \/ LookMode(o)
  \/ ReadWDAURL(o) \/ FetchTree(o) \/ AskApp(o) \/ Reply(o)

RequestStep(r) ==
  \/ StopLog(r) \/ MethodStep(r) \/ ReadStatus(r) \/ StartLog(r)
  \/ RunnerDies(r) /\ UNCHANGED <<handlers, observers>>

StateNext ==
  /\ ~panicked
  /\ \/ DriverEnds
     \/ \E r \in Requests, k \in Kinds : BeginRequest(r, k)
     \/ \E r \in Requests : RequestStep(r)
     \/ \E o \in Observers, k \in ObserverKinds : BeginObserver(o, k)
     \/ \E o \in Observers : ObserverStep(o)

StateSpec == StateInit /\ [][StateNext]_stateVars
-----------------------------------------------------------------------------
(* Any number of requests and observers are in progress at a time.  What    *)
(* the properties say of the session, they say as long as no two requests   *)
(* that change it (device.connect, device.disconnect, wda.restart) have     *)
(* overlapped, and as long as, between two device.disconnects, every        *)
(* connect named the same device; taps, launches, looks and checks may run  *)
(* beside them throughout.  StateClaims.cfg shows why each condition is     *)
(* there.                                                                   *)
OneDevice == \A d, e \in used : d = e

(* In full mode the session is on the connected device and port 8100 leads  *)
(* there, also while a connect or a restart is under way: taps reach the    *)
(* device that device.status names.                                         *)
FullModeWorks ==
  ~overlap /\ OneDevice /\ mode = "full" =>
    sessOn[session] = connected /\ Target = connected

(* "Auto-start log capture on connect" (state.go:89), as far as the code    *)
(* keeps it: while a device is connected and nothing is being handled, a    *)
(* capture was started for it, also after wda.restart, which disconnects    *)
(* and connects without touching the log; its driver reads that device or   *)
(* has ended by itself.                                                     *)
CaptureFollowsSession ==
  ~overlap /\ OneDevice /\ AtRest /\ connected # None =>
    running /\ capture \in {connected, None}

(* A device.disconnect ends the capture for good, and the flag with it, so  *)
(* that the next connect starts one.                                        *)
DisconnectEndsCapture ==
  ~overlap /\ AtRest /\ used = {} => ~running /\ capture = None

(* The separate reads of the session by a tap or a launch agree, whatever   *)
(* runs beside it, unless the session was changed in the middle of it: only *)
(* then does a request find a connected device that is nil, or send a tap   *)
(* without a URL or a session (app_manager.go:29, ui_controller.go:41).     *)
GuardsHold ==
  /\ panicked => \E r \in disturbed \cap Requests : pc[r] = "getDevice"
  /\ \A r \in Requests : sent[r] = "blank" => r \in disturbed

(* The screenshot of an answer and its elements (or its foreground app) are *)
(* of the same device, whichever of the drivers delivered them and whatever *)
(* connect was under way, unless the session was changed between the reads. *)
EvidenceAgrees ==
  \A o \in Observers \ disturbed :
    ~overlap /\ OneDevice /\ opc[o] = "reply" /\ tree[o] # None /\ shot[o] # None =>
      tree[o] = shot[o]
-----------------------------------------------------------------------------
(* Claims that the code does not keep (StateClaims.cfg).                    *)

(* "Auto-start log capture on connect" (state.go:89), in full.              *)
ConnectedIsCaptured ==
  ~overlap /\ OneDevice /\ AtRest /\ connected # None => capture = connected

(* The screenshot and the elements of any answer are of the same device.    *)
EvidenceAlwaysOfOneDevice ==
  \A o \in Observers :
    opc[o] = "reply" /\ tree[o] # None /\ shot[o] # None => tree[o] = shot[o]

(* A device.disconnect ends the capture, whatever overlapped it.            *)
CaptureEndsAnyway == AtRest /\ used = {} => capture = None
=============================================================================
