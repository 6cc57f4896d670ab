----------------------------- MODULE DeviceManager -----------------------------
(* The device session of the daemon: core.DeviceManager (src/internal/core/ *)
(* device_manager.go) as the connection goroutines of the daemon call it,   *)
(* through State.handleDeviceConnect, handleDeviceDisconnect and            *)
(* handleWDARestart (daemon/state.go), UiController (ui_controller.go) and  *)
(* AppManager (app_manager.go).                                             *)
(*                                                                          *)
(* Connect holds dm.mu only for its three assignments, and its callers take *)
(* no lock, so the steps of any number of requests interleave.  Disconnect  *)
(* runs under dm.mu from its first line to its last: one step.              *)
EXTENDS Naturals, FiniteSets

CONSTANTS Devices,   \* UDIDs
          Requests,  \* requests to the daemon; each is handled once
          Kinds,     \* what the requests may ask for
          Parallel,  \* how many requests may be in progress at a time
          MaxDeaths, \* bound: WDA runners that die by themselves
          None       \* no device, no request

AllKinds == {"connect", "disconnect", "restart", "tap", "launch"}

ASSUME NoneAssumption == None \notin Devices /\ None \notin Requests
ASSUME BoundsAssumption == MaxDeaths \in Nat /\ Kinds \subseteq AllKinds

VARIABLES
  connected,     \* dm.connected
  mode,          \* dm.mode: "unset" for the empty string, "full", "degraded"
  url,           \* dm.wdaURL is set
  session,       \* dm.wdaSessionID: the request that created it, or None
  portForwarder, \* dm.portForwarder: the request whose forwarder it is, or None
  wdaProcess,    \* dm.wdaProcess: the request whose runner it is, or None
  pc,            \* where each request is
  kind,          \* what it asks for
  want,          \* the device it connects to
  outcome,       \* the mode it has determined, while it runs
  port,          \* the request whose forwarder listens on localhost:8100, or None
  runners,       \* requests whose WDA runner is running, on their device
  external,      \* devices where WDA was started by other means
  sessOn,        \* the device on which each request's session was created
  deaths,        \* runners that died by themselves
  sent,          \* what a tap or a WDA launch was sent with
  panicked       \* the daemon died of a nil dereference

dm == <<connected, mode, url, session, portForwarder, wdaProcess>>
request == <<pc, kind, want, outcome>>
world == <<port, runners, external, sessOn, deaths>>
vars == <<connected, mode, url, session, portForwarder, wdaProcess, pc, kind, want,
          outcome, port, runners, external, sessOn, deaths, sent, panicked>>

ConnectPC == {"resolve", "forward", "storeFwd", "probe", "startWDA", "waitWDA",
              "storeProc", "reprobe", "session", "commit"}
PC == {"new", "done", "disconnect", "rsRead", "rsDisconnect", "isConn", "getMode",
       "getDevice", "drive", "getURL", "getSession"} \cup ConnectPC

(* Between GetDevice and the commit at the end of Connect. *)
Connecting(r) == pc[r] \in ConnectPC \ {"resolve"}
InProgress == {r \in Requests : pc[r] \notin {"new", "done"}}
Quiet == InProgress = {}

TypeOK ==
  /\ connected \in Devices \cup {None}
  /\ mode \in {"unset", "full", "degraded"}
  /\ url \in BOOLEAN
  /\ session \in Requests \cup {None}
  /\ portForwarder \in Requests \cup {None}
  /\ wdaProcess \in Requests \cup {None}
  /\ pc \in [Requests -> PC]
  /\ kind \in [Requests -> Kinds \cup {"none"}]
  /\ want \in [Requests -> Devices \cup {None}]
  /\ \A r \in Requests : Connecting(r) => want[r] # None
  /\ outcome \in [Requests -> {"unset", "full", "degraded"}]
  /\ port \in Requests \cup {None}
  /\ runners \subseteq Requests
  /\ external \subseteq Devices
  /\ sessOn \in [Requests -> Devices \cup {None}]
  /\ deaths \in 0 .. MaxDeaths
  /\ sent \in [Requests -> {"nothing", "blank", "call"}]
  /\ panicked \in BOOLEAN

Init ==
  /\ connected = None /\ mode = "unset" /\ url = FALSE /\ session = None
  /\ portForwarder = None /\ wdaProcess = None
  /\ pc = [r \in Requests |-> "new"]
  /\ kind = [r \in Requests |-> "none"]
  /\ want = [r \in Requests |-> None]
  /\ outcome = [r \in Requests |-> "unset"]
  /\ port = None /\ runners = {} /\ external \in SUBSET Devices
  /\ sessOn = [r \in Requests |-> None]
  /\ deaths = 0
  /\ sent = [r \in Requests |-> "nothing"]
  /\ panicked = FALSE

Goto(r, l) == pc' = [pc EXCEPT ![r] = l]

(* The device at the far end of localhost:8100, and whether WDA runs there. *)
Target == IF port = None THEN None ELSE want[port]
Running(d) == d \in external \/ \E r \in runners : want[r] = d
Answers == port # None /\ Running(Target)
-----------------------------------------------------------------------------
Begin(r, k) ==
  /\ pc[r] = "new" /\ Cardinality(InProgress) < Parallel
  /\ kind' = [kind EXCEPT ![r] = k]
  /\ Goto(r, CASE k = "connect" -> "resolve" [] k = "disconnect" -> "disconnect"
               [] k = "restart" -> "rsRead" [] OTHER -> "isConn")
  /\ UNCHANGED <<dm, want, outcome, world, sent, panicked>>

(* The udid of the request, or the only device attached; GetDevice.         *)
Resolve(r) ==
  /\ pc[r] = "resolve"
  /\ \/ /\ want[r] = None
        /\ \E d \in Devices : want' = [want EXCEPT ![r] = d]
        /\ Goto(r, "forward")
     \/ want[r] # None /\ Goto(r, "forward") /\ UNCHANGED want
     \/ Goto(r, "done") /\ UNCHANGED want
  /\ UNCHANGED <<dm, kind, outcome, world, sent, panicked>>

(* EnsureTunnel and ForwardPort: listening on port 8100 fails when another  *)
(* forwarder has it, and may fail otherwise; no failure ends the request.   *)
ForwardPort(r) ==
  /\ pc[r] = "forward"
  /\ \/ port = None /\ port' = r /\ Goto(r, "storeFwd")
     \/ UNCHANGED port /\ Goto(r, "probe")
  /\ UNCHANGED <<dm, kind, want, outcome, runners, external, sessOn, deaths, sent, panicked>>

\* Mutant: the forwarder is kept only when the probe succeeds.
StoreForwarderIfAlive(r) ==
  /\ pc[r] = "storeFwd"
  /\ portForwarder' = IF Answers THEN r ELSE portForwarder
  /\ Goto(r, "probe")
  /\ UNCHANGED <<connected, mode, url, session, wdaProcess, kind, want, outcome, world,
                 sent, panicked>>

StoreForwarder(r) ==
  /\ pc[r] = "storeFwd"
  /\ portForwarder' = r
  /\ Goto(r, "probe")
  /\ UNCHANGED <<connected, mode, url, session, wdaProcess, kind, want, outcome, world,
                 sent, panicked>>

(* Status asks whatever answers on localhost:8100; it may time out.         *)
Probe(r) ==
  /\ pc[r] = "probe"
  /\ \/ Answers /\ Goto(r, "session")
     \/ Goto(r, "startWDA")
  /\ UNCHANGED <<dm, kind, want, outcome, world, sent, panicked>>

(* StartWDA launches the runner on the request's device ...                 *)
StartWDA(r) ==
  /\ pc[r] = "startWDA"
  /\ \/ /\ runners' = runners \cup {r}
        /\ Goto(r, "waitWDA")
        /\ UNCHANGED outcome
     \/ /\ Goto(r, "commit")                       \* not installed, no tunnel
        /\ outcome' = [outcome EXCEPT ![r] = "degraded"]
        /\ UNCHANGED runners
  /\ UNCHANGED <<dm, kind, want, port, external, sessOn, deaths, sent, panicked>>

(* ... and waits until something answers on localhost:8100, for 30 seconds. *)
WaitForWDA(r) ==
  /\ pc[r] = "waitWDA"
  /\ \/ /\ Answers
        /\ Goto(r, "storeProc")
        /\ UNCHANGED <<runners, outcome>>
     \/ /\ runners' = runners \ {r}                \* cancel()
        /\ Goto(r, "commit")
        /\ outcome' = [outcome EXCEPT ![r] = "degraded"]
  /\ UNCHANGED <<dm, kind, want, port, external, sessOn, deaths, sent, panicked>>

StoreProcess(r) ==
  /\ pc[r] = "storeProc"
  /\ wdaProcess' = r
  /\ Goto(r, "reprobe")
  /\ UNCHANGED <<connected, mode, url, session, portForwarder, kind, want, outcome, world,
                 sent, panicked>>

Reprobe(r) ==
  /\ pc[r] = "reprobe"
  /\ \/ Answers /\ Goto(r, "session") /\ UNCHANGED outcome
     \/ Goto(r, "commit") /\ outcome' = [outcome EXCEPT ![r] = "degraded"]
  /\ UNCHANGED <<dm, kind, want, world, sent, panicked>>

(* CreateSession, again with whatever answers on localhost:8100.            *)
CreateSession(r) ==
  /\ pc[r] = "session"
  /\ Goto(r, "commit")
  /\ \/ /\ Answers
        /\ sessOn' = [sessOn EXCEPT ![r] = Target]
        /\ outcome' = [outcome EXCEPT ![r] = "full"]
     \/ /\ outcome' = [outcome EXCEPT ![r] = "degraded"]
        /\ UNCHANGED sessOn
  /\ UNCHANGED <<dm, kind, want, port, runners, external, deaths, sent, panicked>>

\* Mutant: a degraded connect keeps the previous session.
CommitKeepsSession(r) ==
  /\ pc[r] = "commit"
  /\ connected' = want[r] /\ url' = TRUE /\ mode' = outcome[r]
  /\ session' = IF outcome[r] = "full" THEN r ELSE session
  /\ outcome' = [outcome EXCEPT ![r] = "unset"]
  /\ Goto(r, "done")
  /\ UNCHANGED <<portForwarder, wdaProcess, kind, want, world, sent, panicked>>

(* The four fields change together; the session that was there is dropped,  *)
(* not deleted.                                                             *)
Commit(r) ==
  /\ pc[r] = "commit"
  /\ connected' = want[r] /\ url' = TRUE /\ mode' = outcome[r]
  /\ session' = IF outcome[r] = "full" THEN r ELSE None
  /\ outcome' = [outcome EXCEPT ![r] = "unset"]
  /\ Goto(r, "done")
  /\ UNCHANGED <<portForwarder, wdaProcess, kind, want, world, sent, panicked>>
-----------------------------------------------------------------------------
\* Mutant: Disconnect stops before it closes the forwarder and the runner.
TearDownSessionOnly ==
  /\ connected' = None /\ mode' = "unset" /\ url' = FALSE /\ session' = None
  /\ UNCHANGED <<portForwarder, wdaProcess, port, runners>>

\* Mutant: Disconnect closes the handles and leaves the fields as they are.
TearDownKeepsState ==
  /\ portForwarder' = None /\ wdaProcess' = None
  /\ runners' = runners \ {wdaProcess}
  /\ port' = IF port = portForwarder THEN None ELSE port
  /\ UNCHANGED <<connected, mode, url, session>>

(* Disconnect: nothing happens unless connected.                            *)
TearDown ==
  IF connected = None
    THEN UNCHANGED <<dm, port, runners>>
    ELSE /\ connected' = None /\ mode' = "unset" /\ url' = FALSE /\ session' = None
         /\ portForwarder' = None /\ wdaProcess' = None
         /\ runners' = runners \ {wdaProcess}
         /\ port' = IF port = portForwarder THEN None ELSE port

Disconnect(r) ==
  /\ pc[r] = "disconnect"
  /\ TearDown /\ Goto(r, "done")
  /\ UNCHANGED <<kind, want, outcome, external, sessOn, deaths, sent, panicked>>

(* wda.restart: read the device, disconnect, connect to the same device.    *)
RestartRead(r) ==
  /\ pc[r] = "rsRead"
  /\ want' = [want EXCEPT ![r] = connected]
  /\ Goto(r, IF connected = None THEN "done" ELSE "rsDisconnect")
  /\ UNCHANGED <<dm, kind, outcome, world, sent, panicked>>

RestartDisconnect(r) ==
  /\ pc[r] = "rsDisconnect"
  /\ TearDown /\ Goto(r, "resolve")
  /\ UNCHANGED <<kind, want, outcome, external, sessOn, deaths, sent, panicked>>
-----------------------------------------------------------------------------
(* UiController and AppManager read the state once per question.            *)

(* IsConnected *)
CheckConnected(r) ==
  /\ pc[r] = "isConn"
  /\ Goto(r, IF connected = None THEN "done"
             ELSE IF kind[r] = "tap" THEN "getMode" ELSE "getDevice")
  /\ UNCHANGED <<dm, kind, want, outcome, world, sent, panicked>>

\* Mutant: taps are sent in degraded mode too.
CheckModeLater(r) ==
  /\ pc[r] = "getMode"
  /\ Goto(r, IF kind[r] = "launch" /\ mode # "full" THEN "done" ELSE "getURL")
  /\ UNCHANGED <<dm, kind, want, outcome, world, sent, panicked>>

(* Mode: a tap is refused in degraded mode, a launch tries WDA in full mode.*)
CheckMode(r) ==
  /\ pc[r] = "getMode"
  /\ LET refused == IF kind[r] = "tap" THEN mode = "degraded" ELSE mode # "full"
     IN  Goto(r, IF refused THEN "done" ELSE "getURL")
  /\ UNCHANGED <<dm, kind, want, outcome, world, sent, panicked>>

(* ConnectedDevice().UDID: the copy may be nil by now. *)
ReadDevice(r) ==
  /\ pc[r] = "getDevice"
  /\ IF connected = None
       THEN panicked' = TRUE /\ UNCHANGED pc
       ELSE Goto(r, "drive") /\ UNCHANGED panicked
  /\ UNCHANGED <<dm, kind, want, outcome, world, sent>>

(* appDriver.Launch succeeds, or fails and the WDA fallback is considered.  *)
DriveApp(r) ==
  /\ pc[r] = "drive"
  /\ Goto(r, "done") \/ Goto(r, "getMode")
  /\ UNCHANGED <<dm, kind, want, outcome, world, sent, panicked>>

(* WDAURL: outcome records whether it was set. *)
ReadURL(r) ==
  /\ pc[r] = "getURL"
  /\ outcome' = [outcome EXCEPT ![r] = IF url THEN "full" ELSE "unset"]
  /\ Goto(r, "getSession")
  /\ UNCHANGED <<dm, kind, want, world, sent, panicked>>

(* WDASessionID and the call with both values. *)
ReadSession(r) ==
  /\ pc[r] = "getSession"
  /\ sent' = [sent EXCEPT ![r] =
                IF session # None /\ outcome[r] = "full" THEN "call" ELSE "blank"]
  /\ outcome' = [outcome EXCEPT ![r] = "unset"]
  /\ Goto(r, "done")
  /\ UNCHANGED <<dm, kind, want, world, panicked>>
-----------------------------------------------------------------------------
(* A WDA runner dies by itself; nothing in the daemon notices.              *)
RunnerDies(r) ==
  /\ r \in runners /\ deaths < MaxDeaths
  /\ runners' = runners \ {r}
  /\ deaths' = deaths + 1
  /\ UNCHANGED <<dm, request, port, external, sessOn, sent, panicked>>

ConnectStep(r) ==
  \/ Resolve(r) \/ ForwardPort(r) \/ StoreForwarder(r) \/ Probe(r) \/ StartWDA(r)
  \/ WaitForWDA(r) \/ StoreProcess(r) \/ Reprobe(r) \/ CreateSession(r) \/ Commit(r)

OtherStep(r) ==
  \/ Disconnect(r) \/ RestartRead(r) \/ RestartDisconnect(r)
  \/ CheckConnected(r) \/ CheckMode(r) \/ ReadDevice(r) \/ DriveApp(r)
  \/ ReadURL(r) \/ ReadSession(r)

Next ==
  /\ ~panicked
  /\ \E r \in Requests :
       \/ ConnectStep(r) \/ OtherStep(r) \/ RunnerDies(r)
       \/ \E k \in Kinds : Begin(r, k)

Spec == Init /\ [][Next]_vars
-----------------------------------------------------------------------------
(* Safety.                                                                  *)

(* The four fields that UiController, AppManager and Status read one at a   *)
(* time agree whenever dm.mu is free: full mode comes with a session id,    *)
(* and without a device nothing is left of the last one.                    *)
StateCoherent ==
  /\ mode = "full" <=> session # None
  /\ connected = None <=> mode = "unset"
  /\ connected = None <=> ~url

(* Host port 8100 is never leaked: its forwarder is the stored one, or      *)
(* belongs to a request that is about to store it; and a stored forwarder   *)
(* is open, so that closing it frees the port.                              *)
PortAccounted ==
  /\ port # None => portForwarder = port \/ pc[port] = "storeFwd"
  /\ portForwarder # None => port = portForwarder

(* When no request is in progress and no device is connected, nothing is    *)
(* forwarded and no runner handle is held, whatever connects, disconnects   *)
(* and restarts overlapped before.                                          *)
DisconnectedIsClean ==
  Quiet /\ connected = None => port = None /\ wdaProcess = None

-----------------------------------------------------------------------------
(* Claims of comments that the code does not keep (StateClaims.cfg).        *)

(* "Connect establishes a session with the device identified by udid"       *)
(* (device_manager.go:72): at rest in full mode the session is on the device*)
(* that is reported as connected.  A connect to a second device breaks it;  *)
(* FullModeWorks of DaemonState is what is left of it.                      *)
SessionOnConnectedDevice ==
  Quiet /\ mode = "full" => sessOn[session] = connected

(* At rest in full mode localhost:8100 is forwarded to the connected device,*)
(* so that what "works" in full mode (docs/design.md:334-348) reaches it.   *)
FullModeIsForwarded ==
  Quiet /\ mode = "full" => Target = connected

(* "Disconnect tears down the active WDA session and clears all state"      *)
(* (device_manager.go:164): no runner the daemon started is left.           *)
NoRunnerLeft == Quiet /\ connected = None => runners = {}

(* "requireConnected returns the connected device's UDID or a protocol      *)
(* error" (app_manager.go:24).                                              *)
NoNilDevice == ~panicked

(* "All methods guard against disconnected or degraded-mode device state"   *)
(* (ui_controller.go:9): no tap goes out without a URL or a session.        *)
TapsAreGuarded == \A r \in Requests : kind[r] = "tap" => sent[r] # "blank"
=============================================================================
