# ios-pilot: formal models

ios-pilot is a command line that drives real iPhones for a language-model agent. Every
command is a short CLI process; a daemon, started on demand, holds what must survive a
command: the device session, the WebDriverAgent (WDA) connection and the captured log.
This directory models the daemon, its clients and their protocol in TLA+, checks the models
with TLC on small instances, and proves the most important safety properties with TLAPS for
every value of the constants.

Paths below are relative to `src/`; `internal/` is left out where it is clear.

## 1. Inventory

### Parts, state, operations

| Part | State it keeps | Operations | Modelled by |
|---|---|---|---|
| Daemon process: `cli/root.go` `runDaemonServe`, `daemon/lifecycle.go` | flock, PID file, socket file, idle timer, signal channel | start, SIGTERM, idle expiry, shutdown, crash | `DaemonLifecycle` |
| RPC server: `daemon/server.go` | listener, WaitGroup, one goroutine per connection | `Start`, `Stop`, accept, `handleConn`, `dispatch` | `DaemonLifecycle` (life of connections), `RpcSession` (lines on one connection) |
| CLI: `cli/root.go` `ensureDaemon`, `cli/daemon_cmd.go`, the other commands | none between commands | dial, fork, poll, call, `daemon status`, `daemon stop`, `log --follow` | `DaemonLifecycle` |
| RPC client: `client/client.go` | next id, scanner, deadline | `Dial`, `Call`, `Close` | `RpcSession` |
| Handlers: `daemon/state.go` | references only | one per RPC method | `DaemonState`; `log` in `LogManager` |
| Device session: `core/device_manager.go` | connected device, mode, WDA URL, session id, forwarder and runner handles | `Connect`, `Disconnect`, six readers | `DeviceManager` |
| Tunnel driver: `driver/goios/tunnel.go` | the tunnel manager, its update goroutine, the HTTP API | `ensureManager`, `EnsureTunnel`, `ForwardPort`, `StopTunnel` | `WdaRunner`; its outcome in `DeviceManager` |
| WDA runner: `driver/goios/wda_process.go` | runner goroutine, its context, `errCh` | `StartWDA` with `enrichWithTunnel` and `waitForWDA`, `Close` | `WdaRunner`, abstractly `RunnerContract` |
| UI commands: `core/ui_controller.go` | none | tap, swipe, input, press | `DeviceManager` (request `tap`) |
| App commands: `core/app_manager.go`, `driver/goios/app.go` | none; the processes are the phone's | list, install, launch, kill, uninstall, foreground | `AppControl`; reads of the session in `DeviceManager` (request `launch`) |
| Evidence: `core/screen_capture.go`, `core/check.go` | none; files on disk | look, check screen / element / app-running | `Look` (one request), `AppControl` (app-running), `DaemonState` (beside other requests) |
| Element tree: `driver/wda/elements.go` | none | parse, label, number, filter | `ElementTree` |
| WDA HTTP client: `driver/wda/client.go` | none | one HTTP call per method | `WdaClient` |
| WDA session manager: `driver/wda/session.go` | cached session id | `EnsureSession`, `Destroy` | `SessionManager` (no code of the daemon uses it) |
| Log capture: `core/log_manager.go`, `driver/goios/syslog.go` | running flag, context, channel, subscribers | `Start`, `Stop`, fan-out, `Subscribe`, `GetLogs` | `LogManager` |
| Log buffer: `RingBuffer` in `core/log_manager.go` | array, head, count | `Add`, `GetLast`, `GetAll` | `RingBuffer`, abstractly `RecentLog` |
| Configuration: `config/config.go` | none after start | merge a file over defaults | `Config` |
| Driver interfaces, CLI options and output, `install.sh`, agent texts | none | - | not modelled: declarations, text, scripts |

### How they interact

* CLI and daemon share three files in `~/.config/ios-pilot` (lock, PID file, socket) and
  talk JSON lines over the socket. Nothing but the flock orders two starting daemons.
* Every connection has its goroutine; handlers of different connections run concurrently and
  share `DeviceManager` and `LogManager`. `DeviceManager.Connect` takes its mutex only around
  single assignments; `Disconnect` holds it throughout; readers take it once per field.
* `device.connect` and `device.disconnect` call `LogManager` after, or before, the
  `DeviceManager` method, with no lock over both.
* A capture is a driver goroutine, a channel and a drainer goroutine. `Stop` cancels and
  waits for nobody.
* `Connect` goes through the tunnel driver and the runner, whose goroutines outlive the call:
  the update loop of the tunnel manager, the enrichment, the runner itself.
* Look, check and the app commands ask the phone through go-ios first and WDA second; each
  channel is tried when the one before it failed, so an answer that is misread, or lost after
  the deed, decides what happens next.
* WDA is reached on `localhost:8100` for every device: which phone answers depends on which
  forwarder has the port.

### Hard behaviours and the properties they call for

Start and take-over races, stale files after a crash, an idle expiry or a signal at any point of
start-up or shutdown (one server at a time, files that lead to the right process, an end that
comes); overlapping connects and disconnects (fields that agree, no leaked port, session on the
right phone); tunnel managers made twice, and goroutines that outlive the call that started
them; a screen that changes between the screenshot and the tree, error bodies taken for answers;
processes that end between the list and the kill; captures that overlap their predecessors (no
gap, no repetition, bounded tail after Stop); slow or vanishing subscribers; late answers and
deadlines on a connection. `PROJECT.json` lists every hazard at its line with the properties
that would catch it.

## 2. Modules

```
SingleServer   <-refines-  DaemonLifecycle  <- MCDaemonLifecycle,  DaemonLifecycle_proofs
RecentLog      <-refines-  RingBuffer       <-extends-  RingBufferHistory
                           RingBufferHistory <- MCRingBuffer,      RingBuffer_proofs
RecentLog      <-used by-  LogManager       <- MCLogManager,       LogManager_proofs
DeviceManager  <-extends-  DaemonState      <- MCDaemonState,      DaemonState_proofs
RunnerContract <-refines-  WdaRunner        <- MCWdaRunner,        WdaRunner_proofs
                           RpcSession       <- MCRpcSession,       RpcSession_proofs
WdaClient      <-extends-  AppControl, SessionManager  <- MCAppControl, AppControl_proofs
WdaClient, ElementTree, Config  <-extends-  Look       <- MCLook,      Look_proofs
```

**SingleServer / DaemonLifecycle.** The abstract module has an `owner` and the set `serving`:
a process takes over only after the previous owner stopped serving or died. The detailed one
has the three files, the main goroutine of every daemon (`dpc`, one value per system call of
`runDaemonServe`, early returns and defers included), each call of `Server.Stop` (`stop`, by
the main goroutine and by every idle expiry), every connection as the server sees it (`sess`,
with the gap between `Accept` and `wg.Add` as a state of its own), and every CLI process
(`cpc`). `Die` is what the kernel does at the end of a process. A connection is identified
with the CLI process that opened it.

**RecentLog / RingBuffer.** `RecentLog` is a bounded sequence of entries; `RingBuffer` the
array with `head` and `count` and the index arithmetic of `GetLast`. The mutex makes each
method one action. `RingBufferHistory` adds a variable that the code does not have, the
sequence of all entries ever added, so that what `GetLast` answers can be compared with it.

**LogManager.** Each `Start` that is not a no-op is a *capture* with a context, a channel, a
driver and a drainer, whose steps interleave with those of earlier captures. Entries are
numbered messages. The buffer is `RecentLog`, justified by the refinement of `RingBuffer`.

**DeviceManager.** A *request* is one call of a handler. `Connect` is ten steps, one for each
point at which shared state or the outside is read or written; `Disconnect` is one, since it
runs under the lock throughout. `port` is the owner of `localhost:8100`, `runners` the WDA
runners the daemon has started, `external` the phones on which WDA runs for other reasons;
`Target` is the phone that answers on the port. `wdaSessionID` is the request that created
the session, and `sessOn` the phone on which it was created.

**DaemonState.** Adds the handlers around `DeviceManager`: `StopLog`, `ReadStatus`,
`StartLog` around its methods, and the *observers* (`look`, `check.*`), whose reads and driver
calls are steps. `running` is the flag of the log manager and `capture` the phone whose log
the driver reads; the driver may end by itself (`DriverEnds`) and leaves the flag. `Parallel`
bounds the requests and observers in progress at a time. Three history variables, which the
code does not have, say when the properties speak: `used` (phones connected since the last
disconnect), `overlap` (two requests that change the session have overlapped) and `disturbed`
(taps, launches and observers in the middle of which the session was changed).

**RunnerContract / WdaRunner.** What happens below `DeviceManager.Connect`. The abstract module
is the promise of `driver.WDAProcessDriver`: a call of `StartWDA` hands a runner over or
fails and leaves none. The detailed one has the program counter of each connect through
`EnsureTunnel`, `ForwardPort`, the probe and `StartWDA`, and the goroutines it starts: the
update loop of every tunnel manager, the enrichment with its buffered channel, and the
runner with its context and `errCh`. Managers are numbered, so that two live ones can be told
apart. `t.mu` is held by the connect that is in `update`, the first `UpdateTunnels` of its
manager, which may never return; the other sections under it are one step each, and the poll of
`EnsureTunnel` reads `t.tm` without it. `ServeTunnelInfo` runs in a goroutine of its own
(`Serve`), which gets the port of the HTTP API or finds it taken, by an earlier manager or by
another process (`foreign`).

**WdaClient.** No state: an answer is a status and the kind of its body, and one operator per
method of the client says what that method makes of it, including where it looks only at the
status or only at the body. An error body may name a session, and a page that parses as XML
passes for a source. `Look`, `AppControl` and `SessionManager` use it.

**ElementTree, Config, Look.** `ElementTree` has the functions of `elements.go` and of the
drawing code: a screen is a tree of nodes with a tag, texts, flags and a frame; labels, type
names, the interactive filter, numbering, and the set of pixels a box sets. `Config` is the
merge of a file over the defaults, lists in place as `encoding/json` decodes them. `Look` is one
observation, step by step: capture by instruments or WDA, base64 and picture checks, fetch of
the tree, drawing and saving, with a failure possible at each, on a screen that may change in
between. Its initial state chooses the interactive types among those that `LoadFrom` returns for
some configuration file.

**AppControl, SessionManager.** `AppControl` has the processes of one phone, which start and
end by themselves, and requests that walk down their channels. A call may be done and
answered, done without an answer, or not done. `SessionManager` has its mutex and the
sessions that WDA holds; an answer may be lost after the session was made. The two share no
state: `MCAppControl` explores one and then the other in one run (`part`).

**RpcSession.** One connection: the client's `Call` with its deadline and the scanner that
never works again once it has failed, two queues of lines, and the server's goroutine. A
request or answer is an id and a size (within or beyond the scanner's buffer).

## 3. Runs

Passing runs (type invariants are all proved, see section 4, and only `Look`'s is also run):

| Run | Question | Instance | States |
|---|---|---|---|
| `RingBuffer` | Does `GetLast` return the end of the history after any number of wraps? | 3 slots, 2 entries, 8 additions: the head wraps twice | 511 |
| `DaemonSafety` | One server, files that lead to it, clean exits, a socket that only an expiry removes | 2 daemons, 2 CLI processes with `call`, `stop`, `follow` and `crashlist`, one idle expiry, one kill, one signal from outside | 2.1 million |
| `DaemonLiveness` | Does a signalled daemon exit, does every command end? | 1 daemon, 2 CLI processes, one expiry, no `log --follow` | 83 thousand |
| `LogSafety` | One live capture, no gap, order at subscribers | 2 captures of 2 messages, channel of 1, subscriber of 2, buffer of 2 | 1.2 million |
| `LogLiveness` | Do entries get through, does a stopped capture end, soon? | 1 capture of 4 messages over a channel of 1: a fourth entry after Stop would break the bound of 3 | 8 thousand |
| `StateSafety` | Do the fields agree, is port 8100 accounted for, do guards, session and log hold? | 3 overlapping requests of 5 kinds, 2 phones, a log driver that ends at any step | 1.3 million |
| `StateEvidence` | Are screenshot and elements of one phone? | 1 observer of 4 kinds beside 2 overlapping requests of 5 kinds, 2 phones, one runner death | 2.4 million |
| `WdaRunner` | One tunnel manager, no runner or goroutine left, every connect returns or hangs where it may | 2 connects at once, 2 managers, one poll, one fault, phone calls that never return | 386 thousand |
| `Look` | Is the list the tree, is the picture the list, is the verdict right about the tree? | every tree of 4 nodes, an error page, frames at every edge of a 24 by 20 picture, every kind of answer at every call, one change of the screen, every list of types of up to 3 items | 72 thousand |
| `AppControl` | Does success mean done, and is the order of the channels kept? One session for two callers? | 2 commands of 7 kinds, 2 processes, each of an app, its extension or another app; 2 callers, 3 sessions | 2.8 million |
| `RpcSession` | Are answers matched, requests ordered, and does every call return? | 4 calls, 3 sizes | 5 thousand |

One run must find a violation, a finding in `PROJECT.json`:

| Run | Claim | What the code does |
|---|---|---|
| `DaemonIdle` | `docs/design.md:445-450`: the idle timer ends in "Process exit" | the expiry only calls `srv.Stop()`; `main` waits for a signal for ever, holding the lock, and no command can start another daemon |

Further divergences. Each is a definition under "Claims" of its module; where the
configuration serves several, name the one to see in its `INVARIANT` line
(`tlc -config X.cfg M` reports the violation):

| Configuration | Module | Property | Behaviour |
|---|---|---|---|
| `DaemonFollowStop` | `MCDaemonLifecycle` | `SignalledDaemonExits` | a `log --follow` keeps its connection; `wg.Wait` never returns (`server.go:85`) |
| `DaemonDrain` | | `StopDrains` | a connection between `Accept` and `wg.Add` is served after `Stop` returned (`server.go:96`) |
| `DaemonStatus` | | `StatusTruthful` | `daemon stop` removes as stale the PID file a new daemon has just written (`daemon_cmd.go:98`) |
| `DaemonSocket` | | `SocketExistsWhileServing` | an expiry during `Start` unlinks the new socket (`server.go:86`) |
| `DaemonCrashList` | | `RequestsSpareDaemon` | `log crash` calls the nil crash driver; the daemon dies (`root.go:234`, `log_manager.go:245`) |
| `LogClaims` | `MCLogManager` | `SendsToCurrentOnly` | fan-out sends to a copy of the list; an unsubscribe in between closes the channel and the send panics (`log_manager.go:226`; nobody calls `Subscribe` as the program stands) |
| | | `IsRunningTruthful` | `running` stays set when the driver ends by itself (`log_manager.go:130`) |
| | | `CaptureFollowsConnect` | `Start` for another device is a no-op while a capture runs (`log_manager.go:117`) |
| | | `SearchCoversBuffer` | the limit is applied before the search (`log_manager.go:176`) |
| `LogSilentDevice` | | `DriverEnds` | `ReadLogMessage` does not see the cancelled context (`syslog.go:49`) |
| `StateClaims` | `MCDaemonState` | `NoNilDevice` | `ConnectedDevice()` is nil after `IsConnected()` was true (`app_manager.go:24-29`) |
| | | `TapsAreGuarded` | a tap goes out with an empty URL or session (`ui_controller.go:9, 41`) |
| | | `CaptureEndsAnyway` | a capture starts after the overlapping disconnect that should have ended it (`state.go:90`) |
| | | `EvidenceAlwaysOfOneDevice` | a look across a disconnect and a connect has the picture of one phone and the elements of another (`screen_capture.go:98-127`) |
| | with `Parallel = 1` | `SessionOnConnectedDevice` | connect A, connect B: port 8100 still leads to A, and the session of B is created on A (`device_manager.go:72`) |
| | | `FullModeIsForwarded` | the same: full mode on B, and every tap reaches A |
| | | `ConnectedIsCaptured` | the log driver has ended by itself and no connect starts another, as the flag is still set (`state.go:89`, `log_manager.go:117, 129-131`) |
| | | `NoRunnerLeft` | a runner handle is overwritten, the runner never stopped (`device_manager.go:130, 164`) |
| `WdaClaims` | `MCWdaRunner` | `ApiIsOurs` | the HTTP API that the enrichment asks is not listening yet, never will, or is another process (`tunnel.go:130, 169-173`) |
| `RpcBigAnswer` | `MCRpcSession` | `AnswersAreReturned` | an answer beyond the scanner's 64 KB fails the call and every later one (`client.go:36`) |
| `AppClaims` | `MCAppControl` | `AppRunningDetects` | check app-running compares the name of an executable with a bundle id (`check.go:127-128`) |
| | | `KillStopsTheApp` | the first process whose path contains the bundle id may be an extension of the app (`app.go:190`) |
| | | `LaunchOnce` | a launch whose answer was lost is repeated by the next channel (`app_manager.go:57-75`) |
| `LookClaims` | `MCLook` | `RawTreeForUi` | `ui` promises "the raw element tree" (`screen_capture.go:90`, `SKILL.md:37`, `docs/design.md:176`) and lists the interactive elements only |
| | | `VerdictIsAboutAScreen` | check element searches whatever parses as XML, an error page too, and says "not found" of it (`client.go:325-351`, `elements.go:32-40`) |
| | | `ScreenshotIsAPicture` | `TakeScreenshot` saves what it got, picture or not (`screen_capture.go:65`) |

Six of these configurations mark the limits of properties that passing runs check.
`DaemonFollowStop`: those runs leave out `log --follow`. `DaemonSocket`: they allow an expiry to
remove the socket. `StateClaims`: the properties of the session speak of changes that do not
overlap and that name one phone, and those of a tap, launch, look or check of one in the middle
of which the session did not change. `WdaClaims`: no *other manager of the process* has the HTTP
API. `LookClaims`: a verdict is about a tree, which need not be a screen, and the list of a `ui`
look without annotation has no property. `LogClaims`: a capture whose driver ended counts as
started.

Divergences met while modelling that no configuration shows, because they are plain to see
in one definition or concern text: check app-running asks the first phone it finds when no
device is connected (`check.go`, in `AppControl!Begin`); the centre of an element is in points
and the picture in pixels (`SKILL.md:84-86`); the comment of `ParseSource` says that the
Application is left out, the code leaves out `AppiumAUT`; `atoi` promises 0 on error and keeps
leading digits; `nodeToElement` never returns false; `FindElement` takes an error body for a
find and `DeleteSession` any answer for success (`WdaClient`); the HTTP API of the tunnel
stays with the first manager after `StopTunnel`, and a forwarder keeps the tunnel port of its
creation. `StopTunnel` and `IsTunnelRunning` have no caller in production.

### Bounds, and why they are enough

* *Two daemons*: a take-over needs two; the proofs hold for any number. PIDs are not reused.
* `MaxPolls = 1` for 50: the poll loop is left in the same states with one round as with many.
* One idle expiry per daemon is one overlapping call of `Stop`; a second would find the
  listener closed already.
* *Two captures*: an old and a new generation beside each other; channels of 1 or 2 are full
  and empty as often as those of 256 and 100.
* *Three requests*: a connect, one that overlaps it, and one that finds what they left. For the
  evidence, two that change the session, and the observer beside both.
* *No runner death in `StateSafety`*: its properties do not mention the runners, and a connect
  may find WDA silent anyway; `StateEvidence` has one.
* *Two connects, two managers*: one that reads `t.tm` and one that replaces it; more faults only
  repeat the paths that one fault opens.
* *Four nodes*: a root, nesting of depth two beside a sibling, which is what document order and
  the filter can get wrong; frames are inside, at and across every edge, narrower than the
  border and empty. One change of the screen falls between any two steps.
  Lists of three items (`MaxItems`) are shorter than, as long as and longer than the default
  list of two, with null items anywhere.
* *Two app commands*: each meets what the other starts or ends between its list and its kill.
* Symmetry is used only in runs without liveness properties, over sets of interchangeable
  model values.

### Fairness

`DaemonLifecycle!Fairness`: goroutines and CLI processes that can move do, handlers return, and
an armed timer fires unless reset or stopped. The WDA client has a timeout of 30 s; that go-ios
calls made by a handler return is an assumption. Nothing is assumed of the user, of kills, or of
read deadlines. `LogManager!Fairness`: driver and drainer goroutines are scheduled, separately
for each capture; the device may stay silent and subscribers may stop receiving. `RpcSession`:
the client is scheduled and its deadline passes in the end; nothing is assumed of the server.
`WdaRunner!Fairness`: the steps of a connect that depend on this process alone are scheduled,
and its timers (the polls of the tunnel, ten seconds for the enrichment, thirty for WDA) expire;
those that take `t.mu` are strongly fair, because a `sync.Mutex` starves nobody; a goroutine
that can send does, and a runner whose context is cancelled returns. The calls of go-ios that
wait for usbmuxd or the phone (`UpdateReturns`, `GetDevice`, `StartWDA`, `Browse`: `PhoneStep`),
the HTTP API and a runner that was not cancelled may be silent for ever, so `ConnectsReturn`
says where a connect may hang (`Held`) and that it hangs nowhere else.

`CHECK_DEADLOCK FALSE` is set everywhere because every instance has a bounded supply of
processes, requests, messages or calls, and rightly stops when it is used up.

## 4. Proofs

All theorems hold for arbitrary constants that satisfy the `ASSUME`s of the modules: any
number of daemons, CLI processes, devices, requests, captures or calls.

**`DaemonLifecycle_proofs`.** The inductive invariant is built in layers, each proved from the
ones before: `TypeOK`; `StopInv` (where main's call of `Stop` is, given where main is);
`LockInv` (the flock is held exactly between `AcquireLock` and `ReleaseLock`); `PidInv` and
`SockInv` (a process is named by the PID file, or by the socket path, only inside the section
that removes it again, or after it was killed there: only the lock's holder writes either, while
stop commands and late removals can only clear them); `ConnInv` (at most one connection is
between `Accept` and `wg.Add`, and after the wait nothing else is left). They give
`ListenerHoldsLock`, `PidFileNamesServer`, `SocketLeadsToServer`, `CleanExit` and
`StopLeavesAtMostOne`, and `SocketKeptAlways` for each step: only an idle expiry takes the path
from a daemon that listens. `Refinement` shows that every step maps to a step or a stutter of
`SingleServer`. `SignalledDaemonExitsAfterWait` numbers the eight places of a shutdown
(`Shutdown`): no step of any process leads back (`ShutdownAdvances`), main and its call of
`Server.Stop` lead on (`ShutdownGoesOn`), and the one place that neither can leave alone is the
wait for the connections, whose end is a hypothesis.

**`RingBuffer_proofs`.** `BufferTypeCorrect` for every capacity, by the wrap lemma on `%`;
`BufferImplementsRecentLog`: what `GetAll` reads from the array evolves as the abstract log,
by cases on whether the buffer is full when an entry is added. `GetLastAlwaysRecent`: for every
capacity, every number of additions and every number asked for, `GetLast` returns the end of
the history, from an invariant that says which slot the i-th entry from the end is in.

**`LogManager_proofs`.** `OneLiveCaptureAlways`, from a strengthening that says which contexts
are cancelled: those of all earlier captures, and that of the last one unless `running`; the
captures still to come have none. `TypeCorrect` and `StopAlwaysBounded` with `FlowInv`: what
a cancelled capture has added, holds, has in its channel and has in its driver's hand never
exceeds what it had added when it was stopped, the channel's capacity and two. `NoGapAlways`
and `SubscriberOrderAlways` with `OrderInv`: `Pipe` says where the n-th message of a capture is
(added, held by the drainer, in the channel at a place that follows from n, or with the
driver), `DistinctInv` that a fan-out serves nobody twice, and `SubInv` that whatever a
subscriber has of a capture is below the entry that the capture still owes it (`Due`, `Top`).

**`DaemonState_proofs`, first part,** about `DeviceManager` alone. `TypeCorrect`;
`StateAlwaysCoherent` with `OutcomeInv` (a request that commits has a mode);
`PortAlwaysAccounted` with `StoreInv` (whoever is about to store a forwarder owns the port, and
no other is stored); `DisconnectedAlwaysClean` with `HeldInv`
(a handle held although nothing is connected belongs to a connect that has yet to commit).
They hold for any number of overlapping requests on any number of devices.

**`DaemonState_proofs`, second part.** `DeviceLayer`: projected on the device session, every
step of the handlers and observers is a step of `DeviceManager` or a stutter.
`DaemonKeepsSession` draws from it that the invariants of `DeviceManager` hold in the daemon.

`StateTypeCorrect` adds the handlers' own types. `GuardsAlwaysHold`,
`DisconnectAlwaysEndsCapture`, `CaptureAlwaysFollows`, `FullModeAlwaysWorks` and
`EvidenceAlwaysAgrees` are theorems of `StateSpec`, with any number of requests and observers in
progress. They follow from `SeqInv`, which says where a handler is while its method is at each
step (`PlaceInv`) and what the reads of a request that nobody disturbed have shown and still
hold (`GuardInv`); and, until two changes of the session overlap, that only one request is
changing it (`Alone`), that everything the session refers to is on a phone that was used
(`UsedInv`), and the same of the capture and of the evidence of undisturbed observers
(`CaptureInv`, `EvidenceInv`). The conditions (`overlap`, `OneDevice`, `disturbed`) stand in the
properties themselves, and `StateClaims` shows for each what the code does without it.

**`RpcSession_proofs`.** `RpcTypeCorrect`. `AnswerAlwaysMatches` rests on `OneOutstanding`: while
the scanner works, the lines on their way in either direction and the request in hand are all
of the last call, because a failed call kills the scanner. `AlwaysHandledInOrder` from
`InOrder`: the handled requests, the one in hand and those on their way are consecutive ids.
`CallsAlwaysReturn`: while a call is pending nothing but its end or `Close` can happen to it
(`PendingStep`), and the client can always take a step.

**`WdaRunner_proofs`.** `WdaTypesHold` and `AlwaysOneTunnelManager` with `ManagerInv`: every
update loop but that of `tm` is cancelled (`OneAlive`), one connect at most is in `UpdateTunnels`
(`OneUpdates`), and as long as nothing has cancelled the first manager, it is `tm` and the only
one that may get the HTTP API (`FirstManagerStays`). `StartWDAKeepsContract`, the refinement of
`RunnerContract`, with `RunnerInv`: a runner belongs to the call that waits for it, and its
context is cancelled only by the failure of that call or by its handle. `NoGoroutineStays`:
only its own step moves a goroutine that has something to send, and its channel has room for it.
`ConnectsReturnAfterPolls` leads a connect through the places on its way (`Place`), past the loop of
`EnsureTunnel` by hypothesis (`PollsEnd`): at each it goes on or is `Held` there for ever.

**`AppControl_proofs`.** For the session manager `SessionTypeCorrect` and `AlwaysOneSession`, from
`CallHolds`: whoever is in a call to WDA holds the mutex, and creates only while no id is
cached. For the app commands `AppTypeCorrect`; `FallbackAlwaysInOrder` with `OrderInv` (the
calls of a request so far are failures in the order of the channels, and the channel it is at
comes next); and `OkAlwaysMeansDone` with `DeedsInv` (what a request has listed was once a
process of that name, and what it killed was listed).

**`Look_proofs`.** For pictures of any size, trees of any size and shape, frames with sides
within `Coordinate`, negative ones included, and any labels and types. `LookTypes`,
`PictureAlwaysMatches` (an annotated picture was drawn on the screenshot that is saved, from the
list that is returned) and `VerdictFollowsTree` (a check says yes or no only with a tree that
was fetched, and yes exactly when a node of it carries the text, whatever the tree describes),
with `LookInv`, whose part `Phases` says what a request has in hand at each step.
`ListIsAlwaysTheTree`: the list of an annotated look has the nodes that may be shown, each once,
numbered from 1 without a gap, in document order as the ancestors define it, with the frame of
its node and, unless that is empty, a centre inside it. `BoxesAreAlwaysBorders`: a box whose
frame is at least two pixels wide and high is exactly the two-pixel border of the frame, cut to
the picture; one that is narrower, or negative, stays within two pixels of its frame; the label
of a corner in the picture begins in the picture.

The library's induction theorems cannot be used (their parameter is an operator), so
induction is stated once over a set: `Smallest` says that a set of numbers has a least member,
by the well-foundedness of inclusion on finite sets, and `Induction` that a set that has 0 and
the successor of each member has every number. With it `RecursionExists` gives a recursive
function over an interval its equation, and the walk through the tree (`CollectLists`),
the filter (`FilteredInOrder`) and decimal digits (`ReadBack`: `Atoi` reads back what `Written`
wrote, the sign included) are proved about.

*Liveness.* There is no proof rule for `ENABLED`, so no theorem has `WF` in it. Its place is
taken by formulas with the guards written out (`ShutdownScheduled`, `ClientScheduled`,
`ConnectScheduled`, `GoroutinesScheduled`): where the guard holds the step is possible, and it
is at rest again and again or the step is taken again and again. The fairness of each run's
`FairSpec` implies these formulas; that last step is an argument about `ENABLED` and not a proof.

*Assumed by the proofs:* the constants' `ASSUME`s; for liveness, the formulas just named, and
`WaitReturns` and `PollsEnd` in the two theorems that name them.

*Only model-checked:* every safety and action property of a passing run is stated by a theorem.
What stays with TLC is liveness that counts: `CommandsFinish` (a bounded number of polls),
`EntriesReachBuffer` and `DrainerEnds` (a channel is emptied one message at a time), and the
end of the loop of `EnsureTunnel` (`PollsEnd`) inside `ConnectsReturn`. Each is an induction over
a number with a temporal formula, which the library's theorems do not allow here.
`WaitReturns`, the end of `wg.Wait` inside `SignalledDaemonExits`, depends on the clients.
`DaemonLiveness` checks it with ordinary commands, and `DaemonFollowStop` shows the `log --follow`
that prevents it.

## 5. What the models leave out

* *Daemon*: reuse of PIDs (a recycled PID could be signalled); a half-written PID file counts
  as absent; a limit on the backlog; the panic of `sync.WaitGroup` on reuse; a daemon started
  by hand with `daemon serve` behaves as a forked one. The status handlers only read.
* *Device*: deletion of the WDA session inside `Disconnect` (its result is ignored);
  unplugging, except as a failing call. In `DeviceManager` the tunnel's failure is one of the
  failures of `ForwardPort`, and a start of WDA is one step with the outcome that
  `RunnerContract` allows. Forwarders do not die by themselves.
* *Tunnel and runner*: what a tunnel to one phone does inside go-ios (it is there or not, as
  the phone pleases, which stands for `RemoveTunnel`); at which later time the port of the HTTP
  API is free again for whom, beyond one other process; which bundle `findWDABundleID` picks.
* *Evidence*: the font and the colours of annotations, file names, whether XML is well-formed
  (one outcome). `check no-crash` has no crash driver in the daemon and
  always returns an error.
* *Configuration*: the merge is modelled because `Look` depends on it, without a property of its
  own: what its comment promises (`config.go:71-75`) is what its branches say.
* *WDA client*: attributes of a frame outside -100000..100000 (`Coordinate`), with the
  overflow of their sums; payloads of gestures, URLs, which error text is shown.
* *Apps*: what go-ios sends over the wire; a pid is not used again while a command runs.
* *RPC*: encoding; a writer blocked because its peer does not read; a line cut by the deadline
  counts as a failed call, which it is. Parameters are assumed to marshal, as those of all
  callers do.
* *Log*: the text of entries and their parsing; the three filters are one set of entries.
* *Not modelled at all*: `driver/interfaces.go` (declarations), options and printed formats of
  the CLI, `install.sh` and release scripts, the texts for agents.

## 6. What could come next

1. *Composition*: `DaemonState` over `LogManager` in place of the variables `running` and
  `capture`, and over `WdaRunner` in place of the single step that starts WDA; `RpcSession`
  under `DaemonLifecycle`, so that an answer larger than the buffer, a deadline and a shutdown
  meet.
2. *Unplugging* as an action of its own, which ends the syslog stream, the forwarder and the
   tunnel at different moments.
