------------------------------ MODULE WdaRunner ------------------------------
(* The goroutines behind a connect: the in-process tunnel manager           *)
(* (src/internal/driver/goios/tunnel.go) and the WDA runner (wda_process.go)*)
(* as DeviceManager.Connect uses them: EnsureTunnel, ForwardPort, and       *)
(* StartWDA when nothing answers on localhost:8100.                         *)
(*                                                                          *)
(* t.mu is held by ensureManager, through its first UpdateTunnels too, by   *)
(* StopTunnel and by ForwardPort's read of t.tm; EnsureTunnel polls t.tm    *)
(* without it.  The calls of go-ios that talk to usbmuxd or to the phone    *)
(* have no deadline: they return or they do not.  A manager is numbered in  *)
(* the order of creation, 0 is the nil pointer.                             *)
EXTENDS Naturals, FiniteSets

CONSTANTS Starts,       \* connects to the phone; each is handled once
          Polls,        \* looks at the tunnel in EnsureTunnel (30 in the code)
          MaxManagers,  \* bound: tunnel managers ever created
          MaxFaults     \* bound: what comes from outside (see faults)

ASSUME BoundsAssumption ==
  Polls \in Nat /\ MaxManagers \in Nat /\ MaxFaults \in Nat

VARIABLES
  tm,        \* t.tm: the current tunnel manager, or 0
  made,      \* managers created so far
  cancelled, \* managers whose context is cancelled
  updaters,  \* managers whose update goroutine has not returned
  servers,   \* managers whose goroutine is about to call ServeTunnelInfo
  api,       \* the manager behind the tunnel HTTP API, or 0
  foreign,   \* another process holds the port of the tunnel HTTP API
  faults,    \* tunnels stopped, runners that died, ports taken
  pc,        \* where each connect is
  tries,     \* its looks at the tunnel
  fwd,       \* localhost:8100 is forwarded to the phone
  enricher,  \* its goroutine of enrichWithTunnel
  runner,    \* its goroutine of RunTestWithConfig
  stopped,   \* wdaCtx is cancelled
  up,        \* connects whose runner serves WDA on the phone
  panicked   \* EnsureTunnel dereferenced a nil manager

managers == <<tm, made, cancelled, updaters>>
port == <<servers, api, foreign>>
tunnel == <<tm, made, cancelled, updaters, servers, api, foreign>>
call == <<pc, tries, fwd>>
process == <<enricher, runner, stopped, up>>
vars == <<tm, made, cancelled, updaters, servers, api, foreign, faults, pc, tries, fwd,
          enricher, runner, stopped, up, panicked>>

Managers == 1 .. MaxManagers
PC == {"new", "ensure", "update", "poll", "device", "forward", "probe", "start", "enrich",
       "browse", "wait", "ready", "failed", "closed", "alive"}
Returned == {"ready", "failed", "closed", "alive"}

TypeOK ==
  /\ made \in 0 .. MaxManagers /\ tm \in 0 .. made /\ api \in 0 .. made
  /\ cancelled \subseteq 1 .. made /\ updaters \subseteq 1 .. made
  /\ servers \subseteq 1 .. made /\ foreign \in BOOLEAN
  /\ faults \in 0 .. MaxFaults
  /\ pc \in [Starts -> PC]
  /\ tries \in [Starts -> 0 .. Polls]
  /\ fwd \in BOOLEAN
  /\ enricher \in [Starts -> {"none", "asking", "sending", "ended"}]
  /\ runner \in [Starts -> {"none", "running", "sending", "ended"}]
  /\ stopped \subseteq Starts /\ up \subseteq Starts
  /\ panicked \in BOOLEAN

Init ==
  /\ tm = 0 /\ made = 0 /\ cancelled = {} /\ updaters = {}
  /\ servers = {} /\ api = 0 /\ foreign = FALSE
  /\ faults = 0
  /\ pc = [s \in Starts |-> "new"]
  /\ tries = [s \in Starts |-> 0]
  /\ fwd = FALSE
  /\ enricher = [s \in Starts |-> "none"]
  /\ runner = [s \in Starts |-> "none"]
  /\ stopped = {} /\ up = {}
  /\ panicked = FALSE

Goto(s, l) == pc' = [pc EXCEPT ![s] = l]
Fault == faults < MaxFaults /\ faults' = faults + 1
Answers == fwd /\ up # {}
Updating == \E s \in Starts : pc[s] = "update"  \* somebody holds t.mu for long
-----------------------------------------------------------------------------
(* The tunnel manager.                                                      *)

Begin(s) ==
  /\ pc[s] = "new"
  /\ Goto(s, "ensure")
  /\ UNCHANGED <<tunnel, faults, tries, fwd, process, panicked>>

(* ensureManager up to its first UpdateTunnels, behind the nil check.       *)
NewManager(s) ==
  /\ made < MaxManagers /\ made' = made + 1
  /\ Goto(s, "update")

\* Mutant: a second caller makes a second manager.
EnsureManagerAnew(s) ==
  /\ pc[s] = "ensure" /\ ~Updating
  /\ \/ NewManager(s)
     \/ made = MaxManagers /\ Goto(s, IF tm = 0 THEN "device" ELSE "poll") /\ UNCHANGED made
  /\ UNCHANGED <<tm, cancelled, updaters, port, faults, tries, fwd, process, panicked>>

(* The first caller makes the manager, the others find it; without pair     *)
(* records EnsureTunnel fails, and Connect goes on without a tunnel.        *)
EnsureManager(s) ==
  /\ pc[s] = "ensure" /\ ~Updating
  /\ \/ tm = 0 /\ NewManager(s)
     \/ Goto(s, IF tm = 0 THEN "device" ELSE "poll") /\ UNCHANGED made
  /\ UNCHANGED <<tm, cancelled, updaters, port, faults, tries, fwd, process, panicked>>

(* The first UpdateTunnels returns, well or not, if the phones let it: the  *)
(* two goroutines start, t.tm is set and t.mu released.                     *)
UpdateReturns(s) ==
  /\ pc[s] = "update"
  /\ tm' = made
  /\ updaters' = updaters \cup {made} /\ servers' = servers \cup {made}
  /\ Goto(s, "poll")
  /\ UNCHANGED <<made, cancelled, api, foreign, faults, tries, fwd, process, panicked>>

(* One look at the tunnel.  It is there or not, as the phone pleases; after *)
(* the last look EnsureTunnel gives up.                                     *)
PollTunnel(s) ==
  /\ pc[s] = "poll"
  /\ \/ tm = 0 /\ panicked' = TRUE /\ UNCHANGED <<pc, tries>>
     \/ tm # 0 /\ Goto(s, "device") /\ UNCHANGED <<tries, panicked>>
     \/ /\ tm # 0 /\ tries[s] < Polls
        /\ tries' = [tries EXCEPT ![s] = @ + 1] /\ UNCHANGED <<pc, panicked>>
  /\ UNCHANGED <<tunnel, faults, fwd, process>>

(* ForwardPort asks usbmuxd for the phone, which may be gone ...            *)
GetDevice(s) ==
  /\ pc[s] = "device"
  /\ \E l \in {"forward", "probe"} : Goto(s, l)
  /\ UNCHANGED <<tunnel, faults, tries, fwd, process, panicked>>

(* ... and listens, with the tunnel that t.tm knows or without; it fails    *)
(* when the port is taken.                                                  *)
ForwardPort(s) ==
  /\ pc[s] = "forward" /\ ~Updating
  /\ \/ ~fwd /\ fwd' = TRUE
     \/ UNCHANGED fwd
  /\ Goto(s, "probe")
  /\ UNCHANGED <<tunnel, faults, tries, process, panicked>>

(* The goroutine of ServeTunnelInfo: it gets the port, or logs that it is   *)
(* taken and ends.  Nobody tries again.                                     *)
Serve(m) ==
  /\ m \in servers
  /\ servers' = servers \ {m}
  /\ api' = IF api = 0 /\ ~foreign THEN m ELSE api
  /\ UNCHANGED <<managers, foreign, faults, call, process, panicked>>

(* `ios-pilot tunnel start` or another daemon comes to hold the port, or    *)
(* lets it go.                                                              *)
OtherProcess ==
  /\ \/ ~foreign /\ api = 0 /\ Fault
     \/ foreign /\ UNCHANGED faults
  /\ foreign' = ~foreign
  /\ UNCHANGED <<managers, servers, api, call, process, panicked>>

UpdaterEnds(m) ==
  /\ m \in updaters \cap cancelled
  /\ updaters' = updaters \ {m}
  /\ UNCHANGED <<tm, made, cancelled, port, faults, call, process, panicked>>

(* StopTunnel("").  The HTTP API goes on with the manager that was closed.  *)
StopTunnel ==
  /\ tm # 0 /\ ~Updating /\ Fault
  /\ cancelled' = cancelled \cup {tm}
  /\ tm' = 0
  /\ UNCHANGED <<made, updaters, port, call, process, panicked>>
-----------------------------------------------------------------------------
(* StartWDA.                                                                *)

(* Connect's probe: WDA answers, or it is started.                          *)
Probe(s) ==
  /\ pc[s] = "probe"
  /\ \/ Answers /\ Goto(s, "alive")
     \/ Goto(s, "start")
  /\ UNCHANGED <<tunnel, faults, tries, fwd, process, panicked>>

(* GetDevice, and the goroutine of enrichWithTunnel.                        *)
StartWDA(s) ==
  /\ pc[s] = "start"
  /\ \/ Goto(s, "enrich") /\ enricher' = [enricher EXCEPT ![s] = "asking"]
     \/ Goto(s, "failed") /\ UNCHANGED enricher
  /\ UNCHANGED <<tunnel, faults, tries, fwd, runner, stopped, up, panicked>>

(* doEnrichWithTunnel asks the HTTP API and the phone, and ends with an     *)
(* entry or an error ...                                                    *)
Enrich(s) ==
  /\ enricher[s] = "asking"
  /\ enricher' = [enricher EXCEPT ![s] = "sending"]
  /\ UNCHANGED <<tunnel, faults, call, runner, stopped, up, panicked>>

(* ... and puts the result into a channel with room for it.                 *)
SendEntry(s) ==
  /\ enricher[s] = "sending"
  /\ enricher' = [enricher EXCEPT ![s] = "ended"]
  /\ UNCHANGED <<tunnel, faults, call, runner, stopped, up, panicked>>

\* Mutant: there is no timeout.
ReceiveEntryOnly(s) ==
  /\ pc[s] = "enrich" /\ enricher[s] = "ended"
  /\ Goto(s, "browse")
  /\ UNCHANGED <<tunnel, faults, tries, fwd, process, panicked>>

(* The result, or ten seconds; either way StartWDA goes on.                 *)
ReceiveEntry(s) ==
  /\ pc[s] = "enrich"
  /\ Goto(s, "browse")
  /\ UNCHANGED <<tunnel, faults, tries, fwd, process, panicked>>

(* findWDABundleID, and the goroutine of the runner.                        *)
Browse(s) ==
  /\ pc[s] = "browse"
  /\ \/ Goto(s, "wait") /\ runner' = [runner EXCEPT ![s] = "running"]
     \/ Goto(s, "failed") /\ UNCHANGED runner
  /\ UNCHANGED <<tunnel, faults, tries, fwd, enricher, stopped, up, panicked>>

RunnerServes(s) ==
  /\ runner[s] = "running" /\ s \notin stopped \cup up
  /\ up' = up \cup {s}
  /\ UNCHANGED <<tunnel, faults, call, enricher, runner, stopped, panicked>>

(* RunTestWithConfig returns: its context was cancelled, or it died.        *)
RunnerReturns(s) ==
  /\ runner[s] = "running"
  /\ \/ s \in stopped /\ UNCHANGED faults
     \/ s \notin stopped /\ Fault
  /\ runner' = [runner EXCEPT ![s] = "sending"]
  /\ up' = up \ {s}
  /\ UNCHANGED <<tunnel, call, enricher, stopped, panicked>>

\* Mutant: errCh has no buffer.
SendErrToReceiver(s) ==
  /\ runner[s] = "sending" /\ pc[s] = "wait"
  /\ runner' = [runner EXCEPT ![s] = "ended"]
  /\ UNCHANGED <<tunnel, faults, call, enricher, stopped, up, panicked>>

SendErr(s) ==
  /\ runner[s] = "sending"
  /\ runner' = [runner EXCEPT ![s] = "ended"]
  /\ UNCHANGED <<tunnel, faults, call, enricher, stopped, up, panicked>>

(* waitForWDA: a poll that somebody answers ...                             *)
WaitPoll(s) ==
  /\ pc[s] = "wait" /\ Answers
  /\ Goto(s, "ready")
  /\ UNCHANGED <<tunnel, faults, tries, fwd, process, panicked>>

\* Mutant: a failed StartWDA leaves the runner alone.
WaitFailsWithoutCancel(s) ==
  /\ pc[s] = "wait"
  /\ Goto(s, "failed")
  /\ UNCHANGED <<tunnel, faults, tries, fwd, enricher, runner, stopped, up, panicked>>

(* ... or thirty seconds, or the end of the runner in errCh: cancel().      *)
WaitFails(s) ==
  /\ pc[s] = "wait"
  /\ stopped' = stopped \cup {s}
  /\ Goto(s, "failed")
  /\ UNCHANGED <<tunnel, faults, tries, fwd, enricher, runner, up, panicked>>

(* wdaCloser.Close, by Disconnect.                                          *)
Close(s) ==
  /\ pc[s] = "ready"
  /\ stopped' = stopped \cup {s}
  /\ fwd' = FALSE
  /\ Goto(s, "closed")
  /\ UNCHANGED <<tunnel, faults, tries, enricher, runner, up, panicked>>
-----------------------------------------------------------------------------
(* The steps of a connect that depend on this process alone; those that     *)
(* take t.mu; and the calls that wait for usbmuxd or for the phone.         *)
LocalStep(s) ==
  PollTunnel(s) \/ Probe(s) \/ ReceiveEntry(s) \/ WaitPoll(s) \/ WaitFails(s)
LockStep(s) == EnsureManager(s) \/ ForwardPort(s)
PhoneStep(s) == UpdateReturns(s) \/ GetDevice(s) \/ StartWDA(s) \/ Browse(s)

Next ==
  /\ ~panicked
  /\ \/ \E s \in Starts :
          \/ Begin(s) \/ LocalStep(s) \/ LockStep(s) \/ PhoneStep(s)
          \/ Enrich(s) \/ SendEntry(s) \/ RunnerServes(s)
          \/ RunnerReturns(s) \/ SendErr(s) \/ Close(s)
     \/ \E m \in 1 .. made : UpdaterEnds(m) \/ Serve(m)
     \/ StopTunnel
     \/ OtherProcess

Spec == Init /\ [][Next]_vars

(* Goroutines are scheduled, timers expire, sync.Mutex starves nobody, and  *)
(* a runner whose context is cancelled returns.  No call that waits for the *)
(* phone, for usbmuxd or for the HTTP API ever has to return.               *)
Fairness ==
  \A s \in Starts :
    /\ WF_vars(LocalStep(s)) /\ SF_vars(LockStep(s))
    /\ WF_vars(SendEntry(s)) /\ WF_vars(SendErr(s))
    /\ WF_vars(s \in stopped /\ RunnerReturns(s))

FairSpec == Spec /\ Fairness
-----------------------------------------------------------------------------
(* However many connects come at once, one tunnel manager is alive: every   *)
(* other is cancelled.  As long as nothing stops the tunnel, the tunnel     *)
(* HTTP API of this process, if it got its port, is the API of that         *)
(* manager, and EnsureTunnel, which polls t.tm without its lock, never      *)
(* finds a nil pointer there (tunnel.go:48, 131-178).                       *)
OneTunnelManager ==
  /\ updaters \ cancelled \subseteq {tm} \ {0}
  /\ cancelled = {} => api \in {0, tm}
  /\ cancelled = {} => ~panicked

(* What the comment of ensureManager says of the HTTP API ("starts the      *)
(* tunnel HTTP API so enrichWithTunnel can query it", tunnel.go:130) and    *)
(* the code does not keep (WdaClaims.cfg): the goroutine may not have       *)
(* listened yet, or may never, and another process may answer.              *)
ApiIsOurs == \A s \in Starts : pc[s] = "enrich" /\ tm # 0 /\ cancelled = {} => api = tm

(* StartWDA keeps the promise that DeviceManager relies on: a call that     *)
(* fails leaves no runner, whether the wait timed out or the runner died.   *)
Contract == INSTANCE RunnerContract
              WITH waiting <- {s \in Starts : pc[s] = "wait"},
                   handed <- {s \in Starts : pc[s] \in {"ready", "closed"}},
                   runners <- {s \in Starts : runner[s] = "running" /\ s \notin stopped}
ImplementsContract == Contract!Spec

(* Where a connect may hang for ever: in a call that waits for usbmuxd or   *)
(* for the phone, or for t.mu while another connect hangs in UpdateTunnels. *)
Held(s) ==
  \/ pc[s] \in {"update", "device", "start", "browse"}
  \/ pc[s] \in {"ensure", "forward"} /\ Updating

(* Nowhere else: every other connect returns, although the tunnel HTTP API  *)
(* and the runner never have to answer, whoever takes t.mu in between       *)
(* (tunnel.go:47-53, 110, 132; wda_process.go:106-110, 177-186).  A connect *)
(* never goes back, so to be at rest again and again is to be at rest.      *)
ConnectsReturn ==
  \A s \in Starts : []<>(pc[s] \in {"new"} \cup Returned \/ panicked) \/ <>[]Held(s)

(* No goroutine waits for ever to hand over its result: a cancelled runner  *)
(* and a late enrichment end although nobody listens any more.  Each sends  *)
(* once and a context stays cancelled, so again and again is for good.      *)
NoGoroutineLeft ==
  \A s \in Starts :
    /\ []<>(enricher[s] # "sending" \/ panicked)
    /\ []<>(s \notin stopped \/ runner[s] = "ended" \/ panicked)
=============================================================================
