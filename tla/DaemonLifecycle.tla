--------------------------- MODULE DaemonLifecycle ---------------------------
(* The life of ios-pilot daemon processes and of the CLI processes that     *)
(* start, use and stop them: runDaemonServe and ensureDaemon                *)
(* (src/internal/cli/root.go), the daemon subcommands (daemon_cmd.go), the  *)
(* PID file, lock and idle timer (src/internal/daemon/lifecycle.go) and the *)
(* server's Start, Stop, acceptLoop and handleConn (daemon/server.go).      *)
(*                                                                          *)
(* All processes share three files of the configuration directory: the      *)
(* flock'ed lock file, the PID file and the socket.  A daemon runs a main   *)
(* goroutine, an accept loop, one goroutine per connection and one goroutine*)
(* per expiry of the idle timer; each step below is one system call or one  *)
(* use of shared state of one of them.                                      *)
EXTENDS Naturals, FiniteSets

CONSTANTS Daemons,    \* daemon processes; each is used once (no PID is reused)
          Clients,    \* CLI processes; each runs one command
          Commands,   \* the commands the CLI processes may run
          Fires,      \* expiries of one daemon's idle timer (bounds their number)
          MaxPolls,   \* dial attempts after a fork (50 in the code)
          MaxCrashes, \* bound: how often a daemon is killed or terminated from outside
          None        \* no process

AllCommands == {"call", "follow", "status", "stop", "crashlist"}

ASSUME NoneAssumption == None \notin Daemons
ASSUME CommandsAssumption == Commands \subseteq AllCommands
ASSUME BoundsAssumption == MaxPolls \in Nat /\ MaxCrashes \in Nat
ASSUME FiresAssumption == "main" \notin Fires

VARIABLES
  lock,      \* the process holding the flock, or None
  pidFile,   \* the process named by the PID file; None: absent or unreadable
  sockFile,  \* the process whose socket is bound to the socket path, or None
  dpc,       \* main goroutine of each daemon
  lis,       \* listening socket of each daemon: "none", "open", "closed"
  timer,     \* idle timer of each daemon: "off", "armed"
  stop,      \* progress of each call of Server.Stop in each daemon
  sig,       \* a SIGTERM waits in sigCh
  crashes,   \* kills from outside so far
  cpc,       \* each CLI process
  cmd,       \* the command it runs
  tries,     \* dial attempts made since it forked a daemon
  target,    \* the process it read from the PID file
  srv,       \* the daemon at the other end of its connection
  sess,      \* that connection as the daemon sees it
  pending    \* a request line waits in it

files == <<lock, pidFile, sockFile>>
daemon == <<dpc, lis, timer, stop, sig, crashes>>
client == <<cpc, cmd, tries, target>>
conn == <<srv, sess, pending>>
vars == <<lock, pidFile, sockFile, dpc, lis, timer, stop, sig, crashes,
          cpc, cmd, tries, target, srv, sess, pending>>

(* Server.Stop is called by the main goroutine and by every idle expiry. *)
Stoppers == {"main"} \cup Fires
-----------------------------------------------------------------------------
(* Main goroutine: where each defer and each early return leads.            *)
(*   lock -> timer -> pid -> unlink -> listen -> publish -> notify -> serve *)
(*        -> stopping -> rmpid -> unlock -> exit -> gone                    *)
DaemonPC == {"unused", "lock", "timer", "pid", "unlink", "listen", "publish",
             "notify", "serve", "stopping", "rmpid", "unlock", "exit", "gone"}

(* A process that exists, and one whose main goroutine is between           *)
(* AcquireLock and ReleaseLock.                                             *)
Alive(d) == dpc[d] \notin {"unused", "gone"}
Locked(d) == Alive(d) /\ dpc[d] \notin {"lock", "exit"}

(* The PID file was written and its removal is still to come.               *)
Recorded(d) == Locked(d) /\ dpc[d] \notin {"timer", "pid", "unlock"}

(* s.listener is set, so that Stop closes the listener.                     *)
Published(d) == lis[d] # "none" /\ dpc[d] # "publish"

(* signal.Notify has run: SIGTERM no longer kills the process.              *)
Notified(d) == dpc[d] \in {"serve", "stopping", "rmpid", "unlock", "exit"}

(* A connection counts in the server's WaitGroup from its registration on.  *)
Active(c) == sess[c] \in {"reading", "handling"}

(* The CLI process still has its end of the connection open.                *)
ClientOpen(c) == cpc[c] \in {"send", "await", "pause"}

Finished == {"answered", "failed", "stopped", "signalled"}
ClientPC == {"new", "check", "readpid", "kill", "cleanup", "dial", "fork", "poll",
             "send", "await", "pause"} \cup Finished

TypeOK ==
  /\ lock \in Daemons \cup {None}
  /\ pidFile \in Daemons \cup {None}
  /\ sockFile \in Daemons \cup {None}
  /\ dpc \in [Daemons -> DaemonPC]
  /\ lis \in [Daemons -> {"none", "open", "closed"}]
  /\ timer \in [Daemons -> {"off", "armed"}]
  /\ stop \in [Daemons -> [Stoppers -> {"idle", "close", "wait", "remove", "done"}]]
  /\ sig \in [Daemons -> BOOLEAN]
  /\ crashes \in 0 .. MaxCrashes
  /\ cpc \in [Clients -> ClientPC]
  /\ cmd \in [Clients -> Commands \cup {"none"}]
  /\ tries \in [Clients -> 0 .. MaxPolls]
  /\ target \in [Clients -> Daemons \cup {None}]
  /\ srv \in [Clients -> Daemons \cup {None}]
  /\ sess \in [Clients -> {"none", "backlog", "accepted", "reading", "handling", "closed"}]
  /\ pending \in [Clients -> BOOLEAN]

Init ==
  /\ lock = None /\ pidFile = None /\ sockFile = None
  /\ dpc = [d \in Daemons |-> "unused"]
  /\ lis = [d \in Daemons |-> "none"]
  /\ timer = [d \in Daemons |-> "off"]
  /\ stop = [d \in Daemons |-> [s \in Stoppers |-> "idle"]]
  /\ sig = [d \in Daemons |-> FALSE]
  /\ crashes = 0
  /\ cpc = [c \in Clients |-> "new"]
  /\ cmd = [c \in Clients |-> "none"]
  /\ tries = [c \in Clients |-> 0]
  /\ target = [c \in Clients |-> None]
  /\ srv = [c \in Clients |-> None]
  /\ sess = [c \in Clients |-> "none"]
  /\ pending = [c \in Clients |-> FALSE]

Goto(d, pc) == dpc' = [dpc EXCEPT ![d] = pc]
CGoto(c, pc) == cpc' = [cpc EXCEPT ![c] = pc]
-----------------------------------------------------------------------------
(* The end of a process, however it comes: the kernel releases its flock    *)
(* and closes its sockets, its goroutines are gone, its files stay.         *)
Die(d) ==
  /\ Goto(d, "gone")
  /\ lock' = IF lock = d THEN None ELSE lock
  /\ lis' = [lis EXCEPT ![d] = IF @ = "open" THEN "closed" ELSE @]
  /\ timer' = [timer EXCEPT ![d] = "off"]
  /\ stop' = [stop EXCEPT ![d] = [s \in Stoppers |-> "idle"]]
  /\ sig' = [sig EXCEPT ![d] = FALSE]
  /\ sess' = [c \in Clients |-> IF srv[c] = d THEN "closed" ELSE sess[c]]
  /\ UNCHANGED <<pidFile, sockFile, srv, pending>>

(* kill -9, power loss, an unrelated panic. *)
Crash(d) ==
  /\ Alive(d) /\ crashes < MaxCrashes
  /\ crashes' = crashes + 1
  /\ Die(d)
  /\ UNCHANGED client

(* SIGTERM or SIGINT from elsewhere, a logout or Ctrl-C.  Before Notify it  *)
(* is a crash, and after the first one nobody reads the channel.            *)
Terminate(d) ==
  /\ dpc[d] = "serve" /\ crashes < MaxCrashes
  /\ crashes' = crashes + 1
  /\ sig' = [sig EXCEPT ![d] = TRUE]
  /\ UNCHANGED <<files, dpc, lis, timer, stop, client, conn>>

\* Mutant: LOCK_SH instead of LOCK_EX.
AcquireShared(d) ==
  /\ dpc[d] = "lock"
  /\ lock' = d /\ Goto(d, "timer")
  /\ UNCHANGED <<pidFile, sockFile, lis, timer, stop, sig, crashes, client, conn>>

(* The lock file cannot be opened, or another process holds the lock.       *)
AcquireLock(d) ==
  /\ dpc[d] = "lock"
  /\ \/ lock = None /\ lock' = d /\ Goto(d, "timer")
     \/ lock' = lock /\ Goto(d, "exit")
  /\ UNCHANGED <<pidFile, sockFile, lis, timer, stop, sig, crashes, client, conn>>

(* NewIdleTimer starts the countdown before the server is even listening.   *)
StartTimer(d) ==
  /\ dpc[d] = "timer"
  /\ Goto(d, "pid")
  /\ timer' = [timer EXCEPT ![d] = "armed"]
  /\ UNCHANGED <<files, lis, stop, sig, crashes, client, conn>>

WritePIDFile(d) ==
  /\ dpc[d] = "pid"
  /\ \/ pidFile' = d /\ Goto(d, "unlink")
     \/ pidFile' = pidFile /\ Goto(d, "unlock")    \* write error
  /\ UNCHANGED <<lock, sockFile, lis, timer, stop, sig, crashes, client, conn>>

RemoveStaleSocket(d) ==
  /\ dpc[d] = "unlink"
  /\ Goto(d, "listen")
  /\ sockFile' = None
  /\ UNCHANGED <<lock, pidFile, lis, timer, stop, sig, crashes, client, conn>>

(* bind fails when the path exists, and may fail for other reasons.         *)
Listen(d) ==
  /\ dpc[d] = "listen"
  /\ \/ /\ sockFile = None
        /\ sockFile' = d
        /\ lis' = [lis EXCEPT ![d] = "open"]
        /\ Goto(d, "publish")
     \/ Goto(d, "rmpid") /\ UNCHANGED <<sockFile, lis>>
  /\ UNCHANGED <<lock, pidFile, timer, stop, sig, crashes, client, conn>>

(* s.listener = ln; go s.acceptLoop(ln) *)
Publish(d) ==
  /\ dpc[d] = "publish"
  /\ Goto(d, "notify")
  /\ UNCHANGED <<files, lis, timer, stop, sig, crashes, client, conn>>

NotifySignals(d) ==
  /\ dpc[d] = "notify"
  /\ Goto(d, "serve")
  /\ UNCHANGED <<files, lis, timer, stop, sig, crashes, client, conn>>

(* <-sigCh, then idleTimer.Stop(), and on to srv.Stop().                    *)
GotSignal(d) ==
  /\ dpc[d] = "serve" /\ sig[d]
  /\ Goto(d, "stopping")
  /\ sig' = [sig EXCEPT ![d] = FALSE]
  /\ timer' = [timer EXCEPT ![d] = "off"]
  /\ stop' = [stop EXCEPT ![d]["main"] = "close"]
  /\ UNCHANGED <<files, lis, crashes, client, conn>>

RemovePIDFile(d) ==
  /\ dpc[d] = "rmpid"
  /\ Goto(d, "unlock")
  /\ pidFile' = None
  /\ UNCHANGED <<lock, sockFile, lis, timer, stop, sig, crashes, client, conn>>

ReleaseLock(d) ==
  /\ dpc[d] = "unlock"
  /\ Goto(d, "exit")
  /\ lock' = None
  /\ UNCHANGED <<pidFile, sockFile, lis, timer, stop, sig, crashes, client, conn>>

Exit(d) ==
  /\ dpc[d] = "exit"
  /\ Die(d)
  /\ UNCHANGED <<crashes, client>>
-----------------------------------------------------------------------------
(* Server.Stop, run by the main goroutine or by an idle expiry s.           *)

(* The idle timer expires: onExpire runs srv.Stop() in a goroutine of its   *)
(* own.  Nothing in it wakes the main goroutine.                            *)
Fire(d, s) ==
  /\ Alive(d) /\ timer[d] = "armed"
  /\ s \in Fires /\ stop[d][s] = "idle"
  /\ timer' = [timer EXCEPT ![d] = "off"]
  /\ stop' = [stop EXCEPT ![d][s] = "close"]
  /\ UNCHANGED <<files, dpc, lis, sig, crashes, client, conn>>

\* Mutant: Stop does not close the listener.
StopKeepsListening(d, s) ==
  /\ stop[d][s] = "close"
  /\ stop' = [stop EXCEPT ![d][s] = "wait"]
  /\ UNCHANGED <<files, dpc, lis, timer, sig, crashes, client, conn>>

\* Mutant: connections nobody accepted are left open.
StopForgetsBacklog(d, s) ==
  /\ stop[d][s] = "close"
  /\ stop' = [stop EXCEPT ![d][s] = "wait"]
  /\ IF Published(d) /\ lis[d] = "open"
       THEN lis' = [lis EXCEPT ![d] = "closed"] /\ sockFile' = None
       ELSE UNCHANGED <<lis, sockFile>>
  /\ UNCHANGED <<lock, pidFile, dpc, timer, sig, crashes, client, conn>>

(* Close of a unix listener unlinks its path (the first time only), and the *)
(* connections that nobody accepted are reset.                              *)
StopClose(d, s) ==
  /\ stop[d][s] = "close"
  /\ stop' = [stop EXCEPT ![d][s] = "wait"]
  /\ IF Published(d) /\ lis[d] = "open"
       THEN /\ lis' = [lis EXCEPT ![d] = "closed"]
            /\ sockFile' = None
            /\ sess' = [c \in Clients |->
                          IF srv[c] = d /\ sess[c] = "backlog" THEN "closed" ELSE sess[c]]
       ELSE UNCHANGED <<lis, sockFile, sess>>
  /\ UNCHANGED <<lock, pidFile, dpc, timer, sig, crashes, client, srv, pending>>

\* Mutant: Stop does not wait for the connections.
StopSkipsWait(d, s) ==
  /\ stop[d][s] = "wait"
  /\ stop' = [stop EXCEPT ![d][s] = "remove"]
  /\ UNCHANGED <<files, dpc, lis, timer, sig, crashes, client, conn>>

(* s.wg.Wait() *)
StopWait(d, s) ==
  /\ stop[d][s] = "wait"
  /\ \A c \in Clients : srv[c] = d => ~Active(c)
  /\ stop' = [stop EXCEPT ![d][s] = "remove"]
  /\ UNCHANGED <<files, dpc, lis, timer, sig, crashes, client, conn>>

\* Mutant: an early return skips the deferred RemovePIDFile.
StopSkipsDefer(d, s) ==
  /\ stop[d][s] = "remove"
  /\ stop' = [stop EXCEPT ![d][s] = "done"]
  /\ sockFile' = None
  /\ dpc' = IF s = "main" THEN [dpc EXCEPT ![d] = "unlock"] ELSE dpc
  /\ UNCHANGED <<lock, pidFile, lis, timer, sig, crashes, client, conn>>

(* os.Remove(s.sockPath), whoever's socket is bound there; when main's call *)
(* returns, runDaemonServe returns.                                         *)
StopRemove(d, s) ==
  /\ stop[d][s] = "remove"
  /\ stop' = [stop EXCEPT ![d][s] = "done"]
  /\ sockFile' = None
  /\ dpc' = IF s = "main" THEN [dpc EXCEPT ![d] = "rmpid"] ELSE dpc
  /\ UNCHANGED <<lock, pidFile, lis, timer, sig, crashes, client, conn>>
-----------------------------------------------------------------------------
(* The accept loop and the connection goroutines of the daemon srv[c].      *)

Accepting(d) ==
  /\ Alive(d) /\ lis[d] = "open" /\ Published(d)
  /\ \A c \in Clients : srv[c] = d => sess[c] # "accepted"

Accept(c) ==
  /\ sess[c] = "backlog" /\ Accepting(srv[c])
  /\ sess' = [sess EXCEPT ![c] = "accepted"]
  /\ UNCHANGED <<files, daemon, client, srv, pending>>

(* s.wg.Add(1); go handleConn: a step of its own after Accept returned.     *)
Register(c) ==
  /\ sess[c] = "accepted"
  /\ sess' = [sess EXCEPT ![c] = "reading"]
  /\ UNCHANGED <<files, daemon, client, srv, pending>>

(* scanner.Scan returns a line; the timer is reset on each request, stopped *)
(* or expired as it may be.                                                 *)
ReadRequest(c) ==
  /\ sess[c] = "reading" /\ pending[c]
  /\ pending' = [pending EXCEPT ![c] = FALSE]
  /\ sess' = [sess EXCEPT ![c] = "handling"]
  /\ timer' = [timer EXCEPT ![srv[c]] = "armed"]
  /\ UNCHANGED <<files, dpc, lis, stop, sig, crashes, client, srv>>

(* dispatch and enc.Encode: the answer reaches a client that still waits,   *)
(* the write fails and ends the goroutine when the client has gone.         *)
Respond(c) ==
  /\ sess[c] = "handling" /\ cmd[c] # "crashlist"
  /\ IF ClientOpen(c)
       THEN /\ sess' = [sess EXCEPT ![c] = "reading"]
            /\ CGoto(c, IF cmd[c] = "follow" THEN "pause" ELSE "answered")
       ELSE /\ sess' = [sess EXCEPT ![c] = "closed"]
            /\ UNCHANGED cpc
  /\ UNCHANGED <<files, daemon, cmd, tries, target, srv, pending>>

(* log.crash.list calls a method of LogManager's crash driver, which        *)
(* runDaemonServe leaves nil: the panic ends the whole process.             *)
HandlerPanics(c) ==
  /\ sess[c] = "handling" /\ cmd[c] = "crashlist"
  /\ Die(srv[c])
  /\ UNCHANGED <<crashes, client>>

\* Mutant: handleConn returns only after another request.
ReadMissesEOF(c) ==
  /\ sess[c] = "reading" /\ pending[c] /\ ~ClientOpen(c)
  /\ sess' = [sess EXCEPT ![c] = "closed"]
  /\ UNCHANGED <<files, daemon, client, srv, pending>>

(* The client's end is closed and nothing is left to read.                  *)
ReadEOF(c) ==
  /\ sess[c] = "reading" /\ ~pending[c] /\ ~ClientOpen(c)
  /\ sess' = [sess EXCEPT ![c] = "closed"]
  /\ UNCHANGED <<files, daemon, client, srv, pending>>
-----------------------------------------------------------------------------
(* CLI processes.                                                           *)

Launch(c, k) ==
  /\ cpc[c] = "new"
  /\ cmd' = [cmd EXCEPT ![c] = k]
  /\ CGoto(c, CASE k = "status" -> "check" [] k = "stop" -> "readpid" [] OTHER -> "dial")
  /\ UNCHANGED <<files, daemon, tries, target, conn>>

(* cmdDaemonStatus: daemon.IsRunning on the PID file, then ensureDaemon.    *)
CheckRunning(c) ==
  /\ cpc[c] = "check"
  /\ target' = [target EXCEPT ![c] = pidFile]
  /\ CGoto(c, IF pidFile # None /\ Alive(pidFile) THEN "dial" ELSE "stopped")
  /\ UNCHANGED <<files, daemon, cmd, tries, conn>>

(* cmdDaemonStop: ReadPID, then kill, then removal of a stale PID file.     *)
ReadPID(c) ==
  /\ cpc[c] = "readpid"
  /\ target' = [target EXCEPT ![c] = pidFile]
  /\ CGoto(c, IF pidFile # None THEN "kill" ELSE "stopped")
  /\ UNCHANGED <<files, daemon, cmd, tries, conn>>

(* SIGTERM kills a process that has not called signal.Notify yet; later it  *)
(* waits in sigCh, whose one slot drops a second one.                       *)
Kill(c) ==
  LET d == target[c] IN
  /\ cpc[c] = "kill"
  /\ CGoto(c, IF Alive(d) THEN "signalled" ELSE "cleanup")
  /\ IF ~Alive(d)
       THEN UNCHANGED <<lock, pidFile, sockFile, dpc, lis, timer, stop, sig, conn>>
       ELSE IF Notified(d)
         THEN /\ sig' = [sig EXCEPT ![d] = TRUE]
              /\ UNCHANGED <<files, dpc, lis, timer, stop, conn>>
         ELSE Die(d)
  /\ UNCHANGED <<crashes, cmd, tries, target>>

CleanUpPIDFile(c) ==
  /\ cpc[c] = "cleanup"
  /\ CGoto(c, "failed")
  /\ pidFile' = None
  /\ UNCHANGED <<lock, sockFile, daemon, cmd, tries, target, conn>>

(* connect(2) succeeds when a process listens on the socket bound there.    *)
Reachable == sockFile # None /\ lis[sockFile] = "open"

Connect(c) ==
  /\ CGoto(c, "send")
  /\ srv' = [srv EXCEPT ![c] = sockFile]
  /\ sess' = [sess EXCEPT ![c] = "backlog"]
  /\ UNCHANGED <<tries, pending>>

(* ensureDaemon's first client.Dial. *)
Dial(c) ==
  /\ cpc[c] = "dial"
  /\ IF Reachable THEN Connect(c) ELSE CGoto(c, "fork") /\ UNCHANGED <<tries, conn>>
  /\ UNCHANGED <<files, daemon, cmd, target>>

(* startDaemonProcess *)
Fork(c) ==
  /\ cpc[c] = "fork"
  /\ \/ \E d \in Daemons : dpc[d] = "unused" /\ Goto(d, "lock") /\ CGoto(c, "poll")
     \/ CGoto(c, "failed") /\ UNCHANGED dpc
  /\ UNCHANGED <<files, lis, timer, stop, sig, crashes, cmd, tries, target, conn>>

(* One round of the 100 ms poll loop of ensureDaemon.                       *)
Poll(c) ==
  /\ cpc[c] = "poll"
  /\ IF tries[c] = MaxPolls THEN CGoto(c, "failed") /\ UNCHANGED <<tries, conn>>
     ELSE IF Reachable THEN Connect(c)
     ELSE /\ tries' = [tries EXCEPT ![c] = @ + 1]
          /\ UNCHANGED <<cpc, conn>>
  /\ UNCHANGED <<files, daemon, cmd, target>>

(* Client.Call writes its request; on a reset connection the write fails.   *)
Send(c) ==
  /\ cpc[c] = "send"
  /\ IF sess[c] = "closed"
       THEN CGoto(c, "failed") /\ UNCHANGED pending
       ELSE CGoto(c, "await") /\ pending' = [pending EXCEPT ![c] = TRUE]
  /\ UNCHANGED <<files, daemon, cmd, tries, target, srv, sess>>

(* The read deadline of Client.Call passes.                                 *)
TimeOut(c) ==
  /\ cpc[c] = "await"
  /\ CGoto(c, "failed")
  /\ UNCHANGED <<files, daemon, cmd, tries, target, conn>>

(* Client.Call reads the end of the connection instead of a response.       *)
LostConnection(c) ==
  /\ cpc[c] = "await" /\ sess[c] = "closed"
  /\ CGoto(c, "failed")
  /\ UNCHANGED <<files, daemon, cmd, tries, target, conn>>

(* log --follow calls again after one second.                               *)
FollowAgain(c) ==
  /\ cpc[c] = "pause"
  /\ CGoto(c, "send")
  /\ UNCHANGED <<files, daemon, cmd, tries, target, conn>>

(* The user interrupts the command. *)
Interrupt(c) ==
  /\ ClientOpen(c)
  /\ CGoto(c, "failed")
  /\ UNCHANGED <<files, daemon, cmd, tries, target, conn>>
-----------------------------------------------------------------------------
MainStep(d) ==
  \/ AcquireLock(d) \/ StartTimer(d) \/ WritePIDFile(d) \/ RemoveStaleSocket(d)
  \/ Listen(d) \/ Publish(d) \/ NotifySignals(d) \/ GotSignal(d)
  \/ RemovePIDFile(d) \/ ReleaseLock(d) \/ Exit(d)

StopStep(d, s) == StopClose(d, s) \/ StopWait(d, s) \/ StopRemove(d, s)

ConnStep(c) ==
  \/ Accept(c) \/ Register(c) \/ ReadRequest(c) \/ Respond(c)
  \/ HandlerPanics(c) \/ ReadEOF(c)

ClientStep(c) ==
  \/ CheckRunning(c) \/ ReadPID(c) \/ Kill(c) \/ CleanUpPIDFile(c)
  \/ Dial(c) \/ Fork(c) \/ Poll(c) \/ Send(c) \/ FollowAgain(c) \/ LostConnection(c)

Next ==
  \/ \E d \in Daemons : MainStep(d) \/ Crash(d) \/ Terminate(d)
  \/ \E d \in Daemons, s \in Stoppers : StopStep(d, s) \/ Fire(d, s)
  \/ \E c \in Clients : ConnStep(c) \/ ClientStep(c) \/ TimeOut(c) \/ Interrupt(c)
  \/ \E c \in Clients, k \in Commands : Launch(c, k)

Spec == Init /\ [][Next]_vars

(* The scheduler runs every goroutine and every CLI process that can move,  *)
(* handlers return (the WDA client has a timeout, of the go-ios calls it is *)
(* assumed: one that hangs keeps its connection), and an armed timer expires*)
(* unless it is reset or stopped.  Nobody promises that a command is        *)
(* launched, interrupted, or that a process is killed.                      *)
Fairness ==
  /\ \A d \in Daemons : WF_vars(MainStep(d))
  /\ \A d \in Daemons, s \in Stoppers : WF_vars(StopStep(d, s)) /\ WF_vars(Fire(d, s))
  /\ \A c \in Clients : WF_vars(ConnStep(c)) /\ WF_vars(ClientStep(c))

FairSpec == Spec /\ Fairness
-----------------------------------------------------------------------------
(* Safety.                                                                  *)

(* The flock is held exactly while the main goroutine is between            *)
(* AcquireLock and ReleaseLock, and a listening socket is open only inside  *)
(* that section, so two daemons never serve at the same time ("Acquire lock *)
(* to prevent multiple daemons", root.go:205), crashes included.            *)
ListenerHoldsLock ==
  \A d \in Daemons : /\ Locked(d) <=> lock = d
                     /\ lis[d] = "open" => lock = d

(* From WritePIDFile to RemovePIDFile the PID file never names another      *)
(* process, so "daemon stop" cannot signal a wrong one; the file may be     *)
(* missing, when a stop command cleaned up after a process that had died.   *)
PidFileNamesServer ==
  \A d \in Daemons : Recorded(d) => pidFile \in {d, None}

(* While a daemon listens, the socket path leads to it or nowhere.          *)
SocketLeadsToServer ==
  \A d \in Daemons : lis[d] = "open" => sockFile \in {d, None}

(* A daemon that shut down by itself leaves neither its PID file nor its    *)
(* socket behind, whichever early return or defer it took.                  *)
CleanExit ==
  \A d \in Daemons : dpc[d] = "exit" => pidFile # d /\ sockFile # d

(* When main's Server.Stop has returned, at most one connection is still    *)
(* being served: one that had been accepted and not yet registered in the   *)
(* WaitGroup while Stop was waiting (server.go:91-96 against 82-85).        *)
Leftover(d) == {c \in Clients : srv[c] = d /\ (sess[c] = "accepted" \/ Active(c))}
StopLeavesAtMostOne ==
  \A d \in Daemons : stop[d]["main"] = "done" =>
    \A c1, c2 \in Leftover(d) : c1 = c2

(* Serving and the lock behave as the abstract single server: a process     *)
(* takes over only after the previous owner stopped serving or died.        *)
Single == INSTANCE SingleServer
            WITH owner <- lock, serving <- {d \in Daemons : lis[d] = "open"}
ImplementsSingleServer == Single!Spec

(* A daemon that listens can be reached under the socket path as long as no *)
(* idle expiry, its own or that of a predecessor, comes in between: start-up,*)
(* shutdown and crash of other daemons leave its socket alone (server.go:60,*)
(* 86; root.go:257).                                                        *)
SocketKept ==
  \A d \in Daemons : lis[d] = "open" /\ sockFile = d =>
    \/ lis'[d] # "open"
    \/ sockFile' = d
    \/ \E e \in Daemons, s \in Fires : stop[e][s] = "remove" /\ stop'[e][s] = "done"
SocketKeptWhileServing == [][SocketKept]_vars
-----------------------------------------------------------------------------
(* Claims of the documents that the code does not keep.                     *)

(* "socket file should exist while server is running" (server_test.go:96).  *)
SocketExistsWhileServing ==
  \A d \in Daemons : lis[d] = "open" => sockFile = d

(* Stop "waits for all active connections to finish" (server.go:75-76).     *)
StopDrains ==
  \A d \in Daemons : stop[d]["main"] = "done" => Leftover(d) = {}

(* "daemon status" reports that the daemon is not running only when it is   *)
(* not (design.md:377).                                                     *)
StatusTruthful ==
  [][\A c \in Clients : cpc[c] = "check" /\ cpc'[c] = "stopped" =>
       ~ \E d \in Daemons : dpc[d] = "serve" /\ lis[d] = "open"]_vars

(* A request cannot end a serving daemon: a process whose main goroutine    *)
(* waits for a signal dies only by a kill from outside.  "log crash" is     *)
(* documented to list crash reports (design.md:250-251).                    *)
RequestsSpareDaemon ==
  [][\A d \in Daemons : dpc[d] = "serve" /\ dpc'[d] = "gone" => crashes' > crashes]_vars

(* An idle daemon exits: "Timer expires -> ... Process exit"                *)
(* (design.md:445-450).                                                     *)
IdleDaemonExits ==
  \A d \in Daemons, s \in Fires : stop[d][s] = "done" ~> dpc[d] = "gone"
-----------------------------------------------------------------------------
(* Liveness.                                                                *)

(* "daemon stop" works: a daemon that received SIGTERM exits, whatever its  *)
(* connections are doing.  True of one-shot commands; a client that keeps   *)
(* calling (log --follow) keeps it alive.                                   *)
SignalledDaemonExits ==
  \A d \in Daemons : sig[d] ~> dpc[d] = "gone"

(* Every command but a following log ends by itself, without the read       *)
(* deadline: its daemon answers or the connection breaks.                   *)
CommandsFinish ==
  \A c \in Clients : (cmd[c] \notin {"none", "follow"}) ~> (cpc[c] \in Finished)
=============================================================================
