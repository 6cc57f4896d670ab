------------------------------ MODULE AppControl ------------------------------
(* The app commands: AppManager (src/internal/core/app_manager.go), the     *)
(* go-ios driver under it (src/internal/driver/goios/app.go), WDA as the    *)
(* last resort, and check app-running (check.go).  A command is a chain of  *)
(* channels, each tried when the one before it reported an error; to kill   *)
(* is to list the processes and then to end one of them, while processes    *)
(* come and go on the phone and answers are lost.  Connection and mode are  *)
(* those of one device session; how they change is the matter of            *)
(* DaemonState.  A pid is not used again, and the order in which the phone  *)
(* lists its processes may be any.                                          *)
EXTENDS WdaClient, Sequences

CONSTANTS Requests,
          Kinds,       \* what is asked for, a subset of AllKinds
          Bundles,     \* bundle ids
          Execs,       \* executables, by their paths on the phone
          Main,        \* the executable of each bundle
          Matches,     \* for each way to list processes, <<bundle, executable>>: the
                       \* path contains the bundle id, or ends with it
          UserApps,    \* executables below /Bundle/Application/
          Name,        \* the name of each executable
          MaxProcs     \* bound: processes that ever run

AllKinds == {"launch", "kill", "install", "uninstall", "list", "foreground", "running"}
ASSUME KindsAssumption == Kinds \subseteq AllKinds
ASSUME AppsAssumption ==
  /\ UserApps \subseteq Execs /\ Main \in [Bundles -> UserApps]
  /\ Matches \in [{"appservice", "instruments"} -> SUBSET (Bundles \X Execs)]
  /\ MaxProcs \in Nat
  /\ \A e \in Execs : Name[e] \notin {"none", "ok", "error"}

VARIABLES
  connected, mode, \* the device session
  rsd,       \* entry.SupportsRsd(): a tunnel makes appservice available
  installed, \* the bundles on the phone
  procs,     \* the executables of the processes, by pid
  running,   \* the pids that have not ended
  kind, app, \* what each request asks for
  pc,        \* where it is: "begin", a channel it tries, or "done"
  listed,    \* the processes that the channel has listed, to kill one
  calls,     \* the channels that were tried, and whether they reported success
  result,    \* "none", "ok", "error", what Foreground returned, or a verdict
  did,       \* what the request has done to the phone (history)
  ended      \* the pids that ended in the request's time (history)

session == <<connected, mode, rsd>>
asked == <<kind, app>>
vars == <<session, installed, procs, running, asked, pc, listed, calls, result, did, ended>>

Channels == {"appservice", "instruments", "wda", "device"}
Pids == 1 .. MaxProcs
Names == {Name[e] : e \in Execs}
Deeds == {"start", "kill"} \X Pids \cup {"stop", "install", "uninstall"} \X Bundles

AppTypeOK ==
  /\ connected \in BOOLEAN /\ mode \in {"full", "degraded", "unset"} /\ rsd \in BOOLEAN
  /\ installed \subseteq Bundles
  /\ procs \in Seq(Execs) /\ Len(procs) <= MaxProcs /\ running \subseteq DOMAIN procs
  /\ kind \in [Requests -> Kinds] /\ app \in [Requests -> Bundles]
  /\ pc \in [Requests -> {"begin", "done"} \cup Channels]
  /\ listed \in [Requests -> SUBSET Pids]
  /\ calls \in [Requests -> Seq(Channels \X BOOLEAN)]
  /\ result \in [Requests -> {"none", "ok", "error", "pass", "fail"} \cup Names]
  /\ did \in [Requests -> SUBSET Deeds]
  /\ ended \in [Requests -> SUBSET Pids]

Init ==
  /\ connected \in BOOLEAN /\ rsd \in BOOLEAN
  /\ mode \in IF connected THEN {"full", "degraded"} ELSE {"unset"}
  /\ installed = Bundles
  /\ procs \in UNION {[1 .. n -> Execs] : n \in 0 .. MaxProcs} /\ running = DOMAIN procs
  /\ kind \in [Requests -> Kinds] /\ app \in [Requests -> Bundles]
  /\ pc = [r \in Requests |-> "begin"]
  /\ listed = [r \in Requests |-> {}]
  /\ calls = [r \in Requests |-> <<>>]
  /\ result = [r \in Requests |-> "none"]
  /\ did = [r \in Requests |-> {}]
  /\ ended = [r \in Requests |-> {}]

-----------------------------------------------------------------------------
(* The phone.                                                               *)

Active(r) == pc[r] \notin {"begin", "done"}
End(pids) ==
  /\ running' = running \ pids
  /\ ended' = [r \in Requests |-> IF Active(r) THEN ended[r] \cup (pids \cap running) ELSE ended[r]]

ProcEnds ==
  /\ \E pid \in running : End({pid})
  /\ UNCHANGED <<session, installed, procs, asked, pc, listed, calls, result, did>>

ProcStarts ==
  /\ Len(procs) < MaxProcs
  /\ \E e \in Execs : procs' = Append(procs, e)
  /\ running' = running \cup {Len(procs')}
  /\ UNCHANGED <<session, installed, asked, pc, listed, calls, result, did, ended>>
-----------------------------------------------------------------------------
(* A request.                                                               *)

Finish(r, value) == pc' = [pc EXCEPT ![r] = "done"] /\ result' = [result EXCEPT ![r] = value]
Goto(r, p) == pc' = [pc EXCEPT ![r] = p] /\ UNCHANGED result
Called(r, success) == calls' = [calls EXCEPT ![r] = Append(@, <<pc[r], success>>)]
Does(r, deed) == did' = [did EXCEPT ![r] = @ \cup {deed}]

\* Mutant: WDA is tried whatever the mode.
NextChannelAnyMode(r) ==
  CASE pc[r] = "appservice" -> "instruments"
    [] pc[r] # "wda" /\ kind[r] \in {"launch", "kill"} -> "wda"
    [] OTHER -> "done"

(* The fallbacks of Launch, Kill and ForegroundApp, and those of AppManager.*)
NextChannel(r) ==
  CASE pc[r] = "appservice" -> "instruments"
    [] pc[r] # "wda" /\ kind[r] \in {"launch", "kill"} /\ mode = "full" -> "wda"
    [] OTHER -> "done"

Fail(r) ==
  /\ Called(r, FALSE)
  /\ IF NextChannel(r) = "done" THEN Finish(r, "error") ELSE Goto(r, NextChannel(r))

Succeed(r) == Called(r, TRUE) /\ Finish(r, "ok")

(* requireConnected and GetDevice.  Only the Checker asks without a device; *)
(* go-ios then takes the first phone there is.                              *)
Begin(r) ==
  /\ pc[r] = "begin"
  /\ IF ~connected /\ kind[r] # "running" THEN Finish(r, "error")
     ELSE \/ Goto(r, IF kind[r] \in {"install", "uninstall", "list"} THEN "device"
                     ELSE IF rsd THEN "appservice" ELSE "instruments")
          \/ IF kind[r] \in {"launch", "kill"} /\ mode = "full" THEN Goto(r, "wda")
             ELSE Finish(r, "error")
  /\ UNCHANGED <<session, installed, procs, running, asked, listed, calls, did, ended>>

(* The app comes up, in a new process unless it has one.                    *)
Starts(r) ==
  LET e == Main[app[r]]
      old == {pid \in running : procs[pid] = e}
  IN  /\ app[r] \in installed
      /\ \/ \E pid \in old : Does(r, <<"start", pid>>) /\ UNCHANGED <<procs, running>>
         \/ /\ old = {} /\ Len(procs) < MaxProcs
            /\ procs' = Append(procs, e) /\ running' = running \cup {Len(procs')}
            /\ Does(r, <<"start", Len(procs')>>)

(* LaunchApp of appservice or instruments: it happens and the answer comes, *)
(* it happens and the answer is lost, or it does not happen.                *)
Launch(r) ==
  /\ kind[r] = "launch" /\ pc[r] \in {"appservice", "instruments"}
  /\ \/ Starts(r) /\ Succeed(r)
     \/ Starts(r) /\ Fail(r)
     \/ Fail(r) /\ UNCHANGED <<procs, running, did>>
  /\ UNCHANGED <<session, installed, asked, listed, ended>>

Match(r, pid) == <<app[r], procs[pid]>> \in Matches[pc[r]]

(* ListProcesses and ProcessList, of whatever runs.                         *)
List(r) ==
  /\ kind[r] = "kill" /\ pc[r] \in {"appservice", "instruments"} /\ listed[r] = {}
  /\ \/ /\ \E pid \in running : Match(r, pid)
        /\ listed' = [listed EXCEPT ![r] = running]
        /\ UNCHANGED <<calls, pc, result>>
     \/ Fail(r) /\ UNCHANGED listed
  /\ UNCHANGED <<session, installed, procs, running, asked, did, ended>>

(* KillProcess of a listed process whose path contains the bundle id; of a  *)
(* process that has ended, nothing is known.                                *)
KillListed(r) ==
  /\ pc[r] \in {"appservice", "instruments"} /\ listed[r] # {}
  /\ listed' = [listed EXCEPT ![r] = {}]
  /\ \/ \E pid \in listed[r] :
          /\ Match(r, pid)
          /\ End({pid}) /\ Does(r, <<"kill", pid>>)
          /\ Succeed(r) \/ Fail(r)
     \/ Fail(r) /\ UNCHANGED <<running, ended, did>>
  /\ UNCHANGED <<session, installed, procs, asked>>

(* LaunchApp and KillApp of WDA, which answers with a success or a failure; *)
(* the answer may be lost.                                                  *)
AskWda(r) ==
  /\ pc[r] = "wda"
  /\ \E a \in {Success, Failure, NoAnswer} :
       /\ IF CheckResponse(a) THEN Succeed(r) ELSE Fail(r)
       /\ \/ /\ a # Failure /\ kind[r] = "launch" /\ Starts(r)
             /\ UNCHANGED ended
          \/ /\ a # Failure /\ kind[r] = "kill" /\ Does(r, <<"stop", app[r]>>)
             /\ End({pid \in running : procs[pid] = Main[app[r]]})
             /\ UNCHANGED procs
          \/ a # Success /\ UNCHANGED <<procs, running, ended, did>>
  /\ UNCHANGED <<session, installed, asked, listed>>

(* Install, Uninstall and ListApps: one call of go-ios.                     *)
AskDevice(r) ==
  /\ pc[r] = "device"
  /\ \/ /\ kind[r] # "list"
        /\ Does(r, <<kind[r], app[r]>>)
        /\ installed' = IF kind[r] = "install" THEN installed \cup {app[r]}
                        ELSE installed \ {app[r]}
        /\ Succeed(r) \/ Fail(r)
     \/ kind[r] = "list" /\ Succeed(r) /\ UNCHANGED <<installed, did>>
     \/ Fail(r) /\ UNCHANGED <<installed, did>>
  /\ UNCHANGED <<session, procs, running, asked, listed, ended>>

(* ForegroundApp: the name of the first listed process that is a user's app;*)
(* for AppRunning it is compared with the bundle id.                        *)
Foreground(r) ==
  /\ kind[r] \in {"foreground", "running"} /\ pc[r] \in {"appservice", "instruments"}
  /\ \/ \E pid \in running :
          /\ procs[pid] \in UserApps
          /\ Called(r, TRUE)
          /\ LET name == Name[procs[pid]] IN
             Finish(r, IF kind[r] = "foreground" THEN name
                       ELSE IF name = app[r] THEN "pass" ELSE "fail")
     \/ Fail(r)
  /\ UNCHANGED <<session, installed, procs, running, asked, listed, did, ended>>

Next ==
  \/ ProcEnds \/ ProcStarts
  \/ \E r \in Requests :
       \/ Begin(r) \/ Launch(r) \/ List(r) \/ KillListed(r)
       \/ AskWda(r) \/ AskDevice(r) \/ Foreground(r)

AppSpec == Init /\ [][Next]_vars
-----------------------------------------------------------------------------
Named(r, pid) == \E c \in DOMAIN Matches : <<app[r], procs[pid]>> \in Matches[c]

(* A launch that reports success has brought the app up, and a kill that    *)
(* does has been followed by the end of a process whose path names the app, *)
(* or by WDA's word: an error status is never taken for success and no      *)
(* answer is (app_manager.go:52-75, client.go:305-322).  And no process is  *)
(* killed whose path does not name the app, although the list it is chosen  *)
(* from is old by then (app.go:189-195, 263-269).                           *)
OkMeansDone ==
  \A r \in Requests :
    /\ result[r] = "ok" =>
         CASE kind[r] = "launch" ->
                \E pid \in Pids : <<"start", pid>> \in did[r] /\ procs[pid] = Main[app[r]]
           [] kind[r] = "kill" ->
                <<"stop", app[r]>> \in did[r] \/ \E pid \in ended[r] : Named(r, pid)
           [] kind[r] \in {"install", "uninstall"} -> <<kind[r], app[r]>> \in did[r]
           [] OTHER -> TRUE
    /\ \A pid \in Pids : <<"kill", pid>> \in did[r] => Named(r, pid)

(* The channels are tried in their order, each after an error of the one    *)
(* before it; an error of the command means that all of them failed, and    *)
(* without full mode WDA is not asked (app_manager.go:57-75, 86-104).        *)
Rank == [c \in Channels |-> CASE c = "wda" -> 3 [] c = "instruments" -> 2 [] OTHER -> 1]
FallbackInOrder ==
  \A r \in Requests :
    LET tried == {calls[r][i][1] : i \in DOMAIN calls[r]} IN
    /\ \A i, j \in DOMAIN calls[r] : i < j => Rank[calls[r][i][1]] < Rank[calls[r][j][1]] /\ ~calls[r][i][2]
    /\ mode # "full" => "wda" \notin tried
    /\ result[r] = "error" /\ kind[r] \in {"launch", "kill"} /\ mode = "full" => "wda" \in tried
    /\ result[r] # "none" /\ calls[r] # <<>> => (calls[r][Len(calls[r])][2] <=> result[r] # "error")
-----------------------------------------------------------------------------
(* Claims that the code does not keep.                                      *)

(* "AppRunning checks whether bundleID is the foreground application.       *)
(* pass=true if it is" (check.go:127-128).                                  *)
AppRunningDetects ==
  \A r \in Requests :
    kind[r] = "running" /\ result[r] = "fail" =>
      \/ ended[r] # {}
      \/ \E pid \in running : procs[pid] \in UserApps /\ procs[pid] # Main[app[r]]

(* "Kill stops the application identified by bundleID" (app_manager.go:79). *)
KillStopsTheApp ==
  \A r \in Requests :
    kind[r] = "kill" /\ result[r] = "ok" =>
      <<"stop", app[r]>> \in did[r] \/ \E pid \in ended[r] : procs[pid] = Main[app[r]]

(* A launch whose answer was lost is not repeated by another channel.       *)
LaunchOnce ==
  \A r \in Requests : kind[r] = "launch" =>
    \A p, q \in Pids : <<"start", p>> \in did[r] /\ <<"start", q>> \in did[r] => p = q
=============================================================================
