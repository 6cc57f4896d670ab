------------------------------- MODULE RpcSession -------------------------------
(* One connection between client.Client (src/internal/client/client.go) and *)
(* the daemon's goroutine that serves it (handleConn and dispatch,          *)
(* src/internal/daemon/server.go).  Requests and responses are lines; both  *)
(* sides read them with a bufio.Scanner of the default 64 KB, and a scanner *)
(* that has failed once never delivers another line.  Call compares no ids: *)
(* it takes the next line for the answer to its own request.                *)
EXTENDS Naturals, Sequences

CONSTANTS MaxCalls,  \* bound: calls made on the connection
          Kinds      \* the sizes of request and answer that occur

AllKinds == {"small", "bigRequest", "bigAnswer"}

ASSUME CallsAssumption == MaxCalls \in Nat
ASSUME KindsAssumption == Kinds \subseteq AllKinds

Calls == 1 .. MaxCalls

(* What a Call has returned besides the id in an answer. *)
Open == 0
Failed == MaxCalls + 1

VARIABLES
  nextID,   \* c.nextID: the id of the last request
  size,     \* the size of each request and of its answer
  cpc,      \* the client: "idle", "await" (in Scan), "closed"
  cscan,    \* the client's scanner: "ok", "dead"
  up,       \* request lines on their way, by id
  down,     \* response lines on their way, by id
  spc,      \* the server's goroutine: "reading", "handling", "closed"
  serving,  \* the id of the request it handles
  handled,  \* the ids of the requests handled (history)
  expired,  \* a read deadline has passed (history)
  result    \* what each Call returned: Open, Failed, or the id in its answer

client == <<nextID, size, cpc, cscan, result, expired>>
server == <<spc, serving, handled>>
vars == <<nextID, size, cpc, cscan, result, expired, up, down, spc, serving, handled>>

RpcTypeOK ==
  /\ nextID \in 0 .. MaxCalls
  /\ size \in [Calls -> AllKinds]
  /\ cpc \in {"idle", "await", "closed"} /\ cscan \in {"ok", "dead"}
  /\ up \in Seq(Calls) /\ down \in Seq(Calls) /\ handled \in Seq(Calls)
  /\ spc \in {"reading", "handling", "closed"}
  /\ serving \in 0 .. MaxCalls
  /\ expired \in BOOLEAN
  /\ result \in [Calls -> Calls \cup {Open, Failed}]

Init ==
  /\ nextID = 0 /\ size = [i \in Calls |-> "small"]
  /\ cpc = "idle" /\ cscan = "ok" /\ expired = FALSE
  /\ result = [i \in Calls |-> Open]
  /\ up = <<>> /\ down = <<>>
  /\ spc = "reading" /\ serving = 0 /\ handled = <<>>

Return(i, v) == result' = [result EXCEPT ![i] = v] /\ cpc' = "idle"
-----------------------------------------------------------------------------
(* The client: Call, which one goroutine at a time may run, and Close.      *)

(* The request gets an id and is written, unless the server has closed.     *)
Call(k) ==
  /\ cpc = "idle" /\ nextID < MaxCalls
  /\ nextID' = nextID + 1
  /\ size' = [size EXCEPT ![nextID'] = k]
  /\ IF spc = "closed"
       THEN Return(nextID', Failed) /\ UNCHANGED up
       ELSE up' = Append(up, nextID') /\ cpc' = "await" /\ UNCHANGED result
  /\ UNCHANGED <<cscan, expired, down, server>>

(* Scan finds a line.  One that exceeds its buffer makes it fail.           *)
Receive ==
  /\ cpc = "await" /\ cscan = "ok" /\ down # <<>>
  /\ down' = Tail(down)
  /\ IF size[Head(down)] = "bigAnswer"
       THEN Return(nextID, Failed) /\ cscan' = "dead"
       ELSE Return(nextID, Head(down)) /\ UNCHANGED cscan
  /\ UNCHANGED <<nextID, size, expired, up, server>>

\* Mutant: the scanner is usable after a deadline has passed.
TimeOutKeepsScanner ==
  /\ cpc = "await" /\ cscan = "ok"
  /\ Return(nextID, Failed) /\ expired' = TRUE
  /\ UNCHANGED <<nextID, size, cscan, up, down, server>>

\* Mutant: the deadline is set for the first call only.
TimeOutOnce ==
  /\ cpc = "await" /\ cscan = "ok" /\ nextID = 1
  /\ Return(nextID, Failed) /\ cscan' = "dead" /\ expired' = TRUE
  /\ UNCHANGED <<nextID, size, up, down, server>>

(* The read deadline passes, whether or not a line has just arrived.        *)
TimeOut ==
  /\ cpc = "await" /\ cscan = "ok"
  /\ Return(nextID, Failed) /\ cscan' = "dead" /\ expired' = TRUE
  /\ UNCHANGED <<nextID, size, up, down, server>>

(* A scanner that has failed fails at once, although the request was sent.  *)
ScanAgain ==
  /\ cpc = "await" /\ cscan = "dead"
  /\ Return(nextID, Failed)
  /\ UNCHANGED <<nextID, size, cscan, expired, up, down, server>>

(* "connection closed before response" *)
LostConnection ==
  /\ cpc = "await" /\ cscan = "ok" /\ down = <<>> /\ spc = "closed"
  /\ Return(nextID, Failed) /\ cscan' = "dead"
  /\ UNCHANGED <<nextID, size, expired, up, down, server>>

(* Close, or the end of the client's process inside Call. *)
Close ==
  /\ cpc \in {"idle", "await"} /\ cpc' = "closed"
  /\ UNCHANGED <<nextID, size, cscan, result, expired, up, down, server>>
-----------------------------------------------------------------------------
(* The server: handleConn reads one line, dispatches it and writes the      *)
(* response before it reads the next.                                       *)

\* Mutant: pending requests are taken latest first.
ReadLatest ==
  /\ spc = "reading" /\ up # <<>>
  /\ spc' = "handling" /\ serving' = up[Len(up)]
  /\ up' = SubSeq(up, 1, Len(up) - 1)
  /\ UNCHANGED <<client, down, handled>>

(* A line that exceeds the buffer ends the goroutine and the connection.    *)
ReadRequest ==
  /\ spc = "reading" /\ up # <<>>
  /\ up' = Tail(up)
  /\ IF size[Head(up)] = "bigRequest"
       THEN spc' = "closed" /\ UNCHANGED serving
       ELSE spc' = "handling" /\ serving' = Head(up)
  /\ UNCHANGED <<client, down, handled>>

(* dispatch answers with the id of the request, whether the method is known *)
(* or not and whether the handler fails or not.                             *)
Respond ==
  /\ spc = "handling"
  /\ handled' = Append(handled, serving)
  /\ IF cpc = "closed"
       THEN spc' = "closed" /\ UNCHANGED down
       ELSE spc' = "reading" /\ down' = Append(down, serving)
  /\ UNCHANGED <<client, up, serving>>

ReadEOF ==
  /\ spc = "reading" /\ up = <<>> /\ cpc = "closed"
  /\ spc' = "closed"
  /\ UNCHANGED <<client, up, down, serving, handled>>
-----------------------------------------------------------------------------
ClientStep == Receive \/ TimeOut \/ ScanAgain \/ LostConnection
ServerStep == ReadRequest \/ Respond \/ ReadEOF

Next ==
  \/ \E k \in Kinds : Call(k)
  \/ ClientStep \/ Close \/ ServerStep

Spec == Init /\ [][Next]_vars

(* The client's goroutine is scheduled and its deadline passes in the end;  *)
(* nothing is promised of the server, whose handlers may take for ever.     *)
FairSpec == Spec /\ WF_vars(ClientStep)
-----------------------------------------------------------------------------
(* What a Call returns is the answer to its own request: a late answer to a *)
(* call that timed out is never taken for the answer to a later one.        *)
AnswerMatchesCall == \A i \in Calls : result[i] \in {Open, Failed, i}

(* The requests are handled one by one, in the order of the calls and       *)
(* without a gap, those of calls that have failed by then included.         *)
HandledInOrder == \A n \in DOMAIN handled : handled[n] = n

(* Every Call returns, also when the handler never does ("so we never block *)
(* forever", client.go:64).                                                 *)
CallsReturn ==
  \A i \in Calls : (nextID = i /\ cpc = "await") ~> (result[i] # Open \/ cpc = "closed")
-----------------------------------------------------------------------------
(* A claim of a comment that the code does not keep.                        *)

(* Call "blocks until a response is received (or the read deadline is       *)
(* exceeded), and returns the response" (client.go:43-45): while no deadline*)
(* has passed and the server has not closed, no call fails.                 *)
AnswersAreReturned ==
  (\E i \in Calls : result[i] = Failed) => expired \/ spc = "closed"
=============================================================================
