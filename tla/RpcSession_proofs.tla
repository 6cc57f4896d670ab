--------------------------- MODULE RpcSession_proofs ---------------------------
(* What one RPC connection guarantees for any number of calls.              *)
EXTENDS RpcSession, SequenceTheorems, TLAPS

(* A request in the handler's hands counts for one. *)
InHand == IF spc = "handling" THEN 1 ELSE 0

TypeInv ==
  /\ nextID \in 0 .. MaxCalls
  /\ cpc \in {"idle", "await", "closed"} /\ cscan \in {"ok", "dead"}
  /\ up \in Seq(Calls) /\ down \in Seq(Calls) /\ handled \in Seq(Calls)
  /\ spc \in {"reading", "handling", "closed"}
  /\ serving \in 0 .. MaxCalls /\ (spc = "handling" => serving \in Calls)
  /\ size \in [Calls -> AllKinds]
  /\ expired \in BOOLEAN
  /\ result \in [Calls -> Calls \cup {Open, Failed}]
  /\ cpc = "await" => nextID \in Calls

(* While the client's scanner works, nothing but the current request or its *)
(* answer is on its way, and nothing at all between two calls: this is why  *)
(* Call can do without comparing ids.                                       *)
OneOutstanding ==
  cscan = "ok" /\ cpc # "closed" =>
    /\ Len(up) + InHand + Len(down) <= IF cpc = "await" THEN 1 ELSE 0
    /\ up # <<>> => up[1] = nextID
    /\ down # <<>> => down[1] = nextID
    /\ spc = "handling" => serving = nextID

(* The requests handled, the one in hand and those on their way are the     *)
(* calls made so far, in order.                                             *)
InOrder ==
  /\ \A n \in 1 .. Len(handled) : handled[n] = n
  /\ spc = "handling" => serving = Len(handled) + 1
  /\ spc # "closed" =>
       /\ nextID = Len(handled) + InHand + Len(up)
       /\ \A n \in 1 .. Len(up) : up[n] = Len(handled) + InHand + n
-----------------------------------------------------------------------------
(* A queue is empty after its only element is taken. *)
LEMMA TailOfOne ==
  ASSUME NEW S, NEW s \in Seq(S), Len(s) = 1
  PROVE  Tail(s) = <<>> /\ Len(Tail(s)) = 0 /\ Head(s) = s[1]
<1>1. s # <<>>
  BY EmptySeq
<1>2. Tail(s) \in Seq(S) /\ Len(Tail(s)) = 0 /\ Head(s) = s[1]
  BY <1>1, HeadTailProperties
<1>3. Tail(s) = <<>>
  BY <1>2, EmptySeq
<1> QED BY <1>2, <1>3

(* What Tail leaves. *)
LEMMA TailIndices ==
  ASSUME NEW S, NEW s \in Seq(S), s # <<>>
  PROVE  /\ Len(s) >= 1 /\ Head(s) = s[1] /\ Len(Tail(s)) = Len(s) - 1
         /\ \A n \in 1 .. Len(s) - 1 : Tail(s)[n] = s[n + 1]
<1>1. Len(s) >= 1 /\ Len(s) \in Nat
  BY EmptySeq, LenProperties
<1> QED BY <1>1, HeadTailProperties

LEMMA TypeInit == Init => TypeInv
<1> SUFFICES ASSUME Init PROVE TypeInv
  OBVIOUS
<1>1. <<>> \in Seq(Calls)
  OBVIOUS
<1>2. nextID = 0 /\ 0 \in 0 .. MaxCalls
  BY CallsAssumption DEF Init
<1> QED BY <1>1, <1>2 DEF Init, TypeInv, AllKinds, Open

LEMMA TypeStep == TypeInv /\ [Next]_vars => TypeInv'
<1> SUFFICES ASSUME TypeInv, [Next]_vars PROVE TypeInv'
  OBVIOUS
<1> USE CallsAssumption, KindsAssumption DEF TypeInv, Calls, Open, Failed
<1>1. ASSUME NEW k \in Kinds, Call(k) PROVE TypeInv'
  <2>1. nextID' \in Calls /\ nextID' \in 0 .. MaxCalls
    BY <1>1 DEF Call
  <2>2. up' \in Seq(Calls)
    <3>1. up' = up \/ up' = Append(up, nextID')
      BY <1>1 DEF Call
    <3>2. Append(up, nextID') \in Seq(Calls)
      <4> HIDE DEF Calls
      <4> QED BY <2>1, AppendProperties
    <3> QED BY <3>1, <3>2
  <2>3. result' \in [Calls -> Calls \cup {Open, Failed}]
    BY <1>1, <2>1 DEF Call, Return
  <2>4. size' \in [Calls -> AllKinds]
    BY <1>1, <2>1 DEF Call
  <2> QED BY <1>1, <2>1, <2>2, <2>3, <2>4 DEF Call, Return, server
<1>2. CASE Receive
  <2>1. Head(down) \in Calls /\ Tail(down) \in Seq(Calls)
    BY <1>2, HeadTailProperties DEF Receive
  <2>2. result' \in [Calls -> Calls \cup {Open, Failed}]
    BY <1>2, <2>1 DEF Receive, Return
  <2> QED BY <1>2, <2>1, <2>2 DEF Receive, Return, server
<1>3. CASE TimeOut \/ ScanAgain \/ LostConnection
  <2>1. result' \in [Calls -> Calls \cup {Open, Failed}]
    BY <1>3 DEF TimeOut, ScanAgain, LostConnection, Return
  <2> QED BY <1>3, <2>1 DEF TimeOut, ScanAgain, LostConnection, Return, server
<1>4. CASE Close
  BY <1>4 DEF Close, server
<1>5. CASE ReadRequest
  <2>1. Head(up) \in Calls /\ Tail(up) \in Seq(Calls)
    BY <1>5, HeadTailProperties DEF ReadRequest
  <2> QED BY <1>5, <2>1 DEF ReadRequest, client
<1>6. CASE Respond
  <2>1. serving \in Calls /\ handled' = Append(handled, serving)
    BY <1>6 DEF Respond
  <2>2. handled' \in Seq(Calls)
    BY <2>1, AppendProperties
  <2>3. down' \in Seq(Calls)
    <3>1. down' = down \/ down' = Append(down, serving)
      BY <1>6 DEF Respond
    <3>2. Append(down, serving) \in Seq(Calls)
      <4> HIDE DEF Calls
      <4> QED BY <2>1, AppendProperties
    <3> QED BY <3>1, <3>2
  <2> QED BY <1>6, <2>2, <2>3 DEF Respond, client
<1>7. CASE ReadEOF
  BY <1>7 DEF ReadEOF, client
<1>8. CASE UNCHANGED vars
  BY <1>8 DEF vars
<1> QED
  BY <1>1, <1>2, <1>3, <1>4, <1>5, <1>6, <1>7, <1>8 DEF Next, ClientStep, ServerStep

LEMMA OutstandingStep == TypeInv /\ OneOutstanding /\ [Next]_vars => OneOutstanding'
<1> SUFFICES ASSUME TypeInv, OneOutstanding, [Next]_vars PROVE OneOutstanding'
  OBVIOUS
<1> USE CallsAssumption DEF TypeInv, OneOutstanding, InHand, Calls
<1>1. ASSUME NEW k \in Kinds, Call(k) PROVE OneOutstanding'
  <2>1. CASE spc = "closed"
    BY <1>1, <2>1 DEF Call, Return, server
  <2>2. CASE spc # "closed"
    <3>1. /\ cpc = "idle" /\ cpc' = "await" /\ cscan' = cscan /\ down' = down
          /\ spc' = spc /\ serving' = serving
          /\ up' = Append(up, nextID')
      BY <1>1, <2>2 DEF Call, server
    <3>2. Len(up') = Len(up) + 1 /\ (Len(up) = 0 => up'[1] = nextID')
      BY <1>1, <3>1, AppendProperties DEF Call
    <3>3. CASE cscan = "ok"
      <4>1. Len(up) = 0 /\ Len(down) = 0 /\ spc # "handling"
        BY <3>1, <3>3
      <4>2. down = <<>>
        BY <4>1
      <4> QED BY <3>1, <3>2, <4>1, <4>2
    <3> QED BY <3>1, <3>3
  <2> QED BY <2>1, <2>2
<1>2. CASE Receive
  <2>1. CASE size[Head(down)] = "bigAnswer"
    BY <1>2, <2>1 DEF Receive
  <2>2. CASE size[Head(down)] # "bigAnswer"
    <3>1. Len(down) >= 1
      BY <1>2, TailIndices DEF Receive
    <3>2. Len(up) + InHand + Len(down) <= 1
      BY <1>2 DEF Receive
    <3>3. Len(up) \in Nat /\ Len(down) \in Nat /\ InHand \in {0, 1}
      BY LenProperties
    <3>4. Len(up) = 0 /\ InHand = 0 /\ Len(down) = 1
      <4>1. ASSUME NEW a \in Nat, NEW b \in {0, 1}, NEW c \in Nat, c >= 1, a + b + c <= 1
            PROVE  a = 0 /\ b = 0 /\ c = 1
        BY ONLY <4>1
      <4> HIDE DEF InHand
      <4> QED BY ONLY <3>1, <3>2, <3>3, <4>1
    <3>5. up = <<>> /\ spc # "handling"
      BY <3>4, EmptySeq
    <3>6. down' = <<>> /\ Len(down') = 0
      BY <1>2, <3>4, TailOfOne DEF Receive
    <3>7. up' = up /\ spc' = spc /\ cpc' = "idle"
      BY <1>2, <2>2 DEF Receive, Return, server
    <3> QED BY <3>4, <3>5, <3>6, <3>7
  <2> QED BY <2>1, <2>2
<1>3. CASE TimeOut \/ LostConnection \/ Close
  BY <1>3 DEF TimeOut, LostConnection, Close
<1>4. CASE ScanAgain
  BY <1>4 DEF ScanAgain
<1>5. CASE ReadRequest
  <2>1. CASE cscan = "ok" /\ cpc # "closed"
    <3>1. Len(up) >= 1 /\ up # <<>>
      BY <1>5, TailIndices DEF ReadRequest
    <3>2. Len(up) \in Nat /\ Len(down) \in Nat /\ InHand \in {0, 1}
      BY LenProperties
    <3>3. /\ Len(up) + InHand + Len(down) <= IF cpc = "await" THEN 1 ELSE 0
          /\ up[1] = nextID
      BY <2>1, <3>1
    <3>4. Len(up) = 1 /\ Len(down) = 0 /\ cpc = "await"
      BY ONLY <3>1, <3>2, <3>3
    <3>5. up' = <<>> /\ Len(up') = 0 /\ Head(up) = nextID
      BY <1>5, <3>3, <3>4, TailOfOne DEF ReadRequest
    <3>6. down' = <<>> /\ Len(down') = 0
      BY <1>5, <3>4, EmptySeq DEF ReadRequest
    <3>7. cpc' = "await" /\ nextID' = nextID
      BY <1>5, <3>4 DEF ReadRequest, client
    <3>8. spc' = "handling" => serving' = nextID
      BY <1>5, <3>5 DEF ReadRequest
    <3> QED BY <3>5, <3>6, <3>7, <3>8
  <2>2. CASE ~(cscan = "ok" /\ cpc # "closed")
    BY <1>5, <2>2 DEF ReadRequest, client
  <2> QED BY <2>1, <2>2
<1>6. CASE Respond
  <2>1. CASE cscan = "ok" /\ cpc # "closed"
    <3>1. Len(up) = 0 /\ Len(down) = 0 /\ cpc = "await" /\ serving = nextID
      BY <1>6, <2>1 DEF Respond
    <3>2. Len(down') = 1 /\ down'[1] = nextID
      BY <1>6, <2>1, <3>1, AppendProperties DEF Respond
    <3>3. up' = <<>> /\ spc' = "reading" /\ nextID' = nextID /\ cpc' = "await"
      BY <1>6, <2>1, <3>1 DEF Respond, client
    <3> QED BY <3>2, <3>3
  <2>2. CASE ~(cscan = "ok" /\ cpc # "closed")
    BY <1>6, <2>2 DEF Respond, client
  <2> QED BY <2>1, <2>2
<1>7. CASE ReadEOF
  BY <1>7 DEF ReadEOF, client
<1>8. CASE UNCHANGED vars
  BY <1>8 DEF vars
<1> QED
  BY <1>1, <1>2, <1>3, <1>4, <1>5, <1>6, <1>7, <1>8 DEF Next, ClientStep, ServerStep
-----------------------------------------------------------------------------
(* The answer to a call is the answer to its own request. *)
LEMMA MatchStep ==
  TypeInv /\ OneOutstanding /\ AnswerMatchesCall /\ [Next]_vars => AnswerMatchesCall'
<1> SUFFICES ASSUME TypeInv, OneOutstanding, AnswerMatchesCall, [Next]_vars
             PROVE  AnswerMatchesCall'
  OBVIOUS
<1> USE DEF TypeInv, AnswerMatchesCall
<1>1. ASSUME NEW k \in Kinds, Call(k) PROVE AnswerMatchesCall'
  BY <1>1 DEF Call, Return
<1>2. CASE Receive
  <2>1. Head(down) = nextID
    BY <1>2 DEF Receive, OneOutstanding
  <2> QED BY <1>2, <2>1 DEF Receive, Return
<1>3. CASE TimeOut \/ ScanAgain \/ LostConnection
  BY <1>3 DEF TimeOut, ScanAgain, LostConnection, Return
<1>4. CASE Close \/ ServerStep \/ UNCHANGED vars
  BY <1>4 DEF Close, ServerStep, ReadRequest, Respond, ReadEOF, client, vars
<1> QED BY <1>1, <1>2, <1>3, <1>4 DEF Next, ClientStep

(* AnswerMatchesCall holds for any number of calls, timeouts and sizes.     *)
THEOREM AnswerAlwaysMatches == Spec => []AnswerMatchesCall
<1>1. Init => TypeInv /\ OneOutstanding /\ AnswerMatchesCall
  BY TypeInit DEF Init, OneOutstanding, AnswerMatchesCall, InHand
<1>2. TypeInv /\ OneOutstanding /\ AnswerMatchesCall /\ [Next]_vars
        => (TypeInv /\ OneOutstanding /\ AnswerMatchesCall)'
  BY TypeStep, OutstandingStep, MatchStep
<1> QED BY <1>1, <1>2, PTL DEF Spec
-----------------------------------------------------------------------------
LEMMA OrderStep == TypeInv /\ InOrder /\ [Next]_vars => InOrder'
<1> SUFFICES ASSUME TypeInv, InOrder, [Next]_vars PROVE InOrder'
  OBVIOUS
<1> USE DEF TypeInv, InOrder, InHand
<1>1. ASSUME NEW k \in Kinds, Call(k) PROVE InOrder'
  <2>1. CASE spc = "closed"
    BY <1>1, <2>1 DEF Call, server
  <2>2. CASE spc # "closed"
    <3>1. /\ nextID' = nextID + 1 /\ up' = Append(up, nextID')
          /\ UNCHANGED <<spc, serving, handled>>
      BY <1>1, <2>2 DEF Call, server
    <3>2. /\ Len(up') = Len(up) + 1
          /\ \A n \in 1 .. Len(up) : up'[n] = up[n]
          /\ up'[Len(up) + 1] = nextID'
      BY <3>1
    <3>3. Len(up) \in Nat /\ Len(handled) \in Nat /\ InHand \in {0, 1}
      BY LenProperties
    <3>4. nextID' = Len(handled) + InHand + Len(up')
      <4>1. nextID = Len(handled) + InHand + Len(up)
        BY <2>2
      <4> HIDE DEF InHand
      <4> QED BY <3>1, <3>2, <3>3, <4>1
    <3>5. ASSUME NEW n \in 1 .. Len(up')
          PROVE  up'[n] = Len(handled) + InHand + n
      <4>1. CASE n \in 1 .. Len(up)
        BY <2>2, <3>2, <4>1
      <4>2. CASE n = Len(up) + 1
        BY <3>2, <3>4, <4>2
      <4> QED BY <3>2, <3>3, <4>1, <4>2
    <3> QED BY <2>2, <3>1, <3>4, <3>5
  <2> QED BY <2>1, <2>2
<1>2. CASE Receive \/ TimeOut \/ ScanAgain \/ LostConnection \/ Close
  BY <1>2 DEF Receive, TimeOut, ScanAgain, LostConnection, Close, server
<1>3. CASE ReadRequest
  <2>1. Len(up) >= 1 /\ Head(up) = up[1] /\ Len(Tail(up)) = Len(up) - 1
        /\ \A n \in 1 .. Len(up) - 1 : Tail(up)[n] = up[n + 1]
    BY <1>3, TailIndices DEF ReadRequest
  <2>2. CASE size[Head(up)] = "bigRequest"
    BY <1>3, <2>2 DEF ReadRequest, client
  <2>3. CASE size[Head(up)] # "bigRequest"
    <3>1. /\ spc = "reading" /\ spc' = "handling" /\ serving' = up[1] /\ up' = Tail(up)
          /\ UNCHANGED <<nextID, handled>>
      BY <1>3, <2>1, <2>3 DEF ReadRequest, client
    <3>2. Len(up') = Len(up) - 1 /\ Len(up) \in Nat /\ Len(handled) \in Nat
      BY <2>1, <3>1, LenProperties
    <3>3. up[1] = Len(handled) + 1 /\ nextID = Len(handled) + Len(up)
      BY <2>1, <3>1, <3>2
    <3>4. ASSUME NEW n \in 1 .. Len(up')
          PROVE  up'[n] = Len(handled) + 1 + n
      <4>1. n + 1 \in 1 .. Len(up) /\ up'[n] = up[n + 1]
        BY <2>1, <3>1, <3>2
      <4>2. \A m \in 1 .. Len(up) : up[m] = Len(handled) + 0 + m
        BY <3>1
      <4>3. up[n + 1] = Len(handled) + 0 + (n + 1)
        BY <4>1, <4>2
      <4>4. n \in Nat
        OBVIOUS
      <4> QED BY ONLY <3>2, <4>1, <4>3, <4>4
    <3>5. (\A n \in 1 .. Len(handled) : handled[n] = n)'
      BY <3>1
    <3>6. serving' = Len(handled') + 1
      BY <3>1, <3>3
    <3>7. nextID' = Len(handled') + 1 + Len(up')
      <4>1. ASSUME NEW h \in Nat, NEW u \in Nat PROVE h + u = h + 1 + (u - 1)
        OBVIOUS
      <4>2. nextID' = nextID /\ handled' = handled
        BY <3>1
      <4> QED BY ONLY <3>2, <3>3, <4>1, <4>2
    <3>8. InHand' = 1 /\ handled' = handled
      BY <3>1
    <3> HIDE DEF InHand
    <3> QED BY <3>4, <3>5, <3>6, <3>7, <3>8
  <2> QED BY <2>2, <2>3
<1>4. CASE Respond
  <2>1. /\ spc = "handling" /\ handled' = Append(handled, serving) /\ spc' # "handling"
        /\ UNCHANGED <<nextID, up, serving>>
    BY <1>4 DEF Respond, client
  <2>2. /\ Len(handled') = Len(handled) + 1
        /\ \A n \in 1 .. Len(handled) : handled'[n] = handled[n]
        /\ handled'[Len(handled) + 1] = serving
    BY <2>1
  <2> QED BY <2>1, <2>2
<1>5. CASE ReadEOF \/ UNCHANGED vars
  BY <1>5 DEF ReadEOF, client, vars
<1> QED
  BY <1>1, <1>2, <1>3, <1>4, <1>5 DEF Next, ClientStep, ServerStep

(* HandledInOrder holds for any number of calls, timeouts and sizes.        *)
THEOREM AlwaysHandledInOrder == Spec => []HandledInOrder
<1>1. Init => TypeInv /\ InOrder
  BY TypeInit DEF Init, InOrder, InHand
<1>2. TypeInv /\ InOrder /\ [Next]_vars => (TypeInv /\ InOrder)'
  BY TypeStep, OrderStep
<1>3. TypeInv /\ InOrder => HandledInOrder
  BY DEF TypeInv, InOrder, HandledInOrder
<1> QED BY <1>1, <1>2, <1>3, PTL DEF Spec

(* The state of both ends stays within its types (client.go:16-40,          *)
(* server.go:104-119).                                                      *)
THEOREM RpcTypeCorrect == Spec => []RpcTypeOK
<1>1. TypeInv => RpcTypeOK
  BY DEF TypeInv, RpcTypeOK
<1> QED BY <1>1, TypeInit, TypeStep, PTL DEF Spec
-----------------------------------------------------------------------------
(* Liveness.  ENABLED has no proof rule here, so fairness is stated with    *)
(* the guard written out: in Scan the client can always take a step, since  *)
(* the deadline passes or the scanner has failed before (client.go:64).     *)
ClientScheduled == []<>~(cpc = "await") \/ []<><<ClientStep>>_vars

Pending(i) == nextID = i /\ cpc = "await"
Over(i) == result[i] # Open \/ cpc = "closed"

(* While a call is pending no other begins, and Close is the only other end.*)
LEMMA PendingStep ==
  ASSUME NEW i \in Calls, TypeInv, Pending(i), [Next]_vars
  PROVE  (Pending(i) \/ Over(i))' /\ (ClientStep => Over(i)')
<1> USE DEF Pending
<1>1. ASSUME NEW v \in Calls \cup {Failed}, Return(nextID, v) PROVE Over(i)'
  <2>1. i \in DOMAIN result /\ result'[i] = v
    BY <1>1 DEF Return, TypeInv
  <2>2. v # Open
    BY CallsAssumption DEF Calls, Open, Failed
  <2> QED BY <2>1, <2>2 DEF Over
<1>2. ASSUME ClientStep PROVE Over(i)'
  <2>1. CASE Receive
    <3>1. down \in Seq(Calls) /\ down # <<>>
      BY <2>1 DEF Receive, TypeInv
    <3>2. Head(down) \in Calls
      BY <3>1
    <3> QED BY <2>1, <3>2, <1>1 DEF Receive
  <2>2. CASE TimeOut \/ ScanAgain \/ LostConnection
    BY <2>2, <1>1 DEF TimeOut, ScanAgain, LostConnection
  <2> QED BY <1>2, <2>1, <2>2 DEF ClientStep
<1>3. ASSUME NEW k \in Kinds, Call(k) PROVE FALSE
  BY <1>3 DEF Call
<1>4. ASSUME Close PROVE Over(i)'
  BY <1>4 DEF Close, Over
<1>5. ASSUME ServerStep PROVE Pending(i)'
  BY <1>5 DEF ServerStep, ReadRequest, Respond, ReadEOF, client
<1>6. ASSUME UNCHANGED vars PROVE Pending(i)'
  BY <1>6 DEF vars
<1>7. Pending(i)' \/ Over(i)'
  BY ONLY [Next]_vars, <1>2, <1>3, <1>4, <1>5, <1>6 DEF Next
<1> QED BY <1>2, <1>7

(* Every Call returns, however many there are and whatever the server does, *)
(* as long as the client's goroutine runs and its deadline passes           *)
(* (client.go:43-96).                                                       *)
THEOREM CallsAlwaysReturn == Spec /\ ClientScheduled => CallsReturn
<1>1. ASSUME NEW i \in Calls
      PROVE  Spec /\ ClientScheduled => (Pending(i) ~> Over(i))
  <2>1. TypeInv /\ Pending(i) /\ [Next]_vars => Pending(i)' \/ Over(i)'
    BY PendingStep
  <2>2. TypeInv /\ Pending(i) /\ [Next]_vars /\ <<ClientStep>>_vars => Over(i)'
    BY PendingStep
  <2>3. Pending(i) => cpc = "await"
    BY DEF Pending
  <2> QED BY <2>1, <2>2, <2>3, TypeInit, TypeStep, PTL DEF Spec, ClientScheduled
<1>2. Spec /\ ClientScheduled => \A i \in Calls : Pending(i) ~> Over(i)
  BY <1>1
<1> QED BY <1>2 DEF CallsReturn, Pending, Over
=============================================================================
