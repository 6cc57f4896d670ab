--------------------------- MODULE AppControl_proofs ---------------------------
(* What the app commands and the session manager guarantee for any number   *)
(* of requests, processes, callers and sessions.                            *)
EXTENDS AppControl, SessionManager, FiniteSetTheorems, SequenceTheorems, TLAPS

-----------------------------------------------------------------------------
(* The session manager.                                                     *)

(* Whoever is in a call to WDA holds the mutex, and knows whether there is  *)
(* a session id.                                                            *)
CallHolds ==
  \A c \in Callers :
    /\ cpc[c] = "create" => holder = {c} /\ sessionID = NoSession
    /\ cpc[c] = "delete" => holder = {c} /\ sessionID # NoSession

LEMMA SessionInitial == SessionInit => SessionTypeOK /\ CallHolds /\ OneSession
<1>1. Cardinality({}) = 0
  BY FS_EmptySet
<1> QED BY <1>1 DEF SessionInit, SessionTypeOK, CallHolds, OneSession

LEMMA SessionTypeStep == SessionTypeOK /\ CallHolds /\ [SessionNext]_smVars => SessionTypeOK'
<1> SUFFICES ASSUME SessionTypeOK, CallHolds, [SessionNext]_smVars PROVE SessionTypeOK'
  OBVIOUS
<1>0. Cardinality({}) = 0 /\ \A c \in Callers : Cardinality({c}) = 1
  BY FS_EmptySet, FS_Singleton
<1> USE SessionsAssumption DEF SessionTypeOK, Sessions
<1>1. ASSUME NEW c \in Callers, Calls(c) PROVE SessionTypeOK'
  BY <1>1 DEF Calls
<1>2. ASSUME NEW c \in Callers, Lock(c) PROVE SessionTypeOK'
  BY <1>0, <1>2 DEF Lock, Return
<1>3. ASSUME NEW c \in Callers, Create(c) PROVE SessionTypeOK'
  <2>1. \/ /\ Cardinality(made) < MaxSessions
           /\ LET id == Cardinality(made) + 1 IN
              /\ made' = made \cup {id} /\ live' = live \cup {id}
              /\ \/ sessionID' = id /\ Return(c, id) /\ UNCHANGED adrift
                 \/ adrift' = adrift \cup {id} /\ Return(c, NoSession) /\ UNCHANGED sessionID
        \/ (\E id \in made : sessionID' = id /\ Return(c, id)) /\ UNCHANGED <<made, live, adrift>>
        \/ Return(c, NoSession) /\ UNCHANGED <<sessionID, made, live, adrift>>
    BY <1>3 DEF Create
  <2>2. Cardinality(made) \in Nat
    <3>1. IsFiniteSet(1 .. MaxSessions)
      BY FS_Interval
    <3> QED BY <3>1, FS_Subset, FS_CardinalityType
  <2>3. Cardinality(made) < MaxSessions => Cardinality(made) + 1 \in 1 .. MaxSessions
    BY <2>2
  <2>4. /\ holder' \in SUBSET Callers /\ Cardinality(holder') <= 1
        /\ cpc' \in [Callers -> {"idle", "ensure", "destroy", "create", "delete"}]
    BY <1>0, <2>1 DEF Return
  <2>5. /\ sessionID' \in 1 .. MaxSessions \cup {NoSession}
        /\ got' \in [Callers -> 1 .. MaxSessions \cup {NoSession}]
        /\ adrift' \subseteq made' /\ live' \subseteq made' /\ made' \subseteq 1 .. MaxSessions
    <3>1. CASE Return(c, NoSession) /\ UNCHANGED <<sessionID, made, live, adrift>>
      BY <3>1 DEF Return
    <3>2. CASE (\E id \in made : sessionID' = id /\ Return(c, id)) /\ UNCHANGED <<made, live, adrift>>
      BY <3>2 DEF Return
    <3>3. CASE /\ ~(Return(c, NoSession) /\ UNCHANGED <<sessionID, made, live, adrift>>)
               /\ ~((\E id \in made : sessionID' = id /\ Return(c, id)) /\ UNCHANGED <<made, live, adrift>>)
      <4> DEFINE id == Cardinality(made) + 1
      <4>1. id \in 1 .. MaxSessions
        BY <2>1, <2>3, <3>3
      <4>2. made' = made \cup {id} /\ live' = live \cup {id}
        BY <2>1, <3>3
      <4>3. \/ sessionID' = id /\ Return(c, id) /\ UNCHANGED adrift
            \/ adrift' = adrift \cup {id} /\ Return(c, NoSession) /\ UNCHANGED sessionID
        BY <2>1, <3>3
      <4> HIDE DEF id
      <4> QED BY <4>1, <4>2, <4>3 DEF Return
    <3> QED BY <3>1, <3>2, <3>3
  <2> QED BY <2>4, <2>5
<1>4. ASSUME NEW c \in Callers, Delete(c) PROVE SessionTypeOK'
  <2>1. /\ made' = made /\ live' \subseteq live /\ adrift' \subseteq adrift \cup live'
        /\ sessionID' \in {sessionID, NoSession} /\ Return(c, NoSession)
    BY <1>4 DEF Delete
  <2> QED BY <1>0, <2>1 DEF Return
<1>5. CASE SessionEnds
  BY <1>5 DEF SessionEnds
<1>6. CASE UNCHANGED smVars
  BY <1>6 DEF smVars
<1> QED BY <1>1, <1>2, <1>3, <1>4, <1>5, <1>6 DEF SessionNext

LEMMA SessionStep ==
  SessionTypeOK /\ CallHolds /\ OneSession /\ [SessionNext]_smVars => (CallHolds /\ OneSession)'
<1> SUFFICES ASSUME SessionTypeOK, CallHolds, OneSession, [SessionNext]_smVars
             PROVE  (CallHolds /\ OneSession)'
  OBVIOUS
<1> USE SessionsAssumption DEF SessionTypeOK, CallHolds, OneSession
<1>1. ASSUME NEW c \in Callers, Calls(c) PROVE (CallHolds /\ OneSession)'
  BY <1>1 DEF Calls
<1>2. ASSUME NEW c \in Callers, Lock(c) PROVE (CallHolds /\ OneSession)'
  BY <1>2 DEF Lock, Return
<1>3. ASSUME NEW c \in Callers, Create(c) PROVE (CallHolds /\ OneSession)'
  <2>1. holder = {c} /\ sessionID = NoSession
    BY <1>3 DEF Create
  <2>2. CallHolds'
    BY <1>3, <2>1 DEF Create, Return
  <2>3. OneSession'
    BY <1>3, <2>1 DEF Create
  <2> QED BY <2>2, <2>3
<1>4. ASSUME NEW c \in Callers, Delete(c) PROVE (CallHolds /\ OneSession)'
  <2>1. holder = {c} /\ holder' = {} /\ cpc' = [cpc EXCEPT ![c] = "idle"]
    BY <1>4 DEF Delete, Return
  <2>2. CallHolds'
    BY <2>1
  <2>3. OneSession'
    BY <1>4 DEF Delete
  <2> QED BY <2>2, <2>3
<1>5. CASE SessionEnds
  BY <1>5 DEF SessionEnds
<1>6. CASE UNCHANGED smVars
  BY <1>6 DEF smVars
<1> QED BY <1>1, <1>2, <1>3, <1>4, <1>5, <1>6 DEF SessionNext

(* The types of the session manager hold for any number of callers          *)
(* (session.go:10-15).                                                      *)
THEOREM SessionTypeCorrect == SessionSpec => []SessionTypeOK
<1>1. SessionTypeOK /\ CallHolds /\ OneSession /\ [SessionNext]_smVars
        => (SessionTypeOK /\ CallHolds /\ OneSession)'
  BY SessionTypeStep, SessionStep
<1> QED BY <1>1, SessionInitial, PTL DEF SessionSpec

(* However many callers ask at once, one session is live, but for those the *)
(* manager cannot know of (session.go:27-66).                               *)
THEOREM AlwaysOneSession == SessionSpec => []OneSession
<1>1. SessionTypeOK /\ CallHolds /\ OneSession /\ [SessionNext]_smVars
        => (SessionTypeOK /\ CallHolds /\ OneSession)'
  BY SessionTypeStep, SessionStep
<1> QED BY <1>1, SessionInitial, PTL DEF SessionSpec
-----------------------------------------------------------------------------
(* The app commands: the types.                                             *)

LEMMA PidsOfProcs == AppTypeOK => DOMAIN procs \subseteq Pids /\ running \subseteq Pids
  BY AppsAssumption DEF AppTypeOK, Pids

(* What a call of a channel leaves in the record of the calls.              *)
LEMMA CallRecorded ==
  ASSUME AppTypeOK, NEW r \in Requests, pc[r] \in Channels, NEW ok \in BOOLEAN, Called(r, ok)
  PROVE  /\ calls' \in [Requests -> Seq(Channels \X BOOLEAN)]
         /\ \A q \in Requests \ {r} : calls'[q] = calls[q]
         /\ Len(calls[r]) \in Nat /\ DOMAIN calls[r] = 1 .. Len(calls[r])
         /\ Len(calls'[r]) = Len(calls[r]) + 1 /\ DOMAIN calls'[r] = 1 .. Len(calls[r]) + 1
         /\ \A i \in DOMAIN calls[r] : calls'[r][i] = calls[r][i] /\ calls[r][i][1] \in Channels
         /\ calls'[r][Len(calls[r]) + 1] = <<pc[r], ok>>
         /\ \A i \in DOMAIN calls'[r] : i \in DOMAIN calls[r] \/ i = Len(calls[r]) + 1
<1>1. calls[r] \in Seq(Channels \X BOOLEAN) /\ <<pc[r], ok>> \in Channels \X BOOLEAN
  BY DEF AppTypeOK
<1>2. calls' = [calls EXCEPT ![r] = Append(calls[r], <<pc[r], ok>>)]
  BY DEF Called
<1>3. calls'[r] = Append(calls[r], <<pc[r], ok>>)
  BY <1>2 DEF AppTypeOK
<1>4. /\ calls'[r] \in Seq(Channels \X BOOLEAN)
      /\ Len(calls'[r]) = Len(calls[r]) + 1
      /\ \A i \in 1 .. Len(calls[r]) : calls'[r][i] = calls[r][i]
      /\ calls'[r][Len(calls[r]) + 1] = <<pc[r], ok>>
  BY <1>1, <1>3, AppendProperties
<1>5. DOMAIN calls[r] = 1 .. Len(calls[r]) /\ Len(calls[r]) \in Nat
  BY <1>1, LenProperties
<1>6. DOMAIN calls'[r] = 1 .. Len(calls[r]) + 1
  BY <1>4, LenProperties
<1>7. calls' \in [Requests -> Seq(Channels \X BOOLEAN)]
  BY <1>2, <1>3, <1>4 DEF AppTypeOK
<1>8. \A q \in Requests \ {r} : calls'[q] = calls[q]
  BY <1>2 DEF AppTypeOK
<1>9. \A i \in DOMAIN calls[r] : calls[r][i][1] \in Channels
  BY <1>1, ElementOfSeq, <1>5
<1>10. \A i \in 1 .. Len(calls[r]) + 1 : i \in 1 .. Len(calls[r]) \/ i = Len(calls[r]) + 1
  <2> DEFINE n == Len(calls[r])
  <2>1. n \in Nat
    BY <1>5
  <2> HIDE DEF n
  <2>2. \A i \in 1 .. n + 1 : i \in 1 .. n \/ i = n + 1
    BY <2>1
  <2> QED BY <2>2 DEF n
<1> QED BY <1>4, <1>5, <1>6, <1>7, <1>8, <1>9, <1>10

LEMMA NextChannelWda ==
  ASSUME NEW r, NextChannel(r) = "done", kind[r] \in {"launch", "kill"}, mode = "full"
  PROVE  pc[r] = "wda"
  BY DEF NextChannel

LEMMA NextChannels ==
  ASSUME NEW r, pc[r] \in Channels
  PROVE  NextChannel(r) \in {"instruments", "wda", "done"}
  BY DEF NextChannel, Channels

(* The types of what a request keeps of its progress.                       *)
Progress ==
  /\ pc \in [Requests -> {"begin", "done"} \cup Channels]
  /\ calls \in [Requests -> Seq(Channels \X BOOLEAN)]
  /\ result \in [Requests -> {"none", "ok", "error", "pass", "fail"} \cup Names]

LEMMA FailTypes ==
  ASSUME AppTypeOK, NEW r \in Requests, pc[r] \in Channels, Fail(r)
  PROVE  Progress'
<1>1. calls' \in [Requests -> Seq(Channels \X BOOLEAN)]
  BY CallRecorded DEF Fail
<1>2. pc' \in [Requests -> {"begin", "done"} \cup Channels]
  <2>1. NextChannel(r) \in {"instruments", "wda", "done"}
    BY NextChannels
  <2>2. pc' = [pc EXCEPT ![r] = NextChannel(r)]
    BY DEF Fail, Finish, Goto
  <2> QED BY <2>1, <2>2 DEF AppTypeOK, Channels
<1>3. UNCHANGED result \/ result' = [result EXCEPT ![r] = "error"]
  BY DEF Fail, Finish, Goto
<1>4. result' \in [Requests -> {"none", "ok", "error", "pass", "fail"} \cup Names]
  BY <1>3 DEF AppTypeOK
<1> QED BY <1>1, <1>2, <1>4 DEF Progress

LEMMA AnswerTypes ==
  ASSUME AppTypeOK, NEW r \in Requests, pc[r] \in Channels, Called(r, TRUE),
         NEW v \in {"ok", "pass", "fail"} \cup Names, Finish(r, v)
  PROVE  Progress'
<1>1. calls' \in [Requests -> Seq(Channels \X BOOLEAN)]
  BY CallRecorded
<1>2. pc' \in [Requests -> {"begin", "done"} \cup Channels]
  BY DEF Finish, AppTypeOK
<1>3. result' \in [Requests -> {"none", "ok", "error", "pass", "fail"} \cup Names]
  BY DEF Finish, AppTypeOK
<1> QED BY <1>1, <1>2, <1>3 DEF Progress

LEMMA SucceedTypes ==
  ASSUME AppTypeOK, NEW r \in Requests, pc[r] \in Channels, Succeed(r)
  PROVE  Progress'
  BY AnswerTypes DEF Succeed

(* The types of the phone's processes and of what was done to it.           *)
Phone ==
  /\ procs \in Seq(Execs) /\ Len(procs) <= MaxProcs /\ running \subseteq DOMAIN procs
  /\ did \in [Requests -> SUBSET Deeds]
  /\ ended \in [Requests -> SUBSET Pids]

Others ==
  /\ connected \in BOOLEAN /\ mode \in {"full", "degraded", "unset"} /\ rsd \in BOOLEAN
  /\ installed \subseteq Bundles
  /\ kind \in [Requests -> Kinds] /\ app \in [Requests -> Bundles]
  /\ listed \in [Requests -> SUBSET Pids]

LEMMA TypesInParts ==
  /\ AppTypeOK => Progress /\ Phone /\ Others
  /\ Progress' /\ Phone' /\ Others' => AppTypeOK'
  BY DEF AppTypeOK, Progress, Phone, Others

LEMMA EndTypes ==
  ASSUME AppTypeOK, NEW pids, End(pids), UNCHANGED procs, did' \in [Requests -> SUBSET Deeds]
  PROVE  Phone'
<1>1. running \subseteq Pids
  BY PidsOfProcs
<1>2. running' \subseteq DOMAIN procs' /\ procs' \in Seq(Execs) /\ Len(procs') <= MaxProcs
  BY DEF End, AppTypeOK
<1>3. ended' \in [Requests -> SUBSET Pids]
  BY <1>1 DEF End, AppTypeOK
<1> QED BY <1>2, <1>3 DEF Phone

(* A new process gets the next pid.                                         *)
LEMMA ProcAdded ==
  ASSUME AppTypeOK, NEW e \in Execs, Len(procs) < MaxProcs, procs' = Append(procs, e),
         running' = running \cup {Len(procs')}
  PROVE  /\ procs' \in Seq(Execs) /\ Len(procs') <= MaxProcs /\ running' \subseteq DOMAIN procs'
         /\ Len(procs') \in Pids /\ Len(procs') \in DOMAIN procs' /\ procs'[Len(procs')] = e
         /\ \A pid \in DOMAIN procs : pid \in DOMAIN procs' /\ procs'[pid] = procs[pid]
<1>1. procs \in Seq(Execs) /\ running \subseteq DOMAIN procs
  BY DEF AppTypeOK
<1>2. /\ procs' \in Seq(Execs) /\ Len(procs') = Len(procs) + 1
      /\ \A i \in 1 .. Len(procs) : procs'[i] = procs[i]
      /\ procs'[Len(procs) + 1] = e
  BY <1>1, AppendProperties
<1>3. /\ Len(procs) \in Nat /\ DOMAIN procs = 1 .. Len(procs)
      /\ DOMAIN procs' = 1 .. Len(procs')
  BY <1>1, <1>2, LenProperties
<1> QED BY <1>1, <1>2, <1>3, AppsAssumption DEF Pids

(* To start an app is to find its process or to add one.                    *)
LEMMA StartsTypes ==
  ASSUME AppTypeOK, NEW r \in Requests, Starts(r)
  PROVE  /\ procs' \in Seq(Execs) /\ Len(procs') <= MaxProcs /\ running' \subseteq DOMAIN procs'
         /\ did' \in [Requests -> SUBSET Deeds]
         /\ \A pid \in DOMAIN procs : pid \in DOMAIN procs' /\ procs'[pid] = procs[pid]
         /\ running \subseteq running'
         /\ \E pid \in DOMAIN procs' : Does(r, <<"start", pid>>) /\ procs'[pid] = Main[app[r]]
<1>1. Main[app[r]] \in Execs
  BY AppsAssumption DEF AppTypeOK
<1>2. CASE \E pid \in running : /\ procs[pid] = Main[app[r]] /\ Does(r, <<"start", pid>>)
                                /\ UNCHANGED <<procs, running>>
  <2>1. PICK pid \in running : /\ procs[pid] = Main[app[r]] /\ Does(r, <<"start", pid>>)
                               /\ UNCHANGED <<procs, running>>
    BY <1>2
  <2>2. pid \in Pids /\ pid \in DOMAIN procs
    BY PidsOfProcs DEF AppTypeOK
  <2>3. did' \in [Requests -> SUBSET Deeds]
    BY <2>1, <2>2 DEF Does, AppTypeOK, Deeds
  <2> QED BY <2>1, <2>2, <2>3 DEF AppTypeOK
<1>3. CASE /\ Len(procs) < MaxProcs /\ procs' = Append(procs, Main[app[r]])
           /\ running' = running \cup {Len(procs')} /\ Does(r, <<"start", Len(procs')>>)
  <2>1. /\ procs' \in Seq(Execs) /\ Len(procs') <= MaxProcs /\ running' \subseteq DOMAIN procs'
        /\ Len(procs') \in Pids /\ Len(procs') \in DOMAIN procs'
        /\ procs'[Len(procs')] = Main[app[r]]
        /\ \A pid \in DOMAIN procs : pid \in DOMAIN procs' /\ procs'[pid] = procs[pid]
    BY <1>1, <1>3, ProcAdded
  <2>2. did' \in [Requests -> SUBSET Deeds]
    BY <1>3, <2>1 DEF Does, AppTypeOK, Deeds
  <2> QED BY <1>3, <2>1, <2>2
<1> QED BY <1>2, <1>3 DEF Starts

(* Only the device channel serves the commands that have no other.          *)
AsksDevice ==
  \A r \in Requests : pc[r] = "device" => kind[r] \in {"install", "uninstall", "list"}

LEMMA AppInitial == Init => AppTypeOK
<1> SUFFICES ASSUME Init PROVE AppTypeOK
  OBVIOUS
<1>1. PICK n \in 0 .. MaxProcs : procs \in [1 .. n -> Execs]
  BY DEF Init
<1>2. procs \in Seq(Execs) /\ Len(procs) = n /\ DOMAIN procs = 1 .. n
  BY <1>1, AppsAssumption, IsASeq, LenProperties
<1>3. procs \in Seq(Execs) /\ Len(procs) <= MaxProcs /\ running \subseteq DOMAIN procs
  BY <1>2, AppsAssumption DEF Init
<1>4. calls \in [Requests -> Seq(Channels \X BOOLEAN)]
  BY EmptySeq DEF Init
<1> QED BY <1>3, <1>4 DEF Init, AppTypeOK

LEMMA AppTypeStep == AppTypeOK /\ AsksDevice /\ [Next]_vars => AppTypeOK'
<1> SUFFICES ASSUME AppTypeOK, AsksDevice, [Next]_vars PROVE AppTypeOK'
  OBVIOUS
<1>1. CASE ProcEnds
  <2>1. PICK pid \in running : End({pid})
    BY <1>1 DEF ProcEnds
  <2>2. Phone'
    BY <1>1, <2>1, EndTypes DEF ProcEnds, AppTypeOK
  <2> QED BY <1>1, <2>2, TypesInParts DEF ProcEnds, Progress, Others, session, asked
<1>2. CASE ProcStarts
  <2>1. Phone'
    BY <1>2, ProcAdded DEF ProcStarts, Phone, AppTypeOK
  <2> QED BY <1>2, <2>1, TypesInParts DEF ProcStarts, Progress, Others, session, asked
<1>3. ASSUME NEW r \in Requests, Begin(r) PROVE AppTypeOK'
  <2>1. /\ pc' = [pc EXCEPT ![r] = "done"] \/ \E p \in Channels : pc' = [pc EXCEPT ![r] = p]
        /\ UNCHANGED result \/ result' = [result EXCEPT ![r] = "error"]
    BY <1>3 DEF Begin, Finish, Goto, Channels
  <2> QED BY <1>3, <2>1 DEF Begin, AppTypeOK, session, asked
<1>4. ASSUME NEW r \in Requests, Launch(r) PROVE AppTypeOK'
  <2>1. Progress'
    BY <1>4, SucceedTypes, FailTypes DEF Launch, Channels
  <2>2. Phone'
    BY <1>4, StartsTypes DEF Launch, Phone, AppTypeOK
  <2> QED BY <1>4, <2>1, <2>2, TypesInParts DEF Launch, Others, session, asked
<1>5. ASSUME NEW r \in Requests, List(r) PROVE AppTypeOK'
  <2>1. Progress'
    BY <1>5, FailTypes, TypesInParts DEF List, Channels, Progress
  <2>2. listed' \in [Requests -> SUBSET Pids]
    BY <1>5, PidsOfProcs DEF List, AppTypeOK
  <2> QED BY <1>5, <2>1, <2>2, TypesInParts DEF List, Phone, Others, session, asked
<1>6. ASSUME NEW r \in Requests, KillListed(r) PROVE AppTypeOK'
  <2>1. Progress'
    BY <1>6, SucceedTypes, FailTypes DEF KillListed, Channels
  <2>2. listed' \in [Requests -> SUBSET Pids]
    BY <1>6 DEF KillListed, AppTypeOK
  <2>3. Phone'
    <3>1. CASE UNCHANGED <<running, ended, did>>
      BY <1>6, <3>1 DEF KillListed, Phone, AppTypeOK
    <3>2. ASSUME NEW pid \in listed[r], End({pid}), Does(r, <<"kill", pid>>) PROVE Phone'
      <4>1. did' \in [Requests -> SUBSET Deeds]
        BY <3>2 DEF Does, AppTypeOK, Deeds
      <4> QED BY <1>6, <3>2, <4>1, EndTypes DEF KillListed
    <3> QED BY <1>6, <3>1, <3>2 DEF KillListed
  <2> QED BY <1>6, <2>1, <2>2, <2>3, TypesInParts DEF KillListed, Others, session, asked
<1>7. ASSUME NEW r \in Requests, AskWda(r) PROVE AppTypeOK'
  <2>1. Progress'
    BY <1>7, SucceedTypes, FailTypes DEF AskWda, Channels
  <2>2. Phone'
    <3>1. CASE UNCHANGED <<procs, running, ended, did>>
      BY <3>1 DEF Phone, AppTypeOK
    <3>2. CASE Starts(r) /\ UNCHANGED ended
      BY <3>2, StartsTypes DEF Phone, AppTypeOK
    <3>3. ASSUME NEW pids, End(pids), Does(r, <<"stop", app[r]>>), UNCHANGED procs PROVE Phone'
      <4>1. did' \in [Requests -> SUBSET Deeds]
        BY <3>3 DEF Does, AppTypeOK, Deeds
      <4> QED BY <3>3, <4>1, EndTypes
    <3> QED BY <1>7, <3>1, <3>2, <3>3 DEF AskWda
  <2> QED BY <1>7, <2>1, <2>2, TypesInParts DEF AskWda, Others, session, asked
<1>8. ASSUME NEW r \in Requests, AskDevice(r) PROVE AppTypeOK'
  <2>1. Progress'
    BY <1>8, SucceedTypes, FailTypes DEF AskDevice, Channels
  <2>2. did' \in [Requests -> SUBSET Deeds] /\ installed' \subseteq Bundles
    <3>1. CASE UNCHANGED <<installed, did>>
      BY <3>1 DEF AppTypeOK
    <3>2. CASE ~UNCHANGED <<installed, did>>
      <4>1. /\ kind[r] \in {"install", "uninstall"} /\ app[r] \in Bundles
            /\ Does(r, <<kind[r], app[r]>>)
            /\ installed' = installed \cup {app[r]} \/ installed' = installed \ {app[r]}
        BY <1>8, <3>2 DEF AskDevice, AsksDevice, AppTypeOK
      <4>2. <<kind[r], app[r]>> \in Deeds
        BY <4>1 DEF Deeds
      <4> QED BY <4>1, <4>2 DEF Does, AppTypeOK
    <3> QED BY <3>1, <3>2
  <2> QED BY <1>8, <2>1, <2>2, TypesInParts DEF AskDevice, Phone, Others, session, asked
<1>9. ASSUME NEW r \in Requests, Foreground(r) PROVE AppTypeOK'
  <2>1. Progress'
    <3>1. CASE Fail(r)
      BY <1>9, <3>1, FailTypes DEF Foreground, Channels
    <3>2. CASE ~Fail(r)
      <4>1. PICK pid \in running :
              /\ Called(r, TRUE)
              /\ Finish(r, IF kind[r] = "foreground" THEN Name[procs[pid]]
                           ELSE IF Name[procs[pid]] = app[r] THEN "pass" ELSE "fail")
        BY <1>9, <3>2 DEF Foreground
      <4>2. procs[pid] \in Execs
        BY DEF AppTypeOK
      <4>3. PICK v \in {"ok", "pass", "fail"} \cup Names : Finish(r, v)
        BY <4>1, <4>2 DEF Names
      <4> QED BY <1>9, <4>1, <4>3, AnswerTypes DEF Foreground, Channels
    <3> QED BY <3>1, <3>2
  <2> QED BY <1>9, <2>1, TypesInParts DEF Foreground, Phone, Others, session, asked
<1>10. CASE UNCHANGED vars
  BY <1>10 DEF vars, session, asked, AppTypeOK
<1> QED BY <1>1, <1>2, <1>3, <1>4, <1>5, <1>6, <1>7, <1>8, <1>9, <1>10 DEF Next
-----------------------------------------------------------------------------
(* The app commands: the order of the channels.                             *)

(* A request that is under way has seen only errors, of channels that come  *)
(* before the one it tries.                                                 *)
UnderWay(r) ==
  /\ pc[r] = "begin" => calls[r] = <<>>
  /\ pc[r] # "done" => result[r] = "none"
  /\ pc[r] = "wda" => mode = "full" /\ kind[r] \in {"launch", "kill"}
  /\ pc[r] \in Channels =>
       \A i \in DOMAIN calls[r] : ~calls[r][i][2] /\ Rank[calls[r][i][1]] < Rank[pc[r]]

InOrder(r) ==
  /\ \A i, j \in DOMAIN calls[r] : i < j => Rank[calls[r][i][1]] < Rank[calls[r][j][1]] /\ ~calls[r][i][2]
  /\ mode # "full" => \A i \in DOMAIN calls[r] : calls[r][i][1] # "wda"
  /\ result[r] = "error" /\ kind[r] \in {"launch", "kill"} /\ mode = "full" =>
       \E i \in DOMAIN calls[r] : calls[r][i][1] = "wda"
  /\ result[r] # "none" /\ calls[r] # <<>> => (calls[r][Len(calls[r])][2] <=> result[r] # "error")

OrderInv ==
  /\ AsksDevice
  /\ ~connected => mode = "unset"
  /\ \A r \in Requests : UnderWay(r) /\ InOrder(r)

LEMMA OrderInitial == Init => OrderInv
  BY DEF Init, OrderInv, AsksDevice, UnderWay, InOrder, Channels

LEMMA OrderGivesFallback == OrderInv => FallbackInOrder
  BY DEF OrderInv, InOrder, FallbackInOrder

LEMMA Ranks == /\ Rank["appservice"] = 1 /\ Rank["device"] = 1
               /\ Rank["instruments"] = 2 /\ Rank["wda"] = 3
  BY DEF Rank, Channels

(* The other requests keep theirs.                                          *)
LEMMA OrderOfOthers ==
  ASSUME AppTypeOK, NEW q \in Requests, UnderWay(q), InOrder(q),
         calls'[q] = calls[q], pc'[q] = pc[q], result'[q] = result[q], kind' = kind, mode' = mode
  PROVE  UnderWay(q)' /\ InOrder(q)'
  BY DEF UnderWay, InOrder

LEMMA OrderFailed ==
  ASSUME AppTypeOK, OrderInv, NEW r \in Requests, pc[r] \in Channels, Fail(r),
         UNCHANGED <<session, asked>>
  PROVE  OrderInv'
<1>1. /\ calls' \in [Requests -> Seq(Channels \X BOOLEAN)]
      /\ \A q \in Requests \ {r} : calls'[q] = calls[q]
      /\ Len(calls[r]) \in Nat /\ DOMAIN calls[r] = 1 .. Len(calls[r])
      /\ Len(calls'[r]) = Len(calls[r]) + 1 /\ DOMAIN calls'[r] = 1 .. Len(calls[r]) + 1
      /\ \A i \in DOMAIN calls[r] : calls'[r][i] = calls[r][i] /\ calls[r][i][1] \in Channels
      /\ calls'[r][Len(calls[r]) + 1] = <<pc[r], FALSE>>
      /\ \A i \in DOMAIN calls'[r] : i \in DOMAIN calls[r] \/ i = Len(calls[r]) + 1
  BY CallRecorded DEF Fail
<1>2. pc' = [pc EXCEPT ![r] = NextChannel(r)]
  BY DEF Fail, Finish, Goto
<1>3. result' = IF NextChannel(r) = "done" THEN [result EXCEPT ![r] = "error"] ELSE result
  BY DEF Fail, Finish, Goto
<1>4. /\ kind' = kind /\ mode' = mode /\ connected' = connected
      /\ pc'[r] = NextChannel(r)
      /\ result'[r] = IF NextChannel(r) = "done" THEN "error" ELSE "none"
  BY <1>2, <1>3 DEF AppTypeOK, session, asked, OrderInv, UnderWay, Channels
<1>5. ASSUME NEW q \in Requests \ {r} PROVE UnderWay(q)' /\ InOrder(q)'
  <2>1. calls'[q] = calls[q] /\ pc'[q] = pc[q] /\ result'[q] = result[q]
    BY <1>1, <1>2, <1>3 DEF AppTypeOK
  <2> QED BY <1>4, <2>1, OrderOfOthers DEF OrderInv
<1>6. \A i \in DOMAIN calls[r] : ~calls[r][i][2] /\ Rank[calls[r][i][1]] < Rank[pc[r]]
  BY DEF OrderInv, UnderWay
<1>7. \A i \in DOMAIN calls'[r] :
        \/ i \in DOMAIN calls[r] /\ calls'[r][i] = calls[r][i]
        \/ i = Len(calls[r]) + 1 /\ calls'[r][i][1] = pc[r] /\ calls'[r][i][2] = FALSE
  <2>1. /\ calls'[r][Len(calls[r]) + 1][1] = pc[r]
        /\ calls'[r][Len(calls[r]) + 1][2] = FALSE
    BY <1>1
  <2> QED BY <1>1, <2>1
<1>8. NextChannel(r) # "done" =>
        /\ NextChannel(r) \in {"instruments", "wda"} /\ Rank[pc[r]] < Rank[NextChannel(r)]
        /\ NextChannel(r) = "wda" => mode = "full" /\ kind[r] \in {"launch", "kill"}
  BY Ranks DEF NextChannel, Channels
<1>9. \A c \in Channels : Rank[c] \in Nat
  BY Ranks DEF Channels
<1>10. UnderWay(r)'
  <2>1. CASE NextChannel(r) = "done"
    BY <1>4, <2>1 DEF UnderWay, Channels
  <2>2. CASE NextChannel(r) # "done"
    <3>1. \A i \in DOMAIN calls'[r] :
            ~calls'[r][i][2] /\ Rank[calls'[r][i][1]] < Rank[NextChannel(r)]
      <4> TAKE i \in DOMAIN calls'[r]
      <4>1. CASE i \in DOMAIN calls[r] /\ calls'[r][i] = calls[r][i]
        <5>1. /\ ~calls[r][i][2] /\ Rank[calls[r][i][1]] < Rank[pc[r]]
              /\ Rank[pc[r]] < Rank[NextChannel(r)]
          BY <1>6, <1>8, <2>2, <4>1
        <5>2. /\ Rank[calls[r][i][1]] \in Nat /\ Rank[pc[r]] \in Nat
              /\ Rank[NextChannel(r)] \in Nat
          BY <1>1, <1>8, <1>9, <2>2, <4>1 DEF Channels
        <5> QED BY <4>1, <5>1, <5>2
      <4>2. CASE calls'[r][i][1] = pc[r] /\ calls'[r][i][2] = FALSE
        BY <1>8, <2>2, <4>2
      <4> QED BY <1>7, <4>1, <4>2
    <3> QED BY <1>4, <1>8, <2>2, <3>1 DEF UnderWay
  <2> QED BY <2>1, <2>2
<1>11. InOrder(r)'
  <2>1. \A i, j \in DOMAIN calls'[r] :
          i < j => Rank[calls'[r][i][1]] < Rank[calls'[r][j][1]] /\ ~calls'[r][i][2]
    BY <1>1, <1>6, <1>7 DEF OrderInv, InOrder
  <2>2. mode' # "full" => \A i \in DOMAIN calls'[r] : calls'[r][i][1] # "wda"
    <3>1. mode # "full" => pc[r] # "wda" /\ \A i \in DOMAIN calls[r] : calls[r][i][1] # "wda"
      BY DEF OrderInv, InOrder, UnderWay
    <3> QED BY <1>4, <1>7, <3>1
  <2>3. result'[r] = "error" /\ kind'[r] \in {"launch", "kill"} /\ mode' = "full" =>
          \E i \in DOMAIN calls'[r] : calls'[r][i][1] = "wda"
    <3> SUFFICES ASSUME result'[r] = "error", kind[r] \in {"launch", "kill"}, mode = "full"
                 PROVE  \E i \in DOMAIN calls'[r] : calls'[r][i][1] = "wda"
      BY <1>4
    <3>1. pc[r] = "wda"
      BY <1>4, NextChannelWda
    <3>2. Len(calls[r]) + 1 \in DOMAIN calls'[r] /\ calls'[r][Len(calls[r]) + 1][1] = "wda"
      BY <1>1, <3>1
    <3> QED BY <3>2
  <2>4. result'[r] # "none" => (calls'[r][Len(calls'[r])][2] <=> result'[r] # "error")
    BY <1>1, <1>4
  <2> QED BY <2>1, <2>2, <2>3, <2>4 DEF InOrder
<1>12. AsksDevice' /\ (~connected' => mode' = "unset")
  BY <1>2, <1>4, <1>8 DEF OrderInv, AsksDevice, AppTypeOK
<1> QED BY <1>5, <1>10, <1>11, <1>12 DEF OrderInv

LEMMA OrderAnswered ==
  ASSUME AppTypeOK, OrderInv, NEW r \in Requests, pc[r] \in Channels, Called(r, TRUE),
         NEW v, v \notin {"none", "error"}, Finish(r, v), UNCHANGED <<session, asked>>
  PROVE  OrderInv'
<1>1. /\ calls' \in [Requests -> Seq(Channels \X BOOLEAN)]
      /\ \A q \in Requests \ {r} : calls'[q] = calls[q]
      /\ Len(calls[r]) \in Nat /\ DOMAIN calls[r] = 1 .. Len(calls[r])
      /\ Len(calls'[r]) = Len(calls[r]) + 1 /\ DOMAIN calls'[r] = 1 .. Len(calls[r]) + 1
      /\ \A i \in DOMAIN calls[r] : calls'[r][i] = calls[r][i] /\ calls[r][i][1] \in Channels
      /\ calls'[r][Len(calls[r]) + 1] = <<pc[r], TRUE>>
      /\ \A i \in DOMAIN calls'[r] : i \in DOMAIN calls[r] \/ i = Len(calls[r]) + 1
  BY CallRecorded
<1>2. /\ kind' = kind /\ mode' = mode /\ connected' = connected
      /\ pc'[r] = "done" /\ result'[r] = v
      /\ \A q \in Requests \ {r} : pc'[q] = pc[q] /\ result'[q] = result[q]
  BY DEF Finish, AppTypeOK, session, asked
<1>3. ASSUME NEW q \in Requests \ {r} PROVE UnderWay(q)' /\ InOrder(q)'
  BY <1>1, <1>2, OrderOfOthers DEF OrderInv
<1>4. \A i \in DOMAIN calls[r] : ~calls[r][i][2] /\ Rank[calls[r][i][1]] < Rank[pc[r]]
  BY DEF OrderInv, UnderWay
<1>5. \A i \in DOMAIN calls'[r] :
        \/ i \in DOMAIN calls[r] /\ calls'[r][i] = calls[r][i]
        \/ i = Len(calls[r]) + 1 /\ calls'[r][i][1] = pc[r] /\ calls'[r][i][2] = TRUE
  <2>1. /\ calls'[r][Len(calls[r]) + 1][1] = pc[r]
        /\ calls'[r][Len(calls[r]) + 1][2] = TRUE
    BY <1>1
  <2> QED BY <1>1, <2>1
<1>6. UnderWay(r)'
  BY <1>2 DEF UnderWay, Channels
<1>7. InOrder(r)'
  <2>1. \A i, j \in DOMAIN calls'[r] :
          i < j => Rank[calls'[r][i][1]] < Rank[calls'[r][j][1]] /\ ~calls'[r][i][2]
    BY <1>1, <1>4, <1>5 DEF OrderInv, InOrder
  <2>2. mode' # "full" => \A i \in DOMAIN calls'[r] : calls'[r][i][1] # "wda"
    <3>1. mode # "full" => pc[r] # "wda" /\ \A i \in DOMAIN calls[r] : calls[r][i][1] # "wda"
      BY DEF OrderInv, InOrder, UnderWay
    <3> QED BY <1>2, <1>5, <3>1
  <2>3. calls'[r][Len(calls'[r])][2] <=> result'[r] # "error"
    BY <1>1, <1>2
  <2> QED BY <1>2, <2>1, <2>2, <2>3 DEF InOrder
<1>8. AsksDevice' /\ (~connected' => mode' = "unset")
  BY <1>2 DEF OrderInv, AsksDevice
<1> QED BY <1>3, <1>6, <1>7, <1>8 DEF OrderInv

LEMMA OrderStep == AppTypeOK /\ OrderInv /\ [Next]_vars => OrderInv'
<1> SUFFICES ASSUME AppTypeOK, OrderInv, [Next]_vars PROVE OrderInv'
  OBVIOUS
<1>1. ASSUME UNCHANGED <<session, asked, pc, calls, result>> PROVE OrderInv'
  BY <1>1 DEF OrderInv, AsksDevice, UnderWay, InOrder, session, asked
<1>2. ASSUME NEW r \in Requests, pc[r] \in Channels, Succeed(r), UNCHANGED <<session, asked>>
      PROVE  OrderInv'
  BY <1>2, OrderAnswered DEF Succeed
<1>3. CASE ProcEnds \/ ProcStarts \/ UNCHANGED vars
  BY <1>1, <1>3 DEF ProcEnds, ProcStarts, vars
<1>4. ASSUME NEW r \in Requests, Begin(r) PROVE OrderInv'
  <2>1. /\ UNCHANGED <<calls, kind, mode, connected>> /\ calls[r] = <<>>
        /\ \A q \in Requests \ {r} : pc'[q] = pc[q] /\ result'[q] = result[q]
    BY <1>4 DEF Begin, Finish, Goto, session, asked, OrderInv, UnderWay, AppTypeOK
  <2>2. ASSUME NEW q \in Requests \ {r} PROVE UnderWay(q)' /\ InOrder(q)'
    BY <2>1, <2>2, OrderOfOthers DEF OrderInv
  <2>3. \/ pc'[r] = "done" /\ result'[r] = "error" /\ ~(kind[r] \in {"launch", "kill"} /\ mode = "full")
        \/ pc'[r] = "device" /\ result'[r] = "none" /\ kind[r] \in {"install", "uninstall", "list"}
        \/ pc'[r] \in {"appservice", "instruments"} /\ result'[r] = "none"
        \/ pc'[r] = "wda" /\ result'[r] = "none" /\ kind[r] \in {"launch", "kill"} /\ mode = "full"
    <3>1. result[r] = "none"
      BY <1>4 DEF Begin, OrderInv, UnderWay
    <3>2. CASE ~connected /\ kind[r] # "running"
      BY <1>4, <3>1, <3>2 DEF Begin, Finish, OrderInv, AppTypeOK
    <3>3. CASE ~(~connected /\ kind[r] # "running")
      BY <1>4, <3>1, <3>3 DEF Begin, Finish, Goto, AppTypeOK
    <3> QED BY <3>2, <3>3
  <2>4. UnderWay(r)' /\ InOrder(r)'
    BY <2>1, <2>3 DEF UnderWay, InOrder, Channels
  <2>5. AsksDevice' /\ (~connected' => mode' = "unset")
    BY <2>1, <2>3 DEF OrderInv, AsksDevice
  <2> QED BY <2>2, <2>4, <2>5 DEF OrderInv
<1>5. ASSUME NEW r \in Requests, Launch(r) PROVE OrderInv'
  BY <1>2, <1>5, OrderFailed DEF Launch, Channels
<1>6. ASSUME NEW r \in Requests, List(r) PROVE OrderInv'
  BY <1>1, <1>6, OrderFailed DEF List, Channels
<1>7. ASSUME NEW r \in Requests, KillListed(r) PROVE OrderInv'
  BY <1>2, <1>7, OrderFailed DEF KillListed, Channels
<1>8. ASSUME NEW r \in Requests, AskWda(r) PROVE OrderInv'
  BY <1>2, <1>8, OrderFailed DEF AskWda, Channels
<1>9. ASSUME NEW r \in Requests, AskDevice(r) PROVE OrderInv'
  BY <1>2, <1>9, OrderFailed DEF AskDevice, Channels
<1>10. ASSUME NEW r \in Requests, Foreground(r) PROVE OrderInv'
  <2>1. CASE Fail(r)
    BY <1>10, <2>1, OrderFailed DEF Foreground, Channels
  <2>2. CASE ~Fail(r)
    <3>1. PICK pid \in running :
            /\ Called(r, TRUE)
            /\ Finish(r, IF kind[r] = "foreground" THEN Name[procs[pid]]
                         ELSE IF Name[procs[pid]] = app[r] THEN "pass" ELSE "fail")
      BY <1>10, <2>2 DEF Foreground
    <3>2. Name[procs[pid]] \notin {"none", "error"}
      BY AppsAssumption DEF AppTypeOK
    <3>3. PICK v : v \notin {"none", "error"} /\ Finish(r, v)
      BY <3>1, <3>2
    <3> QED BY <1>10, <3>1, <3>3, OrderAnswered DEF Foreground, Channels
  <2> QED BY <2>1, <2>2
<1> QED BY <1>3, <1>4, <1>5, <1>6, <1>7, <1>8, <1>9, <1>10 DEF Next
-----------------------------------------------------------------------------
(* The app commands: what was done to the phone.                            *)

(* What a request has listed runs, or has ended in its time; so the process *)
(* that it kills has ended when the kill reports success.                   *)
Listing(r) ==
  /\ ended[r] \subseteq DOMAIN procs
  /\ listed[r] \subseteq running \cup ended[r]
  /\ listed[r] # {} => pc[r] \in {"appservice", "instruments"} /\ kind[r] = "kill"

Killed(r) == \A pid \in Pids : <<"kill", pid>> \in did[r] => pid \in DOMAIN procs /\ Named(r, pid)

Done(r) ==
  result[r] = "ok" =>
    /\ kind[r] = "launch" =>
         \E pid \in DOMAIN procs : <<"start", pid>> \in did[r] /\ procs[pid] = Main[app[r]]
    /\ kind[r] = "kill" =>
         <<"stop", app[r]>> \in did[r] \/ \E pid \in ended[r] : Named(r, pid)
    /\ kind[r] \in {"install", "uninstall"} => <<kind[r], app[r]>> \in did[r]

DeedsInv == \A r \in Requests : Listing(r) /\ Killed(r) /\ Done(r)

LEMMA DeedsInitial == Init => DeedsInv
  BY DEF Init, DeedsInv, Listing, Killed, Done

LEMMA DeedsGiveOk == AppTypeOK /\ DeedsInv => OkMeansDone
<1> SUFFICES ASSUME AppTypeOK, DeedsInv, NEW r \in Requests
             PROVE  /\ result[r] = "ok" =>
                         CASE kind[r] = "launch" ->
                                \E pid \in Pids : <<"start", pid>> \in did[r] /\ procs[pid] = Main[app[r]]
                           [] kind[r] = "kill" ->
                                <<"stop", app[r]>> \in did[r] \/ \E pid \in ended[r] : Named(r, pid)
                           [] kind[r] \in {"install", "uninstall"} -> <<kind[r], app[r]>> \in did[r]
                           [] OTHER -> TRUE
                    /\ \A pid \in Pids : <<"kill", pid>> \in did[r] => Named(r, pid)
  BY DEF OkMeansDone
<1>1. \A pid \in Pids : <<"kill", pid>> \in did[r] => Named(r, pid)
  BY DEF DeedsInv, Killed
<1>2. ASSUME result[r] = "ok", kind[r] = "launch"
      PROVE  \E pid \in Pids : <<"start", pid>> \in did[r] /\ procs[pid] = Main[app[r]]
  BY <1>2, PidsOfProcs DEF DeedsInv, Done
<1>3. ASSUME result[r] = "ok", kind[r] = "kill"
      PROVE  <<"stop", app[r]>> \in did[r] \/ \E pid \in ended[r] : Named(r, pid)
  BY <1>3 DEF DeedsInv, Done
<1>4. ASSUME result[r] = "ok", kind[r] \in {"install", "uninstall"}
      PROVE  <<kind[r], app[r]>> \in did[r]
  BY <1>4 DEF DeedsInv, Done
<1> QED BY <1>1, <1>2, <1>3, <1>4

(* What was so of a process stays so when another one is added.             *)
Grown ==
  /\ \A pid \in DOMAIN procs : pid \in DOMAIN procs' /\ procs'[pid] = procs[pid]
  /\ running \subseteq running'

LEMMA DeedsKept ==
  ASSUME AppTypeOK, DeedsInv, NEW q \in Requests, UNCHANGED asked, Grown,
         did'[q] = did[q], ended'[q] = ended[q], listed'[q] = listed[q],
         pc'[q] = pc[q], result'[q] = result[q]
  PROVE  Listing(q)' /\ Killed(q)' /\ Done(q)'
<1>1. Listing(q) /\ Killed(q) /\ Done(q) /\ kind'[q] = kind[q] /\ app'[q] = app[q]
  BY DEF DeedsInv, asked
<1>2. ASSUME NEW pid \in DOMAIN procs, Named(q, pid) PROVE Named(q, pid)'
  BY <1>1, <1>2 DEF Named, Grown
<1>3. Listing(q)'
  BY <1>1 DEF Listing, Grown
<1>4. Killed(q)'
  BY <1>1, <1>2 DEF Killed, Grown
<1>5. Done(q)'
  <2> SUFFICES ASSUME result[q] = "ok"
               PROVE  /\ kind[q] = "launch" => \E pid \in DOMAIN procs' :
                            <<"start", pid>> \in did[q] /\ procs'[pid] = Main[app[q]]
                      /\ kind[q] = "kill" => <<"stop", app[q]>> \in did[q]
                                             \/ \E pid \in ended[q] : Named(q, pid)'
                      /\ kind[q] \in {"install", "uninstall"} => <<kind[q], app[q]>> \in did[q]
    BY <1>1 DEF Done
  <2>1. ASSUME kind[q] = "launch"
        PROVE  \E pid \in DOMAIN procs' : <<"start", pid>> \in did[q] /\ procs'[pid] = Main[app[q]]
    BY <1>1, <2>1 DEF Done, Grown
  <2>2. ASSUME kind[q] = "kill"
        PROVE  <<"stop", app[q]>> \in did[q] \/ \E pid \in ended[q] : Named(q, pid)'
    BY <1>1, <1>2, <2>2 DEF Done, Listing
  <2> QED BY <1>1, <2>1, <2>2 DEF Done
<1> QED BY <1>3, <1>4, <1>5

(* Processes end: every request under way sees it.                          *)
LEMMA DeedsWhenEnded ==
  ASSUME AppTypeOK, DeedsInv, NEW q \in Requests, NEW pids, End(pids), UNCHANGED <<asked, procs>>,
         did'[q] = did[q], listed'[q] = listed[q], pc'[q] = pc[q], result'[q] = result[q]
  PROVE  Listing(q)' /\ Killed(q)' /\ Done(q)'
<1>1. Listing(q) /\ Killed(q) /\ Done(q) /\ kind'[q] = kind[q] /\ app'[q] = app[q]
  BY DEF DeedsInv, asked
<1>2. ended'[q] = IF Active(q) THEN ended[q] \cup (pids \cap running) ELSE ended[q]
  BY DEF End
<1>3. running' = running \ pids
  BY DEF End
<1>4. Listing(q)'
  <2>1. ended'[q] \subseteq DOMAIN procs'
    BY <1>1, <1>2 DEF Listing, AppTypeOK
  <2>2. listed'[q] # {} => Active(q)
    BY <1>1 DEF Listing, Active
  <2>3. listed'[q] \subseteq running' \cup ended'[q]
    BY <1>1, <1>2, <1>3, <2>2 DEF Listing
  <2> QED BY <1>1, <2>1, <2>3 DEF Listing
<1>5. \A pid : Named(q, pid) = Named(q, pid)'
  BY <1>1 DEF Named
<1>6. Killed(q)'
  BY <1>1, <1>5 DEF Killed
<1>7. ended[q] \subseteq ended'[q]
  BY <1>2
<1>8. Done(q)'
  BY <1>1, <1>5, <1>7 DEF Done
<1> QED BY <1>4, <1>6, <1>8

(* The request that acts: it is left with no list.                          *)
LEMMA DeedsOfActor ==
  ASSUME AppTypeOK, DeedsInv, NEW r \in Requests, UNCHANGED asked, listed'[r] = {},
         \A pid \in DOMAIN procs : pid \in DOMAIN procs' /\ procs'[pid] = procs[pid],
         ended'[r] \subseteq DOMAIN procs,
         \A pid \in Pids : <<"kill", pid>> \in did'[r] =>
                             <<"kill", pid>> \in did[r] \/ (pid \in DOMAIN procs /\ Named(r, pid)),
         Done(r)'
  PROVE  Listing(r)' /\ Killed(r)' /\ Done(r)'
<1>1. Killed(r) /\ app'[r] = app[r]
  BY DEF DeedsInv, asked
<1>2. ASSUME NEW pid \in DOMAIN procs, Named(r, pid) PROVE Named(r, pid)'
  BY <1>1, <1>2 DEF Named
<1>3. Killed(r)'
  BY <1>1, <1>2 DEF Killed
<1>4. Listing(r)'
  BY DEF Listing
<1> QED BY <1>3, <1>4

LEMMA FailMoves ==
  ASSUME AppTypeOK, OrderInv, NEW r \in Requests, pc[r] \in Channels, Fail(r)
  PROVE  /\ result'[r] # "ok"
         /\ \A q \in Requests \ {r} : pc'[q] = pc[q] /\ result'[q] = result[q]
<1>1. result[r] = "none"
  BY DEF OrderInv, UnderWay, Channels
<1>2. UNCHANGED result \/ result' = [result EXCEPT ![r] = "error"]
  BY DEF Fail, Finish, Goto
<1>3. pc' = [pc EXCEPT ![r] = NextChannel(r)]
  BY DEF Fail, Finish, Goto
<1> QED BY <1>1, <1>2, <1>3 DEF AppTypeOK

LEMMA FinishMoves ==
  ASSUME AppTypeOK, NEW r \in Requests, NEW v, Finish(r, v)
  PROVE  /\ result'[r] = v /\ pc'[r] = "done"
         /\ \A q \in Requests \ {r} : pc'[q] = pc[q] /\ result'[q] = result[q]
  BY DEF Finish, AppTypeOK

LEMMA DidDoes ==
  ASSUME AppTypeOK, NEW r \in Requests, NEW deed, Does(r, deed)
  PROVE  /\ did'[r] = did[r] \cup {deed}
         /\ \A q \in Requests \ {r} : did'[q] = did[q]
  BY DEF Does, AppTypeOK

LEMMA DeedsStep == AppTypeOK /\ OrderInv /\ DeedsInv /\ [Next]_vars => DeedsInv'
<1> SUFFICES ASSUME AppTypeOK, OrderInv, DeedsInv, [Next]_vars PROVE DeedsInv'
  OBVIOUS
<1> DEFINE Good(q) == Listing(q) /\ Killed(q) /\ Done(q)
<1>1. CASE ProcEnds
  BY <1>1, DeedsWhenEnded DEF ProcEnds, DeedsInv
<1>2. CASE ProcStarts
  <2>1. Grown
    BY <1>2, ProcAdded DEF ProcStarts, Grown
  <2> QED BY <1>2, <2>1, DeedsKept DEF ProcStarts, DeedsInv
<1>3. ASSUME NEW r \in Requests, Begin(r) PROVE DeedsInv'
  <2>1. Grown /\ UNCHANGED <<asked, procs, listed, ended, did>>
    BY <1>3 DEF Begin, Grown
  <2>2. /\ \A q \in Requests \ {r} : pc'[q] = pc[q] /\ result'[q] = result[q]
        /\ result'[r] # "ok"
    BY <1>3 DEF Begin, Finish, Goto, OrderInv, UnderWay, AppTypeOK
  <2>3. \A q \in Requests \ {r} : Good(q)'
    BY <2>1, <2>2, DeedsKept
  <2>4. listed[r] = {} /\ ended[r] \subseteq DOMAIN procs
    BY <1>3 DEF Begin, DeedsInv, Listing
  <2>5. Done(r)'
    BY <2>2 DEF Done
  <2>6. Good(r)'
    BY <2>1, <2>4, <2>5, DeedsOfActor
  <2> QED BY <2>3, <2>6 DEF DeedsInv
<1>4. ASSUME NEW r \in Requests, Launch(r) PROVE DeedsInv'
  <2>1. UNCHANGED <<asked, listed, ended>> /\ kind[r] = "launch" /\ pc[r] \in Channels
    BY <1>4 DEF Launch, Channels
  <2>2. /\ Grown /\ \A q \in Requests \ {r} : did'[q] = did[q]
        /\ \A pid : <<"kill", pid>> \in did'[r] => <<"kill", pid>> \in did[r]
        /\ \/ Fail(r)
           \/ /\ Succeed(r)
              /\ \E pid \in DOMAIN procs' : <<"start", pid>> \in did'[r] /\ procs'[pid] = Main[app[r]]
    <3>1. CASE UNCHANGED <<procs, running, did>> /\ Fail(r)
      BY <3>1 DEF Grown
    <3>2. CASE Starts(r)
      <4>1. Grown
        BY <3>2, StartsTypes DEF Grown
      <4>2. PICK pid \in DOMAIN procs' : Does(r, <<"start", pid>>) /\ procs'[pid] = Main[app[r]]
        BY <3>2, StartsTypes
      <4>3. did'[r] = did[r] \cup {<<"start", pid>>} /\ \A q \in Requests \ {r} : did'[q] = did[q]
        BY <4>2, DidDoes
      <4> QED BY <1>4, <4>1, <4>2, <4>3 DEF Launch
    <3> QED BY <1>4, <3>1, <3>2 DEF Launch
  <2>3. \A q \in Requests \ {r} : pc'[q] = pc[q] /\ result'[q] = result[q]
    BY <2>1, <2>2, FailMoves, FinishMoves DEF Succeed
  <2>4. \A q \in Requests \ {r} : Good(q)'
    BY <2>1, <2>2, <2>3, DeedsKept
  <2>5. Done(r)'
    BY <2>1, <2>2, FailMoves DEF Done, asked
  <2>6. listed[r] = {} /\ ended[r] \subseteq DOMAIN procs
    BY <2>1 DEF DeedsInv, Listing
  <2>7. Good(r)'
    BY <2>1, <2>2, <2>5, <2>6, DeedsOfActor DEF Grown
  <2> QED BY <2>4, <2>7 DEF DeedsInv
<1>5. ASSUME NEW r \in Requests, List(r) PROVE DeedsInv'
  <2>1. /\ UNCHANGED <<asked, procs, running, ended, did>> /\ Grown
        /\ kind[r] = "kill" /\ pc[r] \in {"appservice", "instruments"} /\ pc[r] \in Channels
        /\ listed[r] = {} /\ result[r] = "none"
    BY <1>5 DEF List, Grown, Channels, OrderInv, UnderWay
  <2>2. \/ Fail(r) /\ UNCHANGED listed
        \/ listed' = [listed EXCEPT ![r] = running] /\ UNCHANGED <<pc, result>>
    BY <1>5 DEF List
  <2>3. \A q \in Requests \ {r} :
          pc'[q] = pc[q] /\ result'[q] = result[q] /\ listed'[q] = listed[q]
    BY <2>1, <2>2, FailMoves DEF AppTypeOK
  <2>4. \A q \in Requests \ {r} : Good(q)'
    BY <2>1, <2>3, DeedsKept
  <2>5. Done(r)'
    BY <2>1, <2>2, FailMoves DEF Done
  <2>6. Good(r)'
    <3>1. CASE Fail(r) /\ UNCHANGED listed
      <4>1. ended[r] \subseteq DOMAIN procs
        BY DEF DeedsInv, Listing
      <4> QED BY <2>1, <2>5, <3>1, <4>1, DeedsOfActor
    <3>2. CASE listed' = [listed EXCEPT ![r] = running] /\ UNCHANGED <<pc, result>>
      <4>1. listed'[r] = running
        BY <3>2 DEF AppTypeOK
      <4>2. Listing(r)'
        BY <2>1, <3>2, <4>1 DEF Listing, DeedsInv, asked
      <4>3. Killed(r)'
        BY <2>1 DEF DeedsInv, Killed, Named, asked
      <4> QED BY <2>5, <4>2, <4>3
    <3> QED BY <2>2, <3>1, <3>2
  <2> QED BY <2>4, <2>6 DEF DeedsInv
<1>6. ASSUME NEW r \in Requests, KillListed(r) PROVE DeedsInv'
  <2>1. /\ UNCHANGED <<asked, procs>> /\ pc[r] \in {"appservice", "instruments"}
        /\ pc[r] \in Channels /\ Active(r)
        /\ listed'[r] = {} /\ \A q \in Requests \ {r} : listed'[q] = listed[q]
        /\ listed[r] \subseteq running \cup ended[r] /\ ended[r] \subseteq DOMAIN procs
        /\ kind[r] = "kill"
    BY <1>6 DEF KillListed, Channels, Active, AppTypeOK, DeedsInv, Listing
  <2>2. CASE Fail(r) /\ UNCHANGED <<running, ended, did>>
    <3>1. Grown
      BY <2>1, <2>2 DEF Grown
    <3>2. \A q \in Requests \ {r} : Good(q)'
      BY <2>1, <2>2, <3>1, FailMoves, DeedsKept
    <3>3. Done(r)'
      BY <2>1, <2>2, FailMoves DEF Done
    <3>4. Good(r)'
      BY <2>1, <2>2, <3>3, DeedsOfActor
    <3> QED BY <3>2, <3>4 DEF DeedsInv
  <2>3. ASSUME NEW pid \in listed[r], Match(r, pid), End({pid}), Does(r, <<"kill", pid>>),
               Succeed(r) \/ Fail(r)
        PROVE  DeedsInv'
    <3>1. /\ did'[r] = did[r] \cup {<<"kill", pid>>}
          /\ \A q \in Requests \ {r} : did'[q] = did[q]
      BY <2>3, DidDoes
    <3>2. \A q \in Requests \ {r} : pc'[q] = pc[q] /\ result'[q] = result[q]
      BY <2>1, <2>3, FailMoves, FinishMoves DEF Succeed
    <3>3. \A q \in Requests \ {r} : Good(q)'
      BY <2>1, <2>3, <3>1, <3>2, DeedsWhenEnded
    <3>4. ended'[r] = ended[r] \cup ({pid} \cap running)
      BY <2>1, <2>3 DEF End
    <3>5. pid \in DOMAIN procs /\ pid \in ended'[r]
      BY <2>1, <3>4 DEF AppTypeOK
    <3>6. Named(r, pid) /\ Named(r, pid)'
      <4>1. pc[r] \in DOMAIN Matches
        BY <2>1, AppsAssumption
      <4> QED BY <2>1, <2>3, <4>1 DEF Match, Named, asked
    <3>7. Done(r)'
      BY <2>1, <3>5, <3>6 DEF Done, asked
    <3>8. ended'[r] \subseteq DOMAIN procs
      BY <2>1, <3>4 DEF AppTypeOK
    <3>9. \A p \in Pids : <<"kill", p>> \in did'[r] =>
                            <<"kill", p>> \in did[r] \/ (p \in DOMAIN procs /\ Named(r, p))
      BY <3>1, <3>5, <3>6
    <3>10. Good(r)'
      BY <2>1, <3>7, <3>8, <3>9, DeedsOfActor
    <3> QED BY <3>3, <3>10 DEF DeedsInv
  <2> QED BY <1>6, <2>2, <2>3 DEF KillListed
<1>7. ASSUME NEW r \in Requests, AskWda(r) PROVE DeedsInv'
  <2>1. /\ UNCHANGED <<asked, listed>> /\ pc[r] = "wda" /\ pc[r] \in Channels /\ Active(r)
        /\ listed[r] = {} /\ ended[r] \subseteq DOMAIN procs /\ Killed(r)
    BY <1>7 DEF AskWda, Channels, Active, DeedsInv, Listing
  <2>2. \A q \in Requests \ {r} : pc'[q] = pc[q] /\ result'[q] = result[q]
    BY <1>7, <2>1, FailMoves, FinishMoves DEF AskWda, Succeed
  <2>3. CASE Fail(r) /\ UNCHANGED <<procs, running, ended, did>>
    <3>1. Grown
      BY <2>3 DEF Grown
    <3>2. \A q \in Requests \ {r} : Good(q)'
      BY <2>1, <2>2, <2>3, <3>1, DeedsKept
    <3>3. Done(r)'
      BY <2>1, <2>3, FailMoves DEF Done
    <3>4. Good(r)'
      BY <2>1, <2>3, <3>3, DeedsOfActor
    <3> QED BY <3>2, <3>4 DEF DeedsInv
  <2>4. CASE kind[r] = "launch" /\ Starts(r) /\ UNCHANGED ended
    <3>1. Grown
      BY <2>4, StartsTypes DEF Grown
    <3>2. PICK pid \in DOMAIN procs' : Does(r, <<"start", pid>>) /\ procs'[pid] = Main[app[r]]
      BY <2>4, StartsTypes
    <3>3. did'[r] = did[r] \cup {<<"start", pid>>} /\ \A q \in Requests \ {r} : did'[q] = did[q]
      BY <3>2, DidDoes
    <3>4. \A q \in Requests \ {r} : Good(q)'
      BY <2>1, <2>2, <2>4, <3>1, <3>3, DeedsKept
    <3>5. Done(r)'
      BY <2>1, <2>4, <3>2, <3>3 DEF Done, asked
    <3>6. Good(r)'
      BY <2>1, <2>4, <3>1, <3>3, <3>5, DeedsOfActor DEF Grown
    <3> QED BY <3>4, <3>6 DEF DeedsInv
  <2>5. ASSUME NEW pids, kind[r] = "kill", Does(r, <<"stop", app[r]>>), End(pids), UNCHANGED procs
        PROVE  DeedsInv'
    <3>1. did'[r] = did[r] \cup {<<"stop", app[r]>>} /\ \A q \in Requests \ {r} : did'[q] = did[q]
      BY <2>5, DidDoes
    <3>2. \A q \in Requests \ {r} : Good(q)'
      BY <2>1, <2>2, <2>5, <3>1, DeedsWhenEnded
    <3>3. Done(r)'
      BY <2>1, <2>5, <3>1 DEF Done, asked
    <3>4. ended'[r] \subseteq DOMAIN procs
      BY <2>1, <2>5 DEF End, AppTypeOK
    <3>5. Good(r)'
      BY <2>1, <2>5, <3>1, <3>3, <3>4, DeedsOfActor
    <3> QED BY <3>2, <3>5 DEF DeedsInv
  <2>6. PICK a \in {Success, Failure, NoAnswer} :
          /\ IF CheckResponse(a) THEN Succeed(r) ELSE Fail(r)
          /\ \/ /\ a # Failure /\ kind[r] = "launch" /\ Starts(r)
                /\ UNCHANGED ended
             \/ /\ a # Failure /\ kind[r] = "kill" /\ Does(r, <<"stop", app[r]>>)
                /\ End({pid \in running : procs[pid] = Main[app[r]]})
                /\ UNCHANGED procs
             \/ a # Success /\ UNCHANGED <<procs, running, ended, did>>
    BY <1>7 DEF AskWda
  <2>7. a # Success => ~CheckResponse(a)
    BY DEF CheckResponse, Success, Failure
  <2> QED BY <2>3, <2>4, <2>5, <2>6, <2>7
<1>8. ASSUME NEW r \in Requests, AskDevice(r) PROVE DeedsInv'
  <2>1. /\ UNCHANGED <<asked, procs, running, listed, ended>> /\ Grown
        /\ pc[r] = "device" /\ pc[r] \in Channels /\ kind[r] \in {"install", "uninstall", "list"}
        /\ listed[r] = {} /\ ended[r] \subseteq DOMAIN procs
    BY <1>8 DEF AskDevice, Grown, Channels, DeedsInv, Listing, OrderInv, AsksDevice
  <2>2. \A q \in Requests \ {r} : pc'[q] = pc[q] /\ result'[q] = result[q]
    BY <1>8, <2>1, FailMoves, FinishMoves DEF AskDevice, Succeed
  <2>3. /\ \A q \in Requests \ {r} : did'[q] = did[q]
        /\ did'[r] = did[r] \/ did'[r] = did[r] \cup {<<kind[r], app[r]>>}
        /\ Fail(r) \/ kind[r] = "list" \/ <<kind[r], app[r]>> \in did'[r]
    BY <1>8, DidDoes DEF AskDevice
  <2>4. \A q \in Requests \ {r} : Good(q)'
    BY <2>1, <2>2, <2>3, DeedsKept
  <2>5. Done(r)'
    BY <2>1, <2>3, FailMoves DEF Done, asked
  <2>6. \A pid : <<"kill", pid>> # <<kind[r], app[r]>>
    BY <2>1
  <2>7. Good(r)'
    BY <2>1, <2>3, <2>5, <2>6, DeedsOfActor
  <2> QED BY <2>4, <2>7 DEF DeedsInv
<1>9. ASSUME NEW r \in Requests, Foreground(r) PROVE DeedsInv'
  <2>1. /\ UNCHANGED <<asked, procs, running, listed, ended, did>> /\ Grown
        /\ pc[r] \in Channels /\ kind[r] \in {"foreground", "running"}
        /\ listed[r] = {} /\ ended[r] \subseteq DOMAIN procs
    BY <1>9 DEF Foreground, Grown, Channels, DeedsInv, Listing
  <2>2. \A q \in Requests \ {r} : pc'[q] = pc[q] /\ result'[q] = result[q]
    BY <1>9, <2>1, FailMoves, FinishMoves DEF Foreground
  <2>3. \A q \in Requests \ {r} : Good(q)'
    BY <2>1, <2>2, DeedsKept
  <2>4. Done(r)'
    BY <2>1 DEF Done, asked
  <2>5. Good(r)'
    BY <2>1, <2>4, DeedsOfActor
  <2> QED BY <2>3, <2>5 DEF DeedsInv
<1>10. CASE UNCHANGED vars
  <2>1. Grown /\ UNCHANGED <<asked, did, ended, listed, pc, result>>
    BY <1>10 DEF vars, Grown
  <2>2. \A q \in Requests : Good(q)'
    BY <2>1, DeedsKept
  <2> QED BY <2>2 DEF DeedsInv
<1> QED BY <1>1, <1>2, <1>3, <1>4, <1>5, <1>6, <1>7, <1>8, <1>9, <1>10 DEF Next

-----------------------------------------------------------------------------
AppInv == AppTypeOK /\ OrderInv /\ DeedsInv

LEMMA AppInvInitial == Init => AppInv
  BY AppInitial, OrderInitial, DeedsInitial DEF AppInv

LEMMA AppInvStep == AppInv /\ [Next]_vars => AppInv'
  BY AppTypeStep, OrderStep, DeedsStep DEF AppInv, OrderInv

(* The types of the app commands hold for any number of requests and        *)
(* processes (app_manager.go, app.go).                                      *)
THEOREM AppTypeCorrect == AppSpec => []AppTypeOK
<1>1. AppInv => AppTypeOK
  BY DEF AppInv
<1> QED BY <1>1, AppInvInitial, AppInvStep, PTL DEF AppSpec

(* Every command tries its channels in order, each after an error of the one*)
(* before it (app_manager.go:57-75, 86-104).                                *)
THEOREM FallbackAlwaysInOrder == AppSpec => []FallbackInOrder
<1>1. AppInv => FallbackInOrder
  BY OrderGivesFallback DEF AppInv
<1> QED BY <1>1, AppInvInitial, AppInvStep, PTL DEF AppSpec

(* What a command reports as done was done, and what it killed had a path   *)
(* that named the app (app_manager.go:52-75, app.go:189-195, 263-269).       *)
THEOREM OkAlwaysMeansDone == AppSpec => []OkMeansDone
<1>1. AppInv => OkMeansDone
  BY DeedsGiveOk DEF AppInv
<1> QED BY <1>1, AppInvInitial, AppInvStep, PTL DEF AppSpec
=============================================================================
