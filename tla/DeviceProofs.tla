---------------------------- MODULE DeviceProofs ----------------------------
(***************************************************************************)
(* Theorems about Device, for every value of its constants: its types and  *)
(* what a restart finds, however connect() calls overlap; and, for an      *)
(* application that awaits each life-cycle call, its session, its          *)
(* manifest, what its calls wait for, and that it implements Lifecycle.    *)
(***************************************************************************)
EXTENDS Device, TLAPS

USE CallsAssumption, KeysAssumption, CredentialsAssumption, OptionsAssumption, BoundsAssumption

\* The fields of a new Device have their types.
LEMMA InitType == Init => TypeOK
<1> SUFFICES ASSUME Init PROVE TypeOK
  OBVIOUS
<1> USE DEF Init
<1>1. codeSpent \in BOOLEAN
  BY Zenon
<1>2. state \in ConnectionState /\ manifest \in 1..MaxManifest /\ gwManifest \in 0..MaxManifest
      /\ faults \in 0..MaxFaults /\ crashes \in 0..MaxCrashes
  BY DEF ConnectionState
<1>3. pc \in [Calls -> CallState] /\ link \in [Calls -> LinkState]
  BY DEF CallState, Settled, LinkState
<1> QED
  BY <1>1, <1>2, <1>3 DEF TypeOK

\* What connect() does preserves the types.
LEMMA CallStepType ==
  ASSUME NEW c \in Calls, TypeOK, CallStep(c)
  PROVE  TypeOK'
<1> USE DEF TypeOK, ConnectionState, CallState, Settled, Provisioning, Jobs, LinkState, Live,
            Leaving, SubTasks, deviceVars, callVars, mqttVars, worldVars
<1>1. CASE LoadFound(c)
  BY <1>1 DEF LoadFound, Existing, OpenConnection
<1>2. CASE LoadNothing(c)
  BY <1>2 DEF LoadNothing
<1>3. CASE ClaimAccepted(c)
  BY <1>3 DEF ClaimAccepted
<1>4. CASE ClaimFailed(c)
  <2>1. codeSpent' \in BOOLEAN
    <3>1. codeSpent' = codeSpent \/ codeSpent' = TRUE
      BY <1>4, Zenon DEF ClaimFailed
    <3> QED BY <3>1
  <2>2. faults' \in 0..MaxFaults
    BY <1>4 DEF ClaimFailed
  <2> QED BY <1>4, <2>1, <2>2 DEF ClaimFailed
<1>5. CASE Saved(c)
  BY <1>5 DEF Saved, OpenConnection
<1>6. CASE SaveFailed(c)
  BY <1>6 DEF SaveFailed
<1>7. CASE Refused(c)
  BY <1>7 DEF Refused, EndedByCatch, Destroyed
<1>8. CASE Announce(c)
  BY <1>8 DEF Announce
<1>9. CASE AnnounceDone(c)
  BY <1>9 DEF AnnounceDone
<1>10. CASE LoadFailed(c)
  BY <1>10 DEF LoadFailed
<1> QED
  BY <1>1, <1>2, <1>3, <1>4, <1>5, <1>6, <1>7, <1>8, <1>9, <1>10, CallStep(c)
     DEF CallStep

\* The listeners on the mqtt.js client preserve the types.
LEMMA ClientStepType ==
  ASSUME NEW c \in Calls, TypeOK, ClientStep(c)
  PROVE  TypeOK'
<1> USE DEF TypeOK, ConnectionState, CallState, Settled, Provisioning, Jobs, LinkState, Live,
            Leaving, SubTasks, deviceVars, callVars, mqttVars, worldVars
<1>1. CASE OnConnect(c)
  BY <1>1 DEF OnConnect, StateAfterConnect, Republished, Published, CanPublish,
     HasSession, Accepted, CeilingAfterConnect
<1>2. CASE OnError(c)
  BY <1>2 DEF OnError
<1>3. CASE OnClose(c)
  BY <1>3 DEF OnClose, Closed, StateAfterClose, Flushed, AfterClose
<1>4. CASE Drop(c)
  BY <1>4 DEF Drop, Closed, StateAfterClose, Flushed, AfterClose
<1>5. CASE OnReconnect(c)
  BY <1>5 DEF OnReconnect
<1>6. CASE DeliverManifest(c)
  BY <1>6 DEF DeliverManifest
<1> QED BY <1>1, <1>2, <1>3, <1>4, <1>5, <1>6, ClientStep(c) DEF ClientStep

\* The calls of the application preserve the types.
LEMMA ApplicationType ==
  ASSUME TypeOK, Application
  PROVE  TypeOK'
<1> USE DEF TypeOK, ConnectionState, CallState, Settled, Provisioning, Jobs, LinkState, Live,
            Leaving, SubTasks, deviceVars, callVars, mqttVars, worldVars
<1>1. ASSUME NEW c \in Calls, Connect(c) PROVE TypeOK'
  BY <1>1 DEF Connect
<1>2. ASSUME NEW d \in Stops, Disconnect(d) PROVE TypeOK'
  <2>1. /\ stopPc' \in [Stops -> {"ready", "ending", "done", "lost"}]
        /\ stopClient' \in [Stops -> Calls \cup {NoClient}]
        /\ link' \in [Calls -> LinkState]
    BY <1>2 DEF Disconnect, Ending
  <2>2. /\ client' \in Calls \cup {NoClient}
        /\ commandSubscribed' \in BOOLEAN
        /\ hasConnectedOnce' \in BOOLEAN
    BY <1>2 DEF Disconnect, ForgetSession
  <2> QED BY <1>2, <2>1, <2>2 DEF Disconnect
<1>3. ASSUME NEW k \in Keys, OnCommand(k) PROVE TypeOK'
  BY <1>3 DEF OnCommand
<1>4. ASSUME NEW k \in Keys, OffCommand(k) PROVE TypeOK'
  BY <1>4 DEF OffCommand
<1>5. ASSUME DeclareCapabilities PROVE TypeOK'
  BY <1>5 DEF DeclareCapabilities, Published, CanPublish, HasSession
<1> QED BY <1>1, <1>2, <1>3, <1>4, <1>5, Application DEF Application

\* The answers to a SUBSCRIBE or to end(), a restart and a stutter preserve the types.
LEMMA RestType ==
  ASSUME TypeOK,
         \/ \E x \in SubTasks : SubAck(x) \/ SubFailed(x)
         \/ \E d \in Stops : Disconnected(d)
         \/ Crash
         \/ UNCHANGED vars
  PROVE  TypeOK'
<1> USE DEF TypeOK, ConnectionState, CallState, Settled, LinkState, SubTasks, deviceVars,
            callVars, mqttVars, worldVars
<1>1. ASSUME NEW x \in SubTasks, SubAck(x) PROVE TypeOK'
  BY <1>1 DEF SubAck, Answered
<1>2. ASSUME NEW x \in SubTasks, SubFailed(x) PROVE TypeOK'
  BY <1>2 DEF SubFailed, Answered
<1>3. ASSUME NEW d \in Stops, Disconnected(d) PROVE TypeOK'
  BY <1>3 DEF Disconnected, ForgetSession
<1>4. CASE Crash
  <2>1. codeSpent' \in BOOLEAN
    <3>1. codeSpent' = codeSpent \/ codeSpent' = TRUE
      BY <1>4, Zenon DEF Crash, Restarted
    <3> QED BY <3>1
  <2>2. store' \in Credentials \cup {NoCredential}
    BY <1>4 DEF Crash, Restarted
  <2>3. pc' \in [Calls -> CallState] /\ link' \in [Calls -> LinkState]
    BY <1>4 DEF Crash, Restarted, Provisioning, Jobs
  <2>4. /\ manifest' \in 1..MaxManifest
        /\ wire' \in [Calls -> 0..MaxManifest]
        /\ crashes' \in 0..MaxCrashes
        /\ maxEventBytes' \in {"null", "low"}
    BY <1>4 DEF Crash, Restarted
  <2>5. /\ state' \in ConnectionState
        /\ client' \in Calls \cup {NoClient}
        /\ identity' \in Credentials \cup {NoCredential}
        /\ hasConnectedOnce' \in BOOLEAN
        /\ commandSubscribed' \in BOOLEAN
        /\ commandHandlers' \subseteq Keys
    BY <1>4 DEF Crash, Restarted
  <2>6. /\ held' \in [Calls -> Credentials \cup {NoCredential}]
        /\ stopPc' \in [Stops -> {"ready", "ending", "done", "lost"}]
        /\ stopClient' \in [Stops -> Calls \cup {NoClient}]
        /\ subTask' \in [SubTasks -> Calls \cup {NoClient}]
    BY <1>4 DEF Crash, Restarted
  <2>7. UNCHANGED <<subscribed, gwManifest, faults>>
    BY <1>4 DEF Crash, Restarted
  <2> QED BY <2>1, <2>2, <2>3, <2>4, <2>5, <2>6, <2>7
<1>5. CASE UNCHANGED vars
  BY <1>5 DEF vars
<1> QED BY <1>1, <1>2, <1>3, <1>4, <1>5

\* Every step preserves the types.
LEMMA TypeStep == TypeOK /\ [Next]_vars => TypeOK'
<1> SUFFICES ASSUME TypeOK, [Next]_vars PROVE TypeOK'
  OBVIOUS
<1>1. CASE Application
  BY <1>1, ApplicationType
<1>2. ASSUME NEW c \in Calls, CallStep(c) \/ ClientStep(c) PROVE TypeOK'
  BY <1>2, CallStepType, ClientStepType
<1> QED BY <1>1, <1>2, RestType DEF Next

\* Every variable keeps its type, whatever the application, the network and the
\* platform do.
THEOREM TypeCorrect == Spec => []TypeOK
BY InitType, TypeStep, PTL DEF Spec

-----------------------------------------------------------------------------
(***************************************************************************)
(* RestartSafe.                                                            *)
(***************************************************************************)

\* Nothing is claimed and no session runs at the start.
LEMMA ClaimInit == Init => ClaimInv
BY DEF Init, ClaimInv, OneSave, RestartSafe

\* Every step, of overlapping calls too, keeps claim, save and open in order.
LEMMA ClaimStep == TypeOK /\ ClaimInv /\ [Next]_vars => ClaimInv'
<1> SUFFICES ASSUME TypeOK, ClaimInv, [Next]_vars PROVE ClaimInv'
  OBVIOUS
<1> USE DEF ClaimInv, OneSave, RestartSafe
<1>1. ASSUME NEW c \in Calls, CallStep(c) PROVE ClaimInv'
  <2> USE DEF TypeOK, deviceVars, callVars, mqttVars
  <2>1. CASE LoadFound(c)
    BY <2>1 DEF LoadFound, Existing, OpenConnection
  <2>2. CASE LoadNothing(c)
    BY <2>2 DEF LoadNothing, worldVars
  <2>3. CASE ClaimAccepted(c)
    BY <2>3 DEF ClaimAccepted
  <2>4. CASE ClaimFailed(c)
    BY <2>4 DEF ClaimFailed
  <2>5. CASE Saved(c)
    BY <2>5 DEF Saved, OpenConnection
  <2>6. CASE SaveFailed(c)
    BY <2>6 DEF SaveFailed
  <2>7. CASE Refused(c)
    BY <2>7 DEF Refused, EndedByCatch, Destroyed, worldVars
  <2>8. CASE Announce(c)
    BY <2>8 DEF Announce, worldVars
  <2>9. CASE AnnounceDone(c)
    BY <2>9 DEF AnnounceDone, worldVars
    <2>10. CASE LoadFailed(c)
    BY <2>10 DEF LoadFailed
  <2> QED
    BY <1>1, <2>1, <2>2, <2>3, <2>4, <2>5, <2>6, <2>7, <2>8, <2>9, <2>10 DEF CallStep
<1>2. ASSUME NEW c \in Calls, ClientStep(c) PROVE ClaimInv'
  <2> USE DEF TypeOK, deviceVars, callVars, mqttVars
  <2>1. CASE OnConnect(c)
    BY <2>1 DEF OnConnect, Accepted, worldVars
  <2>2. CASE OnError(c)
    BY <2>2 DEF OnError
  <2>3. CASE OnClose(c)
    <3>1. \A i \in Calls : link'[i] # "none" => link[i] # "none"
      BY <2>3 DEF OnClose, Closed, Leaving
    <3>2. UNCHANGED <<identity, held, store, codeSpent>>
      BY <2>3 DEF OnClose, Closed
    <3>3. \A i \in Calls : pc'[i] = "saving" => pc[i] = "saving"
      BY <2>3 DEF OnClose, Closed, Flushed
    <3> QED BY <3>1, <3>2, <3>3
  <2>4. CASE Drop(c)
    BY <2>4 DEF Drop, Closed, Flushed
  <2>5. CASE OnReconnect(c)
    BY <2>5 DEF OnReconnect, worldVars
  <2>6. CASE DeliverManifest(c)
    BY <2>6 DEF DeliverManifest
  <2> QED BY <1>2, <2>1, <2>2, <2>3, <2>4, <2>5, <2>6 DEF ClientStep
<1>3. ASSUME NEW c \in Calls, Connect(c) PROVE ClaimInv'
  BY <1>3 DEF Connect, TypeOK, deviceVars, mqttVars, worldVars
<1>4. ASSUME NEW d \in Stops, Disconnect(d) PROVE ClaimInv'
  <2>1. \A i \in Calls : link'[i] # "none" => link[i] # "none"
    BY <1>4 DEF Disconnect, Ending, TypeOK, Live
  <2>2. UNCHANGED <<identity, pc, held, store, codeSpent>>
    BY <1>4 DEF Disconnect, worldVars
  <2> QED BY <2>1, <2>2
<1>5. ASSUME NEW k \in Keys, OnCommand(k) \/ OffCommand(k) PROVE ClaimInv'
  BY <1>5 DEF OnCommand, OffCommand, callVars, mqttVars, worldVars
<1>6. CASE DeclareCapabilities
  BY <1>6 DEF DeclareCapabilities, callVars, worldVars
<1>7. ASSUME NEW x \in SubTasks, SubAck(x) \/ SubFailed(x) PROVE ClaimInv'
  BY <1>7 DEF SubAck, SubFailed, Answered, TypeOK, deviceVars, mqttVars, worldVars
<1>8. ASSUME NEW d \in Stops, Disconnected(d) PROVE ClaimInv'
  BY <1>8 DEF Disconnected, mqttVars, worldVars
<1>9. CASE Crash
  BY <1>9 DEF Crash, Restarted, InFlight, Settled, TypeOK
<1>10. CASE UNCHANGED vars
  BY <1>10 DEF vars, deviceVars, callVars, mqttVars, worldVars
<1> QED BY <1>1, <1>2, <1>3, <1>4, <1>5, <1>6, <1>7, <1>8, <1>9, <1>10 DEF Next, Application

\* Any session, of any application, runs on a credential that a restarted process
\* would load: claim, save and open are never reordered by a failure, by a crash, or
\* by connect() calls that overlap.
THEOREM SessionsAreRestartSafe == Spec => []RestartSafe
<1>1. Init => ClaimInv
  BY ClaimInit
<1>2. TypeOK /\ ClaimInv /\ [Next]_vars => ClaimInv'
  BY ClaimStep
<1>3. ClaimInv => RestartSafe
  BY DEF ClaimInv
<1> QED BY <1>1, <1>2, <1>3, TypeCorrect, PTL DEF Spec

-----------------------------------------------------------------------------
(***************************************************************************)
(* The session of a sequential application.                                *)
(***************************************************************************)

\* A new Device has no call under way and no client.
LEMMA SessionInit == Init => SessionInv
BY DEF Init, SessionInv, OneAtATime, CallOwnsClient, OpeningIsQuiet, StopEndsClient, HeldIsLive,
       SubTasksOnClient, ClosedIsDead, NoOrphan, ConnectedIsUp, FlagHonest, InFlight, Stopping,
       Settled, Live

\* The steps of connect() preserve the session invariant.
LEMMA SessionCallStep ==
  ASSUME Sequential, TypeOK, SessionInv, NEW c \in Calls, CallStep(c)
  PROVE  SessionInv'
<1> USE DEF SessionInv, OneAtATime, CallOwnsClient, OpeningIsQuiet, StopEndsClient, HeldIsLive,
       SubTasksOnClient, Answerable, Outstanding, ClosedIsDead, NoOrphan, ConnectedIsUp,
       FlagHonest, InFlight, Stopping, Settled, Live, Provisioning, TypeOK, deviceVars, callVars,
       mqttVars
<1>1. CASE LoadFound(c)
  BY <1>1 DEF LoadFound, Existing, OpenConnection
<1>2. CASE LoadNothing(c)
  BY <1>2 DEF LoadNothing, worldVars
<1>3. CASE ClaimAccepted(c)
  BY <1>3 DEF ClaimAccepted
<1>4. CASE ClaimFailed(c)
  BY <1>4 DEF ClaimFailed
<1>5. CASE Saved(c)
  BY <1>5 DEF Saved, OpenConnection
<1>6. CASE SaveFailed(c)
  BY <1>6 DEF SaveFailed
<1>7. CASE Refused(c)
  BY <1>7 DEF Refused, EndedByCatch, Destroyed, worldVars
<1>8. CASE Announce(c)
  BY <1>8 DEF Announce, CanPublish, HasSession, worldVars
<1>9. CASE AnnounceDone(c)
  <2>1. /\ UNCHANGED <<state, client, commandSubscribed, stopPc, stopClient, link, subscribed>>
        /\ Stopping = {} /\ client = c
    BY <1>9 DEF AnnounceDone, worldVars
  <2>2. CASE pc' = [pc EXCEPT ![c] = "subscribing"] /\ subTask' = [subTask EXCEPT ![c] = c]
    BY <2>1, <2>2 DEF SubTasks
  <2>3. CASE subTask' = subTask /\ pc' \in {[pc EXCEPT ![c] = to] : to \in {"done", "failed"}}
    BY <2>1, <2>3
  <2> QED BY <1>9, <2>1, <2>2, <2>3 DEF AnnounceDone
<1>10. CASE LoadFailed(c)
  BY <1>10 DEF LoadFailed
<1> QED BY <1>1, <1>2, <1>3, <1>4, <1>5, <1>6, <1>7, <1>8, <1>9, <1>10 DEF CallStep

\* The listeners on the mqtt.js client preserve the session invariant.
LEMMA SessionClientStep ==
  ASSUME Sequential, TypeOK, SessionInv, NEW c \in Calls, ClientStep(c)
  PROVE  SessionInv'
<1> USE DEF SessionInv, OneAtATime, CallOwnsClient, OpeningIsQuiet, StopEndsClient, HeldIsLive,
       SubTasksOnClient, Answerable, Outstanding, ClosedIsDead, NoOrphan, ConnectedIsUp,
       FlagHonest, InFlight, Stopping, Settled, Live, Provisioning, TypeOK, deviceVars, callVars,
       mqttVars
<1>1. CASE OnConnect(c)
  BY <1>1 DEF OnConnect, StateAfterConnect, Accepted, Quiet, Jobs
<1>2. CASE OnError(c)
  BY <1>2 DEF OnError
<1>3. CASE OnClose(c)
  <2>1. /\ UNCHANGED <<client, commandSubscribed, stopPc, stopClient, subscribed>>
        /\ state' = IF state # "closed" THEN "reconnecting" ELSE state
        /\ Flushed(c)
    BY <1>3 DEF OnClose, Closed, StateAfterClose
  <2>2. \/ link[c] = "failing" /\ link' = [link EXCEPT ![c] = "waiting"]
        \/ /\ link[c] \in {"destroyed", "abandoned", "stray", "draining"}
           /\ link' = [link EXCEPT ![c] = "hung"]
           /\ link[c] # "destroyed"
        \/ /\ link[c] \in {"destroyed", "abandoned", "stray", "draining"}
           /\ link' = [link EXCEPT ![c] = "ended"]
    BY <1>3 DEF OnClose, Closed, AfterClose
  <2>3. \A i \in Calls : pc[i] # "refused"
    BY <1>3 DEF OnClose, Quiet, Jobs
  <2>4. \A i \in Calls : pc'[i] # pc[i] => pc'[i] = "failed" /\ subTask[i] = c
    BY <2>1 DEF Flushed
  <2>5. OneAtATime' /\ HeldIsLive' /\ ClosedIsDead' /\ NoOrphan' /\ FlagHonest'
    BY <2>1, <2>2, <2>4
  <2>6. CallOwnsClient'
    BY <2>1, <2>2, <2>4 DEF Flushed, SubTasks
  <2>7. OpeningIsQuiet'
    BY <2>1, <2>2, <2>3, <2>4
  <2>8. StopEndsClient'
    BY <2>1, <2>2 DEF Flushed
  <2>9. SubTasksOnClient' /\ ConnectedIsUp'
    BY <2>1, <2>2 DEF Flushed
  <2> QED BY <2>5, <2>6, <2>7, <2>8, <2>9
<1>4. CASE Drop(c)
  BY <1>4 DEF Drop, Closed, StateAfterClose, Flushed, AfterClose
<1>5. CASE OnReconnect(c)
  BY <1>5 DEF OnReconnect
<1>6. CASE DeliverManifest(c)
  BY <1>6 DEF DeliverManifest
<1> QED BY <1>1, <1>2, <1>3, <1>4, <1>5, <1>6 DEF ClientStep

\* So do the calls of the application, the answers to them and a restart.
LEMMA SessionRestStep ==
  ASSUME Sequential, TypeOK, SessionInv,
         \/ Application
         \/ \E x \in SubTasks : SubAck(x) \/ SubFailed(x)
         \/ \E d \in Stops : Disconnected(d)
         \/ Crash
         \/ UNCHANGED vars
  PROVE  SessionInv'
<1> USE DEF SessionInv, OneAtATime, CallOwnsClient, OpeningIsQuiet, StopEndsClient, HeldIsLive,
       SubTasksOnClient, Answerable, Outstanding, ClosedIsDead, NoOrphan, ConnectedIsUp,
       FlagHonest, InFlight, Stopping, Settled, Live, Provisioning, TypeOK, deviceVars, callVars,
       mqttVars
<1>1. ASSUME NEW c \in Calls, Connect(c) PROVE SessionInv'
  BY <1>1 DEF Connect, MayConnect
<1>2. ASSUME NEW d \in Stops, Disconnect(d) PROVE SessionInv'
  <2>1. /\ InFlight = {} /\ Stopping = {} /\ state' = "closed" /\ client' = client
        /\ UNCHANGED <<commandSubscribed, pc, subTask, subscribed>>
    BY <1>2 DEF Disconnect, MayDisconnect
  <2>2. CASE client = NoClient
    BY <1>2, <2>1, <2>2 DEF Disconnect
  <2>3. CASE client # NoClient
    <3>1. /\ stopPc' = [stopPc EXCEPT ![d] = "ending"]
          /\ stopClient' = [stopClient EXCEPT ![d] = client]
          /\ link' = [link EXCEPT ![client] = Ending(client)]
          /\ link[client] \in Live
      BY <1>2, <2>1, <2>3 DEF Disconnect
    <3>2. \/ Ending(client) \in {"draining", "overtaken", "abandoned", "hung"}
          \/ Ending(client) = "ended" /\ ~Outstanding(client)
      BY <3>1 DEF Ending
    <3> QED BY <2>1, <2>3, <3>1, <3>2
  <2> QED BY <2>2, <2>3
<1>3. ASSUME NEW k \in Keys, OnCommand(k) PROVE SessionInv'
  BY <1>3 DEF OnCommand, NeedsSubscription, HasSession, SubTasks
<1>4. ASSUME NEW k \in Keys, OffCommand(k) PROVE SessionInv'
  BY <1>4 DEF OffCommand
<1>5. CASE DeclareCapabilities
  BY <1>5 DEF DeclareCapabilities
<1>6. ASSUME NEW x \in SubTasks, SubAck(x) PROVE SessionInv'
  BY <1>6 DEF SubAck, Answered
<1>7. ASSUME NEW x \in SubTasks, SubFailed(x) PROVE SessionInv'
  BY <1>7 DEF SubFailed, Answered
<1>8. ASSUME NEW d \in Stops, Disconnected(d) PROVE SessionInv'
  BY <1>8 DEF Disconnected, ForgetSession
<1>9. CASE Crash
  BY <1>9 DEF Crash, Restarted
<1>10. CASE UNCHANGED vars
  BY <1>10 DEF vars
<1> QED BY <1>1, <1>2, <1>3, <1>4, <1>5, <1>6, <1>7, <1>8, <1>9, <1>10 DEF Application

\* Every step preserves the session invariant.
LEMMA SessionStep == Sequential /\ TypeOK /\ SessionInv /\ [Next]_vars => SessionInv'
<1> SUFFICES ASSUME Sequential, TypeOK, SessionInv, [Next]_vars PROVE SessionInv'
  OBVIOUS
<1>1. ASSUME NEW c \in Calls, CallStep(c) \/ ClientStep(c) PROVE SessionInv'
  BY <1>1, SessionCallStep, SessionClientStep
<1> QED BY <1>1, SessionRestStep DEF Next

\* The session invariant holds of a sequential application.
LEMMA SessionInvariant == Sequential => (Spec => []SessionInv)
<1> SUFFICES ASSUME Sequential PROVE Spec => []SessionInv
  OBVIOUS
<1>1. Init => SessionInv
  BY SessionInit
<1>2. TypeOK /\ SessionInv /\ [Next]_vars => SessionInv'
  BY SessionStep
<1> QED BY <1>1, <1>2, TypeCorrect, PTL DEF Spec

\* An application that awaits each life-cycle call before the next never loses hold of
\* a client mqtt.js keeps reconnecting.
THEOREM NoClientIsOrphaned == Sequential => (Spec => []NoOrphan)
<1>1. SessionInv => NoOrphan
  BY DEF SessionInv
<1> QED BY <1>1, SessionInvariant, PTL

\* For such an application the state "connected" is never shown without a session, but
\* while the late connection lasts of a client that disconnect() ended.
THEOREM ConnectedMeansUp == Sequential => (Spec => []ConnectedIsUp)
<1>1. SessionInv => ConnectedIsUp
  BY DEF SessionInv
<1> QED BY <1>1, SessionInvariant, PTL

\* For such an application commandSubscribed never outlives the session it describes.
THEOREM SubscribedFlagIsHonest == Sequential => (Spec => []FlagHonest)
<1>1. SessionInv => FlagHonest
  BY DEF SessionInv
<1> QED BY <1>1, SessionInvariant, PTL

\* For such an application nothing but a new connect() call, a restart, or the CONNACK of
\* a client that disconnect() ended while it opened, makes a closed Device show another
\* state.
THEOREM ClosedStaysClosed == Sequential => (Spec => ClosedIsFinal)
<1> DEFINE Reopens == \E c \in Calls : link[c] = "overtaken" /\ link'[c] \in {"draining", "stray"}
           Stays == state = "closed" /\ state' # "closed" =>
                      \/ \E c \in Calls : pc[c] \in Provisioning
                      \/ crashes' # crashes
                      \/ Reopens
<1>1. TypeOK /\ SessionInv /\ [Next]_vars => [Stays]_vars
  <2> SUFFICES ASSUME SessionInv, TypeOK, Next, state = "closed", state' # "closed",
                      crashes' = crashes
               PROVE  (\E c \in Calls : pc[c] \in Provisioning) \/ Reopens
    BY DEF vars
  <2> USE DEF SessionInv, ClosedIsDead, OpeningIsQuiet, Live
  <2>1. ASSUME NEW c \in Calls, CallStep(c) PROVE pc[c] \in Provisioning
    BY <2>1 DEF CallStep, LoadFound, LoadNothing, LoadFailed, ClaimAccepted, ClaimFailed,
         Saved, SaveFailed, Refused, Announce, AnnounceDone, Provisioning, deviceVars
  <2>2. ASSUME NEW c \in Calls, OnConnect(c) PROVE Reopens
    BY <2>2 DEF OnConnect, TypeOK
  <2>3. ASSUME NEW c \in Calls, ClientStep(c) PROVE OnConnect(c)
    BY <2>3 DEF ClientStep, OnError, OnClose, Drop, Closed, StateAfterClose, OnReconnect,
         DeliverManifest, deviceVars
  <2>4. ~Application
    BY DEF Application, Connect, Disconnect, OnCommand, OffCommand, DeclareCapabilities,
         deviceVars
  <2>5. ASSUME NEW x \in SubTasks PROVE ~SubAck(x) /\ ~SubFailed(x)
    BY DEF SubAck, SubFailed, deviceVars
  <2>6. ASSUME NEW d \in Stops PROVE ~Disconnected(d)
    BY DEF Disconnected
  <2>7. ~Crash
    BY DEF Crash, Restarted, TypeOK
  <2> QED BY <2>1, <2>2, <2>3, <2>4, <2>5, <2>6, <2>7 DEF Next
<1>2. Sequential => (Spec => [][Stays]_vars)
  BY <1>1, TypeCorrect, SessionInvariant, PTL DEF Spec
<1> QED BY <1>2 DEF ClosedIsFinal
-----------------------------------------------------------------------------
(***************************************************************************)
(* What a sequential application claims and announces.                     *)
(***************************************************************************)

\* The store is only filled by the call under way, and that call then opens.
LEMMA UnprovisionedStep ==
  Sequential /\ TypeOK /\ SessionInv /\ ClaimsUnprovisioned /\ [Next]_vars => ClaimsUnprovisioned'
<1> SUFFICES ASSUME Sequential, TypeOK, SessionInv, ClaimsUnprovisioned, [Next]_vars
             PROVE  ClaimsUnprovisioned'
  OBVIOUS
<1> USE DEF TypeOK, ClaimsUnprovisioned, SessionInv, OneAtATime, OpeningIsQuiet, InFlight,
       Settled, deviceVars, callVars, mqttVars, worldVars
<1>1. ASSUME NEW c \in Calls, CallStep(c) PROVE ClaimsUnprovisioned'
  <2>1. CASE LoadFound(c) \/ Saved(c)
    BY <2>1 DEF LoadFound, Saved, Existing, OpenConnection
  <2>2. CASE LoadNothing(c) \/ LoadFailed(c)
    BY <2>2 DEF LoadNothing, LoadFailed, Existing
  <2>3. CASE ClaimAccepted(c) \/ ClaimFailed(c) \/ SaveFailed(c)
    BY <2>3 DEF ClaimAccepted, ClaimFailed, SaveFailed
  <2>4. CASE Refused(c) \/ Announce(c) \/ AnnounceDone(c)
    BY <2>4 DEF Refused, Announce, AnnounceDone
  <2> QED BY <1>1, <2>1, <2>2, <2>3, <2>4 DEF CallStep
<1>2. ASSUME NEW c \in Calls, ClientStep(c) PROVE ClaimsUnprovisioned'
  BY <1>2 DEF ClientStep, OnConnect, Accepted, OnError, OnClose, Drop, Closed, Flushed,
              OnReconnect, DeliverManifest
<1>3. CASE Application
  BY <1>3 DEF Application, Connect, Disconnect, OnCommand, OffCommand, DeclareCapabilities
<1>4. ASSUME NEW x \in SubTasks, SubAck(x) \/ SubFailed(x) PROVE ClaimsUnprovisioned'
  BY <1>4 DEF SubAck, SubFailed, Answered
<1>5. ASSUME NEW d \in Stops, Disconnected(d) PROVE ClaimsUnprovisioned'
  BY <1>5 DEF Disconnected
<1>6. CASE Crash
  BY <1>6 DEF Crash, Restarted
<1>7. CASE UNCHANGED vars
  BY <1>7 DEF vars
<1> QED BY <1>1, <1>2, <1>3, <1>4, <1>5, <1>6, <1>7 DEF Next

\* An application that awaits each life-cycle call never has a claim under way, nor an
\* answer to save, once a credential is stored.
THEOREM ClaimsOnlyUnprovisioned == Sequential => (Spec => []ClaimsUnprovisioned)
<1> SUFFICES ASSUME Sequential PROVE Spec => []ClaimsUnprovisioned
  OBVIOUS
<1>1. Init => ClaimsUnprovisioned
  BY DEF Init, ClaimsUnprovisioned
<1>2. Spec => []SessionInv
  BY SessionInvariant
<1>3. TypeOK /\ SessionInv /\ ClaimsUnprovisioned /\ [Next]_vars => ClaimsUnprovisioned'
  BY UnprovisionedStep
<1> QED BY <1>1, <1>2, <1>3, TypeCorrect, PTL DEF Spec

\* A call that has not opened has no client, and awaits an answer to its own SUBSCRIBE
\* exactly while that is unanswered.
CallsInv ==
  /\ \A c \in Calls : pc[c] \in {"ready"} \cup Provisioning => link[c] = "none"
  /\ \A c \in Calls : subTask[c] # NoClient <=> pc[c] = "subscribing"

\* Every step of connect() and of its client keeps that.
LEMMA CallsCallStep ==
  ASSUME TypeOK, CallsInv, NEW c \in Calls, CallStep(c) \/ ClientStep(c)
  PROVE  CallsInv'
<1> USE DEF TypeOK, CallsInv, Provisioning, SubTasks, deviceVars, callVars, mqttVars
<1>1. CASE LoadFound(c) \/ Saved(c)
  BY <1>1 DEF LoadFound, Saved, OpenConnection
<1>2. CASE LoadNothing(c) \/ LoadFailed(c) \/ ClaimAccepted(c) \/ ClaimFailed(c) \/ SaveFailed(c)
  BY <1>2 DEF LoadNothing, LoadFailed, ClaimAccepted, ClaimFailed, SaveFailed
<1>3. CASE Refused(c) \/ Announce(c) \/ AnnounceDone(c)
  BY <1>3 DEF Refused, EndedByCatch, Destroyed, Announce, AnnounceDone, HasSession
<1>4. CASE OnConnect(c) \/ OnError(c)
  BY <1>4 DEF OnConnect, OnError, Accepted
<1>5. CASE OnClose(c) \/ Drop(c)
  BY <1>5 DEF OnClose, Drop, Closed, Flushed
<1>6. CASE OnReconnect(c) \/ DeliverManifest(c)
  BY <1>6 DEF OnReconnect, DeliverManifest
<1> QED BY <1>1, <1>2, <1>3, <1>4, <1>5, <1>6 DEF CallStep, ClientStep

\* So does every other step.
LEMMA CallsStep == TypeOK /\ CallsInv /\ [Next]_vars => CallsInv'
<1> SUFFICES ASSUME TypeOK, CallsInv, [Next]_vars PROVE CallsInv'
  OBVIOUS
<1> USE DEF TypeOK, CallsInv, Provisioning, SubTasks, deviceVars, callVars, mqttVars
<1>1. CASE Application
  <2>1. ASSUME NEW c \in Calls, Connect(c) PROVE CallsInv'
    BY <2>1 DEF Connect
  <2>2. ASSUME NEW d \in Stops, Disconnect(d) PROVE CallsInv'
    BY <2>2 DEF Disconnect, Live
  <2>3. ASSUME NEW k \in Keys, OnCommand(k) \/ OffCommand(k) PROVE CallsInv'
    BY <2>3 DEF OnCommand, OffCommand
  <2>4. CASE DeclareCapabilities
    BY <2>4 DEF DeclareCapabilities
  <2> QED BY <1>1, <2>1, <2>2, <2>3, <2>4 DEF Application
<1>2. ASSUME NEW x \in SubTasks, SubAck(x) \/ SubFailed(x) PROVE CallsInv'
  BY <1>2 DEF SubAck, SubFailed, Answered
<1>3. ASSUME NEW d \in Stops, Disconnected(d) PROVE CallsInv'
  BY <1>3 DEF Disconnected
<1>4. CASE Crash
  BY <1>4 DEF Crash, Restarted, InFlight, Settled
<1>5. CASE UNCHANGED vars
  BY <1>5 DEF vars
<1> QED BY <1>1, <1>2, <1>3, <1>4, <1>5, CallsCallStep DEF Next

\* The steps of connect() keep the announced manifest the current one.
LEMMA ManifestCallStep ==
  ASSUME Sequential, TypeOK, SessionInv, CallsInv, ManifestInv, NEW c \in Calls, CallStep(c)
  PROVE  ManifestInv'
<1> USE DEF ManifestInv, ManifestCurrent, SessionUp, TooLarge, DrainingIsStopped, Outstanding,
       FirstIsAnnounced, SessionInv,
       OneAtATime, CallOwnsClient, OpeningIsQuiet, NoOrphan, ConnectedIsUp, InFlight, Stopping,
       Settled, Live, Provisioning, TypeOK, deviceVars, callVars, mqttVars, worldVars
<1>1. CASE LoadFound(c)
  BY <1>1 DEF LoadFound, Existing, OpenConnection
<1>2. CASE Saved(c)
  BY <1>2 DEF Saved, OpenConnection
<1>3. CASE LoadNothing(c) \/ LoadFailed(c)
  BY <1>3 DEF LoadNothing, LoadFailed
<1>4. CASE ClaimAccepted(c) \/ ClaimFailed(c) \/ SaveFailed(c)
  BY <1>4 DEF ClaimAccepted, ClaimFailed, SaveFailed
<1>5. CASE Refused(c)
  BY <1>5 DEF Refused, EndedByCatch, Destroyed
<1>6. CASE Announce(c)
  BY <1>6 DEF Announce, CanPublish, HasSession
<1>7. CASE AnnounceDone(c)
  BY <1>7 DEF AnnounceDone, HasSession
<1> QED BY <1>1, <1>2, <1>3, <1>4, <1>5, <1>6, <1>7 DEF CallStep

\* So do the listeners: a reconnect republishes, and only the client in use delivers.
LEMMA ManifestClientStep ==
  ASSUME Sequential, TypeOK, SessionInv, CallsInv, ManifestInv, NEW c \in Calls, ClientStep(c)
  PROVE  ManifestInv'
<1> USE DEF ManifestInv, ManifestCurrent, SessionUp, TooLarge, DrainingIsStopped, Outstanding,
       FirstIsAnnounced, SessionInv,
       OpeningIsQuiet, StopEndsClient, NoOrphan, ConnectedIsUp, Stopping, Live, TypeOK,
       deviceVars, callVars, mqttVars, worldVars
<1>1. CASE OnConnect(c)
  BY <1>1 DEF OnConnect, StateAfterConnect, Republished, Published, CanPublish,
     HasSession, CeilingAfterConnect, Accepted, Quiet, Jobs
<1>2. CASE OnError(c)
  BY <1>2 DEF OnError
<1>3. CASE OnClose(c)
  <2>1. state' # "connected" /\ UNCHANGED <<client, hasConnectedOnce, stopPc, stopClient>>
    BY <1>3 DEF OnClose, Closed, StateAfterClose
  <2>2. \A i \in Calls : /\ link'[i] \in {"draining", "overtaken"} => link'[i] = link[i]
                         /\ Outstanding(i)' => Outstanding(i)
    BY <1>3 DEF OnClose, Closed, AfterClose, Flushed
  <2>3. \A i \in Calls : pc[i] \in {"waiting", "refused"} => pc'[i] = pc[i]
    BY <1>3 DEF OnClose, Closed, Flushed, CallsInv, SubTasks
  <2>4. DrainingIsStopped'
    <3> SUFFICES ASSUME NEW i \in Calls,
                        link'[i] = "draining" \/ (link'[i] = "overtaken" /\ Outstanding(i)')
                 PROVE  \E d \in Stopping' : stopClient'[d] = i
      OBVIOUS
    <3>1. link[i] = "draining" \/ (link[i] = "overtaken" /\ Outstanding(i))
      BY <2>2
    <3>2. PICK d \in Stopping : stopClient[d] = i
      BY <3>1
    <3> QED BY <2>1, <3>2
  <2>5. ManifestCurrent' /\ FirstIsAnnounced'
    BY <2>1, <2>3
  <2> QED BY <2>4, <2>5
<1>4. CASE Drop(c)
  <2>1. state' # "connected" /\ UNCHANGED <<client, hasConnectedOnce, stopPc, stopClient>>
    BY <1>4 DEF Drop, Closed, StateAfterClose
  <2>2. \A i \in Calls : /\ link'[i] \in {"draining", "overtaken"} => link'[i] = link[i]
                         /\ Outstanding(i)' => Outstanding(i)
    BY <1>4 DEF Drop, Closed, AfterClose, Flushed
  <2>3. \A i \in Calls : pc[i] \in {"waiting", "refused"} => pc'[i] = pc[i]
    BY <1>4 DEF Drop, Closed, Flushed, CallsInv, SubTasks
  <2>4. DrainingIsStopped'
    <3> SUFFICES ASSUME NEW i \in Calls,
                        link'[i] = "draining" \/ (link'[i] = "overtaken" /\ Outstanding(i)')
                 PROVE  \E d \in Stopping' : stopClient'[d] = i
      OBVIOUS
    <3>1. link[i] = "draining" \/ (link[i] = "overtaken" /\ Outstanding(i))
      BY <2>2
    <3>2. PICK d \in Stopping : stopClient[d] = i
      BY <3>1
    <3> QED BY <2>1, <3>2
  <2>5. ManifestCurrent' /\ FirstIsAnnounced'
    BY <2>1, <2>3
  <2> QED BY <2>4, <2>5
<1>5. CASE OnReconnect(c)
  BY <1>5 DEF OnReconnect
<1>6. CASE DeliverManifest(c)
  BY <1>6 DEF DeliverManifest
<1> QED BY <1>1, <1>2, <1>3, <1>4, <1>5, <1>6 DEF ClientStep

\* So do the calls of the application, the answers to them and a restart.
LEMMA ManifestRestStep ==
  ASSUME Sequential, TypeOK, SessionInv, CallsInv, ManifestInv,
         \/ Application
         \/ \E x \in SubTasks : SubAck(x) \/ SubFailed(x)
         \/ \E d \in Stops : Disconnected(d)
         \/ Crash
         \/ UNCHANGED vars
  PROVE  ManifestInv'
<1> USE DEF ManifestInv, ManifestCurrent, SessionUp, TooLarge, DrainingIsStopped, Outstanding,
       FirstIsAnnounced, SessionInv,
       OneAtATime, OpeningIsQuiet, StopEndsClient, ConnectedIsUp, InFlight, Stopping, Settled,
       Live, TypeOK, deviceVars, callVars, mqttVars, worldVars
<1>1. ASSUME NEW c \in Calls, Connect(c) PROVE ManifestInv'
  BY <1>1 DEF Connect, MayConnect
<1>2. ASSUME NEW d \in Stops, Disconnect(d) PROVE ManifestInv'
  BY <1>2 DEF Disconnect, MayDisconnect, ForgetSession, Ending
<1>3. ASSUME NEW k \in Keys, OnCommand(k) \/ OffCommand(k) PROVE ManifestInv'
  BY <1>3 DEF OnCommand, OffCommand, HasSession
<1>4. CASE DeclareCapabilities
  BY <1>4 DEF DeclareCapabilities, Published, CanPublish, HasSession
<1>5. ASSUME NEW x \in SubTasks, SubAck(x) \/ SubFailed(x) PROVE ManifestInv'
  BY <1>5 DEF SubAck, SubFailed, Answered, Quiet, Jobs, SubTasks, CallsInv
<1>6. ASSUME NEW d \in Stops, Disconnected(d) PROVE ManifestInv'
  BY <1>6 DEF Disconnected, ForgetSession
<1>7. CASE Crash
  BY <1>7 DEF Crash, Restarted
<1>8. CASE UNCHANGED vars
  BY <1>8 DEF vars
<1> QED BY <1>1, <1>2, <1>3, <1>4, <1>5, <1>6, <1>7, <1>8 DEF Application

\* For an application that awaits each life-cycle call: while connected the platform has
\* the manifest last declared, unless that exceeds the ceiling of the gateway, or is about
\* to receive it, however often the connection was
\* lost and the capabilities declared again.
THEOREM ManifestStaysCurrent == Sequential => (Spec => []ManifestCurrent)
<1> SUFFICES ASSUME Sequential PROVE Spec => []ManifestCurrent
  OBVIOUS
<1>1. Init => ManifestInv /\ CallsInv
  BY DEF Init, ManifestInv, ManifestCurrent, SessionUp, DrainingIsStopped, FirstIsAnnounced,
     CallsInv, Provisioning, SubTasks
<1>2. Spec => []SessionInv
  BY SessionInvariant
<1>3. TypeOK /\ SessionInv /\ CallsInv /\ ManifestInv /\ [Next]_vars => ManifestInv' /\ CallsInv'
  BY ManifestCallStep, ManifestClientStep, ManifestRestStep, CallsStep DEF Next
<1>4. ManifestInv => ManifestCurrent
  BY DEF ManifestInv
<1> QED BY <1>1, <1>2, <1>3, <1>4, TypeCorrect, PTL DEF Spec

-----------------------------------------------------------------------------
(***************************************************************************)
(* The Device of a sequential application implements Lifecycle.            *)
(***************************************************************************)

LifeInv == TypeOK /\ ClaimInv /\ SessionInv /\ CallsInv

\* The types and the invariants of a sequential application hold from the start.
LEMMA LifeInit == Init => LifeInv
<1>1. Init => CallsInv
  BY DEF Init, CallsInv, Provisioning, SubTasks
<1> QED BY <1>1, InitType, ClaimInit, SessionInit DEF LifeInv

\* Every step keeps them.
LEMMA LifeStep == Sequential /\ LifeInv /\ [Next]_vars => LifeInv'
BY TypeStep, ClaimStep, SessionStep, CallsStep DEF LifeInv

\* Whatever is awaited can come, but for the end of a client that hangs: a connect() that
\* waits for its first CONNACK has the client the Device holds, opening or about to be
\* retried; one that waits for its subscription has the SUBSCRIBE unanswered on its client;
\* a disconnect() waits for the client the Device holds, with no connect() call under way,
\* and a SUBSCRIBE is only left unanswered on it while its connection lasts, or may yet
\* come or close.
NobodyIsStranded ==
  /\ \A c \in Calls :
       /\ pc[c] = "waiting" => c = client /\ link[c] \in {"opening", "failing", "waiting"}
       /\ pc[c] = "subscribing" => c = client /\ subTask[c] = c
  /\ \A d \in Stopping :
       /\ stopClient[d] = client /\ client # NoClient
       /\ InFlight = {}
       /\ \/ link[client] \in {"draining", "overtaken", "abandoned", "hung"}
          \/ link[client] \in {"stray", "ended"} /\ ~Outstanding(client)

\* For a sequential application no connect() or disconnect() waits for an event that cannot
\* come, unless the client hangs that disconnect() ended.
THEOREM AwaitedEventsCanCome == Sequential => (Spec => []NobodyIsStranded)
<1> SUFFICES ASSUME Sequential PROVE Spec => []NobodyIsStranded
  OBVIOUS
<1>1. LifeInv => NobodyIsStranded
  BY DEF LifeInv, SessionInv, OneAtATime, CallOwnsClient, OpeningIsQuiet, StopEndsClient,
     NobodyIsStranded, InFlight, Settled, Provisioning, Stopping
<1> QED BY <1>1, LifeInit, LifeStep, PTL DEF Spec

\* One call moves as its status does.
LEMMA StatusMoves ==
  ASSUME TypeOK, NEW c \in Calls, NEW to, pc' = [pc EXCEPT ![c] = to]
  PROVE  Status' = [Status EXCEPT ![c] = StatusOf(to)]
BY DEF TypeOK, Status

\* What is seen of the Device depends on these fields only.
LEMMA SeenUnchanged ==
  ASSUME UNCHANGED <<state, client, store>>, UNCHANGED link, Status' = Status
  PROVE  UNCHANGED Contract!vars
BY DEF Contract!vars, Session, Leftovers

\* What connect() awaits before it opens: it stays, rejects, or shows "provisioning".
LEMMA ProvisionImplements ==
  ASSUME Sequential, LifeInv, NEW c \in Calls,
         LoadNothing(c) \/ LoadFailed(c) \/ ClaimAccepted(c) \/ ClaimFailed(c) \/ SaveFailed(c)
  PROVE  [Contract!Next]_(Contract!vars)
<1>1. UNCHANGED <<client, store, link>>
  BY DEF LoadNothing, LoadFailed, ClaimAccepted, ClaimFailed, SaveFailed, deviceVars, mqttVars,
         worldVars
<1>2. UNCHANGED <<Session, Leftovers>>
  BY <1>1 DEF Session, Leftovers
<1>3. pc[c] \in Provisioning /\ Status[c] = "provisioning"
  BY DEF LoadNothing, LoadFailed, ClaimAccepted, ClaimFailed, SaveFailed, Provisioning, Status,
         StatusOf
<1>4. CASE UNCHANGED state /\ pc' = [pc EXCEPT ![c] = "failed"]
  <2>1. Status' = [Status EXCEPT ![c] = "rejected"]
    BY <1>4, StatusMoves DEF LifeInv, StatusOf, Provisioning
  <2>2. Contract!Reject(c)
    BY <1>1, <1>2, <1>3, <1>4, <2>1 DEF Contract!Reject, Contract!Goes
  <2> QED BY <2>2 DEF Contract!Next
<1>5. ASSUME NEW to \in Provisioning, pc' = [pc EXCEPT ![c] = to]
      PROVE  Status' = Status
  <2>1. Status' = [Status EXCEPT ![c] = StatusOf(to)]
    BY <1>5, StatusMoves DEF LifeInv
  <2>2. StatusOf(to) = "provisioning"
    BY <1>5 DEF StatusOf, Provisioning
  <2> QED BY <1>3, <2>1, <2>2 DEF Status
<1>6. CASE UNCHANGED state /\ pc' = [pc EXCEPT ![c] = "saving"]
  BY <1>1, <1>5, <1>6, SeenUnchanged DEF Provisioning
<1>7. CASE LoadNothing(c) /\ HasClaimCode
  <2>1. Status' = Status
    BY <1>5, <1>7 DEF LoadNothing, Provisioning
  <2>2. Contract!Provision(c)
    BY <1>1, <1>2, <1>3, <1>7, <2>1 DEF LoadNothing, Existing, Contract!Provision, Contract!Shows
  <2> QED BY <2>2 DEF Contract!Next
<1> QED
  BY <1>4, <1>6, <1>7 DEF LoadNothing, LoadFailed, ClaimAccepted, ClaimFailed, SaveFailed,
     deviceVars

\* connect() opens its session on what is stored.
LEMMA OpenImplements ==
  ASSUME Sequential, LifeInv, NEW c \in Calls, LoadFound(c) \/ Saved(c)
  PROVE  [Contract!Next]_(Contract!vars)
<1>1. /\ pc[c] \in Provisioning /\ Status[c] = "provisioning"
      /\ client = NoClient /\ link[c] = "none"
  BY DEF LoadFound, Saved, LifeInv, SessionInv, CallOwnsClient, CallsInv, InFlight, Settled,
         Provisioning, Status, StatusOf
<1>2. store' # NoCredential /\ state' = "connecting"
  BY DEF LoadFound, Saved, Existing, OpenConnection, LifeInv, ClaimInv, OneSave, TypeOK
<1>3. CASE client' = client /\ link' = link /\ pc' = [pc EXCEPT ![c] = "failed"]
  <2>1. Status' = [Status EXCEPT ![c] = "rejected"]
    BY <1>3, StatusMoves DEF LifeInv, StatusOf, Provisioning
  <2>2. UNCHANGED <<Session, Leftovers>>
    BY <1>3 DEF Session, Leftovers
  <2>3. Contract!Open(c)
    BY <1>1, <1>2, <1>3, <2>1, <2>2 DEF Contract!Open, Contract!Goes, Contract!Shows
  <2> QED BY <2>3 DEF Contract!Next
<1>4. CASE client' = c /\ link' = [link EXCEPT ![c] = "opening"] /\ pc' = [pc EXCEPT ![c] = "waiting"]
  <2>1. Status' = [Status EXCEPT ![c] = "opening"]
    BY <1>4, StatusMoves DEF LifeInv, StatusOf, Provisioning
  <2>2. Session' = "opening"
    BY <1>4 DEF Session, LifeInv, TypeOK
  <2>3. Leftovers' = Leftovers
    BY <1>1, <1>4 DEF Leftovers, LifeInv, TypeOK, Leaving
  <2>4. Contract!Open(c)
    BY <1>1, <1>2, <1>4, <2>1, <2>2, <2>3 DEF Contract!Open, Contract!Goes, Contract!Shows
  <2> QED BY <2>4 DEF Contract!Next
<1> QED BY <1>3, <1>4 DEF LoadFound, Saved, OpenConnection

\* A refused first connection lets its client go, and mqtt.js closes it later.
LEMMA RefuseImplements ==
  ASSUME Sequential, LifeInv, NEW c \in Calls, Refused(c)
  PROVE  [Contract!Next]_(Contract!vars)
<1>1. client = c /\ link[c] = "failing" /\ Status[c] = "opening"
  BY DEF Refused, LifeInv, SessionInv, CallOwnsClient, OpeningIsQuiet, InFlight, Settled,
         Provisioning, Status, StatusOf
<1>2. /\ client' = NoClient /\ state' = "idle" /\ store' = store
      /\ link' = [link EXCEPT ![c] = "destroyed"]
  BY <1>1 DEF Refused, EndedByCatch, Destroyed, worldVars
<1>3. Status' = [Status EXCEPT ![c] = "rejected"]
  BY StatusMoves DEF Refused, LifeInv, StatusOf, Provisioning
<1>4. Session' = "none"
  BY <1>2 DEF Session
<1>5. Leftovers' = Leftovers \cup {c}
  BY <1>1, <1>2 DEF Leftovers, Leaving, LifeInv, TypeOK
<1>6. Contract!Refuse(c)
  BY <1>1, <1>2, <1>3, <1>4, <1>5
     DEF Contract!Refuse, Contract!Goes, Contract!Shows, Contract!LetGo
<1> QED BY <1>6 DEF Contract!Next

\* After the first CONNACK, connect() goes on, resolves or rejects, and nothing else is seen.
LEMMA AnnounceImplements ==
  ASSUME Sequential, LifeInv, NEW c \in Calls,
         Announce(c) \/ AnnounceDone(c)
  PROVE  [Contract!Next]_(Contract!vars)
<1>1. UNCHANGED <<state, client, store, link>>
  BY DEF Announce, AnnounceDone, deviceVars, mqttVars, worldVars
<1>2. UNCHANGED <<Session, Leftovers>>
  BY <1>1 DEF Session, Leftovers
<1>3. pc[c] \in {"accepted", "announcing"} /\ Status[c] = "opened"
  BY DEF Announce, AnnounceDone, Status, StatusOf, Provisioning
<1>4. CASE pc' = [pc EXCEPT ![c] = "done"]
  <2>1. Status' = [Status EXCEPT ![c] = "resolved"]
    BY <1>4, StatusMoves DEF LifeInv, StatusOf, Provisioning
  <2>2. Contract!Resolve(c)
    BY <1>1, <1>2, <1>3, <2>1 DEF Contract!Resolve, Contract!Goes
  <2> QED BY <2>2 DEF Contract!Next
<1>5. CASE pc' = [pc EXCEPT ![c] = "failed"]
  <2>1. Status' = [Status EXCEPT ![c] = "rejected"]
    BY <1>5, StatusMoves DEF LifeInv, StatusOf, Provisioning
  <2>2. Contract!Reject(c)
    BY <1>1, <1>2, <1>3, <2>1 DEF Contract!Reject, Contract!Goes
  <2> QED BY <2>2 DEF Contract!Next
<1>6. ASSUME NEW to \in {"announcing", "subscribing"}, pc' = [pc EXCEPT ![c] = to]
      PROVE  [Contract!Next]_(Contract!vars)
  <2>1. Status' = [Status EXCEPT ![c] = "opened"]
    BY <1>6, StatusMoves DEF LifeInv, StatusOf, Provisioning
  <2>2. Status' = Status
    BY <1>3, <2>1 DEF Status
  <2> QED BY <1>1, <2>2, SeenUnchanged
<1> QED BY <1>4, <1>5, <1>6 DEF Announce, AnnounceDone

\* An event of the client held is a change of its session; a client let go closes late.
LEMMA EventImplements ==
  ASSUME Sequential, LifeInv, NEW c \in Calls, ClientStep(c)
  PROVE  [Contract!Next]_(Contract!vars)
<1> USE DEF LifeInv, SessionInv, TypeOK
<1>1. c # NoClient /\ (link[c] \in Live => client = c /\ state # "closed")
  BY DEF NoOrphan, ClosedIsDead
<1>2. CASE OnConnect(c) /\ link[c] = "opening"
  <2>1. client = c /\ Session = "opening" /\ Session' = "up"
    BY <1>1, <1>2 DEF OnConnect, Session, Live
  <2>2. Status' = [Status EXCEPT ![c] = IF @ = "opening" THEN "opened" ELSE @]
    <3>1. CASE pc[c] = "waiting"
      BY <1>2, <3>1, StatusMoves DEF OnConnect, Accepted, Status, StatusOf, Provisioning
    <3>2. CASE pc[c] # "waiting"
      <4>1. pc' = pc /\ pc[c] # "refused"
        BY <1>2, <3>2 DEF OnConnect, Accepted, Quiet, Jobs
      <4>2. Status[c] # "opening"
        BY <3>2, <4>1 DEF Status, StatusOf, CallState, Settled, Jobs, Provisioning
      <4>3. Status' = Status
        BY <4>1 DEF Status
      <4> QED BY <4>2, <4>3 DEF Status
    <3> QED BY <3>1, <3>2
  <2>3. Leftovers' = Leftovers
    BY <1>2, <2>1 DEF OnConnect, Leftovers
  <2>4. Contract!Up
    BY <1>2, <2>1, <2>2, <2>3
       DEF OnConnect, StateAfterConnect, worldVars, Contract!Up, Contract!Shows
  <2> QED BY <2>4 DEF Contract!Next
<1>3. CASE OnError(c) /\ link[c] = "opening"
  <2>1. client = c /\ UNCHANGED <<state, client, store>>
    BY <1>1, <1>3 DEF OnError, Live, deviceVars
  <2>2. UNCHANGED <<Session, Leftovers>>
    BY <1>1, <1>3, <2>1 DEF OnError, Session, Leftovers
  <2>3. Status' = Status
    <3>1. CASE pc[c] = "waiting"
      <4>1. Status' = [Status EXCEPT ![c] = "opening"] /\ Status[c] = "opening"
        BY <1>3, <3>1, StatusMoves DEF OnError, Status, StatusOf, Provisioning
      <4> QED BY <4>1 DEF Status
    <3>2. CASE pc[c] # "waiting"
      BY <1>3, <3>2 DEF OnError, Status
    <3> QED BY <3>1, <3>2
  <2> QED BY <2>1, <2>2, <2>3 DEF Contract!vars
<1>4. ASSUME Closed(c)
      PROVE  pc' = IF pc[c] = "subscribing" THEN [pc EXCEPT ![c] = "failed"] ELSE pc
  <2>1. \A i \in Calls : subTask[i] = c <=> i = c /\ pc[i] = "subscribing"
    BY <1>1 DEF CallsInv, CallOwnsClient, InFlight, Settled, SubTasks
  <2> QED BY <1>4, <2>1 DEF Closed, Flushed
<1>5. CASE (Drop(c) /\ link[c] \in Live) \/ (OnClose(c) /\ link[c] = "failing")
  <2>1. link[c] \in {"opening", "up", "failing"} /\ client = c /\ Closed(c)
    BY <1>1, <1>5 DEF Drop, OnClose, Live
  <2>2. /\ link' = [link EXCEPT ![c] = "waiting"] /\ state' = "reconnecting"
        /\ UNCHANGED <<client, store>>
    BY <1>1, <2>1 DEF Closed, AfterClose, StateAfterClose, Live
  <2>3. Session \in {"opening", "up"} /\ Session' = "lost"
    BY <1>1, <2>1, <2>2 DEF Session
  <2>4. Leftovers' = Leftovers
    BY <2>1, <2>2 DEF Leftovers
  <2>5. Status' = Status \/ (Status[c] = "opened" /\ Status' = [Status EXCEPT ![c] = "rejected"])
    <3>1. CASE pc[c] = "subscribing"
      <4>1. pc' = [pc EXCEPT ![c] = "failed"]
        BY <1>4, <2>1, <3>1
      <4>2. Status' = [Status EXCEPT ![c] = "rejected"] /\ Status[c] = "opened"
        BY <3>1, <4>1, StatusMoves DEF Status, StatusOf, Provisioning
      <4> QED BY <4>2
    <3>2. CASE pc[c] # "subscribing"
      BY <1>4, <2>1, <3>2 DEF Status
    <3> QED BY <3>1, <3>2
  <2>6. Contract!Lose
    BY <2>1, <2>2, <2>3, <2>4, <2>5 DEF Contract!Lose, Contract!Shows, Contract!Goes
  <2> QED BY <2>6 DEF Contract!Next
<1>8. ASSUME link[c] \in Leaving
      PROVE  pc[c] \notin {"waiting", "refused", "subscribing"}
  BY <1>8 DEF OpeningIsQuiet, CallOwnsClient, OneAtATime, HeldIsLive, InFlight, Settled,
     Provisioning, Live, Leaving
<1>9. CASE (Drop(c) \/ OnClose(c)) /\ link[c] \in Leaving
  <2>1. Closed(c) /\ pc' = pc
    BY <1>4, <1>8, <1>9 DEF Drop, OnClose
  <2>2. PICK to \in {"ended", "hung"} : link' = [link EXCEPT ![c] = to]
    BY <1>9, <2>1 DEF Closed, AfterClose, Live, Leaving
  <2>3. /\ UNCHANGED <<client, store>> /\ Status' = Status
        /\ state' = IF state = "closed" THEN "closed" ELSE "reconnecting"
    BY <2>1 DEF Closed, StateAfterClose, Status
  <2>4. CASE client = c
    <3>1. Session = "ending" /\ Session' = "ending" /\ Leftovers' = Leftovers
      BY <1>1, <1>9, <2>2, <2>3, <2>4 DEF Session, Leftovers, Leaving
    <3>2. Contract!EndingClose
      BY <2>3, <3>1 DEF Contract!EndingClose, Contract!ShowsClose, Contract!Shows
    <3> QED BY <3>2 DEF Contract!Next
  <2>5. CASE client # c
    <3>1. Session' = Session
      BY <2>2, <2>3, <2>5 DEF Session
    <3>2. c \in Leftovers /\ Leftovers' = Leftovers \ {c}
      BY <1>9, <2>2, <2>3, <2>5 DEF Leftovers, Leaving
    <3>3. Contract!LateClose(c)
      BY <2>3, <3>1, <3>2 DEF Contract!LateClose, Contract!ShowsClose, Contract!Shows
    <3> QED BY <3>3 DEF Contract!Next
  <2> QED BY <2>4, <2>5
<1>10. CASE (OnConnect(c) \/ OnError(c)) /\ link[c] = "overtaken"
  <2>1. UNCHANGED <<client, store, pc>>
    BY <1>8, <1>10 DEF OnConnect, OnError, Accepted, Leaving, deviceVars, worldVars
  <2>2. PICK to \in {"draining", "stray", "abandoned"} : link' = [link EXCEPT ![c] = to]
    BY <1>10 DEF OnConnect, OnError
  <2>3. UNCHANGED <<Session, Leftovers, Status>>
    BY <1>10, <2>1, <2>2 DEF Session, Leftovers, Leaving, Status
  <2>4. CASE OnError(c)
    BY <2>1, <2>3, <2>4 DEF OnError, deviceVars, Contract!vars
  <2>5. CASE OnConnect(c)
    <3>1. Session = "ending" \/ c \in Leftovers
      BY <1>1, <1>10 DEF Session, Leftovers, Leaving
    <3>2. Contract!LateOpen
      BY <2>1, <2>3, <2>5, <3>1
         DEF OnConnect, StateAfterConnect, Contract!LateOpen, Contract!Shows
    <3> QED BY <3>2 DEF Contract!Next
  <2> QED BY <1>10, <2>4, <2>5
<1>6. CASE OnReconnect(c)
  <2>1. client = c /\ Session = "lost" /\ Session' = "opening"
    BY <1>1, <1>6 DEF OnReconnect, Session, Live
  <2>2. Status' = Status /\ Leftovers' = Leftovers
    BY <1>6, <2>1 DEF OnReconnect, Status, Leftovers, callVars
  <2>3. Contract!Retry
    BY <1>6, <2>1, <2>2 DEF OnReconnect, worldVars, Contract!Retry, Contract!Shows
  <2> QED BY <2>3 DEF Contract!Next
<1>7. CASE DeliverManifest(c)
  BY <1>7, SeenUnchanged DEF DeliverManifest, deviceVars, callVars, Status
<1> QED
  BY <1>2, <1>3, <1>5, <1>6, <1>7, <1>9, <1>10, ClientStep(c)
     DEF ClientStep, OnConnect, OnError, OnClose, Drop, Live, Leaving

\* connect() and disconnect() are those of the contract; the rest is not seen.
LEMMA ApplicationImplements ==
  ASSUME Sequential, LifeInv, Application
  PROVE  [Contract!Next]_(Contract!vars)
<1> USE DEF LifeInv, SessionInv, TypeOK
<1>1. InFlight = {} => Contract!Idle
  BY DEF InFlight, Settled, Contract!Idle, Contract!UnderWay, Status, StatusOf, Provisioning
<1>2. ASSUME NEW c \in Calls, Connect(c) PROVE [Contract!Next]_(Contract!vars)
  <2>1. Status[c] = "ready" /\ Status' = [Status EXCEPT ![c] = "provisioning"]
    BY <1>2, StatusMoves DEF Connect, Status, StatusOf, Provisioning
  <2>2. UNCHANGED <<Session, Leftovers>>
    BY <1>2 DEF Connect, deviceVars, mqttVars, Session, Leftovers
  <2>3. Contract!Connect(c)
    BY <1>1, <1>2, <2>1, <2>2
       DEF Connect, MayConnect, deviceVars, worldVars, Contract!Connect, Contract!Goes
  <2> QED BY <2>3 DEF Contract!Next
<1>3. ASSUME NEW d \in Stops, Disconnect(d) PROVE [Contract!Next]_(Contract!vars)
  <2>1. /\ InFlight = {} /\ Stopping = {} /\ state' = "closed" /\ client' = client
        /\ UNCHANGED <<pc, store>>
    BY <1>3 DEF Disconnect, MayDisconnect, HeldIsLive, worldVars
  <2>2. Status' = Status
    BY <2>1 DEF Status
  <2>3. Session # "ending"
    BY <2>1 DEF HeldIsLive, Live, Session
  <2>4. /\ Session' = IF client = NoClient THEN "none" ELSE "ending"
        /\ Leftovers' = Leftovers
    <3>1. CASE client = NoClient
      BY <1>3, <2>1, <3>1 DEF Disconnect, Session, Leftovers
    <3>2. CASE client # NoClient
      <4>1. link' = [link EXCEPT ![client] = Ending(client)] /\ link[client] \in Live
        BY <1>3, <2>1, <3>2 DEF Disconnect, HeldIsLive
      <4>2. link'[client] \in {"draining", "overtaken", "abandoned", "hung", "ended"}
        BY <3>2, <4>1 DEF Ending, Live
      <4> QED BY <2>1, <3>2, <4>1, <4>2 DEF Session, Leftovers
    <3> QED BY <3>1, <3>2
  <2>5. Contract!Disconnect
    BY <1>1, <2>1, <2>2, <2>3, <2>4 DEF Contract!Disconnect, Contract!Shows
  <2> QED BY <2>5 DEF Contract!Next
<1>4. ASSUME NEW k \in Keys, OnCommand(k) \/ OffCommand(k) PROVE UNCHANGED Contract!vars
  BY <1>4, SeenUnchanged DEF OnCommand, OffCommand, callVars, mqttVars, worldVars, Status
<1>5. CASE DeclareCapabilities
  BY <1>5, SeenUnchanged DEF DeclareCapabilities, callVars, worldVars, Status
<1> QED BY <1>2, <1>3, <1>4, <1>5, Application DEF Application

\* A call that awaits its SUBSCRIBE resolves or rejects with it.
LEMMA AnswerImplements ==
  ASSUME Sequential, LifeInv, NEW x \in SubTasks, SubAck(x) \/ SubFailed(x)
  PROVE  [Contract!Next]_(Contract!vars)
<1> USE DEF LifeInv
<1>1. UNCHANGED <<state, client, store, link>>
  BY DEF SubAck, SubFailed, deviceVars, mqttVars, worldVars
<1>2. UNCHANGED <<Session, Leftovers>>
  BY <1>1 DEF Session, Leftovers
<1>3. CASE x \notin Calls
  BY <1>1, <1>3, SeenUnchanged DEF SubAck, SubFailed, Answered, Status
<1>4. CASE x \in Calls
  <2>1. pc[x] = "subscribing" /\ Status[x] = "opened"
    BY <1>4 DEF SubAck, SubFailed, CallsInv, Status, StatusOf, Provisioning
  <2>2. CASE SubAck(x)
    <3>1. Status' = [Status EXCEPT ![x] = "resolved"]
      BY <1>4, <2>2, StatusMoves DEF SubAck, Answered, StatusOf, Provisioning
    <3>2. Contract!Resolve(x)
      BY <1>1, <1>2, <2>1, <3>1 DEF Contract!Resolve, Contract!Goes
    <3> QED BY <1>4, <3>2 DEF Contract!Next
  <2>3. CASE SubFailed(x)
    <3>1. Status' = [Status EXCEPT ![x] = "rejected"]
      BY <1>4, <2>3, StatusMoves DEF SubFailed, Answered, StatusOf, Provisioning
    <3>2. Contract!Reject(x)
      BY <1>1, <1>2, <2>1, <3>1 DEF Contract!Reject, Contract!Goes
    <3> QED BY <1>4, <3>2 DEF Contract!Next
  <2> QED BY <2>2, <2>3
<1> QED BY <1>3, <1>4

\* The end of a disconnect() lets the client go.
LEMMA StopImplements ==
  ASSUME Sequential, LifeInv, NEW d \in Stops, Disconnected(d)
  PROVE  [Contract!Next]_(Contract!vars)
<1> USE DEF LifeInv, SessionInv, TypeOK
<1>1. /\ client # NoClient /\ link[client] \notin Live /\ client' = NoClient
      /\ UNCHANGED <<state, pc, link, store>>
  BY DEF Disconnected, ForgetSession, StopEndsClient, Stopping, Live, mqttVars, worldVars
<1>2. Session = "ending" /\ Session' = "none" /\ Status' = Status
  BY <1>1 DEF Session, Live, Status
<1>3. Leftovers' \in {Leftovers, Leftovers \cup {client}}
  <2>1. CASE link[client] \in Leaving
    BY <1>1, <2>1 DEF Leftovers
  <2>2. CASE link[client] \notin Leaving
    BY <1>1, <2>2 DEF Leftovers
  <2> QED BY <2>1, <2>2
<1>4. Contract!Disconnected
  BY <1>1, <1>2, <1>3 DEF Contract!Disconnected, Contract!LetGo
<1> QED BY <1>4 DEF Contract!Next

\* A restart is one of the contract.
LEMMA RestartImplements ==
  ASSUME Sequential, LifeInv, Crash
  PROVE  [Contract!Next]_(Contract!vars)
<1> USE DEF LifeInv, TypeOK
<1>1. /\ state' = "idle" /\ client' = NoClient
      /\ pc' = [c \in Calls |-> IF c \in InFlight THEN "lost" ELSE pc[c]]
      /\ link' = [c \in Calls |-> IF link[c] = "none" THEN "none" ELSE "ended"]
  BY DEF Crash, Restarted
<1>2. Session' = "none" /\ Leftovers' = {}
  BY <1>1 DEF Session, Leftovers, Leaving
<1>3. Status' = [c \in Calls |-> IF Status[c] \in Contract!UnderWay THEN "lost" ELSE Status[c]]
  <2>1. ASSUME NEW c \in Calls
        PROVE  StatusOf(pc'[c])
                 = IF StatusOf(pc[c]) \in Contract!UnderWay THEN "lost" ELSE StatusOf(pc[c])
    <3>1. CASE c \in InFlight
      BY <1>1, <3>1 DEF InFlight, StatusOf, Contract!UnderWay, CallState, Settled, Jobs,
         Provisioning
    <3>2. CASE c \notin InFlight
      BY <1>1, <3>2 DEF InFlight, StatusOf, Contract!UnderWay, Settled, Provisioning
    <3> QED BY <3>1, <3>2
  <2> QED BY <2>1 DEF Status
<1>4. \/ store' = store
      \/ store' # NoCredential /\ \E c \in Calls : pc[c] = "saving"
  BY DEF Crash, ClaimInv, OneSave
<1>5. \A c \in Calls : pc[c] = "saving" => Status[c] = "provisioning"
  BY DEF Status, StatusOf, Provisioning
<1>6. \/ UNCHANGED (store # NoCredential)
      \/ (store # NoCredential)' = TRUE /\ \E c \in Calls : Status[c] = "provisioning"
  BY <1>4, <1>5
<1>7. Contract!Restart
  BY <1>1, <1>2, <1>3, <1>6 DEF Contract!Restart, Contract!Shows
<1> QED BY <1>7 DEF Contract!Next

\* For an application that awaits each life-cycle call, the Device implements Lifecycle:
\* the states it shows are the documented ones in the documented order, but for the late
\* connection or close of a client that was ended, and a connect() call resolves only after the session
\* it opened was up.
THEOREM DeviceImplementsLifecycle == Sequential => (Spec => ImplementsLifecycle)
<1> SUFFICES ASSUME Sequential PROVE Spec => ImplementsLifecycle
  OBVIOUS
<1>1. Init => Contract!Init
  BY DEF Init, Contract!Init, Session, Status, StatusOf, Leftovers, Leaving, Provisioning
<1>2. LifeInv /\ [Next]_vars => [Contract!Next]_(Contract!vars)
  <2> SUFFICES ASSUME LifeInv, [Next]_vars PROVE [Contract!Next]_(Contract!vars)
    OBVIOUS
  <2>1. CASE UNCHANGED vars
    BY <2>1, SeenUnchanged DEF vars, deviceVars, callVars, mqttVars, worldVars, Status
  <2>2. ASSUME NEW c \in Calls, CallStep(c) PROVE [Contract!Next]_(Contract!vars)
    BY <2>2, ProvisionImplements, OpenImplements, RefuseImplements, AnnounceImplements
       DEF CallStep
  <2> QED
    BY <2>1, <2>2, EventImplements, ApplicationImplements, AnswerImplements, StopImplements,
       RestartImplements DEF Next
<1> QED BY <1>1, <1>2, LifeInit, LifeStep, PTL DEF Spec, ImplementsLifecycle, Contract!Spec
=============================================================================
