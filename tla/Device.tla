------------------------------- MODULE Device -------------------------------
(***************************************************************************)
(* The session life cycle of src/src/device.ts: connect() and what it      *)
(* awaits (load, claim, save, the first CONNACK, the manifest publish, the *)
(* command subscription), disconnect(), the listeners the Device binds on  *)
(* its mqtt.js client, onCommand() and declareCapabilities().              *)
(*                                                                         *)
(* The process is single threaded: an action is the code that runs between *)
(* two suspension points.  Completions of I/O (a store call, an HTTP       *)
(* answer, an event of mqtt.js) are taken from the event loop only when    *)
(* every promise continuation they released has run (Quiet); a call of the *)
(* application may come at any point, from a listener of the Device too.   *)
(*                                                                         *)
(* A connect() call is named by a member of Calls, used once, and the      *)
(* MQTT client a call opens bears the name of the call.                    *)
(***************************************************************************)
EXTENDS Naturals, FiniteSets

CONSTANTS Calls,         \* the invocations of connect(), and their clients
          Stops,         \* the invocations of disconnect()
          Keys,          \* capability keys a command handler is registered for
          Credentials,   \* the credentials the platform may issue
          Gatewayless,   \* those buildClientOptions() throws on: no broker host, no secret
          NoClient,      \* this.client is null
          NoCredential,  \* the store, or this.credential, holds nothing
          HasClaimCode,  \* options.claimCode is set
          Sequential,    \* the application awaits each life-cycle call before the next
          Refusing,      \* the gateway may answer a SUBSCRIBE with a failure
          Oversized,     \* manifest versions above the ceiling a gateway may advertise
          MaxManifest,   \* bound: versions of the capability set an application declares
          MaxFaults,     \* bound: network faults
          MaxCrashes     \* bound: restarts of the process

ASSUME CallsAssumption == NoClient \notin Calls
ASSUME KeysAssumption == Calls \cap Keys = {}
ASSUME CredentialsAssumption == /\ NoCredential \notin Credentials
                                /\ Gatewayless \subseteq Credentials
ASSUME OversizedAssumption == Oversized \subseteq Nat
ASSUME OptionsAssumption == /\ HasClaimCode \in BOOLEAN
                            /\ Sequential \in BOOLEAN
                            /\ Refusing \in BOOLEAN
ASSUME BoundsAssumption == /\ MaxManifest \in Nat \ {0}
                           /\ MaxFaults \in Nat
                           /\ MaxCrashes \in Nat

VARIABLES
  state,              \* this.state
  client,             \* this.client
  identity,           \* this.credential
  hasConnectedOnce,   \* this.hasConnectedOnce
  commandSubscribed,  \* this.commandSubscribed
  commandHandlers,    \* the keys of this.commandHandlers
  manifest,           \* the version of this.manifestJson
  maxEventBytes,      \* this.maxEventBytes: "null", or "low", which an Oversized version exceeds
  pc,                 \* where each connect() call is suspended
  held,               \* the claimed credential of a call that is saving it
  stopPc,             \* where each disconnect() call is suspended
  stopClient,         \* the client a disconnect() call ends
  subTask,            \* the client an unanswered subscribe("command/#") was sent on
  link,               \* mqtt.js: the life of each client
  subscribed,         \* mqtt.js: clients that hold, and renew, the command subscription
  wire,               \* mqtt.js: the manifest a client holds, not yet at the gateway (0: none)
  store,              \* the credential store
  codeSpent,          \* the platform: the claim code has been used
  gwManifest,         \* the platform: the last manifest received (0: none)
  faults, crashes     \* counters of the bounds

deviceVars == <<state, client, identity, hasConnectedOnce, commandSubscribed,
                commandHandlers, manifest, maxEventBytes>>
callVars   == <<pc, held, stopPc, stopClient, subTask>>
mqttVars   == <<link, subscribed, wire>>
worldVars  == <<store, codeSpent, gwManifest, faults, crashes>>
vars       == <<deviceVars, callVars, mqttVars, worldVars>>

-----------------------------------------------------------------------------
ConnectionState == {"idle", "provisioning", "connecting", "connected",
                    "reconnecting", "closed"}

\* Suspension points of connect(): the awaits of provision() and openConnection(),
\* and the two continuations the first CONNACK or error releases.
Provisioning == {"loading", "claiming", "saving"}
Jobs         == {"accepted", "refused"}
Settled      == {"ready", "done", "failed", "lost"}
CallState    == Provisioning \cup Jobs \cup Settled
                  \cup {"waiting", "announcing", "subscribing"}

\* mqtt.js: a live client reconnects by itself.  After end() it drains (it is connected,
\* and closes when nothing is unanswered), is destroyed (forced), is abandoned (its
\* socket had failed) or is overtaken (its socket was opening, and may still connect: a
\* stray, which nobody closes but the gateway), and closes once more.  A client that was
\* ended, and lost its connection with a SUBSCRIBE unanswered, hangs: the callback of
\* end() never runs.
Live     == {"opening", "up", "failing", "waiting"}
Leaving  == {"draining", "destroyed", "abandoned", "overtaken", "stray"}
LinkState == Live \cup Leaving \cup {"none", "ended", "hung"}

SubTasks == Calls \cup Keys

InFlight == {c \in Calls : pc[c] \notin Settled}
Stopping == {d \in Stops : stopPc[d] = "ending"}
Quiet    == \A c \in Calls : pc[c] \notin Jobs

Init ==
  /\ state = "idle"
  /\ client = NoClient
  /\ identity = NoCredential
  /\ hasConnectedOnce = FALSE
  /\ commandSubscribed = FALSE
  /\ commandHandlers = {}
  /\ manifest = 1
  /\ maxEventBytes = "null"
  /\ pc = [c \in Calls |-> "ready"]
  /\ held = [c \in Calls |-> NoCredential]
  /\ stopPc = [d \in Stops |-> "ready"]
  /\ stopClient = [d \in Stops |-> NoClient]
  /\ subTask = [x \in SubTasks |-> NoClient]
  /\ link = [c \in Calls |-> "none"]
  /\ subscribed = [c \in Calls |-> FALSE]
  /\ wire = [c \in Calls |-> 0]
  /\ store \in Credentials \cup {NoCredential}
  /\ codeSpent = (store # NoCredential)
  /\ gwManifest = 0
  /\ faults = 0
  /\ crashes = 0

-----------------------------------------------------------------------------
(***************************************************************************)
(* connect(): provision(), then openConnection().                          *)
(***************************************************************************)

\* A sequential application calls connect() when no life-cycle call of its own is
\* pending and the Device holds no session.
MayConnect == Sequential => InFlight = {} /\ Stopping = {} /\ client = NoClient

Connect(c) ==
  /\ pc[c] = "ready"
  /\ MayConnect
  /\ pc' = [pc EXCEPT ![c] = "loading"]
  /\ UNCHANGED <<deviceVars, held, stopPc, stopClient, subTask, mqttVars, worldVars>>

\* openConnection() up to the await of the first CONNACK.  buildClientOptions()
\* throws after the state was set.
OpenConnection(c, credential) ==
  /\ identity' = credential
  /\ state' = "connecting"
  /\ IF credential \in Gatewayless
       THEN /\ pc' = [pc EXCEPT ![c] = "failed"]
            /\ UNCHANGED <<client, link>>
       ELSE /\ pc' = [pc EXCEPT ![c] = "waiting"]
            /\ client' = c
            /\ link' = [link EXCEPT ![c] = "opening"]
  /\ UNCHANGED <<hasConnectedOnce, commandSubscribed, commandHandlers, manifest, maxEventBytes,
                 stopPc, stopClient, subTask, subscribed, wire, codeSpent, gwManifest,
                 faults, crashes>>

\* provision() returns the stored credential without claiming.
ExistingInMemory == identity # NoCredential
Existing == store # NoCredential

LoadFound(c) ==
  /\ Quiet
  /\ pc[c] = "loading"
  /\ Existing
  /\ OpenConnection(c, store)
  /\ UNCHANGED <<held, store>>

LoadNothing(c) ==
  /\ Quiet
  /\ pc[c] = "loading"
  /\ ~Existing
  /\ IF HasClaimCode
       THEN /\ state' = "provisioning"
            /\ pc' = [pc EXCEPT ![c] = "claiming"]
       ELSE /\ pc' = [pc EXCEPT ![c] = "failed"]
            /\ UNCHANGED state
  /\ UNCHANGED <<client, identity, hasConnectedOnce, commandSubscribed, commandHandlers,
                 manifest, maxEventBytes, held, stopPc, stopClient, subTask, mqttVars, worldVars>>

\* An unreadable store: connect() rejects before it showed anything.
LoadFailed(c) ==
  /\ Quiet
  /\ pc[c] = "loading"
  /\ faults < MaxFaults
  /\ faults' = faults + 1
  /\ pc' = [pc EXCEPT ![c] = "failed"]
  /\ UNCHANGED <<deviceVars, held, stopPc, stopClient, subTask, mqttVars, store, codeSpent,
                 gwManifest, crashes>>

\* The platform honours a claim code once.
ClaimAccepted(c) ==
  /\ Quiet
  /\ pc[c] = "claiming"
  /\ ~codeSpent
  /\ codeSpent' = TRUE
  /\ \E credential \in Credentials : held' = [held EXCEPT ![c] = credential]
  /\ pc' = [pc EXCEPT ![c] = "saving"]
  /\ UNCHANGED <<deviceVars, stopPc, stopClient, subTask, mqttVars, store, gwManifest,
                 faults, crashes>>

\* A refused claim, or one whose answer was lost: the platform may have honoured it.
ClaimFailed(c) ==
  /\ Quiet
  /\ pc[c] = "claiming"
  /\ \/ codeSpent /\ UNCHANGED <<codeSpent, faults>>
     \/ /\ faults < MaxFaults
        /\ faults' = faults + 1
        /\ codeSpent' = TRUE \/ UNCHANGED codeSpent
  /\ pc' = [pc EXCEPT ![c] = "failed"]
  /\ UNCHANGED <<deviceVars, held, stopPc, stopClient, subTask, mqttVars, store,
                 gwManifest, crashes>>

Saved(c) ==
  /\ Quiet
  /\ pc[c] = "saving"
  /\ store' = held[c]
  /\ held' = [held EXCEPT ![c] = NoCredential]
  /\ OpenConnection(c, held[c])

SaveFailedIgnored(c) ==
  /\ Quiet
  /\ pc[c] = "saving"
  /\ held' = [held EXCEPT ![c] = NoCredential]
  /\ OpenConnection(c, held[c])
  /\ UNCHANGED store

SaveFailed(c) ==
  /\ Quiet
  /\ pc[c] = "saving"
  /\ faults < MaxFaults
  /\ faults' = faults + 1
  /\ held' = [held EXCEPT ![c] = NoCredential]
  /\ pc' = [pc EXCEPT ![c] = "failed"]
  /\ UNCHANGED <<deviceVars, stopPc, stopClient, subTask, mqttVars, store, codeSpent,
                 gwManifest, crashes>>

\* The catch of openConnection(): forget the client, then end(true).
Destroyed(l) == CASE l \in {"opening", "failing", "up"} -> "destroyed"
                  [] l = "waiting" -> "ended"
                  [] OTHER -> l

LeftRunning(c) == link
EndedByCatch(c) == [link EXCEPT ![c] = Destroyed(@)]

Refused(c) ==
  /\ pc[c] = "refused"
  /\ client' = NoClient
  /\ state' = "idle"
  /\ link' = EndedByCatch(c)
  /\ pc' = [pc EXCEPT ![c] = "failed"]
  /\ UNCHANGED <<identity, hasConnectedOnce, commandSubscribed, commandHandlers, manifest,
                 maxEventBytes, held, stopPc, stopClient, subTask, subscribed, wire, worldVars>>

\* publish() of a manifest version goes to a client that was not ended, within the ceiling.
TooLarge(version) == maxEventBytes = "low" /\ version \in Oversized
HasSession == client # NoClient /\ link[client] \in Live
CanPublish(version) == HasSession /\ ~TooLarge(version)

\* publishManifest() after the first CONNACK.  When the state is no longer "connected"
\* neither the publish nor the subscribe happens and connect() resolves.  The callback of
\* a QoS 0 publish comes with the write.
Announce(c) ==
  /\ pc[c] = "accepted"
  /\ \/ /\ state # "connected"
        /\ pc' = [pc EXCEPT ![c] = "done"]
        /\ UNCHANGED wire
     \/ /\ state = "connected"
        /\ ~CanPublish(manifest)
        /\ pc' = [pc EXCEPT ![c] = "failed"]
        /\ UNCHANGED wire
     \/ /\ state = "connected"
        /\ CanPublish(manifest)
        /\ pc' = [pc EXCEPT ![c] = "announcing"]
        /\ wire' = [wire EXCEPT ![client] = manifest]
  /\ UNCHANGED <<deviceVars, held, stopPc, stopClient, subTask, link, subscribed, worldVars>>

\* The condition of ensureCommandSubscription().
NeedsSubscription(handlers) ==
  /\ ~commandSubscribed
  /\ handlers # {}
  /\ state = "connected"

AnnounceDone(c) ==
  /\ Quiet
  /\ pc[c] = "announcing"
  /\ \/ /\ ~NeedsSubscription(commandHandlers)
        /\ pc' = [pc EXCEPT ![c] = "done"]
        /\ UNCHANGED subTask
     \/ /\ NeedsSubscription(commandHandlers)
        /\ ~HasSession
        /\ pc' = [pc EXCEPT ![c] = "failed"]
        /\ UNCHANGED subTask
     \/ /\ NeedsSubscription(commandHandlers)
        /\ HasSession
        /\ pc' = [pc EXCEPT ![c] = "subscribing"]
        /\ subTask' = [subTask EXCEPT ![c] = client]
  /\ UNCHANGED <<deviceVars, held, stopPc, stopClient, mqttVars, worldVars>>

-----------------------------------------------------------------------------
(***************************************************************************)
(* onCommand(), its unregister function, declareCapabilities(), and the    *)
(* answers to the subscriptions that connect() or onCommand() asked for.   *)
(***************************************************************************)

\* A key whose subscribe is unanswered is not registered again (a bound).
OnCommand(k) ==
  /\ k \notin commandHandlers
  /\ subTask[k] = NoClient
  /\ commandHandlers' = commandHandlers \cup {k}
  /\ IF NeedsSubscription(commandHandlers') /\ HasSession
       THEN subTask' = [subTask EXCEPT ![k] = client]
       ELSE UNCHANGED subTask
  /\ UNCHANGED <<state, client, identity, hasConnectedOnce, commandSubscribed, manifest,
                 maxEventBytes, pc, held, stopPc, stopClient, mqttVars, worldVars>>

OffCommand(k) ==
  /\ k \in commandHandlers
  /\ commandHandlers' = commandHandlers \ {k}
  /\ UNCHANGED <<state, client, identity, hasConnectedOnce, commandSubscribed, manifest,
                 maxEventBytes, callVars, mqttVars, worldVars>>

\* publishManifest(), called by declareCapabilities() and by the connect listener:
\* the version handed to the client, when there is a session that takes it.
Published(version, s) ==
  IF s = "connected" /\ CanPublish(version) THEN [wire EXCEPT ![client] = version] ELSE wire

DeclareCapabilities ==
  /\ manifest < MaxManifest
  /\ manifest' = manifest + 1
  /\ wire' = Published(manifest', state)
  /\ UNCHANGED <<state, client, identity, hasConnectedOnce, commandSubscribed,
                 commandHandlers, maxEventBytes, callVars, link, subscribed, worldVars>>

\* A connect() call resolves or rejects with its subscription; a subscription of
\* onCommand() reports a failure to the error listeners only.
Answered(x, outcome) ==
  /\ subTask' = [subTask EXCEPT ![x] = NoClient]
  /\ pc' = IF x \in Calls THEN [pc EXCEPT ![x] = outcome] ELSE pc

SubAck(x) ==
  /\ Quiet
  /\ subTask[x] # NoClient
  /\ link[subTask[x]] \in {"up", "draining"}
  /\ subscribed' = [subscribed EXCEPT ![subTask[x]] = TRUE]
  /\ commandSubscribed' = TRUE
  /\ Answered(x, "done")
  /\ UNCHANGED <<state, client, identity, hasConnectedOnce, commandHandlers, manifest,
                 maxEventBytes, held, stopPc, stopClient, link, wire, worldVars>>

\* The gateway refuses.
SubFailed(x) ==
  /\ Quiet
  /\ subTask[x] # NoClient
  /\ link[subTask[x]] \in {"up", "draining"}
  /\ Refusing
  /\ Answered(x, "failed")
  /\ UNCHANGED <<deviceVars, held, stopPc, stopClient, mqttVars, worldVars>>

-----------------------------------------------------------------------------
(***************************************************************************)
(* The listeners bindClientEvents() and waitForConnect() put on a client.  *)
(***************************************************************************)

NotRepublished == wire
Republished == IF hasConnectedOnce THEN Published(manifest, "connected") ELSE wire

StateAfterFirstConnect == IF hasConnectedOnce THEN state ELSE "connected"
StateAfterConnect == "connected"

\* waitForConnect() resolves at the first CONNACK, after a retry too.
AcceptedUnretried(c) ==
  IF pc[c] = "waiting" /\ state = "connecting" THEN [pc EXCEPT ![c] = "accepted"] ELSE pc
Accepted(c) == IF pc[c] = "waiting" THEN [pc EXCEPT ![c] = "accepted"] ELSE pc

\* waitForConnect() takes the ceiling of the CONNACK it waits for, after the connect
\* listener ran; a gateway advertises one or not.
CeilingAfterConnect(c) == IF pc[c] = "waiting" THEN {"null", "low"} ELSE {maxEventBytes}

\* A SUBSCRIBE sent on the client is unanswered.
Outstanding(c) == \E x \in SubTasks : subTask[x] = c

\* "connect".  The socket a forced end() destroyed has closed before the CONNACK of
\* a client opened later: one is a turn of the event loop, the other a handshake.  A
\* client that was ended while it opened emits it too; it drains when something is
\* unanswered on it, and mqtt.js does nothing more with it otherwise.
OnConnect(c) ==
  /\ Quiet
  /\ link[c] \in {"opening", "overtaken"}
  /\ \A other \in Calls : link[other] # "destroyed"
  /\ link' = [link EXCEPT ![c] = IF @ = "opening" THEN "up"
                                ELSE IF Outstanding(c) THEN "draining" ELSE "stray"]
  /\ state' = StateAfterConnect
  /\ wire' = Republished
  /\ hasConnectedOnce' = TRUE
  /\ maxEventBytes' \in CeilingAfterConnect(c)
  /\ pc' = Accepted(c)
  /\ UNCHANGED <<client, identity, commandSubscribed, commandHandlers, manifest, held,
                 stopPc, stopClient, subTask, subscribed, worldVars>>

\* "error" while the client is opening: it rejects the connect() call that waits.
OnError(c) ==
  /\ Quiet
  /\ link[c] \in {"opening", "overtaken"}
  /\ faults < MaxFaults
  /\ faults' = faults + 1
  /\ link' = [link EXCEPT ![c] = IF @ = "opening" THEN "failing" ELSE "abandoned"]
  /\ pc' = IF pc[c] = "waiting" THEN [pc EXCEPT ![c] = "refused"] ELSE pc
  /\ UNCHANGED <<deviceVars, held, stopPc, stopClient, subTask, subscribed, wire, store,
                 codeSpent, gwManifest, crashes>>

\* "close": the listener does not look at which client closed.
NoStateAfterClose      == state
StateAfterAnyClose     == "reconnecting"
StateAfterClose == IF state # "closed" THEN "reconnecting" ELSE state

\* The unanswered SUBSCRIBEs fail first; those of connect() reject it.  What was written
\* is lost, and what a client that is not connected has queued is kept.
Flushed(c) ==
  /\ subTask' = [x \in SubTasks |-> IF subTask[x] = c THEN NoClient ELSE subTask[x]]
  /\ pc' = [i \in Calls |-> IF subTask[i] = c THEN "failed" ELSE pc[i]]

AfterClose(c) ==
  CASE link[c] \in Live -> "waiting"
    [] link[c] \notin Live /\ link[c] # "destroyed" /\ Outstanding(c) -> "hung"
    [] OTHER -> "ended"

Closed(c) ==
  /\ Flushed(c)
  /\ link' = [link EXCEPT ![c] = AfterClose(c)]
  /\ wire' = IF link[c] \in Live \ {"up"} THEN wire ELSE [wire EXCEPT ![c] = 0]
  /\ state' = StateAfterClose
  /\ UNCHANGED <<client, identity, hasConnectedOnce, commandSubscribed, commandHandlers,
                 manifest, maxEventBytes, held, stopPc, stopClient, subscribed, store,
                 codeSpent, gwManifest, crashes>>

\* A socket that failed or that end() closes, or a stray that sends nothing and that the
\* gateway drops.
OnClose(c) ==
  /\ Quiet
  /\ \/ link[c] \in {"failing", "destroyed", "abandoned", "stray"}
     \/ link[c] = "draining" /\ ~Outstanding(c)
  /\ Closed(c)
  /\ UNCHANGED faults

Drop(c) ==
  /\ Quiet
  /\ link[c] \in {"opening", "up", "overtaken", "draining"}
  /\ faults < MaxFaults
  /\ faults' = faults + 1
  /\ Closed(c)

\* "reconnect": the retry timer of mqtt.js opens a new connection.
OnReconnect(c) ==
  /\ Quiet
  /\ link[c] = "waiting"
  /\ link' = [link EXCEPT ![c] = "opening"]
  /\ state' = "reconnecting"
  /\ UNCHANGED <<client, identity, hasConnectedOnce, commandSubscribed, commandHandlers,
                 manifest, maxEventBytes, callVars, subscribed, wire, worldVars>>

DeliverManifest(c) ==
  /\ Quiet
  /\ wire[c] # 0
  /\ link[c] \in {"up", "draining"}
  /\ gwManifest' = wire[c]
  /\ wire' = [wire EXCEPT ![c] = 0]
  /\ UNCHANGED <<deviceVars, callVars, link, subscribed, store, codeSpent, faults, crashes>>

-----------------------------------------------------------------------------
(***************************************************************************)
(* disconnect(), and a restart of the process.                             *)
(***************************************************************************)
MayDisconnect == Sequential => InFlight = {} /\ Stopping = {}

ForgetClientOnly ==
  /\ client' = NoClient
  /\ UNCHANGED <<commandSubscribed, hasConnectedOnce>>

ForgetSession ==
  /\ client' = NoClient
  /\ commandSubscribed' = FALSE
  /\ hasConnectedOnce' = FALSE

Ending(c) == CASE link[c] = "up" -> "draining"
               [] link[c] = "opening" -> "overtaken"
               [] link[c] = "failing" -> "abandoned"
               [] link[c] = "waiting" /\ Outstanding(c) -> "hung"
               [] OTHER -> "ended"

\* Without a client there is nothing to end; the callback of a second end() of one
\* client runs at once.
Disconnect(d) ==
  /\ stopPc[d] = "ready"
  /\ MayDisconnect
  /\ state' = "closed"
  /\ \/ /\ client = NoClient
        /\ stopPc' = [stopPc EXCEPT ![d] = "done"]
        /\ UNCHANGED <<stopClient, link, client, commandSubscribed, hasConnectedOnce>>
     \/ /\ client # NoClient
        /\ link[client] \notin Live
        /\ stopPc' = [stopPc EXCEPT ![d] = "done"]
        /\ ForgetSession
        /\ UNCHANGED <<stopClient, link>>
     \/ /\ client # NoClient
        /\ link[client] \in Live
        /\ stopPc' = [stopPc EXCEPT ![d] = "ending"]
        /\ stopClient' = [stopClient EXCEPT ![d] = client]
        /\ link' = [link EXCEPT ![client] = Ending(client)]
        /\ UNCHANGED <<client, commandSubscribed, hasConnectedOnce>>
  /\ UNCHANGED <<identity, commandHandlers, manifest, maxEventBytes, pc, held, subTask,
                 subscribed, wire, worldVars>>

\* The callback of end(): mqtt.js has had the answer to every outstanding call, and a
\* client that was connected has closed.
Disconnected(d) ==
  /\ Quiet
  /\ stopPc[d] = "ending"
  /\ link[stopClient[d]] \notin {"draining", "hung"}
  /\ \A x \in SubTasks : subTask[x] # stopClient[d]
  /\ stopPc' = [stopPc EXCEPT ![d] = "done"]
  /\ stopClient' = [stopClient EXCEPT ![d] = NoClient]
  /\ ForgetSession
  /\ UNCHANGED <<state, identity, commandHandlers, manifest, maxEventBytes, pc, held,
                 subTask, mqttVars, worldVars>>

\* The fields are those of a new Device, and the calls and connections are gone.
Restarted ==
  /\ state' = "idle"
  /\ client' = NoClient
  /\ identity' = NoCredential
  /\ hasConnectedOnce' = FALSE
  /\ commandSubscribed' = FALSE
  /\ commandHandlers' = {}
  /\ manifest' = 1
  /\ maxEventBytes' = "null"
  /\ pc' = [c \in Calls |-> IF c \in InFlight THEN "lost" ELSE pc[c]]
  /\ held' = [c \in Calls |-> NoCredential]
  /\ stopPc' = [d \in Stops |-> IF stopPc[d] = "ending" THEN "lost" ELSE stopPc[d]]
  /\ stopClient' = [d \in Stops |-> NoClient]
  /\ subTask' = [x \in SubTasks |-> NoClient]
  /\ link' = [c \in Calls |-> IF link[c] = "none" THEN "none" ELSE "ended"]
  /\ wire' = [c \in Calls |-> 0]
  /\ UNCHANGED <<subscribed, gwManifest, faults>>

\* The process stops at any point and starts again.  A save in progress took effect or
\* not (createFileCredentialStore renames), a claim in progress was honoured or not.
Crash ==
  /\ crashes < MaxCrashes
  /\ crashes' = crashes + 1
  /\ Restarted
  /\ store' \in {store} \cup {held[c] : c \in {i \in Calls : pc[i] = "saving"}}
  /\ \/ UNCHANGED codeSpent
     \/ codeSpent' = TRUE /\ \E c \in Calls : pc[c] = "claiming"

-----------------------------------------------------------------------------
\* What a connect() call does once it was made.
CallStep(c) ==
  \/ LoadFound(c) \/ LoadNothing(c) \/ LoadFailed(c)
  \/ ClaimAccepted(c) \/ ClaimFailed(c)
  \/ Saved(c) \/ SaveFailed(c)
  \/ Refused(c)
  \/ Announce(c) \/ AnnounceDone(c)

ClientStep(c) ==
  \/ OnConnect(c) \/ OnError(c) \/ OnClose(c) \/ Drop(c) \/ OnReconnect(c)
  \/ DeliverManifest(c)

Application ==
  \/ \E c \in Calls : Connect(c)
  \/ \E d \in Stops : Disconnect(d)
  \/ \E k \in Keys : OnCommand(k) \/ OffCommand(k)
  \/ DeclareCapabilities

Next ==
  \/ Application
  \/ \E c \in Calls : CallStep(c) \/ ClientStep(c)
  \/ \E x \in SubTasks : SubAck(x) \/ SubFailed(x)
  \/ \E d \in Stops : Disconnected(d)
  \/ Crash

Spec == Init /\ [][Next]_vars

\* Pending I/O completes, a released continuation runs, mqtt.js closes what it ended
\* and keeps retrying; the application, the faults and the restarts owe nothing.
Fairness ==
  /\ \A c \in Calls : /\ WF_vars(CallStep(c))
                      /\ WF_vars(OnConnect(c))
                      /\ WF_vars(OnClose(c))
                      /\ WF_vars(OnReconnect(c))
  /\ \A x \in SubTasks : WF_vars(SubAck(x) \/ SubFailed(x))
  /\ \A d \in Stops : WF_vars(Disconnected(d))

FairSpec == Spec /\ Fairness

-----------------------------------------------------------------------------
TypeOK ==
  /\ state \in ConnectionState
  /\ client \in Calls \cup {NoClient}
  /\ identity \in Credentials \cup {NoCredential}
  /\ hasConnectedOnce \in BOOLEAN
  /\ commandSubscribed \in BOOLEAN
  /\ commandHandlers \subseteq Keys
  /\ manifest \in 1..MaxManifest
  /\ maxEventBytes \in {"null", "low"}
  /\ pc \in [Calls -> CallState]
  /\ held \in [Calls -> Credentials \cup {NoCredential}]
  /\ stopPc \in [Stops -> {"ready", "ending", "done", "lost"}]
  /\ stopClient \in [Stops -> Calls \cup {NoClient}]
  /\ subTask \in [SubTasks -> Calls \cup {NoClient}]
  /\ link \in [Calls -> LinkState]
  /\ subscribed \in [Calls -> BOOLEAN]
  /\ wire \in [Calls -> 0..MaxManifest]
  /\ store \in Credentials \cup {NoCredential}
  /\ codeSpent \in BOOLEAN
  /\ gwManifest \in 0..MaxManifest
  /\ faults \in 0..MaxFaults
  /\ crashes \in 0..MaxCrashes

\* A client that mqtt.js will reconnect by itself is the one the Device holds: no failed
\* connect() or disconnect() leaves one behind that keeps the process alive and that
\* nobody can end (the catch of openConnection()).
NoOrphan == \A c \in Calls : link[c] \in Live => c = client

\* The state "connected" is only shown while the Device holds a client whose session
\* is up, which publishManifest() and ensureCommandSubscription(), testing the state
\* alone, rely on; but for the late connection of a client that disconnect() ended while
\* it opened, as long as that connection lasts.
ConnectedIsUp ==
  state = "connected" =>
    \/ client # NoClient /\ link[client] = "up"
    \/ \E c \in Calls : link[c] \in {"draining", "stray"}

\* commandSubscribed, which suppresses every later subscribe, is only set while the
\* client in use holds the subscription: it is not carried over to another session.
FlagHonest == commandSubscribed => client # NoClient /\ subscribed[client]

\* While connected, and once connect()'s own publish has run, the platform has the
\* manifest last declared or is about to receive it on the session: a capability set
\* declared offline, or a publish lost with a connection, is made good at the next
\* connect.  A manifest above the ceiling of the gateway is the exception: publish()
\* throws, and the platform keeps what it had.
SessionUp == state = "connected" /\ client # NoClient /\ link[client] = "up"

ManifestCurrent ==
  SessionUp /\ ~TooLarge(manifest) /\ (\A c \in Calls : pc[c] # "accepted")
    => manifest \in {wire[client], gwManifest} /\ wire[client] \in {0, manifest}

\* A session is opened only with the credential that a restarted process would load:
\* claim, save and open happen in that order, whatever fails in between.
RestartSafe ==
  /\ identity # NoCredential => identity = store
  /\ \A c \in Calls : link[c] # "none" => store # NoCredential

\* The inductive form of RestartSafe, for any application: a call that saves a claimed
\* credential is the only one, holds the answer to the claim that spent the code, and
\* nothing is stored yet.
OneSave ==
  \A c \in Calls : pc[c] = "saving" =>
    /\ codeSpent
    /\ store = NoCredential
    /\ held[c] # NoCredential
    /\ \A other \in Calls : pc[other] = "saving" => other = c

ClaimInv ==
  /\ OneSave
  /\ store # NoCredential => codeSpent
  /\ RestartSafe

\* The claim code goes out only while nothing is stored: once a credential is stored
\* no connect() call is in the claim exchange, or holds an answer to save over it.
ClaimsUnprovisioned == \A c \in Calls : pc[c] \in {"claiming", "saving"} => store = NoCredential

\* The inductive form of NoOrphan, ConnectedIsUp and FlagHonest for a sequential
\* application: at most one life-cycle call is under way, it owns the client from the
\* moment it opened it, a client nobody ends is live, and every SUBSCRIBE that may still
\* be answered is on the client the Device holds.
OneAtATime ==
  /\ \A c \in InFlight : Stopping = {} /\ \A other \in InFlight : other = c
  /\ \A d, other \in Stopping : other = d

CallOwnsClient ==
  \A c \in InFlight : /\ client = IF pc[c] \in Provisioning THEN NoClient ELSE c
                      /\ pc[c] = "subscribing" => subTask[c] = c

OpeningIsQuiet ==
  \A c \in Calls : pc[c] \in {"waiting", "refused"} =>
    /\ link[c] \in {"opening", "failing", "waiting"}
    /\ pc[c] = "refused" => link[c] = "failing"
    /\ ~commandSubscribed

StopEndsClient ==
  \A d \in Stopping : /\ stopClient[d] = client
                       /\ client # NoClient
                       /\ \/ link[client] \in {"draining", "overtaken", "abandoned", "hung"}
                          \/ link[client] \in {"stray", "ended"} /\ ~Outstanding(client)

HeldIsLive == client # NoClient /\ Stopping = {} => link[client] \in Live

Answerable == {c \in Calls : link[c] \in Live \cup {"draining", "overtaken"}}

SubTasksOnClient == \A x \in SubTasks : subTask[x] \in Answerable => subTask[x] = client

ClosedIsDead == state = "closed" => \A c \in Calls : link[c] \notin Live

SessionInv ==
  /\ OneAtATime
  /\ CallOwnsClient
  /\ OpeningIsQuiet
  /\ StopEndsClient
  /\ HeldIsLive
  /\ SubTasksOnClient
  /\ ClosedIsDead
  /\ NoOrphan
  /\ ConnectedIsUp
  /\ FlagHonest

\* The inductive form of ManifestCurrent, beside SessionInv: a client that drains is the one
\* a disconnect() call ends, so nothing it still delivers is older than what the client in
\* use announced; and a client that was never connected has a connect() call waiting for
\* its CONNACK, to publish the manifest after it.
DrainingIsStopped ==
  \A c \in Calls : link[c] = "draining" \/ (link[c] = "overtaken" /\ Outstanding(c))
                     => \E d \in Stopping : stopClient[d] = c

FirstIsAnnounced ==
  client # NoClient /\ ~hasConnectedOnce /\ Stopping = {} => pc[client] \in {"waiting", "refused"}

ManifestInv == ManifestCurrent /\ DrainingIsStopped /\ FirstIsAnnounced

\* After disconnect() only a new connect() call or a restart changes the state, and the
\* CONNACK of a client that disconnect() ended while it opened: no close, error or retry
\* of a client, and no call it overtook, reopens a closed Device.
ClosedIsFinal ==
  [][state = "closed" /\ state' # "closed" =>
       \/ \E c \in Calls : pc[c] \in Provisioning
       \/ crashes' # crashes
       \/ \E c \in Calls : link[c] = "overtaken" /\ link'[c] \in {"draining", "stray"}]_vars

\* Every connect() call settles, whatever the network does to it.
ConnectSettles == \A c \in Calls : c \in InFlight ~> c \notin InFlight

\* A session whose connection was lost is reported connected again, unless the
\* application closes it or the process restarts.
Reconnects ==
  \A c \in Calls :
    link[c] = "waiting" ~> (link[c] = "up" /\ state = "connected") \/ link[c] \notin Live

-----------------------------------------------------------------------------
(***************************************************************************)
(* The Device as its application sees it.                                  *)
(***************************************************************************)
StatusOf(p) == CASE p \in Provisioning -> "provisioning"
                 [] p \in {"waiting", "refused"} -> "opening"
                 [] p \in {"accepted", "announcing", "subscribing"} -> "opened"
                 [] p = "done" -> "resolved"
                 [] p = "failed" -> "rejected"
                 [] OTHER -> p

Status == [c \in Calls |-> StatusOf(pc[c])]

Session == CASE client = NoClient -> "none"
             [] client # NoClient /\ link[client] \in {"opening", "failing"} -> "opening"
             [] client # NoClient /\ link[client] = "up" -> "up"
             [] client # NoClient /\ link[client] = "waiting" -> "lost"
             [] OTHER -> "ending"

Leftovers == {c \in Calls : c # client /\ link[c] \in Leaving}

Contract == INSTANCE Lifecycle WITH
  session <- Session,
  status <- Status,
  leftovers <- Leftovers,
  provisioned <- store # NoCredential

\* The states a sequential application is shown, and when a connect() call resolves, are
\* those of Lifecycle: every await, event of mqtt.js and continuation between two of its
\* steps keeps them.
ImplementsLifecycle == Contract!Spec
-----------------------------------------------------------------------------
(***************************************************************************)
(* What the documentation, the comments and the tests say of connect(),    *)
(* and the code does not do: each is refuted by a run of its own.          *)
(***************************************************************************)

\* "`closed` is terminal for an explicit disconnect" (types.ts): only a new connect() call,
\* or a restart, makes a closed Device show another state.  The CONNACK of a client that
\* disconnect() ended while it was opening makes it show "connected".
ClosedIsTerminal ==
  [][state = "closed" /\ state' # "closed" =>
       (\E c \in Calls : pc[c] \in Provisioning) \/ crashes' # crashes]_vars

\* "Register a handler for commands": with a handler registered, a session up, no
\* connect() call under way or failed and no subscription refused, the client holds
\* command/#.
HandlersAreServed ==
  /\ state = "connected"
  /\ commandHandlers # {}
  /\ \A c \in Calls : pc[c] \in Settled \ {"failed"}
  /\ \A x \in SubTasks : subTask[x] = NoClient
  => subscribed[client]
=============================================================================
