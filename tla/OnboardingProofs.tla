--------------------------- MODULE OnboardingProofs ---------------------------
(***************************************************************************)
(* Theorems about Onboarding: when nothing overlaps a claim, the endpoint, *)
(* the session, the shown state and the stored credential stay in step.    *)
(***************************************************************************)
EXTENDS Onboarding, DeviceProofs

USE OnboardingAssumption, ServerCallsAssumption, CredentialsAssumption

\* The listeners and actors of the server, by the names used here.
LEMMA ServerNames ==
  /\ Server!Listeners = ServerStarts \cup Requests
  /\ Server!Actors = ServerStarts \cup ServerStops \cup Requests
BY DEF Server!Listeners, Server!Actors

-----------------------------------------------------------------------------
(***************************************************************************)
(* The server alone.                                                       *)
(***************************************************************************)

\* The actor that moves is the only one.
LEMMA Alone ==
  ASSUME OneServerCall, NEW a \in Server!Actors, serverPc[a] \notin Server!SettledPC
  PROVE  \A b \in Server!Actors \ {a} : serverPc[b] \in Server!SettledPC
BY DEF OneServerCall, Server!InFlight

\* The steps of start() keep the server in form.
LEMMA StartStepInv ==
  ASSUME ServerInv, NEW s \in ServerStarts \cup Requests, Server!StartStep(s)
  PROVE  ServerInv'
<1> USE ServerNames DEF ServerInv, OneServerCall, ActorsInForm, UpTogether, ClaimsWhenEmpty,
          Server!HandedIsStored, Server!InFlight, Server!SettledPC, Server!StartPC,
          Server!TeardownPC, Claiming, Server!serverVars, Server!worldVars
<1>1. CASE Server!StoreLoaded(s)
  BY <1>1 DEF Server!StoreLoaded, Server!Existing
<1>2. CASE Server!Raised(s)
  BY <1>2 DEF Server!Raised
<1>3. CASE Server!Bound(s)
  BY <1>3 DEF Server!Bound
<1>4. CASE Server!BindFailed(s)
  BY <1>4 DEF Server!BindFailed, Server!UndoAccessPoint
<1>5. CASE Server!Undone(s)
  BY <1>5 DEF Server!Undone
<1> QED BY <1>1, <1>2, <1>3, <1>4, <1>5 DEF Server!StartStep

\* Closing the listener, and the access point after it, keeps the server in form.
LEMMA CloseHttpInv ==
  ASSUME ServerInv, NEW a \in ServerStops \cup Requests,
         a \in Requests => serverPc[a] \in {"replying", "accepted"},
         \A b \in Server!Actors \ {a} : serverPc[b] \in Server!SettledPC,
         a \in ServerStops => serverPc[a] = "ready",
         Server!CloseHttp(a), UNCHANGED <<wifi, ap, store>>
  PROVE  ServerInv'
<1> USE ServerNames DEF ServerInv, OneServerCall, ActorsInForm, UpTogether, ClaimsWhenEmpty,
     Server!HandedIsStored, Server!InFlight, Server!SettledPC, Server!StartPC,
     Server!TeardownPC, Claiming, Server!CloseHttp, Server!StopAccessPoint
<1>1. CASE server # NoServer
  <2>1. /\ server' = NoServer /\ listening' = {} /\ serverPc' = [serverPc EXCEPT ![a] = "closing"]
        /\ UNCHANGED <<accessPointStarted, handed>>
    BY <1>1
  <2>2. OneServerCall' /\ ActorsInForm'
    BY <2>1
  <2>3. UpTogether'
    BY <1>1, <2>1
  <2>4. ClaimsWhenEmpty'
    BY <1>1, <2>1
  <2> QED BY <2>2, <2>3, <2>4
<1>2. CASE server = NoServer
  <2>1. a \notin Requests
    BY <1>2
  <2>2. serverPc[a] = "ready" /\ a \in ServerStops
    BY <2>1
  <2>3. ~accessPointStarted
    BY <1>2, <2>2
  <2> QED BY <1>2, <2>2, <2>3 DEF Server!TornDown
<1> QED BY <1>1, <1>2

\* The steps of a teardown keep the server in form.
LEMMA TeardownStepInv ==
  ASSUME ServerInv, NEW a \in ServerStops \cup Requests, Server!TeardownStep(a)
  PROVE  ServerInv'
<1> USE ServerNames DEF ServerInv, OneServerCall, ActorsInForm, UpTogether, ClaimsWhenEmpty,
          Server!HandedIsStored, Server!InFlight, Server!SettledPC, Server!StartPC,
          Server!TeardownPC, Claiming, Server!serverVars, Server!worldVars
<1>1. CASE Server!HttpClosed(a)
  BY <1>1 DEF Server!HttpClosed, Server!StopAccessPoint, Server!TornDown
<1>2. CASE Server!Lowered(a)
  BY <1>2 DEF Server!Lowered, Server!TornDown
<1>3. CASE Server!LoweringFailed(a)
  BY <1>3 DEF Server!LoweringFailed
<1> QED BY <1>1, <1>2, <1>3 DEF Server!TeardownStep

\* A reply that leaves begins the teardown.
LEMMA FlushedInv ==
  ASSUME ServerInv, NEW r \in Requests, Server!Flushed(r)
  PROVE  ServerInv'
<1>1. \A b \in Server!Actors \ {r} : serverPc[b] \in Server!SettledPC
  BY ServerNames, Alone DEF Server!Flushed, ServerInv, Server!SettledPC
<1>2. /\ serverPc[r] \in {"replying", "accepted"}
      /\ Server!CloseHttp(r)
      /\ UNCHANGED <<wifi, ap, store>>
      /\ r \notin ServerStops
  BY DEF Server!Flushed
<1> QED
  BY <1>1, <1>2, CloseHttpInv

\* The steps of a claim, and the companion app that leaves, keep the server in form.
LEMMA RequestStepInv ==
  ASSUME ServerInv, "claim" \notin Overlaps, NEW r \in Requests,
         Server!Claim(r) \/ Server!RequestStep(r) \/ Server!HangUp(r)
  PROVE  ServerInv'
<1> USE ServerNames DEF ServerInv, OneServerCall, ActorsInForm, UpTogether, ClaimsWhenEmpty,
          Server!HandedIsStored, Server!InFlight, Server!SettledPC, Server!StartPC,
          Server!TeardownPC, Claiming, Server!serverVars, Server!worldVars
<1>1. CASE Server!Claim(r)
  BY <1>1 DEF Server!Claim, Server!MayCall, Server!Replied, Server!ClaimsClosed
<1>2. CASE Server!HangUp(r)
  BY <1>2 DEF Server!HangUp
<1>3. CASE Server!PlainClaimRead(r)
  BY <1>3 DEF Server!PlainClaimRead
<1>4. CASE Server!WifiClaimRead(r)
  BY <1>4 DEF Server!WifiClaimRead
<1>5. CASE Server!BadClaimRead(r)
  BY <1>5 DEF Server!BadClaimRead, Server!Replied
<1>6. CASE Server!Exchanged(r)
  BY <1>6 DEF Server!Exchanged
<1>7. CASE Server!ExchangeFailed(r)
  BY <1>7 DEF Server!ExchangeFailed, Server!StepFailed, Server!Replied
<1>8. CASE Server!Saved(r)
  <2>0. /\ store = NoCredential /\ r \in Server!Actors /\ serverPc[r] = "saving"
        /\ \A b \in Server!Actors \ {r} : serverPc[b] \in Server!SettledPC
    BY <1>8 DEF Server!Saved
  <2>1. /\ store = NoCredential /\ handed = {} /\ r \in Server!Actors
        /\ serverPc[r] = "saving"
        /\ \A b \in Server!Actors \ {r} : serverPc[b] \in Server!SettledPC
    BY <2>0
  <2>2. CASE r \in wifi
    BY <1>8, <2>1, <2>2 DEF Server!Saved
  <2>3. CASE r \notin wifi
    <3>1. /\ store' = r /\ server # NoServer /\ serverState' = "provisioned"
          /\ UNCHANGED <<server, accessPointStarted, listening, ap, wifi, handed>>
      BY <1>8, <2>1, <2>3 DEF Server!Saved
    <3>2. PICK p \in {"replying", "abandoned"} : serverPc' = [serverPc EXCEPT ![r] = p]
      BY <1>8, <2>3 DEF Server!Saved
    <3>3. OneServerCall' /\ ActorsInForm'
      BY <2>1, <2>3, <3>1, <3>2
    <3>4. UpTogether'
      BY <2>1, <2>3, <3>1, <3>2
    <3>5. ClaimsWhenEmpty'
      BY <2>1, <2>3, <3>1, <3>2
    <3> QED BY <3>3, <3>4, <3>5
  <2> QED BY <2>2, <2>3
<1>9. CASE Server!SaveFailed(r)
  BY <1>9 DEF Server!SaveFailed, Server!StepFailed, Server!Replied
<1>10. CASE Server!Flushed(r)
  BY <1>10, FlushedInv
<1>11. CASE Server!Joined(r)
  BY <1>11 DEF Server!Joined
<1>12. CASE Server!JoinFailed(r)
  BY <1>12 DEF Server!JoinFailed
<1>13. CASE Server!Forgotten(r)
  BY <1>13 DEF Server!Forgotten
<1>14. CASE Server!HandedOff(r)
  BY <1>14 DEF Server!HandedOff
<1> QED
  BY <1>1, <1>2, <1>3, <1>4, <1>5, <1>6, <1>7, <1>8, <1>9, <1>10, <1>11, <1>12, <1>13, <1>14
     DEF Server!RequestStep, Server!Handling, Server!Read
-----------------------------------------------------------------------------
(***************************************************************************)
(* The server beside the session.                                          *)
(***************************************************************************)

\* What one step of the server, taken by the actor a, can change for the Device and the
\* application.
Moves(a) ==
  /\ \A b \in Server!Actors \ {a} : serverPc'[b] = serverPc[b] /\ serverPc[b] \in Server!SettledPC
  /\ \/ serverPc[a] \notin Server!SettledPC
     \/ a \in Requests /\ server # NoServer
     \/ a \in ServerStops /\ outstanding
  /\ server' # NoServer => server # NoServer \/ store = NoCredential
  /\ accessPointStarted' => accessPointStarted \/ store = NoCredential
  /\ serverPc'[a] \in {"raising", "binding"} => store = NoCredential
  /\ \/ handed' = handed
     \/ a \in Requests /\ handed' = handed \cup {a} /\ server' = NoServer
          /\ serverPc'[a] = "handing" /\ store' = a
  /\ \/ store' = store
     \/ a \in Requests /\ store = NoCredential /\ store' = a
  /\ a \in ServerStops /\ serverPc'[a] = "done" => server' = NoServer
  /\ a \in ServerStarts => server' = server \/ serverPc'[a] = "done"
  /\ serverPc[a] = "handing" => server' = server /\ serverPc'[a] = "done"
  /\ crashes' = crashes

\* A step of start(), seen from the Device and the application.
LEMMA StartStepMoves ==
  ASSUME ServerInv, NEW s \in ServerStarts \cup Requests, Server!StartStep(s)
  PROVE  Moves(s)
<1> USE ServerNames DEF ServerInv, OneServerCall, ActorsInForm, UpTogether, ClaimsWhenEmpty,
          Server!InFlight, Server!SettledPC, Server!StartPC, Moves,
          Server!TeardownPC, Claiming, Server!serverVars, Server!worldVars
<1>1. CASE Server!StoreLoaded(s)
  BY <1>1 DEF Server!StoreLoaded, Server!Existing
<1>2. CASE Server!Raised(s)
  BY <1>2 DEF Server!Raised
<1>3. CASE Server!Bound(s)
  BY <1>3 DEF Server!Bound
<1>4. CASE Server!BindFailed(s)
  BY <1>4 DEF Server!BindFailed, Server!UndoAccessPoint
<1>5. CASE Server!Undone(s)
  BY <1>5 DEF Server!Undone
<1> QED BY <1>1, <1>2, <1>3, <1>4, <1>5 DEF Server!StartStep

\* A step of a teardown, seen from there.
LEMMA TeardownStepMoves ==
  ASSUME ServerInv, NEW a \in ServerStops \cup Requests, Server!TeardownStep(a)
  PROVE  Moves(a)
<1> USE ServerNames DEF ServerInv, OneServerCall, ActorsInForm, UpTogether, ClaimsWhenEmpty,
          Server!InFlight, Server!SettledPC, Server!StartPC, Moves,
          Server!TeardownPC, Claiming, Server!serverVars, Server!worldVars
<1>1. CASE Server!HttpClosed(a)
  BY <1>1 DEF Server!HttpClosed, Server!StopAccessPoint, Server!TornDown
<1>2. CASE Server!Lowered(a)
  BY <1>2 DEF Server!Lowered, Server!TornDown
<1>3. CASE Server!LoweringFailed(a)
  BY <1>3 DEF Server!LoweringFailed
<1> QED BY <1>1, <1>2, <1>3 DEF Server!TeardownStep

\* A step of a claim request, seen from there.
LEMMA RequestStepMoves ==
  ASSUME ServerInv, "claim" \notin Overlaps, NEW r \in Requests,
         Server!Claim(r) \/ Server!RequestStep(r) \/ Server!HangUp(r)
  PROVE  Moves(r)
<1> USE ServerNames DEF ServerInv, OneServerCall, ActorsInForm, UpTogether, ClaimsWhenEmpty,
          Server!InFlight, Server!SettledPC, Server!StartPC, Moves,
          Server!TeardownPC, Claiming, Server!serverVars, Server!worldVars
<1>1. CASE Server!Claim(r)
  BY <1>1 DEF Server!Claim, Server!MayCall, Server!Replied
<1>2. CASE Server!HangUp(r)
  BY <1>2 DEF Server!HangUp
<1>3. CASE Server!PlainClaimRead(r) \/ Server!WifiClaimRead(r) \/ Server!BadClaimRead(r)
  BY <1>3 DEF Server!PlainClaimRead, Server!WifiClaimRead, Server!BadClaimRead, Server!Replied
<1>4. CASE Server!Exchanged(r) \/ Server!ExchangeFailed(r)
  BY <1>4 DEF Server!Exchanged, Server!ExchangeFailed, Server!StepFailed, Server!Replied
<1>5. CASE Server!Saved(r)
  BY <1>5 DEF Server!Saved
<1>6. CASE Server!SaveFailed(r)
  BY <1>6 DEF Server!SaveFailed, Server!StepFailed, Server!Replied
<1>7. CASE Server!Flushed(r)
  BY <1>7 DEF Server!Flushed, Server!CloseHttp, Server!StopAccessPoint, Server!TornDown
<1>8. CASE Server!Joined(r) \/ Server!JoinFailed(r)
  BY <1>8 DEF Server!Joined, Server!JoinFailed
<1>9. CASE Server!Forgotten(r)
  BY <1>9 DEF Server!Forgotten
<1>10. CASE Server!HandedOff(r)
  BY <1>10 DEF Server!HandedOff
<1> QED
  BY <1>1, <1>2, <1>3, <1>4, <1>5, <1>6, <1>7, <1>8, <1>9, <1>10
     DEF Server!RequestStep, Server!Handling, Server!Read

\* What OfServer() says besides the step.
Beside ==
  /\ state' = ShownAfter
  /\ HandOver
  /\ outstanding' = \/ StartResolved
                    \/ outstanding /\ ~StopResolved /\ handed' = handed
  /\ UNCHANGED <<client, hasConnectedOnce, commandSubscribed, commandHandlers, manifest,
                 maxEventBytes, callVars, mqttVars, codeSpent, gwManifest, faults>>

\* A start() that was rejected, or that resolved, was under way, beside no session; and a
\* stop() that resolved was the one step taken.
LEMMA OneMoved ==
  ASSUME OnboardingInv, NEW a \in Server!Actors, Moves(a)
  PROVE  /\ StartRejected => a \in ServerStarts /\ serverPc'[a] = "failed"
         /\ StartResolved => a \in ServerStarts /\ serverPc'[a] = "done"
         /\ StopResolved <=> a \in ServerStops /\ serverPc'[a] = "done" /\ serverPc[a] # "done"
         /\ a \in ServerStarts => serverPc[a] \notin Server!SettledPC /\ ~outstanding
         /\ a \in ServerStarts /\ serverPc'[a] = "done" => StartResolved
BY ServerNames DEF Moves, StartRejected, StartResolved, StopResolved, OnboardingInv,
   HeldWhileServing, Server!SettledPC

\* Beside a step of the server the Device keeps its types.
LEMMA BesideType ==
  ASSUME TypeOK, OnboardingInv, NEW a \in Server!Actors, Moves(a), Beside
  PROVE  TypeOK'
<1>1. store' \in Credentials \cup {NoCredential} /\ identity' \in Credentials \cup {NoCredential}
  BY DEF Moves, Beside, HandOver, TypeOK
<1>2. state' \in ConnectionState /\ crashes' \in 0..MaxCrashes
  BY DEF Moves, Beside, ShownAfter, TypeOK, ConnectionState
<1> QED
  BY <1>1, <1>2 DEF TypeOK, Beside, callVars, mqttVars

\* Beside a step of the server the session stays in order: the state shown only changes
\* while no client is live.
LEMMA BesideSession ==
  ASSUME SessionInv, OnboardingInv, NEW a \in Server!Actors, Moves(a), Beside
  PROVE  SessionInv'
<1>1. \/ state' = state
      \/ state' = "idle" /\ Stopping = {} /\ InFlight = {} /\ \A c \in Calls : link[c] \notin Live
  BY OneMoved DEF Beside, ShownAfter, OnboardingInv, SessionAlone
<1>2. UNCHANGED <<client, commandSubscribed, pc, stopPc, stopClient, subTask, link, subscribed>>
  BY DEF Beside, callVars, mqttVars
<1> QED
  BY <1>1, <1>2 DEF SessionInv, OneAtATime, CallOwnsClient, OpeningIsQuiet, StopEndsClient,
     HeldIsLive, SubTasksOnClient, ClosedIsDead, NoOrphan, ConnectedIsUp, FlagHonest,
     InFlight, Stopping, Outstanding, Answerable

\* Beside a step of the server the Device and the application stay in step with it.
LEMMA BesideInv ==
  ASSUME OnboardingInv, ServerInv', NEW a \in Server!Actors, Moves(a), Beside
  PROVE  OnboardingInv'
<1> USE ServerNames
<1>1. HeldWhileServing'
  <2>1. CASE outstanding'
    <3>1. \A s \in ServerStarts : serverPc'[s] \in Server!SettledPC
      BY <2>1, OneMoved DEF Beside, Moves, OnboardingInv, HeldWhileServing, Server!SettledPC
    <3> QED BY <2>1, <3>1 DEF HeldWhileServing
  <2>2. CASE ~outstanding' /\ ~outstanding
    <3>1. server = NoServer /\ (a \in ServerStarts \/ serverPc[a] = "handing")
      BY <2>2 DEF OnboardingInv, HeldWhileServing, Moves, Server!SettledPC
    <3>2. server' = NoServer
      BY <2>2, <3>1, OneMoved DEF Moves, Beside
    <3> QED
      BY <2>2, <3>1, <3>2 DEF HeldWhileServing, Moves, Server!SettledPC, OnboardingInv
  <2>3. CASE ~outstanding' /\ outstanding
    <3>1. StopResolved \/ handed' # handed
      BY <2>3 DEF Beside
    <3>2. server' = NoServer /\ serverPc'[a] \in {"done", "handing"}
      BY <3>1, OneMoved DEF Moves
    <3> QED
      BY <2>3, <3>2 DEF HeldWhileServing, Moves, Server!SettledPC
  <2> QED BY <2>1, <2>2, <2>3 DEF HeldWhileServing
<1>2. SessionAlone'
  BY OneMoved DEF SessionAlone, OnboardingInv, Beside, Moves, InFlight, Stopping, callVars,
     mqttVars, HeldWhileServing, Server!SettledPC
<1>3. ShownInStep'
  <2>1. (\E c \in Calls : link'[c] \in Live) => ~SessionFree'
    BY OneMoved DEF Beside, ShownAfter, OnboardingInv, SessionAlone, ShownInStep, SessionFree,
       mqttVars
  <2>2. outstanding' \/ (\E s \in ServerStarts : serverPc'[s] \notin Server!SettledPC)
          => state' = "provisioning" \/ \E c \in Calls : link'[c] # "none"
    <3>1. CASE StartRejected
      BY <3>1, OneMoved DEF Beside, Moves, StartResolved, Server!SettledPC
    <3>2. CASE ~StartRejected
      BY <3>2, OneMoved DEF Beside, ShownAfter, Moves, OnboardingInv, ShownInStep, mqttVars,
         Server!SettledPC
    <3> QED BY <3>1, <3>2
  <2>3. \/ server' # NoServer
        \/ accessPointStarted'
        \/ \E b \in Server!Actors : serverPc'[b] \in {"raising", "binding"}
        => \A c \in Calls : link'[c] = "none"
    BY DEF Beside, Moves, OnboardingInv, ShownInStep, RestartSafe, mqttVars, Server!SettledPC
  <2> QED BY <2>1, <2>2, <2>3 DEF ShownInStep, Server!Actors, Server!SettledPC
<1>4. NoClaimCode' /\ RestartSafe'
  BY DEF Beside, Moves, OnboardingInv, NoClaimCode, RestartSafe, HandOver, callVars, mqttVars
<1> QED BY <1>1, <1>2, <1>3, <1>4 DEF OnboardingInv
\* The invariants together.
Inv == TypeOK /\ SessionInv /\ OnboardingInv

\* A step of the server keeps the device, the server and the application in step.
LEMMA ServerStepInv ==
  ASSUME Inv, "claim" \notin Overlaps, ServerStep
  PROVE  Inv'
<1>1. \E a \in Server!Actors : Moves(a) /\ ServerInv'
  BY StartStepInv, TeardownStepInv, RequestStepInv, StartStepMoves, TeardownStepMoves,
     RequestStepMoves, ServerNames
     DEF ServerStep, OfServer, Inv, OnboardingInv
<1>2. Beside
  BY DEF ServerStep, OfServer, Beside
<1> QED
  BY <1>1, <1>2, BesideType, BesideSession, BesideInv DEF Inv

\* So does a stop() of the application.
LEMMA StopServerInv ==
  ASSUME Inv, "stop" \notin Overlaps, NEW t \in ServerStops, StopServer(t)
  PROVE  Inv'
<1>1. /\ Beside
      /\ serverPc[t] = "ready"
      /\ \A b \in Server!Actors \ {t} : serverPc[b] \in Server!SettledPC
      /\ Server!CloseHttp(t)
      /\ UNCHANGED <<wifi, ap, store, crashes>>
      /\ outstanding
  BY ServerNames DEF StopServer, OfServer, Beside, Server!Stop, Server!MayCall,
     Server!InFlight
<1>2. ServerInv'
  BY <1>1, CloseHttpInv DEF Inv, OnboardingInv
<1>3. Moves(t)
  BY <1>1, ServerNames DEF Moves, Server!CloseHttp, Server!StopAccessPoint, Server!TornDown,
     Inv, OnboardingInv, ServerInv, OneServerCall, ActorsInForm, UpTogether, Server!SettledPC,
     Server!StartPC, Server!TeardownPC
<1> QED
  BY <1>1, <1>2, <1>3, ServerNames, BesideType, BesideSession, BesideInv DEF Inv

\* And a startProvisioning().
LEMMA StartProvisioningInv ==
  ASSUME Inv, NEW s \in ServerStarts, StartProvisioning(s)
  PROVE  Inv'
<1> USE ServerNames
<1>1. /\ InFlight = {} /\ Stopping = {} /\ \A c \in Calls : link[c] \notin Live
      /\ \A b \in Server!Actors : serverPc[b] \in Server!SettledPC
  BY DEF StartProvisioning, CallUnderWay, Inv, OnboardingInv, ShownInStep, Server!InFlight
<1>2. /\ state' = "provisioning" /\ ~outstanding' /\ ~accessPointStarted' /\ server = NoServer
      /\ serverPc' = [serverPc EXCEPT ![s] = "loading"]
      /\ serverPc[s] = "ready"
      /\ UNCHANGED <<client, identity, hasConnectedOnce, commandSubscribed, commandHandlers,
                     manifest, maxEventBytes, pc, held, stopPc, stopClient, subTask, link,
                     subscribed, wire,
                     store, codeSpent, gwManifest, faults, crashes, server, wifi, listening,
                     ap, handed>>
  BY DEF StartProvisioning, callVars, mqttVars, worldVars
<1>3. TypeOK'
  BY <1>2 DEF Inv, TypeOK, ConnectionState
<1>4. SessionInv'
  BY <1>1, <1>2 DEF Inv, SessionInv, OneAtATime, CallOwnsClient, OpeningIsQuiet, StopEndsClient,
     HeldIsLive, SubTasksOnClient, ClosedIsDead, NoOrphan, ConnectedIsUp, FlagHonest,
     InFlight, Stopping, Outstanding, Answerable
<1>5. ServerInv'
  BY <1>1, <1>2 DEF Inv, OnboardingInv, ServerInv, OneServerCall, ActorsInForm, UpTogether,
     ClaimsWhenEmpty, Claiming, Server!HandedIsStored, Server!InFlight, Server!SettledPC,
     Server!StartPC, Server!TeardownPC
<1>6. HeldWhileServing' /\ SessionAlone' /\ NoClaimCode' /\ RestartSafe'
  BY <1>1, <1>2 DEF Inv, OnboardingInv, HeldWhileServing, SessionAlone, NoClaimCode,
     RestartSafe, InFlight, Stopping, Server!SettledPC
<1>7. ShownInStep'
  <2>1. server' = NoServer /\ ~accessPointStarted' /\ \A b \in Server!Actors' : serverPc'[b] \notin {"raising", "binding"}
    BY <1>1, <1>2 DEF Inv, OnboardingInv, ServerInv, OneServerCall, Server!SettledPC, Server!Actors
  <2> QED BY <1>1, <1>2, <2>1 DEF ShownInStep
<1> QED
  BY <1>3, <1>4, <1>5, <1>6, <1>7 DEF Inv, OnboardingInv
\* What a step of the session leaves alone, and what it may do beside the server.
SessionMoves ==
  /\ UNCHANGED <<serverOnlyVars, outstanding, store>>
  /\ InFlight' # {} \/ Stopping' # {} \/ (\E c \in Calls : link'[c] \in Live)
       => \/ InFlight # {} \/ Stopping # {} \/ \E c \in Calls : link[c] \in Live
          \/ ~outstanding /\ ~CallUnderWay
  /\ (\E c \in Calls : link'[c] \in Live) => ~SessionFree'
  /\ \A c \in Calls : link[c] # "none" => link'[c] # "none"
  /\ \/ InFlight # {}
     \/ ~outstanding /\ ~CallUnderWay
     \/ /\ \A c \in Calls : link[c] = "none" => link'[c] = "none"
        /\ state' = state \/ \E c \in Calls : link[c] # "none"
  /\ NoClaimCode'
  /\ RestartSafe'

\* A step of connect(), seen from the server.
LEMMA CallStepMoves ==
  ASSUME Inv, SessionInv', NEW c \in Calls, CallStep(c),
         UNCHANGED <<serverOnlyVars, outstanding>>
  PROVE  SessionMoves
<1> USE DEF SessionMoves, Inv, OnboardingInv, ShownInStep, NoClaimCode, RestartSafe, TypeOK,
         SessionFree, Settled, Provisioning, deviceVars, callVars, mqttVars, worldVars
<1>1. InFlight # {} /\ pc[c] \notin {"claiming", "saving"}
  BY DEF CallStep, LoadFound, LoadNothing, LoadFailed, ClaimAccepted, ClaimFailed, Saved,
     SaveFailed, Refused, Announce, AnnounceDone, InFlight
<1>2. CASE LoadFound(c)
  BY <1>1, <1>2 DEF LoadFound, Existing, OpenConnection
<1>3. CASE LoadNothing(c)
  BY <1>1, <1>3 DEF LoadNothing
<1>4. CASE LoadFailed(c)
  BY <1>1, <1>4 DEF LoadFailed
<1>5. CASE Refused(c)
  <2>1. \A i \in Calls : link'[i] \notin Live
    BY <1>5, CallsAssumption DEF Refused, SessionInv, NoOrphan
  <2>2. \A i \in Calls : link[i] # "none" <=> link'[i] # "none"
    BY <1>5 DEF Refused, EndedByCatch, Destroyed
  <2> QED BY <1>1, <1>5, <2>1, <2>2 DEF Refused
<1>6. CASE Announce(c)
  BY <1>1, <1>6 DEF Announce
<1>7. CASE AnnounceDone(c)
  BY <1>1, <1>7 DEF AnnounceDone
<1> QED
  BY <1>1, <1>2, <1>3, <1>4, <1>5, <1>6, <1>7
     DEF CallStep, ClaimAccepted, ClaimFailed, Saved, SaveFailed

\* A listener of the mqtt.js client, seen from there.
LEMMA ClientStepMoves ==
  ASSUME Inv, NEW c \in Calls, ClientStep(c), UNCHANGED <<serverOnlyVars, outstanding>>
  PROVE  SessionMoves
<1> USE DEF SessionMoves, Inv, OnboardingInv, ShownInStep, NoClaimCode, RestartSafe, TypeOK,
         SessionFree, Settled, InFlight, Stopping, Live, Leaving, LinkState,
         deviceVars, callVars, mqttVars, worldVars
<1>1. CASE OnConnect(c)
  BY <1>1 DEF OnConnect, StateAfterConnect, Accepted
<1>2. CASE OnError(c)
  BY <1>2 DEF OnError
<1>3. CASE OnClose(c) \/ Drop(c)
  BY <1>3 DEF OnClose, Drop, Closed, Flushed, AfterClose, StateAfterClose
<1>4. CASE OnReconnect(c)
  BY <1>4 DEF OnReconnect
<1>5. CASE DeliverManifest(c)
  BY <1>5 DEF DeliverManifest
<1> QED BY <1>1, <1>2, <1>3, <1>4, <1>5 DEF ClientStep

\* A call of connect() or disconnect(), made while the application holds no server.
LEMMA CallsMove ==
  ASSUME Inv, ~outstanding, ~CallUnderWay, UNCHANGED <<serverOnlyVars, outstanding>>,
         (\E c \in Calls : Connect(c)) \/ (\E d \in Stops : Disconnect(d))
  PROVE  SessionMoves
<1> USE DEF SessionMoves, Inv, OnboardingInv, ShownInStep, NoClaimCode, RestartSafe, TypeOK,
         SessionFree, deviceVars, callVars, mqttVars, worldVars
<1>1. CASE \E c \in Calls : Connect(c)
  BY <1>1 DEF Connect
<1>2. CASE \E d \in Stops : Disconnect(d)
  BY <1>2 DEF Disconnect, Ending, Live
<1> QED BY <1>1, <1>2

\* The end of disconnect(), seen from there.
LEMMA DisconnectedMoves ==
  ASSUME Inv, NEW d \in Stops, Disconnected(d), UNCHANGED <<serverOnlyVars, outstanding>>
  PROVE  SessionMoves
BY DEF Disconnected, SessionMoves, Inv, OnboardingInv, ShownInStep, NoClaimCode, RestartSafe,
   SessionFree, InFlight, Stopping, mqttVars, worldVars

\* A step of the session keeps the device, the server and the application in step.
LEMMA OfSessionInv ==
  ASSUME Inv, OfSession
  PROVE  Inv'
<1>1. TypeOK' /\ SessionInv'
  BY TypeStep, SessionStep DEF OfSession, Next, Application, Inv
<1>2. SessionMoves
  BY CallStepMoves, ClientStepMoves, CallsMove, DisconnectedMoves, <1>1 DEF OfSession, Inv
<1>3. ServerInv' /\ HeldWhileServing'
  BY <1>2 DEF SessionMoves, serverOnlyVars, Inv, OnboardingInv, ServerInv, OneServerCall,
     ActorsInForm, UpTogether, ClaimsWhenEmpty, HeldWhileServing, Server!HandedIsStored,
     Server!InFlight, Server!Actors
<1>4. SessionAlone'
  BY <1>2 DEF SessionMoves, serverOnlyVars, Inv, OnboardingInv, SessionAlone, CallUnderWay,
     Server!InFlight
<1>5. ShownInStep'
  <2> USE DEF Inv, OnboardingInv, SessionAlone, HeldWhileServing, ShownInStep, serverOnlyVars
  <2>1. outstanding \/ (\E s \in ServerStarts : serverPc[s] \notin Server!SettledPC)
          => InFlight = {} /\ (outstanding \/ CallUnderWay)
    BY DEF CallUnderWay, Server!InFlight
  <2>2. outstanding' \/ (\E s \in ServerStarts : serverPc'[s] \notin Server!SettledPC)
          => state' = "provisioning" \/ \E c \in Calls : link'[c] # "none"
    BY <1>2, <2>1 DEF SessionMoves
  <2>3. \/ server # NoServer
        \/ accessPointStarted
        \/ \E a \in Server!Actors : serverPc[a] \in {"raising", "binding"}
        => outstanding \/ (\E s \in ServerStarts : serverPc[s] \notin Server!SettledPC)
    BY ServerNames DEF Server!SettledPC, Server!TeardownPC, ServerInv, ActorsInForm, UpTogether
  <2>4. \/ server' # NoServer
        \/ accessPointStarted'
        \/ \E a \in Server!Actors : serverPc'[a] \in {"raising", "binding"}
        => \A c \in Calls : link'[c] = "none"
    BY <1>2, <2>1, <2>3 DEF SessionMoves
  <2> QED BY <1>2, <2>2, <2>4 DEF SessionMoves, Server!Actors, Server!SettledPC
<1> QED
  BY <1>1, <1>2, <1>3, <1>4, <1>5 DEF SessionMoves, Inv, OnboardingInv
\* And a restart of the process that runs both.
LEMMA RestartInv ==
  ASSUME Inv, Restart
  PROVE  Inv'
<1> USE ServerNames DEF Inv, Restart
<1>1. /\ server' = NoServer /\ listening' = {} /\ ~accessPointStarted' /\ ~outstanding'
      /\ serverPc' = [a \in Server!Actors |->
                        IF a \in Server!InFlight(Server!Actors) THEN "lost" ELSE serverPc[a]]
      /\ store' \in {store} \cup {r \in Requests : serverPc[r] = "saving"}
      /\ UNCHANGED <<wifi, ap, handed>>
      /\ crashes < MaxCrashes /\ crashes' = crashes + 1
  BY DEF Server!Crash
<1>2. \A a \in Server!Actors : serverPc'[a] \in Server!SettledPC
  BY <1>1 DEF Server!InFlight, Server!SettledPC
<1>3. TypeOK'
  <2>1. /\ manifest' \in 1..MaxManifest
        /\ wire' \in [Calls -> 0..MaxManifest]
        /\ crashes' \in 0..MaxCrashes
        /\ store' \in Credentials \cup {NoCredential}
    BY <1>1, BoundsAssumption DEF Restarted, TypeOK
  <2>2. pc' \in [Calls -> CallState] /\ link' \in [Calls -> LinkState]
    BY DEF Restarted, TypeOK, CallState, Settled, Provisioning, Jobs, LinkState, Live, Leaving
  <2>3. /\ held' \in [Calls -> Credentials \cup {NoCredential}]
        /\ stopPc' \in [Stops -> {"ready", "ending", "done", "lost"}]
        /\ stopClient' \in [Stops -> Calls \cup {NoClient}]
        /\ subTask' \in [SubTasks -> Calls \cup {NoClient}]
        /\ state' \in ConnectionState
    BY DEF Restarted, TypeOK, ConnectionState
  <2>4. /\ client' = NoClient /\ identity' = NoCredential /\ commandHandlers' = {}
        /\ maxEventBytes' = "null"
        /\ hasConnectedOnce' = FALSE /\ commandSubscribed' = FALSE
        /\ UNCHANGED <<subscribed, gwManifest, faults, codeSpent>>
    BY DEF Restarted
  <2> QED BY <2>1, <2>2, <2>3, <2>4 DEF TypeOK
<1>4. /\ \A c \in Calls : link'[c] \notin Live /\ (link'[c] = "none" <=> link[c] = "none")
      /\ \A c \in Calls : pc'[c] \in Settled
      /\ \A d \in Stops : stopPc'[d] # "ending"
      /\ client' = NoClient /\ identity' = NoCredential /\ state' = "idle" /\ ~commandSubscribed'
      /\ \A x \in SubTasks : subTask'[x] = NoClient
  BY DEF Restarted, InFlight, Live, Settled, TypeOK
<1>5. SessionInv'
  BY <1>4 DEF SessionInv, OneAtATime, CallOwnsClient, OpeningIsQuiet, StopEndsClient, HeldIsLive,
     SubTasksOnClient, ClosedIsDead, NoOrphan, ConnectedIsUp, FlagHonest, InFlight, Stopping,
     Settled, SubTasks, Outstanding, Answerable
<1>6. ServerInv'
  <2>1. OneServerCall' /\ ActorsInForm'
    BY <1>1, <1>2 DEF OneServerCall, ActorsInForm, OnboardingInv, ServerInv, Server!InFlight,
       Server!SettledPC, Server!StartPC, Server!TeardownPC, Claiming, Server!Actors
  <2>2. UpTogether'
    BY <1>1, <1>2 DEF UpTogether, Server!SettledPC, Server!StartPC, Server!TeardownPC,
       Server!Actors
  <2>3. handed' \subseteq Requests /\ Server!HandedIsStored'
    BY <1>1 DEF OnboardingInv, ServerInv, OneServerCall, ClaimsWhenEmpty, Claiming,
       Server!HandedIsStored
  <2>4. ClaimsWhenEmpty'
    BY <1>1, <1>2, <2>3 DEF ClaimsWhenEmpty, Server!SettledPC, Server!TeardownPC, Claiming,
       Server!Actors
  <2> QED BY <2>1, <2>2, <2>4 DEF ServerInv
<1>7. HeldWhileServing' /\ SessionAlone' /\ ShownInStep'
  BY <1>1, <1>2, <1>4 DEF HeldWhileServing, SessionAlone, ShownInStep, InFlight, Stopping,
     Server!SettledPC, Server!Actors
<1>8. NoClaimCode' /\ RestartSafe'
  BY <1>1, <1>4 DEF NoClaimCode, RestartSafe, Settled, OnboardingInv
<1> QED BY <1>3, <1>5, <1>6, <1>7, <1>8 DEF OnboardingInv

\* A new Device has no server.
LEMMA OnboardingInvInit == OnboardingInit => Inv
<1> SUFFICES ASSUME OnboardingInit PROVE Inv
  OBVIOUS
<1>1. TypeOK /\ SessionInv
  BY InitType, SessionInit DEF OnboardingInit
<1>2. ServerInv
  BY ServerNames DEF OnboardingInit, Server!Init, ServerInv, OneServerCall, ActorsInForm,
     UpTogether, ClaimsWhenEmpty, Claiming, Server!HandedIsStored, Server!InFlight,
     Server!SettledPC, Server!StartPC, Server!TeardownPC
<1>3. HeldWhileServing /\ SessionAlone /\ ShownInStep /\ NoClaimCode /\ RestartSafe
  BY ServerNames DEF OnboardingInit, Init, Server!Init, HeldWhileServing, SessionAlone,
     ShownInStep, NoClaimCode, RestartSafe, InFlight, Stopping, Settled, Live, Server!SettledPC
<1> QED BY <1>1, <1>2, <1>3 DEF Inv, OnboardingInv

\* Every step preserves the invariant of the composition.
LEMMA OnboardingStep ==
  ASSUME Overlaps = {}, Inv, [OnboardingNext]_onboardingVars
  PROVE  Inv'
<1>1. CASE UNCHANGED onboardingVars
  <2>1. TypeOK' /\ SessionInv'
    BY <1>1, TypeStep, SessionStep DEF onboardingVars, Inv
  <2>2. OnboardingInv'
    BY <1>1 DEF onboardingVars, vars, deviceVars, callVars, mqttVars, worldVars, serverOnlyVars,
       Inv, OnboardingInv, ServerInv, OneServerCall, ActorsInForm, UpTogether, ClaimsWhenEmpty,
       HeldWhileServing, SessionAlone, ShownInStep, SessionFree, NoClaimCode, RestartSafe,
       Server!HandedIsStored, Server!InFlight, Server!Actors, InFlight, Stopping
  <2> QED BY <2>1, <2>2 DEF Inv
<1> QED
  BY <1>1, StartProvisioningInv, StopServerInv, ServerStepInv, OfSessionInv, RestartInv
     DEF OnboardingNext

\* The invariants hold as long as nothing overlaps a claim.
LEMMA OnboardingInvariant == Overlaps = {} => (OnboardingSpec => []Inv)
<1> SUFFICES ASSUME Overlaps = {} PROVE OnboardingSpec => []Inv
  OBVIOUS
<1>1. Inv /\ [OnboardingNext]_onboardingVars => Inv'
  BY OnboardingStep
<1> QED BY <1>1, OnboardingInvInit, PTL DEF OnboardingSpec

\* The claim endpoint and its access point are never up beside a client that is connected,
\* or that may connect.
THEOREM EndpointNeverBesideSession ==
  Overlaps = {} => (OnboardingSpec => []NeverBesideSession)
<1>1. Inv => NeverBesideSession
  BY DEF Inv, OnboardingInv, ServerInv, UpTogether, ShownInStep, NeverBesideSession,
     MayBeConnected, Live
<1> QED BY <1>1, OnboardingInvariant, PTL

\* A Device whose server accepts claims says so.
THEOREM ServingIsShown == Overlaps = {} => (OnboardingSpec => []ProvisioningShown)
<1>1. Inv => ProvisioningShown
  BY DEF Inv, OnboardingInv, ServerInv, UpTogether, ShownInStep, ProvisioningShown
<1> QED BY <1>1, OnboardingInvariant, PTL

\* The credential in memory, claimed by the server or loaded by connect(), is the one a
\* restarted process would load.
THEOREM OnboardedIsRestartSafe == Overlaps = {} => (OnboardingSpec => []OnboardedRestartSafe)
<1>1. Inv => OnboardedRestartSafe
  BY DEF Inv, OnboardingInv, ServerInv, ClaimsWhenEmpty, OnboardedRestartSafe
<1> QED BY <1>1, OnboardingInvariant, PTL

\* The home network is joined, and the claim made from it, only with the setup network down.
THEOREM JoinedOffSetup == Overlaps = {} => (OnboardingSpec => []JoinsOffSetupNetwork)
<1>1. Inv => JoinsOffSetupNetwork
  BY ServerNames DEF Inv, OnboardingInv, ServerInv, ActorsInForm, UpTogether,
     JoinsOffSetupNetwork, Server!JoinsOffSetupNetwork
<1> QED BY <1>1, OnboardingInvariant, PTL

-----------------------------------------------------------------------------
(***************************************************************************)
(* The state of the server, its listener and the access point, when        *)
(* nothing overlaps a claim and the access point is lowered when asked.    *)
(***************************************************************************)
APLowers == Overlaps = {} /\ "apStop" \notin Failing

\* Closing the listener leaves the state to the stop, or to the answered claim, that did.
LEMMA CloseHttpServing ==
  ASSUME ServerInv, ServingInStep, NEW a \in ServerStops \cup Requests,
         a \in Requests => serverPc[a] \in {"replying", "accepted"},
         \A b \in Server!Actors \ {a} : serverPc[b] \in Server!SettledPC,
         a \in ServerStops => serverPc[a] = "ready",
         Server!CloseHttp(a), UNCHANGED <<wifi, ap, crashes>>
  PROVE  ServingInStep'
<1> USE ServerNames DEF ServingInStep, Server!SettledPC
<1>1. CASE server # NoServer
  <2>1. /\ server' = NoServer /\ serverPc' = [serverPc EXCEPT ![a] = "closing"]
        /\ UNCHANGED <<accessPointStarted, serverState>>
    BY <1>1 DEF Server!CloseHttp
  <2> QED BY <2>1 DEF ServerInv, OneServerCall
<1>2. CASE server = NoServer
  <2>1. a \in ServerStops /\ ~accessPointStarted /\ serverState # "serving"
    BY <1>2 DEF ServerInv, OneServerCall, ActorsInForm, UpTogether
  <2>2. /\ serverPc' = [serverPc EXCEPT ![a] = "done"]
        /\ UNCHANGED <<server, accessPointStarted, serverState>>
    BY <1>2, <2>1 DEF Server!CloseHttp, Server!StopAccessPoint, Server!TornDown,
       Server!StateAfterStop, ServerInv, ActorsInForm
  <2> QED BY <2>1, <2>2 DEF ServerInv, OneServerCall
<1> QED BY <1>1, <1>2

\* The steps of start() raise and undo the access point with what the server records.
LEMMA StartStepServing ==
  ASSUME APLowers, ServerInv, ServingInStep, NEW s \in ServerStarts \cup Requests,
         Server!StartStep(s)
  PROVE  ServingInStep'
<1> USE ServerNames DEF APLowers, ServingInStep, ServerInv, OneServerCall, ActorsInForm,
          UpTogether, Server!InFlight, Server!SettledPC, Server!StartPC, Server!TeardownPC,
          Server!MayFail, Server!serverVars, Server!worldVars
<1>1. CASE Server!StoreLoaded(s)
  BY <1>1 DEF Server!StoreLoaded, Server!Existing
<1>2. CASE Server!Raised(s)
  BY <1>2 DEF Server!Raised
<1>3. CASE Server!Bound(s)
  BY <1>3 DEF Server!Bound
<1>4. CASE Server!BindFailed(s)
  BY <1>4 DEF Server!BindFailed, Server!UndoAccessPoint
<1>5. CASE Server!Undone(s)
  BY <1>5 DEF Server!Undone
<1> QED BY <1>1, <1>2, <1>3, <1>4, <1>5 DEF Server!StartStep

\* A teardown ends with the access point down and the state behind it.
LEMMA TeardownStepServing ==
  ASSUME APLowers, ServerInv, ServingInStep, NEW a \in ServerStops \cup Requests,
         Server!TeardownStep(a)
  PROVE  ServingInStep'
<1> USE ServerNames DEF APLowers, ServingInStep, ServerInv, OneServerCall, ActorsInForm,
          UpTogether, Server!InFlight, Server!SettledPC, Server!StartPC, Server!TeardownPC,
          Server!MayFail, Server!serverVars, Server!worldVars
<1>1. CASE Server!HttpClosed(a)
  BY <1>1 DEF Server!HttpClosed, Server!StopAccessPoint, Server!TornDown, Server!StateAfterStop
<1>2. CASE Server!Lowered(a)
  BY <1>2 DEF Server!Lowered, Server!TornDown, Server!StateAfterStop
<1>3. CASE Server!LoweringFailed(a)
  BY <1>3 DEF Server!LoweringFailed
<1> QED BY <1>1, <1>2, <1>3 DEF Server!TeardownStep

\* A claim changes the state only as it is answered, and its reply begins the teardown.
LEMMA RequestStepServing ==
  ASSUME APLowers, ServerInv, ServingInStep, NEW r \in Requests,
         Server!Claim(r) \/ Server!RequestStep(r) \/ Server!HangUp(r)
  PROVE  ServingInStep'
<1> USE ServerNames DEF APLowers, ServingInStep, ServerInv, OneServerCall, ActorsInForm,
          UpTogether, Server!InFlight, Server!SettledPC, Server!StartPC, Server!TeardownPC,
          Server!serverVars, Server!worldVars
<1>1. CASE Server!Claim(r)
  BY <1>1 DEF Server!Claim, Server!MayCall, Server!Replied, Server!ClaimsClosed
<1>2. CASE Server!HangUp(r)
  BY <1>2 DEF Server!HangUp
<1>3. CASE Server!PlainClaimRead(r) \/ Server!WifiClaimRead(r) \/ Server!BadClaimRead(r)
  BY <1>3 DEF Server!PlainClaimRead, Server!WifiClaimRead, Server!BadClaimRead, Server!Replied
<1>4. CASE Server!Exchanged(r) \/ Server!ExchangeFailed(r)
  BY <1>4 DEF Server!Exchanged, Server!ExchangeFailed, Server!StepFailed, Server!Replied
<1>5. CASE Server!Saved(r)
  BY <1>5 DEF Server!Saved
<1>6. CASE Server!SaveFailed(r)
  BY <1>6 DEF Server!SaveFailed, Server!StepFailed, Server!Replied
<1>7. CASE Server!Flushed(r)
  <2>1. /\ serverPc[r] \in {"replying", "accepted"}
        /\ Server!CloseHttp(r)
        /\ UNCHANGED <<wifi, ap, crashes>>
        /\ r \notin ServerStops
    BY <1>7 DEF Server!Flushed
  <2>2. \A b \in Server!Actors \ {r} : serverPc[b] \in Server!SettledPC
    BY <2>1
  <2> QED BY <2>1, <2>2, CloseHttpServing
<1>8. CASE Server!Joined(r)
  BY <1>8 DEF Server!Joined
<1>9. CASE Server!JoinFailed(r)
  BY <1>9 DEF Server!JoinFailed
<1>10. CASE Server!Forgotten(r)
  <2>1. /\ serverPc[r] = "forgetting"
        /\ serverPc' = [serverPc EXCEPT ![r] = "loading"]
        /\ serverState' = "idle"
        /\ UNCHANGED <<server, accessPointStarted, ap, crashes>>
    BY <1>10 DEF Server!Forgotten
  <2>2. server = NoServer
    BY <2>1
  <2> QED BY <2>1, <2>2
<1>11. CASE Server!HandedOff(r)
  BY <1>11 DEF Server!HandedOff
<1> QED
  BY <1>1, <1>2, <1>3, <1>4, <1>5, <1>6, <1>7, <1>8, <1>9, <1>10, <1>11
  DEF Server!RequestStep, Server!Handling, Server!Read

\* A session, a new server and a restart leave the access point to the host.
LEMMA RestServing ==
  ASSUME Inv, ServingInStep,
         \/ \E s \in ServerStarts : StartProvisioning(s)
         \/ OfSession
         \/ Restart
         \/ UNCHANGED onboardingVars
  PROVE  ServingInStep'
<1> USE ServerNames
<1>1. ASSUME NEW s \in ServerStarts, StartProvisioning(s) PROVE ServingInStep'
  <2>1. \A b \in Server!Actors : serverPc[b] \in Server!SettledPC
    BY <1>1 DEF StartProvisioning, CallUnderWay, Server!InFlight
  <2>2. /\ server = NoServer /\ server' = NoServer
        /\ serverPc' = [serverPc EXCEPT ![s] = "loading"]
        /\ serverState' = "idle"
        /\ ~accessPointStarted'
        /\ UNCHANGED <<ap, crashes>>
    BY <1>1 DEF StartProvisioning, worldVars
  <2>3. ~accessPointStarted
    BY <2>1, <2>2 DEF Inv, OnboardingInv, ServerInv, UpTogether, Server!SettledPC
  <2> QED
    BY <2>1, <2>2, <2>3 DEF Inv, OnboardingInv, ServerInv, OneServerCall, ServingInStep,
       Server!SettledPC
<1>2. CASE OfSession
  <2>1. UNCHANGED serverOnlyVars
    BY <1>2 DEF OfSession
  <2>2. crashes' = crashes
    BY <1>2 DEF OfSession, Connect, Disconnect, Disconnected, CallStep, LoadFound, LoadNothing,
       LoadFailed, ClaimAccepted, ClaimFailed, Saved, SaveFailed, Refused, Announce, AnnounceDone,
       OpenConnection, ClientStep, OnConnect, OnError, OnClose, Drop, Closed,
       OnReconnect, DeliverManifest, worldVars
  <2> QED BY <2>1, <2>2 DEF serverOnlyVars, ServingInStep, Server!Actors
<1>3. CASE Restart
  <2>1. /\ server' = NoServer /\ ~accessPointStarted' /\ serverState' = "idle"
        /\ crashes' = crashes + 1
        /\ serverPc' = [a \in Server!Actors |->
                          IF a \in Server!InFlight(Server!Actors) THEN "lost" ELSE serverPc[a]]
    BY <1>3 DEF Restart, Server!Crash
  <2>2. crashes' # 0
    BY <2>1, BoundsAssumption DEF Inv, TypeOK
  <2> QED BY <2>1, <2>2 DEF ServingInStep
<1>4. CASE UNCHANGED onboardingVars
  BY <1>4 DEF onboardingVars, vars, worldVars, serverOnlyVars, ServingInStep, Server!Actors
<1> QED BY <1>1, <1>2, <1>3, <1>4

\* Every step keeps the state, the listener and the access point in step.
LEMMA ServingStep ==
  ASSUME APLowers, Inv, ServingInStep, [OnboardingNext]_onboardingVars
  PROVE  ServingInStep'
<1>1. CASE ServerStep
  BY <1>1, ServerNames, StartStepServing, TeardownStepServing, RequestStepServing
     DEF ServerStep, OfServer, Inv, OnboardingInv
<1>2. ASSUME NEW t \in ServerStops, StopServer(t) PROVE ServingInStep'
  <2>1. /\ serverPc[t] = "ready"
        /\ \A b \in Server!Actors \ {t} : serverPc[b] \in Server!SettledPC
        /\ Server!CloseHttp(t)
        /\ UNCHANGED <<wifi, ap, crashes>>
        /\ t \notin Requests
    BY <1>2, ServerNames DEF StopServer, OfServer, Server!Stop, Server!MayCall,
       Server!InFlight, APLowers
  <2> QED BY <2>1, CloseHttpServing DEF Inv, OnboardingInv
<1> QED BY <1>1, <1>2, RestServing DEF OnboardingNext

\* The types, the session, the server and what it shows, together.
LEMMA ServingInvariant == APLowers => (OnboardingSpec => [](Inv /\ ServingInStep))
<1> SUFFICES ASSUME APLowers PROVE OnboardingSpec => [](Inv /\ ServingInStep)
  OBVIOUS
<1>1. OnboardingInit => ServingInStep
  BY ServerNames DEF OnboardingInit, Server!Init, ServingInStep
<1>2. Inv /\ ServingInStep /\ [OnboardingNext]_onboardingVars => ServingInStep'
  BY ServingStep
<1>3. OnboardingSpec => []Inv
  BY OnboardingInvariant DEF APLowers
<1> QED BY <1>1, <1>2, <1>3, PTL DEF OnboardingSpec

\* When the access point is lowered as asked and nothing overlaps a claim, a server that
\* says "serving" serves, on an access point that is up, and any other has nothing left
\* listening, however many servers came before it.
THEOREM ServingMeansServing == APLowers => (OnboardingSpec => []ServingIsReal)
<1>1. Inv /\ ServingInStep => ServingIsReal
  BY ServerNames DEF Inv, OnboardingInv, ServerInv, OneServerCall, UpTogether, ServingInStep,
     ServingIsReal, Server!ServingIsReal, Server!InFlight, Server!SettledPC
<1> QED BY <1>1, ServingInvariant, PTL

\* Likewise the access point is up, between calls, exactly while a listener accepts claims,
\* in a process that was not restarted.
THEOREM ApLivesWithEndpoint == APLowers => (OnboardingSpec => []ApMatchesEndpoint)
<1>1. Inv /\ ServingInStep => ApMatchesEndpoint
  BY ServerNames DEF Inv, OnboardingInv, ServerInv, OneServerCall, UpTogether, ServingInStep,
     ApMatchesEndpoint, Server!ApMatchesEndpoint, Server!InFlight, Server!SettledPC
<1> QED BY <1>1, ServingInvariant, PTL
=============================================================================
