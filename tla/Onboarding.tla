----------------------------- MODULE Onboarding -----------------------------
(***************************************************************************)
(* Device.startProvisioning() of src/src/device.ts: a Device that has no   *)
(* claim code and the ProvisioningServer it starts, sharing the credential *)
(* store, the `state` the Device shows and the credential in its memory.   *)
(*                                                                         *)
(* The application awaits its own life-cycle calls, and calls connect() or *)
(* disconnect() only when it holds no server that it started, has not      *)
(* stopped, and that has not called onProvisioned.  It may call stop()     *)
(* during a claim.  The session is that of Device, the server that of      *)
(* ProvisioningServer; a credential bears the name of the request that     *)
(* claimed it.                                                             *)
(***************************************************************************)
EXTENDS Device

CONSTANTS ServerStarts,  \* the invocations of startProvisioning()
          ServerStops,   \* the invocations of stop() on the server it returned
          Requests,      \* the POSTs to the claim endpoint
          Codes, Code,   \* claim codes, and the one each request carries
          NoServer,      \* no server; no listener
          Overlaps,      \* the operations on the server that may come during a claim
          Failing        \* the steps of the server that may fail

VARIABLES
  serverState, server, accessPointStarted, serverPc, closing, wifi, conn, listening, ap,
  profile, spent, handed,
  outstanding  \* the application holds a started server, neither stopped nor handed over

Server == INSTANCE ProvisioningServer WITH
  Starts <- ServerStarts, Stops <- ServerStops, pc <- serverPc

serverOnlyVars == <<serverState, server, accessPointStarted, serverPc, closing, wifi, conn,
                    listening, ap, profile, spent, handed>>
onboardingVars == <<vars, serverOnlyVars, outstanding>>

ASSUME OnboardingAssumption == /\ ~HasClaimCode
                               /\ Sequential
                               /\ Credentials = Requests
ASSUME ServerCallsAssumption == /\ NoServer \notin ServerStarts \cup Requests
                                /\ ServerStarts \cap ServerStops = {}
                                /\ ServerStarts \cap Requests = {}
                                /\ ServerStops \cap Requests = {}

OnboardingInit ==
  /\ Init
  /\ Server!Init
  /\ outstanding = FALSE

-----------------------------------------------------------------------------
\* A life-cycle call of the application on the Device or on its server is under way.
CallUnderWay == \/ InFlight # {} \/ Stopping # {}
                \/ Server!InFlight(ServerStarts \cup ServerStops) # {}

SessionFree == state \in {"idle", "provisioning"}

\* startProvisioning() up to the first await of start(), on a new ProvisioningServer; an
\* earlier one is at rest.
StartProvisioning(s) ==
  /\ serverPc[s] = "ready"
  /\ ~CallUnderWay
  /\ Server!InFlight(Requests) = {}
  /\ server = NoServer
  /\ SessionFree
  /\ state' = "provisioning"
  /\ serverState' = "idle"
  /\ accessPointStarted' = FALSE
  /\ serverPc' = [serverPc EXCEPT ![s] = "loading"]
  /\ outstanding' = FALSE
  /\ UNCHANGED <<client, identity, hasConnectedOnce, commandSubscribed, commandHandlers,
                 manifest, maxEventBytes, callVars, mqttVars, worldVars, server, closing, wifi, conn,
                 listening, ap, profile, spent, handed>>

StartRejected == \E s \in ServerStarts : serverPc[s] # "failed" /\ serverPc'[s] = "failed"
StartResolved == \E s \in ServerStarts : serverPc[s] # "done" /\ serverPc'[s] = "done"
StopResolved == \E t \in ServerStops : serverPc[t] # "done" /\ serverPc'[t] = "done"

\* The catch around start().
ShownInFinally == IF StartRejected \/ StartResolved THEN "idle" ELSE state
ShownAfter == IF StartRejected THEN "idle" ELSE state

\* The onProvisioned that startProvisioning() passes to the server.
HandOver ==
  IF handed' = handed THEN UNCHANGED identity
                      ELSE \E r \in handed' \ handed : identity' = r

\* A step of the server, and what it means for the Device and the application.
OfServer(step) ==
  /\ Quiet
  /\ step
  /\ state' = ShownAfter
  /\ HandOver
  /\ outstanding' = \/ StartResolved
                    \/ outstanding /\ ~StopResolved /\ handed' = handed
  /\ UNCHANGED <<client, hasConnectedOnce, commandSubscribed, commandHandlers, manifest,
                 maxEventBytes, callVars, mqttVars, codeSpent, gwManifest, faults>>

StopServer(t) ==
  /\ outstanding
  /\ ~CallUnderWay
  /\ OfServer(Server!Stop(t) /\ UNCHANGED <<store, crashes>>)

ServerStep ==
  OfServer(\/ \E r \in Requests : \/ Server!Claim(r)
                                  \/ Server!RequestStep(r)
                                  \/ Server!HangUp(r)
           \/ \E s \in ServerStarts \cup Requests : Server!StartStep(s)
           \/ \E a \in ServerStops \cup Requests : Server!TeardownStep(a))

OfSession ==
  /\ \/ /\ ~outstanding
        /\ ~CallUnderWay
        /\ \E c \in Calls : Connect(c)
     \/ /\ ~outstanding
        /\ ~CallUnderWay
        /\ \E d \in Stops : Disconnect(d)
     \/ \E c \in Calls : CallStep(c) \/ ClientStep(c)
     \/ \E d \in Stops : Disconnected(d)
  /\ UNCHANGED <<serverOnlyVars, outstanding>>

\* One process runs the session and the server.
Restart ==
  /\ Restarted
  /\ Server!Crash
  /\ outstanding' = FALSE
  /\ UNCHANGED codeSpent

OnboardingNext ==
  \/ \E s \in ServerStarts : StartProvisioning(s)
  \/ \E t \in ServerStops : StopServer(t)
  \/ ServerStep
  \/ OfSession
  \/ Restart

OnboardingSpec == OnboardingInit /\ [][OnboardingNext]_onboardingVars

-----------------------------------------------------------------------------
\* "Only available before a gateway session exists, never alongside one": while a client
\* is connected, or may connect, one that disconnect() ended while it opened included, no
\* listener accepts claims and the access point is not one this process holds up.
MayBeConnected == Live \cup {"draining", "overtaken", "stray"}

NeverBesideSession ==
  (\E c \in Calls : link[c] \in MayBeConnected) => listening = {} /\ ~accessPointStarted

\* A started server is in order: between its life-cycle calls, and with no claim under way or
\* abandoned, "serving" means that its listener accepts claims on an access point that is up, and any
\* other state that nothing is left listening, however many servers came before it.
ServingIsReal == Server!ServingIsReal

\* "The AP's lifetime always matches the claim endpoint's" (AccessPointController): once
\* everything has settled, in a process that was not restarted, the access point is up
\* exactly while a listener accepts claims.
ApMatchesEndpoint == Server!ApMatchesEndpoint

\* The device joins the home network, claims from it, and stores and hands over what it
\* claimed, only off its setup network.
JoinsOffSetupNetwork == Server!JoinsOffSetupNetwork

\* "While the server is serving, the device's state is `provisioning`": from the moment
\* startProvisioning() resolves until stop() or onProvisioned, whatever failed start, failed
\* onboarding or restarted server comes before or in between.
ProvisioningShown == outstanding /\ listening # {} => state = "provisioning"

\* The credential in memory, taken from the server or from the store, is the one that a
\* restarted process would load.
OnboardedRestartSafe == RestartSafe /\ Server!HandedIsStored

-----------------------------------------------------------------------------
(***************************************************************************)
(* The inductive form of NeverBesideSession, ProvisioningShown,            *)
(* OnboardedRestartSafe and JoinsOffSetupNetwork, when nothing overlaps a  *)
(* claim: one call or claim at a time keeps the server's fields, the       *)
(* store and what the application holds in step.                           *)
(***************************************************************************)
Claiming == {"reading", "accepted", "joining", "exchanging", "saving", "forgetting"}

OneServerCall ==
  /\ DOMAIN serverPc = Server!Actors
  /\ \A a, b \in Server!InFlight(Server!Actors) : a = b

ActorsInForm ==
  /\ wifi \subseteq Requests
  /\ \A a \in Server!Actors :
       /\ serverPc[a] \in {"ready", "reading", "replying"} => a \notin wifi
       /\ serverPc[a] \in {"accepted", "joining", "forgetting"} => a \in wifi
       /\ serverPc[a] \in Server!StartPC => a \notin ServerStops
       /\ serverPc[a] \in Server!TeardownPC => a \notin ServerStarts
       /\ serverPc[a] \in Claiming \cup {"replying", "handing"} => a \in Requests

\* The listener, the flag of the access point and the access point go up and down together.
UpTogether ==
  /\ server \in ServerStarts \cup Requests \cup {NoServer}
  /\ listening = IF server = NoServer THEN {} ELSE {server}
  /\ server # NoServer => accessPointStarted
  /\ accessPointStarted => \/ server # NoServer
                           \/ \E a \in Server!Actors : serverPc[a] \in {"binding", "closing"}
  /\ \A a \in Server!Actors :
       /\ serverPc[a] \in {"binding", "closing"} => accessPointStarted
       /\ serverPc[a] \in Server!StartPC \cup Server!TeardownPC
                            \cup {"joining", "forgetting", "handing"} => server = NoServer
       /\ a \in wifi /\ serverPc[a] \in {"joining", "exchanging", "saving", "handing"}
            => server = NoServer /\ ~ap
       /\ serverPc[a] \in {"reading", "accepted", "replying"} => server # NoServer
       /\ a \notin wifi /\ serverPc[a] \in {"exchanging", "saving"} => server # NoServer

\* A claim is served, and made, only while nothing is stored; a listener that outlives the
\* save refuses every other.
ClaimsWhenEmpty ==
  /\ \A a \in Server!Actors :
       /\ serverPc[a] \in {"raising", "binding"} \cup Claiming => store = NoCredential
       /\ a \in wifi /\ serverPc[a] \in Server!TeardownPC => store = NoCredential
       /\ a \in Requests \ wifi /\ serverPc[a] \in {"replying"} \cup Server!TeardownPC
            => store = a
  /\ server # NoServer => store = NoCredential \/ serverState = "provisioned"
  /\ handed \subseteq Requests /\ Server!HandedIsStored

\* The application that holds no server has none that serves, or that makes a claim.
HeldWhileServing ==
  /\ ~outstanding => /\ server = NoServer
                     /\ \A a \in ServerStops \cup Requests :
                          serverPc[a] \in Server!SettledPC \cup {"handing"}
  /\ outstanding => \A s \in ServerStarts : serverPc[s] \in Server!SettledPC

\* A call of the session is under way, or a client is live, only beside no server.
SessionAlone ==
  InFlight # {} \/ Stopping # {} \/ (\E c \in Calls : link[c] \in Live)
    => ~outstanding /\ \A s \in ServerStarts : serverPc[s] \in Server!SettledPC

\* A session is never shown as free; and a server that serves, or will, is shown as long as
\* no session was opened before it.
ShownInStep ==
  /\ (\E c \in Calls : link[c] \in Live) => ~SessionFree
  /\ outstanding \/ (\E s \in ServerStarts : serverPc[s] \notin Server!SettledPC)
       => state = "provisioning" \/ \E c \in Calls : link[c] # "none"
  /\ \/ server # NoServer
     \/ accessPointStarted
     \/ \E a \in Server!Actors : serverPc[a] \in {"raising", "binding"}
     => \A c \in Calls : link[c] = "none"

NoClaimCode == \A c \in Calls : pc[c] \notin {"claiming", "saving"}

ServerInv == OneServerCall /\ ActorsInForm /\ UpTogether /\ ClaimsWhenEmpty

OnboardingInv ==
  /\ ServerInv
  /\ HeldWhileServing
  /\ SessionAlone
  /\ ShownInStep
  /\ NoClaimCode
  /\ RestartSafe

\* Beside OnboardingInv, for ServingIsReal and ApMatchesEndpoint, when lowering the access
\* point does not fail: it is up if this process says so, and otherwise about to be lowered
\* or left by an earlier process; and the state of the server trails its listener only
\* while a stop, or a claim that was answered, tears down.
ServingInStep ==
  /\ accessPointStarted => ap
  /\ ap => \/ accessPointStarted
           \/ crashes # 0
           \/ \E a \in Server!Actors : serverPc[a] \in {"lowering", "undoing"}
  /\ serverState = "serving" /\ server = NoServer =>
       \E t \in ServerStops : serverPc[t] \in {"closing", "lowering"}
  /\ server # NoServer =>
       \/ serverState = "serving"
       \/ \E r \in Requests : serverPc[r] \in {"replying", "accepted", "abandoned"}
  /\ \A r \in Requests : serverPc[r] \in {"replying", "accepted"} => serverState # "serving"
=============================================================================
