------------------------- MODULE ProvisioningServer -------------------------
(***************************************************************************)
(* The soft-AP provisioning server of src/src/provision-server.ts: start() *)
(* and stop(), the claim endpoint, the plain claim over the setup network  *)
(* and the onboarding that drops the access point, joins the home network  *)
(* and claims from there.                                                  *)
(*                                                                         *)
(* An actor is a call of start() or stop(), or the handler of one claim    *)
(* request with everything it awaits.  pc[a] is the await it is suspended  *)
(* at; an action is the code that runs between two of them.  The access    *)
(* point and the home network controllers are given, as is the option of   *)
(* answering 501 not taken.  A listener bears the name of the start that   *)
(* created it, a credential the name of the request that claimed it.       *)
(***************************************************************************)
EXTENDS Naturals, FiniteSets

CONSTANTS Starts,        \* the invocations of start() by the application
          Stops,         \* the invocations of stop()
          Requests,      \* the POSTs to the claim endpoint
          Codes,         \* claim codes
          Code,          \* the code each request carries
          NoServer,      \* this.server is null; no listener
          NoCredential,  \* the store holds nothing
          Overlaps,      \* the operations that may come while another is under way
          Failing,       \* the steps that may fail
          MaxCrashes     \* bound: restarts of the process

Steps == {"load", "apStart", "apStop", "listen", "claim", "save", "join", "forget", "hangup"}

Actors    == Starts \cup Stops \cup Requests
Listeners == Starts \cup Requests

ASSUME ActorsAssumption == /\ Starts \cap Stops = {}
                           /\ Starts \cap Requests = {}
                           /\ Stops \cap Requests = {}
ASSUME NamesAssumption == NoServer \notin Listeners /\ NoCredential \notin Requests
ASSUME CodeAssumption == Code \in [Requests -> Codes]
ASSUME ModeAssumption == /\ Overlaps \subseteq {"start", "stop", "claim"}
                         /\ Failing \subseteq Steps
                         /\ MaxCrashes \in Nat

VARIABLES
  serverState,         \* this.serverState
  server,              \* this.server
  accessPointStarted,  \* this.accessPointStarted
  pc,                  \* where each actor is suspended
  closing,             \* the listener an actor waits to see closed
  wifi,                \* requests that carry Wi-Fi details
  conn,                \* the listener whose connection a request holds
  listening,           \* node: the listeners that accept connections
  ap,                  \* the setup access point is up
  profile,             \* a home network profile, with its passphrase, is on disk
  store,               \* the credential store
  spent,               \* the platform: claim codes used
  handed,              \* requests whose credential went to onProvisioned
  crashes

serverVars == <<serverState, server, accessPointStarted>>
actorVars  == <<pc, closing, wifi, conn>>
worldVars  == <<listening, ap, profile, store, spent, handed, crashes>>
vars       == <<serverVars, actorVars, worldVars>>

-----------------------------------------------------------------------------
ServerState == {"idle", "serving", "onboarding", "provisioned", "closed"}

StartPC    == {"loading", "raising", "binding", "undoing"}
TeardownPC == {"closing", "lowering"}
ClaimPC    == {"reading", "exchanging", "saving", "replying", "accepted", "joining",
               "forgetting", "handing"}
\* An abandoned request is left at the await of a reply that is never flushed.
SettledPC  == {"ready", "done", "failed", "lost", "abandoned"}

InFlight(actors) == {a \in actors : pc[a] \notin SettledPC}

MayFail(step) == step \in Failing

Init ==
  /\ serverState = "idle"
  /\ server = NoServer
  /\ accessPointStarted = FALSE
  /\ pc = [a \in Actors |-> "ready"]
  /\ closing = [a \in Actors |-> NoServer]
  /\ wifi = {}
  /\ conn = [r \in Requests |-> NoServer]
  /\ listening = {}
  /\ ap = FALSE
  /\ profile = FALSE
  /\ store = NoCredential
  /\ spent = {}
  /\ handed = {}
  /\ crashes = 0

-----------------------------------------------------------------------------
(***************************************************************************)
(* closeHttp() and stopAccessPoint(), awaited by stop(), by                *)
(* completeProvisioning() after a plain claim and by onboard().            *)
(***************************************************************************)

StateAfterStopKept    == serverState
StateAfterStopForced  == "closed"
StateAfterStop == IF serverState = "serving" THEN "closed" ELSE serverState

TornDownSilently(a) ==
  /\ serverState' = StateAfterStop
  /\ pc' = [pc EXCEPT ![a] = IF a \in wifi THEN "joining" ELSE "done"]
  /\ UNCHANGED handed

\* What follows the teardown: stop() is over, completeProvisioning() calls
\* onProvisioned, onboard() joins the home network.
TornDown(a) ==
  \/ /\ a \in Stops
     /\ serverState' = StateAfterStop
     /\ pc' = [pc EXCEPT ![a] = "done"]
     /\ UNCHANGED handed
  \/ /\ a \in Requests \ wifi
     /\ handed' = handed \cup {a}
     /\ pc' = [pc EXCEPT ![a] = "handing"]
     /\ UNCHANGED serverState
  \/ /\ a \in wifi
     /\ pc' = [pc EXCEPT ![a] = "joining"]
     /\ UNCHANGED <<serverState, handed>>

HttpOnly(a) ==
  /\ TornDown(a)
  /\ UNCHANGED accessPointStarted

StopAccessPoint(a) ==
  \/ /\ accessPointStarted
     /\ accessPointStarted' = FALSE
     /\ pc' = [pc EXCEPT ![a] = "lowering"]
     /\ UNCHANGED <<serverState, handed>>
  \/ /\ ~accessPointStarted
     /\ TornDown(a)
     /\ UNCHANGED accessPointStarted

CloseHttp(a) ==
  \/ /\ server # NoServer
     /\ server' = NoServer
     /\ listening' = listening \ {server}
     /\ closing' = [closing EXCEPT ![a] = server]
     /\ pc' = [pc EXCEPT ![a] = "closing"]
     /\ UNCHANGED <<serverState, accessPointStarted, handed>>
  \/ /\ server = NoServer
     /\ StopAccessPoint(a)
     /\ UNCHANGED <<server, listening, closing>>

\* server.close() calls back once the connections of the listener have ended.
EndedAtOnce(a) == TRUE
ConnectionsEnded(a) == \A r \in Requests : conn[r] # closing[a]

HttpClosed(a) ==
  /\ pc[a] = "closing"
  /\ ConnectionsEnded(a)
  /\ closing' = [closing EXCEPT ![a] = NoServer]
  /\ StopAccessPoint(a)
  /\ UNCHANGED <<server, wifi, conn, listening, ap, profile, store, spent, crashes>>

Lowered(a) ==
  /\ pc[a] = "lowering"
  /\ ap' = FALSE
  /\ TornDown(a)
  /\ UNCHANGED <<server, accessPointStarted, closing, wifi, conn, listening, profile, store,
                 spent, crashes>>

\* The controller fails: stop() rejects, completeProvisioning() reports, onboard()
\* restarts onboarding.
LoweringFailed(a) ==
  /\ pc[a] = "lowering"
  /\ MayFail("apStop")
  /\ pc' = [pc EXCEPT ![a] = IF a \in wifi THEN "forgetting" ELSE "failed"]
  /\ UNCHANGED <<serverVars, closing, wifi, conn, worldVars>>

-----------------------------------------------------------------------------
(***************************************************************************)
(* start(), called by the application or by restartOnboarding().           *)
(***************************************************************************)
MayCall(operation) == operation \in Overlaps \/ InFlight(Actors) = {}

StartRefused == serverState \in {"serving", "provisioned"}

Start(s) ==
  /\ pc[s] = "ready"
  /\ MayCall("start")
  /\ pc' = [pc EXCEPT ![s] = IF StartRefused THEN "failed" ELSE "loading"]
  /\ UNCHANGED <<serverVars, closing, wifi, conn, worldVars>>

NeverExisting == FALSE
Existing == store # NoCredential

StoreLoaded(s) ==
  /\ pc[s] = "loading"
  /\ \/ pc' = [pc EXCEPT ![s] = IF Existing THEN "failed" ELSE "raising"]
     \/ MayFail("load") /\ pc' = [pc EXCEPT ![s] = "failed"]
  /\ UNCHANGED <<serverVars, closing, wifi, conn, worldVars>>

Raised(s) ==
  /\ pc[s] = "raising"
  /\ \/ /\ ap' = TRUE
        /\ accessPointStarted' = TRUE
        /\ pc' = [pc EXCEPT ![s] = "binding"]
     \/ /\ MayFail("apStart")
        /\ pc' = [pc EXCEPT ![s] = "failed"]
        /\ UNCHANGED <<ap, accessPointStarted>>
  /\ UNCHANGED <<serverState, server, closing, wifi, conn, listening, profile, store, spent,
                 handed, crashes>>

\* One listener holds the port.
Bound(s) ==
  /\ pc[s] = "binding"
  /\ listening = {}
  /\ listening' = {s}
  /\ server' = s
  /\ serverState' = "serving"
  /\ pc' = [pc EXCEPT ![s] = "done"]
  /\ UNCHANGED <<accessPointStarted, closing, wifi, conn, ap, profile, store, spent, handed,
                 crashes>>

KeepAccessPoint(s) ==
  /\ UNCHANGED accessPointStarted
  /\ pc' = [pc EXCEPT ![s] = "failed"]

UndoAccessPoint(s) ==
  /\ accessPointStarted' = FALSE
  /\ pc' = [pc EXCEPT ![s] = IF accessPointStarted THEN "undoing" ELSE "failed"]

BindFailed(s) ==
  /\ pc[s] = "binding"
  /\ listening # {} \/ MayFail("listen")
  /\ UndoAccessPoint(s)
  /\ UNCHANGED <<serverState, server, closing, wifi, conn, worldVars>>

Undone(s) ==
  /\ pc[s] = "undoing"
  /\ \/ ap' = FALSE
     \/ MayFail("apStop") /\ UNCHANGED ap
  /\ pc' = [pc EXCEPT ![s] = "failed"]
  /\ UNCHANGED <<serverVars, closing, wifi, conn, listening, profile, store, spent, handed,
                 crashes>>

Stop(t) ==
  /\ pc[t] = "ready"
  /\ MayCall("stop")
  /\ CloseHttp(t)
  /\ UNCHANGED <<wifi, conn, ap, profile, store, spent, crashes>>

-----------------------------------------------------------------------------
(***************************************************************************)
(* handleClaim(), completeProvisioning(), onboard(), restartOnboarding().  *)
(***************************************************************************)
RepliedUnended(r) ==
  /\ pc' = [pc EXCEPT ![r] = "done"]
  /\ UNCHANGED conn

\* Every reply but the identity and the 202 goes out and the handler is over.
Replied(r) ==
  /\ pc' = [pc EXCEPT ![r] = "done"]
  /\ conn' = [conn EXCEPT ![r] = NoServer]

ClaimsClosed == serverState \in {"provisioned", "onboarding"}

\* 409 once provisioned or onboarding, before the body is read.
Claim(r) ==
  /\ pc[r] = "ready"
  /\ MayCall("claim")
  /\ \E s \in listening :
       IF ClaimsClosed
         THEN Replied(r)
         ELSE /\ pc' = [pc EXCEPT ![r] = "reading"]
              /\ conn' = [conn EXCEPT ![r] = s]
  /\ UNCHANGED <<serverVars, closing, wifi, worldVars>>

\* The body is read; the state is not looked at again.
PlainClaimRead(r) ==
  /\ pc[r] = "reading"
  /\ pc' = [pc EXCEPT ![r] = "exchanging"]
  /\ UNCHANGED <<serverVars, closing, wifi, conn, worldVars>>

WifiClaimRead(r) ==
  /\ pc[r] = "reading"
  /\ wifi' = wifi \cup {r}
  /\ serverState' = "onboarding"
  /\ pc' = [pc EXCEPT ![r] = "accepted"]
  /\ UNCHANGED <<server, accessPointStarted, closing, conn, worldVars>>

\* 400 or 413.
BadClaimRead(r) ==
  /\ pc[r] = "reading"
  /\ Replied(r)
  /\ UNCHANGED <<serverVars, closing, wifi, worldVars>>

StepFailedKept(r) ==
  IF r \in wifi
    THEN pc' = [pc EXCEPT ![r] = "loading"] /\ UNCHANGED conn
    ELSE Replied(r)

\* The exchange and the save end a plain request with an error reply, and send an
\* onboarding to restartOnboarding().
StepFailed(r) ==
  IF r \in wifi
    THEN pc' = [pc EXCEPT ![r] = "forgetting"] /\ UNCHANGED conn
    ELSE Replied(r)

\* The platform takes a code once.
Exchanged(r) ==
  /\ pc[r] = "exchanging"
  /\ Code[r] \notin spent
  /\ spent' = spent \cup {Code[r]}
  /\ pc' = [pc EXCEPT ![r] = "saving"]
  /\ UNCHANGED <<serverVars, closing, wifi, conn, listening, ap, profile, store,
                 handed, crashes>>

ExchangeFailed(r) ==
  /\ pc[r] = "exchanging"
  /\ \/ Code[r] \in spent /\ UNCHANGED spent
     \/ MayFail("claim") /\ spent' \in {spent, spent \cup {Code[r]}}
  /\ StepFailed(r)
  /\ UNCHANGED <<serverVars, closing, wifi, listening, ap, profile, store, handed, crashes>>

HandedUnsaved(r) ==
  /\ pc[r] = "saving"
  /\ serverState' = "provisioned"
  /\ pc' = [pc EXCEPT ![r] = IF r \in wifi THEN "handing" ELSE "replying"]
  /\ handed' = IF r \in wifi THEN handed \cup {r} ELSE handed
  /\ UNCHANGED <<server, accessPointStarted, closing, wifi, conn, listening, ap, profile, store,
                 spent, crashes>>

HandedAtOnce(r) ==
  /\ pc[r] = "saving"
  /\ store' = r
  /\ serverState' = "provisioned"
  /\ handed' = handed \cup {r}
  /\ pc' = [pc EXCEPT ![r] = IF r \in wifi THEN "handing" ELSE "replying"]
  /\ UNCHANGED <<server, accessPointStarted, closing, wifi, conn, listening, ap, profile, spent,
                 crashes>>

\* onProvisioned follows the teardown of a plain claim, which follows the flush of its
\* reply; a reply written when the companion app has gone is never flushed.  onboard() tore
\* down before.
Saved(r) ==
  /\ pc[r] = "saving"
  /\ store' = r
  /\ serverState' = "provisioned"
  /\ IF r \in wifi
       THEN pc' = [pc EXCEPT ![r] = "handing"] /\ handed' = handed \cup {r}
       ELSE /\ pc' = [pc EXCEPT ![r] = IF conn[r] = NoServer THEN "abandoned" ELSE "replying"]
            /\ UNCHANGED handed
  /\ UNCHANGED <<server, accessPointStarted, closing, wifi, conn, listening, ap, profile, spent,
                 crashes>>

SaveFailed(r) ==
  /\ pc[r] = "saving"
  /\ MayFail("save")
  /\ StepFailed(r)
  /\ UNCHANGED <<serverVars, closing, wifi, worldVars>>

FlushedKeptAlive(r) ==
  /\ pc[r] \in {"replying", "accepted"}
  /\ CloseHttp(r)
  /\ UNCHANGED <<wifi, conn, ap, profile, store, spent, crashes>>

\* res.end() calls back when the identity, or the 202, has left the response.
Flushed(r) ==
  /\ pc[r] \in {"replying", "accepted"}
  /\ conn' = [conn EXCEPT ![r] = NoServer]
  /\ CloseHttp(r)
  /\ UNCHANGED <<wifi, ap, profile, store, spent, crashes>>

\* The companion app leaves, or its connection drops, before its reply was written.  A
\* reply the socket already has is over either way, and its callback runs (Flushed); one
\* written to a destroyed socket never is.
HangUp(r) ==
  /\ MayFail("hangup")
  /\ pc[r] \in {"reading", "exchanging", "saving"}
  /\ conn[r] # NoServer
  /\ conn' = [conn EXCEPT ![r] = NoServer]
  /\ pc' = [pc EXCEPT ![r] = IF @ = "reading" THEN "done" ELSE @]
  /\ UNCHANGED <<serverVars, closing, wifi, worldVars>>

\* The controller stores the network before it tries it.
Joined(r) ==
  /\ pc[r] = "joining"
  /\ profile' = TRUE
  /\ pc' = [pc EXCEPT ![r] = "exchanging"]
  /\ UNCHANGED <<serverVars, closing, wifi, conn, listening, ap, store, spent, handed, crashes>>

JoinFailed(r) ==
  /\ pc[r] = "joining"
  /\ MayFail("join")
  /\ profile' \in {profile, TRUE}
  /\ pc' = [pc EXCEPT ![r] = "forgetting"]
  /\ UNCHANGED <<serverVars, closing, wifi, conn, listening, ap, store, spent, handed, crashes>>

\* restartOnboarding(): a failed forget(), which may have dropped the network or not, is
\* reported, and start() called all the same.
Forgotten(r) ==
  /\ pc[r] = "forgetting"
  /\ \/ profile' = FALSE
     \/ MayFail("forget") /\ profile' \in {profile, FALSE}
  /\ serverState' = "idle"
  /\ pc' = [pc EXCEPT ![r] = "loading"]
  /\ UNCHANGED <<server, accessPointStarted, closing, wifi, conn, listening, ap, store, spent,
                 handed, crashes>>

HandedOff(r) ==
  /\ pc[r] = "handing"
  /\ pc' = [pc EXCEPT ![r] = "done"]
  /\ UNCHANGED <<serverVars, closing, wifi, conn, worldVars>>

-----------------------------------------------------------------------------
\* The process stops and starts again.  The operating system keeps the access point and
\* the network profile; a claim, save, join or forget in progress took effect or not.
Crash ==
  /\ crashes < MaxCrashes
  /\ crashes' = crashes + 1
  /\ serverState' = "idle"
  /\ server' = NoServer
  /\ accessPointStarted' = FALSE
  /\ pc' = [a \in Actors |-> IF a \in InFlight(Actors) THEN "lost" ELSE pc[a]]
  /\ closing' = [a \in Actors |-> NoServer]
  /\ conn' = [r \in Requests |-> NoServer]
  /\ listening' = {}
  /\ store' \in {store} \cup {r \in Requests : pc[r] = "saving"}
  /\ spent' \in {spent, spent \cup {Code[r] : r \in {i \in Requests : pc[i] = "exchanging"}}}
  /\ profile' \in {profile} \cup {pc[r] = "joining" :
                                r \in {i \in Requests : pc[i] \in {"joining", "forgetting"}}}
  /\ UNCHANGED <<wifi, ap, handed>>

StartStep(s) == StoreLoaded(s) \/ Raised(s) \/ Bound(s) \/ BindFailed(s) \/ Undone(s)

TeardownStep(a) == HttpClosed(a) \/ Lowered(a) \/ LoweringFailed(a)

Read(r) == PlainClaimRead(r) \/ WifiClaimRead(r) \/ BadClaimRead(r)

Handling(r) ==
  \/ Exchanged(r) \/ ExchangeFailed(r)
  \/ Saved(r) \/ SaveFailed(r)
  \/ Flushed(r)
  \/ Joined(r) \/ JoinFailed(r)
  \/ Forgotten(r)
  \/ HandedOff(r)

RequestStep(r) == Read(r) \/ Handling(r)

Next ==
  \/ \E s \in Starts : Start(s)
  \/ \E t \in Stops : Stop(t)
  \/ \E r \in Requests : Claim(r) \/ RequestStep(r) \/ HangUp(r)
  \/ \E s \in Listeners : StartStep(s)
  \/ \E a \in Stops \cup Requests : TeardownStep(a)
  \/ Crash

Spec == Init /\ [][Next]_vars

\* Whatever was awaited completes; nobody owes a call, a claim, the rest of its body, a fault
\* or a restart.
Fairness ==
  /\ \A s \in Listeners : WF_vars(StartStep(s))
  /\ \A a \in Stops \cup Requests : WF_vars(TeardownStep(a))
  /\ \A r \in Requests : WF_vars(Handling(r))

FairSpec == Spec /\ Fairness

-----------------------------------------------------------------------------
TypeOK ==
  /\ serverState \in ServerState
  /\ server \in Listeners \cup {NoServer}
  /\ accessPointStarted \in BOOLEAN
  /\ pc \in [Actors -> StartPC \cup TeardownPC \cup ClaimPC \cup SettledPC]
  /\ closing \in [Actors -> Listeners \cup {NoServer}]
  /\ wifi \subseteq Requests
  /\ conn \in [Requests -> Listeners \cup {NoServer}]
  /\ listening \subseteq Listeners
  /\ ap \in BOOLEAN
  /\ profile \in BOOLEAN
  /\ store \in Requests \cup {NoCredential}
  /\ spent \subseteq Codes
  /\ handed \subseteq Requests
  /\ crashes \in 0..MaxCrashes

\* The claim endpoint is never served alongside a gateway session: from the moment
\* onProvisioned has a credential no listener accepts a connection.
NeverAlongside == handed # {} => listening = {}

\* onProvisioned is given the credential a restarted device would load, and only one is
\* ever handed over.
HandedIsStored == \A r \in handed : store = r

\* A started server is in order: between its lifecycle calls, and with no claim under
\* way or abandoned, "serving" means that its listener accepts claims on an access point
\* that is up, and any other state that nothing is left listening.
ServingIsReal ==
  InFlight(Actors) = {} /\ (\A r \in Requests : pc[r] # "abandoned") =>
    IF serverState = "serving" THEN server # NoServer /\ listening = {server} /\ ap
                               ELSE server = NoServer /\ listening = {}

\* "The AP's lifetime always matches the claim endpoint's" (AccessPointController): once
\* everything has settled, in a process that was not restarted, the access point is up
\* exactly while a listener accepts claims.
ApMatchesEndpoint == InFlight(Actors) = {} /\ crashes = 0 => (ap <=> listening # {})

\* The access point is not taken from under a companion app: it goes down only when no
\* reply that carries the identity, or the 202, waits to be flushed.
RepliesBeforeDown ==
  [][ap /\ ~ap' => \A r \in Requests : conn[r] = NoServer]_vars

\* Once provisioned the server stays so until the process restarts.
ProvisionedIsFinal ==
  [][serverState = "provisioned" /\ serverState' # "provisioned" => crashes' # crashes]_vars

\* The device joins the home network, claims from it, and stores and hands over what it
\* claimed, only off its setup network.
JoinsOffSetupNetwork ==
  \A r \in wifi :
    pc[r] \in {"joining", "exchanging", "saving", "handing"} => ~ap /\ listening = {}

\* "The passphrase never outlives a failed attempt": a home network is stored only while an
\* onboarding is under way or after one that was handed over, unless the process was
\* restarted or the controller failed to forget.
PassphraseForgotten ==
  profile => \/ \E r \in wifi :
                  \/ pc[r] \in {"exchanging", "saving", "forgetting"}
                  \/ r \in handed
             \/ crashes > 0

\* server.close() is awaited for claims only that will reply by themselves: a handler that
\* waits in turn, for this teardown, its own or a start, holds no connection of a listener
\* that is closing.
NoWaitingCircle ==
  \A a \in Actors :
    pc[a] = "closing" =>
      /\ closing[a] # NoServer
      /\ \A r \in Requests : conn[r] = closing[a] => pc[r] \in ClaimPC

\* Every start(), stop() and claim that began comes to its end, or is left abandoned, when
\* no companion app leaves its body unfinished: server.close() waits for that one without
\* bound.
EverythingSettles ==
  (\A r \in Requests : []<>(pc[r] # "reading"))
    => \A a \in Actors : pc[a] \notin SettledPC ~> pc[a] \in SettledPC

\* A stored credential reaches onProvisioned, unless the process restarts or the controller
\* fails to take the access point down, which is reported instead.
StoredIsHanded ==
  \A r \in Requests : store = r ~> r \in handed \/ pc[r] = "failed" \/ crashes > 0

\* The part of it the code keeps: a stored credential whose reply the companion app stayed
\* for reaches onProvisioned.
FlushedIsHanded ==
  \A r \in Requests :
    store = r ~> r \in handed \/ pc[r] \in {"failed", "abandoned"} \/ crashes > 0

Contract == INSTANCE OneClaim WITH open <- listening # {}

\* Where only stop() overlaps, the server keeps its promise to the application: one claim is
\* stored, on an endpoint that opened while nothing was, and it is handed over, once, after
\* the endpoint closed.
ImplementsOneClaim == Contract!Spec
=============================================================================
