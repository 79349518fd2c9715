--------------------------------- MODULE Cli ---------------------------------
(***************************************************************************)
(* The command line qualithm-device (src/src/bin/qualithm-device.ts over   *)
(* src/src/cli/commands.ts): the processes claim, provision and connect,   *)
(* which share one credential store, with the exchanges of                 *)
(* src/src/claim.ts and src/src/enroll.ts.                                 *)
(*                                                                         *)
(* A process is named once it is launched; pc[p] is the await its command  *)
(* is suspended at, or how it ended.  Every failure a command can meet is  *)
(* a choice, and a process may be killed between any two steps.  The       *)
(* store is the register of CredentialStore: a save takes effect at once   *)
(* or not at all.                                                          *)
(***************************************************************************)
EXTENDS FiniteSets

CONSTANTS Claims,      \* processes `qualithm-device claim`, each with a code of its own
          Provisions,  \* processes `qualithm-device provision`
          Connects,    \* processes `qualithm-device connect`
          Nothing,     \* nothing stored, loaded or received
          Exclusive    \* the operator waits for a claim or provision before the next

Writers   == Claims \cup Provisions
Processes == Writers \cup Connects

ASSUME ProcessesAssumption == /\ Claims \cap Provisions = {}
                              /\ Writers \cap Connects = {}
ASSUME ExclusiveAssumption == Exclusive \in BOOLEAN

\* A device bears the name of the claim that created it, a secret (the token or the
\* private key) that of the process that received or generated it; a credential may name
\* the gateway (`broker`).
Gateways    == {"named", "unnamed"}
Secrets     == [device : Claims, kind : {"token", "cert"}, secret : Writers]
Credentials == [device : Claims, kind : {"token", "cert"}, secret : Writers, gateway : Gateways]

SecretOf(credential) ==
  [device |-> credential.device, kind |-> credential.kind, secret |-> credential.secret]

ASSUME NothingAssumption == Nothing \notin Credentials

VARIABLES
  pc,       \* the await each command is suspended at, or how its process ended
  held,     \* the credential a command loaded (to enrol) or received (to save)
  options,  \* what a connect process was asked for: --subscribe, --publish
  session,  \* the connect processes whose MQTT session is open
  store,    \* the credential file all processes share
  granted   \* the platform: the secrets it issued, and takes for a login

vars == <<pc, held, options, session, store, granted>>

Ended   == {"ok", "failed", "killed"}
Running == {"claiming", "loading", "enrolling", "saving", "connecting", "subscribing",
            "publishing", "holding", "disconnecting", "hanging"}

\* What the platform issues to a claim, and to an enrolment with the credential it holds.
TokenFor(p)       == [device |-> p, kind |-> "token", secret |-> p]
CertificateFor(p) == [device |-> held[p].device, kind |-> "cert", secret |-> p]

Under(processes) == {p \in processes : pc[p] \in Running}

Init ==
  /\ pc = [p \in Processes |-> "ready"]
  /\ held = [p \in Processes |-> Nothing]
  /\ options \in [Connects -> SUBSET {"subscribe", "publish"}]
  /\ session = {}
  /\ store = Nothing
  /\ granted = {}

-----------------------------------------------------------------------------
Goto(p, step) == pc' = [pc EXCEPT ![p] = step]

\* main() of a launched process: the command with its arguments.
MayLaunch(p) == pc[p] = "ready" /\ (Exclusive /\ p \in Writers => Under(Writers) = {})

FirstAwait(p) == IF p \in Claims THEN "claiming" ELSE "loading"

Launch(p) ==
  /\ MayLaunch(p)
  /\ Goto(p, FirstAwait(p))
  /\ UNCHANGED <<held, options, session, store, granted>>

\* A missing or malformed argument, or an unreadable --ca file, before anything is sent.
Misused(p) ==
  /\ pc[p] = "ready"
  /\ Goto(p, "failed")
  /\ UNCHANGED <<held, options, session, store, granted>>

Stuck(p) == Goto(p, "hanging")

\* main().catch(): the error is printed and the exit code set.  The process ends by itself
\* once nothing keeps its event loop alive; an open session does.
Rejected(p) == Goto(p, IF p \in session' THEN "hanging" ELSE "failed")

-----------------------------------------------------------------------------
(***************************************************************************)
(* claim: claimDevice(), then save().  The store is not looked at first.   *)
(***************************************************************************)
Claimed(p) ==
  /\ pc[p] = "claiming"
  /\ \E gateway \in Gateways :
       held' = [held EXCEPT ![p] = [device |-> p, kind |-> "token", secret |-> p,
                                    gateway |-> gateway]]
  /\ granted' = granted \cup {TokenFor(p)}
  /\ Goto(p, "saving")
  /\ UNCHANGED <<options, session, store>>

\* The platform is not reached, refuses the code, or its answer is lost or malformed: it
\* may have spent the code.
ClaimFailed(p) ==
  /\ pc[p] = "claiming"
  /\ granted' \in {granted, granted \cup {TokenFor(p)}}
  /\ UNCHANGED session
  /\ Rejected(p)
  /\ UNCHANGED <<held, options, store>>

-----------------------------------------------------------------------------
(***************************************************************************)
(* provision: load(), enrollDeviceCertificate(), then save().              *)
(***************************************************************************)
\* Only a stored credential that carries a token enrols: a certificate does not.
Enrols(credential) == credential.kind = "token"

Loaded(p) ==
  /\ pc[p] = "loading"
  /\ store # Nothing
  /\ p \in Provisions => Enrols(store)
  /\ held' = [held EXCEPT ![p] = store]
  /\ Goto(p, IF p \in Provisions THEN "enrolling" ELSE "connecting")
  /\ UNCHANGED <<options, session, store, granted>>

\* Nothing is stored (connect has no claim code either), what is stored has no token to
\* enrol with, or the file is unreadable.
LoadRejected(p) ==
  /\ pc[p] = "loading"
  /\ UNCHANGED session
  /\ Rejected(p)
  /\ UNCHANGED <<held, options, store, granted>>

\* The certificate is for the key pair this process generated; the platform names the
\* gateway again, or the claimed one is kept.
CertifiedFor(p, loaded, secret, gateway) ==
  [device |-> loaded.device, kind |-> "cert", secret |-> secret, gateway |-> gateway]

KeptGateway(loaded, answer) == IF answer = "named" THEN "named" ELSE loaded.gateway

GatewayOfAnswer(p, loaded, answer) == CertifiedFor(p, loaded, p, answer)
KeyOfTheToken(p, loaded, answer) == CertifiedFor(p, loaded, loaded.secret, KeptGateway(loaded, answer))
Certified(p, loaded, answer) == CertifiedFor(p, loaded, p, KeptGateway(loaded, answer))

Enrolled(p) ==
  /\ pc[p] = "enrolling"
  /\ SecretOf(held[p]) \in granted
  /\ granted' = granted \cup {CertificateFor(p)}
  /\ \E answer \in Gateways : held' = [held EXCEPT ![p] = Certified(p, held[p], answer)]
  /\ Goto(p, "saving")
  /\ UNCHANGED <<options, session, store>>

\* Refused, not reached, or the answer lost: a certificate may have been issued.
EnrolFailed(p) ==
  /\ pc[p] = "enrolling"
  /\ granted' \in {granted, granted \cup {CertificateFor(p)}}
  /\ held' = [held EXCEPT ![p] = Nothing]
  /\ UNCHANGED session
  /\ Rejected(p)
  /\ UNCHANGED <<options, store>>

\* The last step of claim and of provision.
Saved(p) ==
  /\ pc[p] = "saving"
  /\ store' = held[p]
  /\ held' = [held EXCEPT ![p] = Nothing]
  /\ Goto(p, "ok")
  /\ UNCHANGED <<options, session, granted>>

SaveFailed(p) ==
  /\ pc[p] = "saving"
  /\ held' = [held EXCEPT ![p] = Nothing]
  /\ UNCHANGED session
  /\ Rejected(p)
  /\ UNCHANGED <<options, store, granted>>

-----------------------------------------------------------------------------
(***************************************************************************)
(* connect: Device.connect(), the subscribe and publish it was asked for,  *)
(* then a wait for SIGINT unless it published, then disconnect().          *)
(***************************************************************************)
AfterSubscribe(p) == IF "publish" \in options[p] THEN "publishing" ELSE "holding"
AfterConnect(p)   == IF "subscribe" \in options[p] THEN "subscribing" ELSE AfterSubscribe(p)

Connected(p) ==
  /\ pc[p] = "connecting"
  /\ SecretOf(held[p]) \in granted
  /\ session' = session \cup {p}
  /\ held' = [held EXCEPT ![p] = Nothing]
  /\ Goto(p, AfterConnect(p))
  /\ UNCHANGED <<options, store, granted>>

\* No gateway, a first connection that fails (Device ends its client), or a manifest that
\* is not taken (Device leaves its session up).
ConnectFailed(p) ==
  /\ pc[p] = "connecting"
  /\ session' \in {session, session \cup {p}}
  /\ held' = [held EXCEPT ![p] = Nothing]
  /\ Rejected(p)
  /\ UNCHANGED <<options, store, granted>>

Subscribed(p) ==
  /\ pc[p] = "subscribing"
  /\ Goto(p, AfterSubscribe(p))
  /\ UNCHANGED <<held, options, session, store, granted>>

\* A one-shot publish is over: runConnect() closes its session.
Published(p) ==
  /\ pc[p] = "publishing"
  /\ Goto(p, "disconnecting")
  /\ UNCHANGED <<held, options, session, store, granted>>

\* The gateway refuses the topic or the message, or the connection is lost: runConnect()
\* does not get to its disconnect().
SmokeTestFailed(p) ==
  /\ pc[p] \in {"subscribing", "publishing"}
  /\ UNCHANGED session
  /\ Rejected(p)
  /\ UNCHANGED <<held, options, store, granted>>

Disconnected(p) ==
  /\ pc[p] = "disconnecting"
  /\ session' = session \ {p}
  /\ Goto(p, "ok")
  /\ UNCHANGED <<held, options, store, granted>>

-----------------------------------------------------------------------------
\* waitForSigint() listens once, and only while the command holds.
Interrupted(p) ==
  /\ pc[p] = "holding"
  /\ Goto(p, "disconnecting")
  /\ UNCHANGED <<held, options, session, store, granted>>

\* Any other signal, or SIGINT at any other point.  A save took effect or not, and so did
\* an exchange with the platform.
AskedFor(p) ==
  CASE pc[p] = "claiming"  -> {TokenFor(p)}
    [] pc[p] = "enrolling" -> {CertificateFor(p)}
    [] OTHER               -> {}

Killed(p) ==
  /\ pc[p] \in Running
  /\ Goto(p, "killed")
  /\ held' = [held EXCEPT ![p] = Nothing]
  /\ session' = session \ {p}
  /\ store' \in {store} \cup (IF pc[p] = "saving" THEN {held[p]} ELSE {})
  /\ granted' \in {granted, granted \cup AskedFor(p)}
  /\ UNCHANGED options

-----------------------------------------------------------------------------
\* What a command does once launched, when nothing kills it.
Step(p) ==
  \/ Claimed(p) \/ ClaimFailed(p)
  \/ Loaded(p) \/ LoadRejected(p) \/ Enrolled(p) \/ EnrolFailed(p)
  \/ Saved(p) \/ SaveFailed(p)
  \/ Connected(p) \/ ConnectFailed(p) \/ Subscribed(p) \/ Published(p) \/ SmokeTestFailed(p)
  \/ Disconnected(p)

Next ==
  \E p \in Processes : Launch(p) \/ Misused(p) \/ Step(p) \/ Interrupted(p) \/ Killed(p)

Spec == Init /\ [][Next]_vars

\* Whatever a command awaits is answered; nobody owes a launch or a signal.
FairSpec == Spec /\ \A p \in Processes : WF_vars(Step(p))

-----------------------------------------------------------------------------
TypeOK ==
  /\ pc \in [Processes -> {"ready"} \cup Running \cup Ended]
  /\ held \in [Processes -> Credentials \cup {Nothing}]
  /\ options \in [Connects -> SUBSET {"subscribe", "publish"}]
  /\ session \subseteq Connects
  /\ store \in Credentials \cup {Nothing}
  /\ granted \subseteq Secrets

\* What is stored always works: the platform takes the secret in the credential file, and
\* the one any command presents or is about to store, however claims and enrolments
\* overlap, fail or are killed.  A failed upgrade never strands the device.
StoredWorks == store # Nothing => SecretOf(store) \in granted
HeldWorks   == \A p \in Processes : held[p] # Nothing => SecretOf(held[p]) \in granted
CredentialsWork == StoredWorks /\ HeldWorks

\* While one command writes at a time, what is stored only moves forward: a stored
\* credential is never removed, and a certificate replaces only a credential of its own
\* device, naming a gateway if that one did ("upgrade the stored token credential").
Upgrades(new, old) ==
  /\ new.device = old.device
  /\ old.gateway = "named" => new.gateway = "named"

StoreMovesForward ==
  [][store # Nothing /\ store' # store =>
       store' # Nothing /\ (store'.kind = "cert" => Upgrades(store', store))]_vars

\* Every command comes to its end by itself, except for a connect that holds its session
\* until SIGINT and was not asked to publish ("A one-shot publish smoke test exits
\* immediately"), and one that failed with its session open, which never ends.
CommandsEnd ==
  /\ \A p \in Writers : pc[p] \in Running ~> pc[p] \in Ended
  /\ \A p \in Connects :
       pc[p] \in Running ~>
         \/ pc[p] \in Ended
         \/ pc[p] = "holding" /\ "publish" \notin options[p]
         \/ pc[p] = "hanging" /\ p \in session
=============================================================================
