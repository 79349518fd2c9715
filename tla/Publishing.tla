------------------------------ MODULE Publishing ------------------------------
(***************************************************************************)
(* publish() of src/src/device.ts with its retries after a failed PUBACK,  *)
(* over the sessions of one Device: clients that lose their connection,    *)
(* wait for the time bindReconnectBackoff() set and reconnect, and that    *)
(* disconnect() ends and connect() replaces.                               *)
(*                                                                         *)
(* mqtt.js keeps a QoS 1 packet until it is acknowledged and sends it      *)
(* again on the next connection of the same client, unless disconnect()    *)
(* ended the client; a QoS 0 packet it queues until it can write it, and   *)
(* forgets then.  The gateway receives what was written later, or never;   *)
(* it stores a message id once, and may report a failure for a message it  *)
(* stored.  The application awaits connect() and disconnect().             *)
(***************************************************************************)
EXTENDS Backoff, FiniteSets

CONSTANTS Publishes,   \* the invocations of publish()
          Qos1,        \* those with qos: 1
          Large,       \* those whose payload exceeds the ceiling a gateway may advertise
          Sessions,    \* the clients connect() opens
          NoClient,    \* this.client is null
          PUBLISH_ATTEMPTS,
          Base,        \* options.reconnectPeriodMs, above 0
          MaxFaults    \* bound: lost or refused connections

ASSUME PublishesAssumption == Qos1 \subseteq Publishes /\ Large \subseteq Publishes
ASSUME SessionsAssumption == NoClient \notin Sessions
ASSUME NumbersAssumption == /\ PUBLISH_ATTEMPTS \in Nat \ {0}
                            /\ Base \in Nat \ {0}
                            /\ MaxFaults \in Nat

VARIABLES
  client,         \* this.client
  maxEventBytes,  \* this.maxEventBytes: null, or a ceiling the Large payloads exceed
  link,           \* of each client
  failures,       \* bindReconnectBackoff(): consecutive closes of each client
  period,         \* client.options.reconnectPeriod
  armed,          \* the wait mqtt.js armed its retry timer with
  accepted,       \* clients that had a first CONNACK
  advertises,     \* clients whose last CONNACK advertised that ceiling
  pc,             \* where each publish() is suspended
  attempt,        \* its loop variable
  on,             \* the client its last attempt went to
  wire,           \* <<publish, client>> of what was ever written to a connection
  taken,          \* the gateway: <<publish, message id>> of what it stored
  faults          \* counter of the bound

sessionVars == <<client, maxEventBytes, link, failures, period, armed, accepted, advertises>>
publishVars == <<pc, attempt, on, wire>>
vars == <<sessionVars, publishVars, taken, faults>>

SettledPC == {"ready", "done", "failed"}

Init ==
  /\ client = NoClient
  /\ maxEventBytes = "null"
  /\ link = [s \in Sessions |-> "none"]
  /\ failures = [s \in Sessions |-> 0]
  /\ period = [s \in Sessions |-> Base]
  /\ armed = [s \in Sessions |-> Base]
  /\ accepted = {}
  /\ advertises = {}
  /\ pc = [p \in Publishes |-> "ready"]
  /\ attempt = [p \in Publishes |-> 0]
  /\ on = [p \in Publishes |-> NoClient]
  /\ wire = {}
  /\ taken = {}
  /\ faults = 0

-----------------------------------------------------------------------------
(***************************************************************************)
(* The session: connect(), the listeners of bindReconnectBackoff(),        *)
(* disconnect().                                                           *)
(***************************************************************************)
OpenConnection(s) ==
  /\ client = NoClient
  /\ link[s] = "none"
  /\ client' = s
  /\ link' = [link EXCEPT ![s] = "opening"]
  /\ UNCHANGED <<maxEventBytes, failures, period, armed, accepted, advertises,
                 publishVars, taken, faults>>

\* arm() sets the option mqtt.js reads when it arms its timer.
Armed(s, count) ==
  \E wait \in ReconnectDelays(Larger(1, count), Base) : period' = [period EXCEPT ![s] = wait]

FailuresKept(s) == failures
FailuresAfterConnect(s) == [failures EXCEPT ![s] = 0]

\* "connect".  waitForConnect() takes the ceiling from the first CONNACK of a client only.
OnConnect(s) ==
  /\ link[s] = "opening"
  /\ link' = [link EXCEPT ![s] = "up"]
  /\ failures' = FailuresAfterConnect(s)
  /\ Armed(s, 0)
  /\ accepted' = accepted \cup {s}
  /\ advertises' \in {advertises \cup {s}, advertises \ {s}}
  /\ maxEventBytes' = CASE s \in accepted -> maxEventBytes
                       [] s \notin accepted /\ s \in advertises' -> "low"
                       [] OTHER -> "null"
  /\ UNCHANGED <<client, armed, publishVars, taken, faults>>

\* "close": the listener is prepended, so mqtt.js arms its timer with the new wait.
OnCloseAppended(s) == armed' = [armed EXCEPT ![s] = period[s]]
ArmedByMqtt(s) == armed' = [armed EXCEPT ![s] = period'[s]]

\* mqtt.js keeps what was not acknowledged.
Requeued(s) ==
  [p \in Publishes |-> IF pc[p] = "unacked" /\ on[p] = s THEN "queued" ELSE pc[p]]

OnClose(s) ==
  /\ link[s] \in {"opening", "up"}
  /\ faults < MaxFaults
  /\ faults' = faults + 1
  /\ link' = [link EXCEPT ![s] = "waiting"]
  /\ failures' = [failures EXCEPT ![s] = @ + 1]
  /\ Armed(s, failures[s] + 1)
  /\ ArmedByMqtt(s)
  /\ pc' = Requeued(s)
  /\ UNCHANGED <<client, maxEventBytes, accepted, advertises, attempt, on, wire, taken>>

\* The retry timer: mqtt.js arms none for a period of 0.
OnReconnect(s) ==
  /\ link[s] = "waiting"
  /\ armed[s] > 0
  /\ link' = [link EXCEPT ![s] = "opening"]
  /\ UNCHANGED <<client, maxEventBytes, failures, period, armed, accepted, advertises,
                 publishVars, taken, faults>>

\* disconnect() up to the await of end(), which waits for the PUBACK of every QoS 1 packet:
\* a connected client may still be answered; one that is not connected neither reconnects
\* nor sends them again, so it hangs.
Leaving == {"draining", "ended", "hung"}

Outstanding(s) == \E p \in Qos1 : on[p] = s /\ pc[p] \in {"queued", "unacked"}

EndedOrHung(s) == IF Outstanding(s) THEN "hung" ELSE "ended"

Disconnect(s) ==
  /\ client = s
  /\ link[s] \notin Leaving
  /\ link' = [link EXCEPT ![s] = IF @ = "up" THEN "draining" ELSE EndedOrHung(s)]
  /\ UNCHANGED <<client, maxEventBytes, failures, period, armed, accepted, advertises,
                 publishVars, taken, faults>>

Drained(s) ==
  /\ link[s] = "draining"
  /\ ~Outstanding(s)
  /\ link' = [link EXCEPT ![s] = "ended"]
  /\ UNCHANGED <<client, maxEventBytes, failures, period, armed, accepted, advertises,
                 publishVars, taken, faults>>

\* The connection is lost before the answers came.
CutOff(s) ==
  /\ link[s] = "draining"
  /\ faults < MaxFaults
  /\ faults' = faults + 1
  /\ link' = [link EXCEPT ![s] = EndedOrHung(s)]
  /\ UNCHANGED <<client, maxEventBytes, failures, period, armed, accepted, advertises,
                 publishVars, taken>>

Disconnected(s) ==
  /\ client = s
  /\ link[s] = "ended"
  /\ client' = NoClient
  /\ UNCHANGED <<maxEventBytes, link, failures, period, armed, accepted, advertises,
                 publishVars, taken, faults>>

-----------------------------------------------------------------------------
(***************************************************************************)
(* publish().                                                              *)
(***************************************************************************)
Goes(p, to) == pc' = [pc EXCEPT ![p] = to]

\* mqtt.js writes the packet, or queues it until the client is connected.  A QoS 0 publish
\* resolves when its packet is written, a QoS 1 one when it is acknowledged.
Hand(p, s) ==
  IF link[s] # "up"
    THEN Goes(p, "queued") /\ UNCHANGED wire
    ELSE /\ Goes(p, IF p \in Qos1 THEN "unacked" ELSE "done")
         /\ wire' = wire \cup {<<p, s>>}

\* publishOnce() on the client the Device holds: requireClient() throws without one, and
\* mqtt.js fails what is published on a client that was ended.
NoSession == client = NoClient \/ link[client] \in Leaving

Refuse(p) ==
  /\ Goes(p, "failed")
  /\ UNCHANGED <<attempt, on, wire>>

Send(p) ==
  IF NoSession
    THEN Refuse(p)
    ELSE /\ Hand(p, client)
         /\ attempt' = [attempt EXCEPT ![p] = @ + 1]
         /\ on' = [on EXCEPT ![p] = client]

Publish(p) ==
  /\ pc[p] = "ready"
  /\ IF client # NoClient /\ maxEventBytes = "low" /\ p \in Large
       THEN Refuse(p)
       ELSE Send(p)
  /\ UNCHANGED <<sessionVars, taken, faults>>

ResendUncounted(p) ==
  /\ pc[p] = "backing"
  /\ IF NoSession
       THEN Refuse(p)
       ELSE Hand(p, client) /\ on' = [on EXCEPT ![p] = client] /\ UNCHANGED attempt
  /\ UNCHANGED <<sessionVars, taken, faults>>

\* The wait is over; the payload is not compared with the ceiling again.
Resend(p) ==
  /\ pc[p] = "backing"
  /\ Send(p)
  /\ UNCHANGED <<sessionVars, taken, faults>>

\* A client that is connected again writes what it queued, and what it kept.
Transmit(p) ==
  /\ pc[p] = "queued"
  /\ link[on[p]] = "up"
  /\ Hand(p, on[p])
  /\ UNCHANGED <<sessionVars, attempt, on, taken, faults>>

\* withMsgId(): one id for all the attempts of a QoS 1 message.
MsgIdPerAttempt(p) == attempt[p]
MsgId(p) == 1

\* The gateway drops what exceeds its ceiling.
Drops(p, s) == p \in Large /\ s \in advertises

\* What was written arrives, at any time: the call may be over, and the connection gone.
\* The gateway stores a message once per id.
Take(p, s) ==
  /\ <<p, s>> \in wire
  /\ ~Drops(p, s)
  /\ taken' = taken \cup {<<p, MsgId(p)>>}
  /\ UNCHANGED <<sessionVars, publishVars, faults>>

Answered(p) == pc[p] = "unacked" /\ link[on[p]] \in {"up", "draining"}

\* A PUBACK.
Acknowledge(p) ==
  /\ Answered(p)
  /\ Drops(p, on[p]) \/ <<p, MsgId(p)>> \in taken
  /\ Goes(p, "done")
  /\ UNCHANGED <<sessionVars, attempt, on, wire, taken, faults>>

LastAttemptSwallowed(p) == Goes(p, IF attempt[p] >= PUBLISH_ATTEMPTS THEN "done" ELSE "backing")
AfterFailedPuback(p) == Goes(p, IF attempt[p] >= PUBLISH_ATTEMPTS THEN "failed" ELSE "backing")

\* A failed PUBACK, of a message that was stored or not.
FailedPuback(p) ==
  /\ Answered(p)
  /\ AfterFailedPuback(p)
  /\ UNCHANGED <<sessionVars, attempt, on, wire, taken, faults>>

-----------------------------------------------------------------------------
SessionStep(s) ==
  \/ OpenConnection(s) \/ OnConnect(s) \/ OnClose(s) \/ OnReconnect(s)
  \/ Disconnect(s) \/ Drained(s) \/ CutOff(s) \/ Disconnected(s)

PublishStep(p) ==
  \/ Publish(p) \/ Resend(p) \/ Transmit(p)
  \/ \E s \in Sessions : Take(p, s)
  \/ Acknowledge(p) \/ FailedPuback(p)

Next == (\E s \in Sessions : SessionStep(s)) \/ (\E p \in Publishes : PublishStep(p))

Spec == Init /\ [][Next]_vars

\* Timers fire, mqtt.js writes what it holds, the gateway accepts a connection and answers a
\* QoS 1 packet while its connection lasts; the application and the faults owe nothing.
Fairness ==
  /\ \A s \in Sessions : WF_vars(OnConnect(s)) /\ WF_vars(OnReconnect(s))
  /\ \A p \in Publishes : /\ WF_vars(Resend(p)) /\ WF_vars(Transmit(p))
                          /\ WF_vars(Acknowledge(p) \/ FailedPuback(p))

FairSpec == Spec /\ Fairness

-----------------------------------------------------------------------------
MaxWait == Larger(RECONNECT_FLOOR_MS, Larger(RECONNECT_CAP_MS, Base))

TypeOK ==
  /\ client \in Sessions \cup {NoClient}
  /\ maxEventBytes \in {"null", "low"}
  /\ link \in [Sessions -> {"none", "opening", "up", "waiting"} \cup Leaving]
  /\ failures \in [Sessions -> 0..MaxFaults]
  /\ period \in [Sessions -> 1..MaxWait]
  /\ armed \in [Sessions -> 1..MaxWait]
  /\ accepted \subseteq Sessions
  /\ advertises \subseteq Sessions
  /\ pc \in [Publishes -> {"queued", "unacked", "backing"} \cup SettledPC]
  /\ attempt \in [Publishes -> 0..PUBLISH_ATTEMPTS]
  /\ on \in [Publishes -> Sessions \cup {NoClient}]
  /\ wire \subseteq Publishes \X Sessions
  /\ taken \subseteq Publishes \X (1..PUBLISH_ATTEMPTS)
  /\ faults \in 0..MaxFaults

\* The inductive form of the types and of WaitsBackOff: a counted close is a fault, and
\* none is counted against a connection that is up; an attempt is left to a publish()
\* that waits; what mqtt.js holds has a client, what was written an attempt, what is stored
\* its one id.
RetryInv ==
  /\ \A s \in Sessions : failures[s] <= faults /\ (link[s] = "up" => failures[s] = 0)
  /\ \A p \in Publishes : /\ pc[p] = "ready" => attempt[p] = 0
                          /\ pc[p] = "backing" => attempt[p] < PUBLISH_ATTEMPTS
                          /\ pc[p] \in {"queued", "unacked", "backing"} => attempt[p] > 0
                          /\ pc[p] \in {"queued", "unacked"} => on[p] \in Sessions
  /\ \A w \in wire : attempt[w[1]] > 0
  /\ \A t \in taken : t = <<t[1], MsgId(t[1])>>

\* "So the gateway stores it once": whatever reports of failure, lost connections and
\* changes of session come between its attempts, a message is stored under one id.
StoredOnce == \A t, u \in taken : t[1] = u[1] => t = u

\* A client that lost an accepted connection waits for a draw of the first ceiling, one
\* whose connection was refused again for a draw of the next: the wait mqtt.js arms is
\* not the one of an earlier failure.
WaitsBackOff ==
  [][\A s \in Sessions :
       link[s] # "waiting" /\ link'[s] = "waiting" =>
         armed'[s] \in
           ReconnectDelays(IF link[s] = "up" THEN 1 ELSE failures[s] + 1, Base)]_vars

\* No draw of the jitter ends the reconnecting.
RetriesGoOn == \A s \in Sessions : link[s] = "waiting" ~> link[s] # "waiting"

\* disconnect() ended the client before it wrote the packet, or before the answer came, and
\* the callback of publish() never runs.
Forsaken(p) == \/ pc[p] = "queued" /\ link[on[p]] \in Leaving
               \/ pc[p] = "unacked" /\ link[on[p]] = "hung"

\* Every publish() settles, unless disconnect() takes its client away: it is not retried for
\* ever, and no lost or refused connection leaves it without an answer.
PublishSettles ==
  \A p \in Publishes : pc[p] \notin SettledPC ~> pc[p] \in SettledPC \/ Forsaken(p)

\* A caller of publish() sees its call, not its attempts; a call that mqtt.js never had is
\* refused.
StatusOf(state, attempts) ==
  CASE state \in {"queued", "unacked", "backing"} -> "pending"
    [] state = "done" -> "resolved"
    [] state = "failed" /\ attempts > 0 -> "rejected"
    [] state = "failed" /\ attempts = 0 -> "refused"
    [] OTHER -> "ready"

Status == [p \in Publishes |-> StatusOf(pc[p], attempt[p])]

Contract == INSTANCE Delivery WITH
  Confirmed <- Qos1 \ Large,
  Ids <- 1..PUBLISH_ATTEMPTS,
  status <- Status,
  log <- taken

\* Whatever sessions, faults and retries come between, a caller sees one delivery: stored
\* once at most, never for a call that was refused, and before a confirmed publish() resolves.
ImplementsDelivery == Contract!Spec
=============================================================================
