--------------------------- MODULE PublishingProofs ---------------------------
(***************************************************************************)
(* Theorems about Backoff and Publishing, for every value of the constants:*)
(* the bounds of a delay, what the gateway stores, what the retries wait   *)
(* for, and that Publishing implements Delivery.                           *)
(***************************************************************************)
EXTENDS Publishing, TLAPS

USE BackoffAssumption, PublishesAssumption, SessionsAssumption, NumbersAssumption

\* Every outcome of reconnectDelay() lies between the floor and the larger of the floor
\* and the cap, however many failures there were: it is never 0, which would end the
\* reconnecting.
THEOREM DelaysAreBounded ==
  ASSUME NEW attempt_ \in Nat, NEW base \in Nat \ {0},
         NEW delay \in ReconnectDelays(attempt_, base)
  PROVE  /\ delay \in Nat
         /\ RECONNECT_FLOOR_MS <= delay
         /\ delay <= Larger(RECONNECT_FLOOR_MS, RECONNECT_CAP_MS)
BY DEF ReconnectDelays, Draws, Larger

\* What arm() sets is a wait.
LEMMA WaitType ==
  ASSUME NEW count \in Nat, NEW wait \in ReconnectDelays(Larger(1, count), Base)
  PROVE  wait \in 1..MaxWait
<1>1. Larger(1, count) \in Nat
  BY DEF Larger
<1> QED BY <1>1, DelaysAreBounded DEF MaxWait, Larger

\* The initial state.
LEMMA InitInv == Init => TypeOK /\ RetryInv
<1> SUFFICES ASSUME Init PROVE TypeOK /\ RetryInv
  OBVIOUS
<1>1. Base \in 1..MaxWait
  BY DEF MaxWait, Larger
<1>2. TypeOK
  <2>1. taken \subseteq Publishes \X (1..PUBLISH_ATTEMPTS)
    BY DEF Init
  <2>2. /\ attempt \in [Publishes -> 0..PUBLISH_ATTEMPTS]
        /\ on \in [Publishes -> Sessions \cup {NoClient}]
    BY DEF Init
  <2>3. failures \in [Sessions -> 0..MaxFaults] /\ faults \in 0..MaxFaults
    BY DEF Init
  <2>4. period \in [Sessions -> 1..MaxWait] /\ armed \in [Sessions -> 1..MaxWait]
    BY <1>1 DEF Init
  <2> QED BY <2>1, <2>2, <2>3, <2>4 DEF Init, TypeOK, SettledPC
<1>3. RetryInv
  BY DEF Init, RetryInv
<1> QED BY <1>2, <1>3

\* A step of the session keeps the types and the invariant.
LEMMA SessionInv ==
  ASSUME TypeOK, RetryInv, NEW s \in Sessions,
         SessionStep(s)
  PROVE  TypeOK' /\ RetryInv'
<1> USE DEF RetryInv, publishVars, SettledPC, MsgId
<1>1. CASE OpenConnection(s) BY <1>1 DEF OpenConnection, TypeOK, Leaving
<1>2. CASE OnConnect(s)
  <2>1. period' \in [Sessions -> 1..MaxWait]
    <3>1. PICK wait \in ReconnectDelays(Larger(1, 0), Base) :
            period' = [period EXCEPT ![s] = wait]
      BY <1>2 DEF OnConnect, Armed
    <3>2. wait \in 1..MaxWait
      BY WaitType
    <3> QED BY <3>1, <3>2 DEF TypeOK
  <2>2. maxEventBytes' \in {"null", "low"}
    BY <1>2 DEF OnConnect, TypeOK
  <2>3. /\ link[s] = "opening"
        /\ link' = [link EXCEPT ![s] = "up"]
        /\ failures' = [failures EXCEPT ![s] = 0]
        /\ accepted' = accepted \cup {s}
        /\ advertises' \in {advertises \cup {s}, advertises \ {s}}
        /\ UNCHANGED <<client, armed, pc, attempt, on, wire, taken, faults>>
    BY <1>2 DEF OnConnect, FailuresAfterConnect
  <2>4. TypeOK'
    BY <2>1, <2>2, <2>3 DEF TypeOK
  <2>5. RetryInv'
    BY <2>3 DEF TypeOK
  <2> QED BY <2>4, <2>5
<1>3. CASE OnClose(s)
  <2>1. period' \in [Sessions -> 1..MaxWait]
    <3>1. PICK wait \in ReconnectDelays(Larger(1, failures[s] + 1), Base) :
            period' = [period EXCEPT ![s] = wait]
      BY <1>3 DEF OnClose, Armed
    <3>2. failures[s] + 1 \in Nat
      BY DEF TypeOK
    <3>3. wait \in 1..MaxWait
      BY <3>2, WaitType
    <3> QED BY <3>1, <3>3 DEF TypeOK
  <2>2. armed' \in [Sessions -> 1..MaxWait]
    BY <1>3, <2>1 DEF OnClose, ArmedByMqtt, TypeOK
  <2>3. TypeOK'
    <3>1. failures' \in [Sessions -> 0..MaxFaults] /\ faults' \in 0..MaxFaults
      BY <1>3 DEF OnClose, TypeOK
    <3>2. pc' \in [Publishes -> {"queued", "unacked", "backing"} \cup SettledPC]
      BY <1>3 DEF OnClose, Requeued, TypeOK
    <3>3. link' \in [Sessions -> {"none", "opening", "up", "waiting"} \cup Leaving]
      BY <1>3 DEF OnClose, TypeOK
    <3> QED BY <1>3, <2>1, <2>2, <3>1, <3>2, <3>3 DEF OnClose, TypeOK
  <2>4. RetryInv'
    <3>1. /\ link' = [link EXCEPT ![s] = "waiting"]
          /\ failures' = [failures EXCEPT ![s] = failures[s] + 1]
          /\ faults' = faults + 1
          /\ pc' = Requeued(s)
          /\ UNCHANGED <<attempt, on, wire, taken>>
      BY <1>3 DEF OnClose
    <3>2. \A i \in Sessions : failures'[i] <= faults' /\ (link'[i] = "up" => failures'[i] = 0)
      BY <3>1 DEF TypeOK
    <3>3. ASSUME NEW p \in Publishes
          PROVE  pc'[p] = pc[p] \/ (pc[p] = "unacked" /\ pc'[p] = "queued")
      BY <3>1 DEF Requeued
    <3>4. \A p \in Publishes : /\ pc'[p] = "ready" => attempt'[p] = 0
                               /\ pc'[p] = "backing" => attempt'[p] < PUBLISH_ATTEMPTS
                               /\ pc'[p] \in {"queued", "unacked", "backing"} => attempt'[p] > 0
                               /\ pc'[p] \in {"queued", "unacked"} => on'[p] \in Sessions
      BY <3>1, <3>3
    <3> QED BY <3>1, <3>2, <3>4
  <2> QED BY <2>3, <2>4
<1>4. CASE OnReconnect(s) BY <1>4 DEF OnReconnect, TypeOK
<1>5. CASE Disconnect(s) BY <1>5 DEF Disconnect, EndedOrHung, Leaving, TypeOK
<1>6. CASE Drained(s) BY <1>6 DEF Drained, Leaving, TypeOK
<1>7. CASE CutOff(s) BY <1>7 DEF CutOff, EndedOrHung, Leaving, TypeOK
<1>8. CASE Disconnected(s) BY <1>8 DEF Disconnected, TypeOK
<1> QED BY <1>1, <1>2, <1>3, <1>4, <1>5, <1>6, <1>7, <1>8 DEF SessionStep

\* A step of a publish() keeps them.
LEMMA PublishInv ==
  ASSUME TypeOK, RetryInv, NEW p \in Publishes, PublishStep(p)
  PROVE  TypeOK' /\ RetryInv'
<1> USE DEF TypeOK, RetryInv, sessionVars, publishVars, SettledPC, MsgId, Goes
<1>1. CASE Publish(p) BY <1>1 DEF Publish, Refuse, Send, Hand, NoSession
<1>2. CASE Resend(p) BY <1>2 DEF Resend, Refuse, Send, Hand, NoSession
<1>3. CASE Transmit(p) BY <1>3 DEF Transmit, Hand
<1>4. ASSUME NEW s \in Sessions, Take(p, s) PROVE TypeOK' /\ RetryInv'
  BY <1>4 DEF Take
<1>5. CASE Acknowledge(p) BY <1>5 DEF Acknowledge, Answered
<1>6. CASE FailedPuback(p) BY <1>6 DEF FailedPuback, Answered, AfterFailedPuback
<1> QED BY <1>1, <1>2, <1>3, <1>4, <1>5, <1>6 DEF PublishStep

\* Types and invariant are inductive together.
THEOREM RetryInvariant == Spec => [](TypeOK /\ RetryInv)
<1>1. TypeOK /\ RetryInv /\ [Next]_vars => TypeOK' /\ RetryInv'
  <2> SUFFICES ASSUME TypeOK, RetryInv, [Next]_vars PROVE TypeOK' /\ RetryInv'
    OBVIOUS
  <2>1. CASE UNCHANGED vars
    BY <2>1 DEF vars, sessionVars, publishVars, TypeOK, RetryInv, MsgId
  <2>2. CASE Next
    BY <2>2, SessionInv, PublishInv DEF Next
  <2> QED BY <2>1, <2>2
<1> QED BY InitInv, <1>1, PTL DEF Spec

\* However often a message is published again, on whatever session, the gateway stores
\* it once (withMsgId() outside the loop of publish()).
THEOREM MessagesAreStoredOnce == Spec => []StoredOnce
<1>1. TypeOK /\ RetryInv => StoredOnce
  BY DEF TypeOK, RetryInv, StoredOnce
<1> QED BY RetryInvariant, <1>1, PTL

\* A publish() that waits is on a client that opens, or is up, or has its retry timer armed
\* with a wait mqtt.js does not take for "none", or that disconnect() took away; one that
\* waits for an answer was written, on a connection that lasts, or was cut off while
\* disconnect() waited for that answer; one that backs off has an attempt left.  And a
\* disconnect() that came back has left no QoS 1 publish() without an answer.
NobodyIsStranded ==
  \A p \in Publishes :
    /\ pc[p] = "queued" => \/ link[on[p]] \in {"opening", "up"}
                           \/ link[on[p]] = "waiting" /\ armed[on[p]] > 0
                           \/ Forsaken(p)
    /\ pc[p] = "unacked" => /\ <<p, on[p]>> \in wire
                            /\ Answered(p) \/ Forsaken(p)
    /\ pc[p] = "backing" => attempt[p] < PUBLISH_ATTEMPTS
    /\ p \in Qos1 /\ pc[p] \in {"queued", "unacked"} => link[on[p]] # "ended"

\* The clients that are held, or publish() handed a packet to, are those that opened; a
\* packet without its answer was written, and its connection lasts unless disconnect()
\* hangs; no client ends before its QoS 1 packets are answered.
ServedInv ==
  /\ client # NoClient => link[client] # "none"
  /\ \A p \in Publishes :
       /\ pc[p] = "queued" => link[on[p]] # "none"
       /\ pc[p] = "unacked" => /\ p \in Qos1
                               /\ <<p, on[p]>> \in wire
                               /\ link[on[p]] \in {"up", "draining", "hung"}
       /\ p \in Qos1 /\ pc[p] = "queued" => link[on[p]] # "ended"

\* No publish() waits for an answer that cannot come, whatever sessions come and go, unless
\* disconnect() took its client away.
THEOREM PublishesAreServed == Spec => []NobodyIsStranded
<1>1. Init => ServedInv
  BY DEF Init, ServedInv
<1>2. TypeOK /\ RetryInv /\ ServedInv /\ [Next]_vars => ServedInv'
  <2> SUFFICES ASSUME TypeOK, RetryInv, ServedInv, [Next]_vars PROVE ServedInv'
    OBVIOUS
  <2> USE DEF TypeOK, RetryInv, ServedInv, sessionVars, publishVars, Goes, Leaving
  <2>1. ASSUME NEW s \in Sessions, OpenConnection(s) \/ OnConnect(s) \/ OnReconnect(s)
        PROVE  ServedInv'
    BY <2>1 DEF OpenConnection, OnConnect, OnReconnect
  <2>2. ASSUME NEW s \in Sessions, OnClose(s) PROVE ServedInv'
    BY <2>2 DEF OnClose, Requeued
  <2>3. ASSUME NEW s \in Sessions, Disconnect(s) PROVE ServedInv'
    BY <2>3 DEF Disconnect, EndedOrHung, Outstanding
  <2>4. ASSUME NEW s \in Sessions, Drained(s) PROVE ServedInv'
    BY <2>4 DEF Drained, Outstanding
  <2>5. ASSUME NEW s \in Sessions, CutOff(s) PROVE ServedInv'
    BY <2>5 DEF CutOff, EndedOrHung, Outstanding
  <2>6. ASSUME NEW s \in Sessions, Disconnected(s) PROVE ServedInv'
    BY <2>6 DEF Disconnected
  <2>7. ASSUME NEW p \in Publishes, Publish(p) \/ Resend(p) \/ Transmit(p)
        PROVE  ServedInv'
    BY <2>7 DEF Publish, Resend, Transmit, Refuse, Send, Hand, NoSession
  <2>8. ASSUME NEW p \in Publishes,
               (\E s \in Sessions : Take(p, s)) \/ Acknowledge(p) \/ FailedPuback(p)
        PROVE  ServedInv'
    BY <2>8 DEF Take, Acknowledge, FailedPuback, AfterFailedPuback
  <2>9. CASE UNCHANGED vars
    BY <2>9 DEF vars
  <2> QED
    BY <2>1, <2>2, <2>3, <2>4, <2>5, <2>6, <2>7, <2>8, <2>9 DEF Next, SessionStep, PublishStep
<1>3. TypeOK /\ RetryInv /\ ServedInv => NobodyIsStranded
  BY DEF TypeOK, RetryInv, ServedInv, NobodyIsStranded, Forsaken, Answered, Leaving
<1> QED BY <1>1, <1>2, <1>3, RetryInvariant, PTL DEF Spec

\* The wait mqtt.js arms after a close is a draw for that close.
THEOREM WaitsFollowTheFailures == Spec => WaitsBackOff
<1> DEFINE Waits ==
      \A s \in Sessions :
        link[s] # "waiting" /\ link'[s] = "waiting" =>
          armed'[s] \in ReconnectDelays(IF link[s] = "up" THEN 1 ELSE failures[s] + 1, Base)
<1>1. TypeOK /\ RetryInv /\ [Next]_vars => [Waits]_vars
  <2> SUFFICES ASSUME TypeOK, RetryInv, Next,
                      NEW s \in Sessions, link[s] # "waiting", link'[s] = "waiting"
               PROVE  armed'[s] \in
                        ReconnectDelays(IF link[s] = "up" THEN 1 ELSE failures[s] + 1, Base)
    OBVIOUS
  <2>1. OnClose(s)
    <3>1. ASSUME NEW i \in Sessions, OnClose(i) PROVE i = s
      BY <3>1 DEF OnClose, TypeOK
    <3>2. ASSUME NEW i \in Sessions, SessionStep(i) PROVE OnClose(i)
      BY <3>2 DEF SessionStep, TypeOK, OpenConnection, OnConnect, OnReconnect, Disconnect,
             Drained, CutOff, EndedOrHung, Disconnected
    <3>3. ASSUME NEW p \in Publishes, PublishStep(p) PROVE link' = link
      BY <3>3 DEF PublishStep, Publish, Resend, Transmit, Take, Acknowledge, FailedPuback,
             sessionVars
    <3> QED BY <3>1, <3>2, <3>3 DEF Next
  <2>2. PICK wait \in ReconnectDelays(Larger(1, failures[s] + 1), Base) :
          period' = [period EXCEPT ![s] = wait]
    BY <2>1 DEF OnClose, Armed
  <2>3. armed'[s] = wait
    BY <2>1, <2>2 DEF OnClose, ArmedByMqtt, TypeOK
  <2>4. Larger(1, failures[s] + 1) = IF link[s] = "up" THEN 1 ELSE failures[s] + 1
    BY DEF TypeOK, RetryInv, Larger
  <2> QED BY <2>2, <2>3, <2>4
<1>2. Spec => [][Waits]_vars
  BY <1>1, RetryInvariant, PTL DEF Spec
<1> QED BY <1>2 DEF WaitsBackOff

-----------------------------------------------------------------------------
(***************************************************************************)
(* publish() keeps the promise of Delivery.                                *)
(***************************************************************************)

\* One call moves as its status does.
LEMMA StatusMoves ==
  ASSUME TypeOK, NEW p \in Publishes, NEW to, Goes(p, to),
         attempt' = attempt \/ \E n : attempt' = [attempt EXCEPT ![p] = n]
  PROVE  Status' = [Status EXCEPT ![p] = StatusOf(to, attempt'[p])]
BY DEF TypeOK, Goes, Status

\* What a session does, a caller of publish() does not see.
LEMMA SessionImplements ==
  ASSUME TypeOK, NEW s \in Sessions, SessionStep(s)
  PROVE  UNCHANGED Contract!vars
<1> USE DEF Contract!vars, Status, publishVars
<1>1. CASE OnClose(s)
  <2>1. pc' = Requeued(s) /\ attempt' = attempt /\ taken' = taken
    BY <1>1 DEF OnClose
  <2>2. ASSUME NEW p \in Publishes
        PROVE  StatusOf(pc'[p], attempt'[p]) = StatusOf(pc[p], attempt[p])
    BY <2>1 DEF Requeued, StatusOf
  <2> QED BY <2>1, <2>2
<1> QED BY <1>1 DEF SessionStep, OpenConnection, OnConnect, OnReconnect, Disconnect, Drained,
           CutOff, Disconnected

\* What publish() does with a packet: it is queued, or written, or refused.
LEMMA SendMoves ==
  ASSUME TypeOK, NEW p \in Publishes, Send(p)
  PROVE  \/ Goes(p, "failed") /\ attempt' = attempt
         \/ /\ \E to \in {"queued", "unacked"} : Goes(p, to)
            /\ attempt' = [attempt EXCEPT ![p] = attempt[p] + 1]
         \/ /\ p \notin Qos1 /\ Goes(p, "done")
            /\ attempt' = [attempt EXCEPT ![p] = attempt[p] + 1]
BY DEF Send, Refuse, Hand

\* The first attempt calls, or is refused; a QoS 0 one may be over with it.
LEMMA PublishImplements ==
  ASSUME TypeOK, RetryInv, NEW p \in Publishes, Publish(p)
  PROVE  Contract!Next
<1>1. taken' = taken /\ Status[p] = "ready" /\ attempt[p] = 0
  BY DEF Publish, Status, StatusOf, RetryInv
<1>2. \/ Goes(p, "failed") /\ attempt' = attempt
      \/ /\ \E to \in {"queued", "unacked"} : Goes(p, to)
         /\ attempt' = [attempt EXCEPT ![p] = attempt[p] + 1]
      \/ /\ p \notin Qos1 /\ Goes(p, "done")
         /\ attempt' = [attempt EXCEPT ![p] = attempt[p] + 1]
  BY SendMoves DEF Publish, Refuse
<1>3. CASE Goes(p, "failed") /\ attempt' = attempt
  <2>1. Status' = [Status EXCEPT ![p] = "refused"]
    BY <1>1, <1>3, StatusMoves DEF StatusOf
  <2>2. Contract!Refuse(p)
    BY <1>1, <2>1 DEF Contract!Refuse, Contract!Settles
  <2> QED BY <2>2 DEF Contract!Next
<1>4. ASSUME NEW to \in {"queued", "unacked"}, Goes(p, to),
             attempt' = [attempt EXCEPT ![p] = attempt[p] + 1]
      PROVE  Contract!Next
  <2>1. Status' = [Status EXCEPT ![p] = "pending"]
    BY <1>1, <1>4, StatusMoves DEF StatusOf
  <2>2. Contract!Call(p)
    BY <1>1, <2>1 DEF Contract!Call, Contract!Settles
  <2> QED BY <2>2 DEF Contract!Next
<1>5. CASE /\ p \notin Qos1 /\ Goes(p, "done")
           /\ attempt' = [attempt EXCEPT ![p] = attempt[p] + 1]
  <2>1. Status' = [Status EXCEPT ![p] = "resolved"]
    BY <1>1, <1>5, StatusMoves DEF StatusOf
  <2>2. Contract!Resolve(p)
    BY <1>1, <1>5, <2>1 DEF Contract!Resolve, Contract!Settles
  <2> QED BY <2>2 DEF Contract!Next
<1> QED BY <1>2, <1>3, <1>4, <1>5

\* A later one, of a call with attempts behind it, leaves it pending, or resolves it, or
\* rejects it.
LEMMA ResendImplements ==
  ASSUME TypeOK, RetryInv, NEW p \in Publishes, Resend(p) \/ Transmit(p)
  PROVE  [Contract!Next]_(Contract!vars)
<1>1. /\ taken' = taken /\ Status[p] = "pending" /\ attempt[p] \in Nat \ {0}
      /\ pc[p] \in {"queued", "backing"}
  BY DEF Resend, Transmit, Status, StatusOf, RetryInv, TypeOK
<1>2. \/ Goes(p, "failed") /\ attempt' = attempt
      \/ \E to \in {"queued", "unacked"} : Goes(p, to)
      \/ p \notin Qos1 /\ Goes(p, "done")
  BY SendMoves DEF Resend, Transmit, Hand
<1>3. attempt' = attempt \/ attempt' = [attempt EXCEPT ![p] = attempt[p] + 1]
  BY SendMoves DEF Resend, Transmit
<1>4. \A to : Goes(p, to) => Status' = [Status EXCEPT ![p] = StatusOf(to, attempt'[p])]
  BY <1>1, <1>3, StatusMoves
<1>5. CASE Goes(p, "failed")
  <2>1. attempt'[p] > 0
    BY <1>1, <1>3 DEF TypeOK
  <2>2. Status' = [Status EXCEPT ![p] = "rejected"]
    BY <1>4, <1>5, <2>1 DEF StatusOf
  <2>3. Contract!Reject(p)
    BY <1>1, <2>2 DEF Contract!Reject, Contract!Settles
  <2> QED BY <2>3 DEF Contract!Next
<1>6. ASSUME NEW to \in {"queued", "unacked"}, Goes(p, to)
      PROVE  UNCHANGED Contract!vars
  <2>1. Status' = [Status EXCEPT ![p] = "pending"]
    BY <1>4, <1>6 DEF StatusOf
  <2> QED BY <1>1, <2>1 DEF Contract!vars, Status
<1>7. CASE p \notin Qos1 /\ Goes(p, "done")
  <2>1. Status' = [Status EXCEPT ![p] = "resolved"]
    BY <1>4, <1>7 DEF StatusOf
  <2>2. Contract!Resolve(p)
    BY <1>1, <1>7, <2>1 DEF Contract!Resolve, Contract!Settles
  <2> QED BY <2>2 DEF Contract!Next
<1> QED BY <1>2, <1>5, <1>6, <1>7

\* The gateway stores a message once, from its call on.
LEMMA TakeImplements ==
  ASSUME TypeOK, RetryInv, NEW p \in Publishes, NEW s \in Sessions, Take(p, s)
  PROVE  [Contract!Next]_(Contract!vars)
<1>1. Status' = Status
  BY DEF Take, publishVars, Status
<1>2. Status[p] \notin {"ready", "refused"}
  <2>1. attempt[p] > 0 /\ pc[p] # "ready"
    BY DEF Take, RetryInv, TypeOK
  <2> QED BY <2>1 DEF TypeOK, SettledPC, Status, StatusOf
<1>3. taken' = taken \cup {<<p, 1>>} /\ \A m \in taken : m[1] = p => m = <<p, 1>>
  BY DEF Take, RetryInv, MsgId
<1>4. CASE <<p, 1>> \in taken
  BY <1>1, <1>3, <1>4 DEF Contract!vars
<1>5. CASE <<p, 1>> \notin taken
  <2>1. 1 \in 1..PUBLISH_ATTEMPTS
    OBVIOUS
  <2>2. Contract!Store(p)
    BY <1>1, <1>2, <1>3, <1>5, <2>1 DEF Contract!Store, Contract!Stored
  <2> QED BY <2>2 DEF Contract!Next
<1> QED BY <1>4, <1>5

\* A PUBACK settles the call, or leaves it pending for another attempt.
LEMMA SettleImplements ==
  ASSUME TypeOK, RetryInv, NEW p \in Publishes, Acknowledge(p) \/ FailedPuback(p)
  PROVE  [Contract!Next]_(Contract!vars)
<1>1. /\ taken' = taken /\ attempt' = attempt
      /\ Status[p] = "pending" /\ attempt[p] \in Nat \ {0}
  BY DEF Acknowledge, FailedPuback, Answered, Status, StatusOf, TypeOK, RetryInv
<1>2. CASE Acknowledge(p)
  <2>1. Status' = [Status EXCEPT ![p] = "resolved"]
    BY <1>1, <1>2, StatusMoves DEF Acknowledge, StatusOf
  <2>2. p \in Qos1 \ Large => \E m \in taken : m[1] = p
    BY <1>2 DEF Acknowledge, Drops
  <2>3. Contract!Resolve(p)
    BY <1>1, <2>1, <2>2 DEF Contract!Resolve, Contract!Settles, Contract!Stored
  <2> QED BY <2>3 DEF Contract!Next
<1>3. CASE Goes(p, "failed")
  <2>1. Status' = [Status EXCEPT ![p] = "rejected"]
    BY <1>1, <1>3, StatusMoves DEF StatusOf
  <2>2. Contract!Reject(p)
    BY <1>1, <2>1 DEF Contract!Reject, Contract!Settles
  <2> QED BY <2>2 DEF Contract!Next
<1>4. CASE Goes(p, "backing")
  <2>1. Status' = [Status EXCEPT ![p] = "pending"]
    BY <1>1, <1>4, StatusMoves DEF StatusOf
  <2> QED BY <1>1, <2>1 DEF Contract!vars, Status
<1> QED BY <1>2, <1>3, <1>4 DEF FailedPuback, AfterFailedPuback

\* Over any number of sessions, lost connections and failed acknowledgements, publish() is
\* one delivery: the message is stored at most once, never for a call that was refused, and
\* before a confirmed call resolves.
THEOREM PublishingImplements == Spec => ImplementsDelivery
<1>1. Init => Contract!Init
  BY DEF Init, Contract!Init, Status, StatusOf
<1>2. TypeOK /\ RetryInv /\ [Next]_vars => [Contract!Next]_(Contract!vars)
  <2> SUFFICES ASSUME TypeOK, RetryInv, [Next]_vars PROVE [Contract!Next]_(Contract!vars)
    OBVIOUS
  <2>1. CASE UNCHANGED vars
    BY <2>1 DEF vars, publishVars, Contract!vars, Status
  <2>2. CASE Next
    BY <2>2, SessionImplements, PublishImplements, ResendImplements, TakeImplements,
       SettleImplements DEF Next, PublishStep
  <2> QED BY <2>1, <2>2
<1> QED BY <1>1, <1>2, RetryInvariant, PTL DEF Spec, ImplementsDelivery, Contract!Spec
=============================================================================
