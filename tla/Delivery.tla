-------------------------------- MODULE Delivery --------------------------------
(***************************************************************************)
(* What publish() of src/src/device.ts promises its callers: a call that   *)
(* is not refused at once is pending until it resolves or rejects, once;   *)
(* from the call on the gateway may store its message, while it is pending *)
(* or later, and it stores it once; a confirmed publish resolves only when *)
(* the message is stored.  One that rejects may have been stored, or be    *)
(* stored yet: the failed PUBACK, or the end of the session, does not      *)
(* tell.  A call that is refused, without a session or for its size, is    *)
(* never stored.                                                           *)
(*                                                                         *)
(* Sessions, connections, attempts and waits are not part of the promise.  *)
(***************************************************************************)
CONSTANTS Publishes,   \* the invocations of publish()
          Confirmed,   \* QoS 1, of a payload that no gateway drops for its size
          Ids          \* message ids

VARIABLES
  status,   \* of each call
  log       \* the gateway: <<publish, id>> of each message it stored

vars == <<status, log>>

Init ==
  /\ status = [p \in Publishes |-> "ready"]
  /\ log = {}

Stored(p) == \E m \in log : m[1] = p

Settles(p, from, to) ==
  /\ status[p] \in from
  /\ status' = [status EXCEPT ![p] = to]
  /\ UNCHANGED log

Call(p) == Settles(p, {"ready"}, "pending")

Refuse(p) == Settles(p, {"ready"}, "refused")

Store(p) ==
  /\ status[p] \notin {"ready", "refused"}
  /\ ~Stored(p)
  /\ \E id \in Ids : log' = log \cup {<<p, id>>}
  /\ UNCHANGED status

\* A QoS 0 message may be written within the call.
Resolve(p) ==
  /\ p \in Confirmed => Stored(p)
  /\ Settles(p, {"ready", "pending"}, "resolved")

Reject(p) == Settles(p, {"pending"}, "rejected")

Next == \E p \in Publishes : Call(p) \/ Refuse(p) \/ Store(p) \/ Resolve(p) \/ Reject(p)

Spec == Init /\ [][Next]_vars
=============================================================================
