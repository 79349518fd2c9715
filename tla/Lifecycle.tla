-------------------------------- MODULE Lifecycle --------------------------------
(***************************************************************************)
(* The life of a Device of src/src/device.ts as the application sees it:   *)
(* the states ConnectionState of src/src/types.ts documents and the steps  *)
(* between them, for an application that awaits each of its calls.  One    *)
(* client at a time is held, from the opening of a connect() call to the   *)
(* end of the disconnect() call, or to the failure, that lets it go.       *)
(*                                                                         *)
(* A client that was ended may still connect, and close late, and the      *)
(* state then says "connected" whatever it said, or "reconnecting"         *)
(* whatever it said but "closed"; this the documentation does not tell.    *)
(***************************************************************************)
CONSTANTS Calls,     \* the invocations of connect(), and their clients
          NoClient   \* the Device holds none

VARIABLES
  state,        \* what the application is shown
  client,       \* the client held
  session,      \* its life
  status,       \* of each connect() call
  leftovers,    \* clients let go that have not closed
  provisioned   \* a credential is stored

vars == <<state, client, session, status, leftovers, provisioned>>

UnderWay == {"provisioning", "opening", "opened"}
Idle == \A c \in Calls : status[c] \notin UnderWay

Init ==
  /\ state = "idle"
  /\ client = NoClient
  /\ session = "none"
  /\ status = [c \in Calls |-> "ready"]
  /\ leftovers = {}
  /\ provisioned \in BOOLEAN

Goes(c, from, to) ==
  /\ status[c] = from
  /\ status' = [status EXCEPT ![c] = to]

Shows(s) == state' = s

Connect(c) ==
  /\ Idle /\ client = NoClient
  /\ Goes(c, "ready", "provisioning")
  /\ UNCHANGED <<state, client, session, leftovers, provisioned>>

\* First boot only.
Provision(c) ==
  /\ ~provisioned
  /\ status[c] = "provisioning"
  /\ Shows("provisioning")
  /\ UNCHANGED <<client, session, status, leftovers, provisioned>>

\* A session opens on a stored credential; one that names no gateway opens none.
Open(c) ==
  /\ client = NoClient
  /\ Shows("connecting")
  /\ provisioned' = TRUE
  /\ \/ /\ Goes(c, "provisioning", "opening")
        /\ client' = c
        /\ session' = "opening"
     \/ /\ Goes(c, "provisioning", "rejected")
        /\ UNCHANGED <<client, session>>
  /\ UNCHANGED leftovers

\* The first connection of a client opens the call that waits for it.
Up ==
  /\ session = "opening"
  /\ session' = "up"
  /\ Shows("connected")
  /\ status' = [status EXCEPT ![client] = IF @ = "opening" THEN "opened" ELSE @]
  /\ UNCHANGED <<client, leftovers, provisioned>>

\* A call that waits for its subscription rejects with the loss of its session.
Lose ==
  /\ session \in {"opening", "up"}
  /\ session' = "lost"
  /\ Shows("reconnecting")
  /\ \/ UNCHANGED status
     \/ Goes(client, "opened", "rejected")
  /\ UNCHANGED <<client, leftovers, provisioned>>

Retry ==
  /\ session = "lost"
  /\ session' = "opening"
  /\ Shows("reconnecting")
  /\ UNCHANGED <<client, status, leftovers, provisioned>>

Resolve(c) ==
  /\ Goes(c, "opened", "resolved")
  /\ UNCHANGED <<state, client, session, leftovers, provisioned>>

\* Before its session opened, or after, a call rejects and changes nothing.
Reject(c) ==
  /\ Goes(c, "provisioning", "rejected") \/ Goes(c, "opened", "rejected")
  /\ UNCHANGED <<state, client, session, leftovers, provisioned>>

LetGo ==
  /\ client' = NoClient
  /\ session' = "none"
  /\ leftovers' \in {leftovers, leftovers \cup {client}}

\* A refused first connection lets its client go.
Refuse(c) ==
  /\ client = c
  /\ Goes(c, "opening", "rejected")
  /\ Shows("idle")
  /\ LetGo
  /\ UNCHANGED provisioned

ShowsClose == Shows(IF state = "closed" THEN "closed" ELSE "reconnecting")

LateClose(c) ==
  /\ c \in leftovers
  /\ leftovers' = leftovers \ {c}
  /\ ShowsClose
  /\ UNCHANGED <<client, session, status, provisioned>>

\* The connection, and the close, of a client that disconnect() has ended or ends.
LateOpen ==
  /\ session = "ending" \/ leftovers # {}
  /\ Shows("connected")
  /\ UNCHANGED <<client, session, status, leftovers, provisioned>>

EndingClose ==
  /\ session = "ending"
  /\ ShowsClose
  /\ UNCHANGED <<client, session, status, leftovers, provisioned>>

Disconnect ==
  /\ Idle /\ session # "ending"
  /\ Shows("closed")
  /\ session' = IF client = NoClient THEN "none" ELSE "ending"
  /\ UNCHANGED <<client, status, leftovers, provisioned>>

Disconnected ==
  /\ session = "ending"
  /\ LetGo
  /\ UNCHANGED <<state, status, provisioned>>

\* A restart; a claim in progress may have been stored.
Restart ==
  /\ Shows("idle")
  /\ client' = NoClient
  /\ session' = "none"
  /\ status' = [c \in Calls |-> IF status[c] \in UnderWay THEN "lost" ELSE status[c]]
  /\ leftovers' = {}
  /\ \/ UNCHANGED provisioned
     \/ provisioned' = TRUE /\ \E c \in Calls : status[c] = "provisioning"

Next ==
  \/ \E c \in Calls : \/ Connect(c) \/ Provision(c) \/ Open(c) \/ Resolve(c) \/ Reject(c)
                      \/ Refuse(c) \/ LateClose(c)
  \/ Up \/ Lose \/ Retry \/ LateOpen \/ EndingClose \/ Disconnect \/ Disconnected \/ Restart

Spec == Init /\ [][Next]_vars
=============================================================================
