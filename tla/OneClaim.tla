-------------------------------- MODULE OneClaim --------------------------------
(***************************************************************************)
(* What ProvisioningServer of src/src/provision-server.ts promises the     *)
(* application that runs it: the claim endpoint opens only while nothing   *)
(* is stored; one claim is stored, ever; the endpoint closes, and the      *)
(* stored credential, no other, goes to onProvisioned, once.               *)
(*                                                                         *)
(* An onboarding stores off its setup network and hands over in the same   *)
(* breath.  A restart of the process closes the endpoint, and a save it    *)
(* cut off took effect or not.                                             *)
(***************************************************************************)
CONSTANTS Requests,     \* the claims, and the credentials they bring
          NoCredential  \* the store holds nothing

VARIABLES
  open,     \* the claim endpoint accepts requests
  store,    \* the credential store
  handed    \* credentials given to onProvisioned

vars == <<open, store, handed>>

Init ==
  /\ open = FALSE
  /\ store = NoCredential
  /\ handed = {}

Open ==
  /\ ~open /\ store = NoCredential
  /\ open' = TRUE
  /\ UNCHANGED <<store, handed>>

Close ==
  /\ open' = FALSE
  /\ UNCHANGED <<store, handed>>

Save(r) ==
  /\ store = NoCredential
  /\ store' = r
  /\ \/ UNCHANGED handed
     \/ ~open /\ handed = {} /\ handed' = {r}
  /\ UNCHANGED open

HandOver ==
  /\ ~open /\ store # NoCredential /\ handed = {}
  /\ handed' = {store}
  /\ UNCHANGED <<open, store>>

Restart ==
  /\ open' = FALSE
  /\ \/ UNCHANGED store
     \/ store = NoCredential /\ store' \in Requests
  /\ UNCHANGED handed

Next == Open \/ Close \/ HandOver \/ Restart \/ \E r \in Requests : Save(r)

Spec == Init /\ [][Next]_vars
=============================================================================
