---------------------------- MODULE CredentialStore ----------------------------
(***************************************************************************)
(* What the CredentialStore contract of src/src/types.ts promises its      *)
(* users: one register that save(), clear() and load() act on atomically,  *)
(* at one moment between the call and its answer.  A save() or clear()     *)
(* that rejects had no effect; one that a stop of the process cut off had  *)
(* its effect or had none.                                                 *)
(*                                                                         *)
(* `durable` is what a loss of power leaves: some earlier content of the   *)
(* register, whole.  The words of the contract ask for more ("durable      *)
(* across power loss"); this is what a store that does not fsync the       *)
(* directory can give.                                                     *)
(*                                                                         *)
(* A save() call bears the name of the credential it saves.                *)
(***************************************************************************)
CONSTANTS Saves,         \* the invocations of save(), and their credentials
          Loads,         \* the invocations of load()
          Clears,        \* the invocations of clear()
          NoCredential   \* null

Mutators == Saves \cup Clears
Operations == Mutators \cup Loads

VARIABLES
  status,   \* of each call
  stored,   \* the register
  durable,  \* its content on the medium
  result    \* what each load() returns

vars == <<status, stored, durable, result>>

Values == Saves \cup {NoCredential}

Init ==
  /\ status = [o \in Operations |-> "ready"]
  /\ stored = NoCredential
  /\ durable = NoCredential
  /\ result = [l \in Loads |-> NoCredential]

Goes(o, from, to) ==
  /\ status[o] \in from
  /\ status' = [status EXCEPT ![o] = to]

Call(o) ==
  /\ Goes(o, {"ready"}, "pending")
  /\ UNCHANGED <<stored, durable, result>>

Takes(o) ==
  /\ Goes(o, {"pending"}, "effective")
  /\ \/ /\ o \in Mutators
        /\ stored' = IF o \in Saves THEN o ELSE NoCredential
        /\ UNCHANGED result
     \/ /\ o \in Loads
        /\ result' = [result EXCEPT ![o] = stored]
        /\ UNCHANGED stored
  /\ UNCHANGED durable

Resolve(o) ==
  /\ Goes(o, {"effective"}, "done")
  /\ UNCHANGED <<stored, durable, result>>

\* A load may fail in any of its steps, a save or a clear only with no effect.
Reject(o) ==
  /\ Goes(o, IF o \in Loads THEN {"pending", "effective"} ELSE {"pending"}, "failed")
  /\ UNCHANGED <<stored, durable, result>>

Persist ==
  /\ durable' = stored
  /\ UNCHANGED <<status, stored, result>>

Interrupted ==
  status' = [o \in Operations |-> IF status[o] \in {"pending", "effective"} THEN "lost"
                                                                            ELSE status[o]]

Crash ==
  /\ Interrupted
  /\ UNCHANGED <<stored, durable, result>>

PowerLoss ==
  /\ Interrupted
  /\ stored' = durable
  /\ UNCHANGED <<durable, result>>

Next ==
  \/ \E o \in Operations : Call(o) \/ Takes(o) \/ Resolve(o) \/ Reject(o)
  \/ Persist \/ Crash \/ PowerLoss

Spec == Init /\ [][Next]_vars
=============================================================================
