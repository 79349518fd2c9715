------------------------------- MODULE FileStore -------------------------------
(***************************************************************************)
(* createFileCredentialStore() of src/src/store.ts over a POSIX file       *)
(* system: save() writes a temporary file, fsyncs it and renames it onto   *)
(* the credential file; load() opens and reads; clear() unlinks.  Each     *)
(* await is a step of its own, and the process, or the power, may go       *)
(* between any two.                                                        *)
(*                                                                         *)
(* The file system serves from its cache: a rename is on the medium when   *)
(* the directory is written back, which this code never asks for, and the  *)
(* content of a file when it was fsynced.  A file is named by the save()   *)
(* that created it, and stays readable through an open handle.             *)
(***************************************************************************)
EXTENDS Naturals, FiniteSets

CONSTANTS Saves, Loads, Clears, NoCredential,  \* as in CredentialStore
          MaxFaults,   \* bound: failed system calls
          MaxStops     \* bound: stops of the process, with or without the power

Mutators == Saves \cup Clears
Operations == Mutators \cup Loads
Values == Saves \cup {NoCredential}

ASSUME OperationsAssumption == /\ NoCredential \notin Saves
                               /\ Loads \cap Mutators = {}
                               /\ Saves \cap Clears = {}
ASSUME BoundsAssumption == MaxFaults \in Nat /\ MaxStops \in Nat

VARIABLES
  pc,       \* where each call is suspended
  handle,   \* the file a load() opened
  result,   \* the credential a load() read
  target,   \* the file under the credential path, in the cache (NoCredential: none)
  onDisk,   \* the same, on the medium
  content,  \* of each file: "none", "part", or the credential it holds whole
  synced,   \* files whose content is on the medium
  faults, stops

vars == <<pc, handle, result, target, onDisk, content, synced, faults, stops>>
callVars == <<pc, handle, result>>
fileVars == <<content, synced>>

Partial == {"none", "part"}
ASSUME ContentAssumption == Partial \cap Saves = {}

SavePC    == {"opening", "writing", "syncing", "renaming"}
SettledPC == {"ready", "done", "failed", "lost"}
OperationState == SavePC \cup SettledPC \cup {"called", "reading", "effective"}

Unsettled(o) == pc[o] \notin SettledPC

Init ==
  /\ pc = [o \in Operations |-> "ready"]
  /\ handle = [l \in Loads |-> NoCredential]
  /\ result = [l \in Loads |-> NoCredential]
  /\ target = NoCredential
  /\ onDisk = NoCredential
  /\ content = [s \in Saves |-> "none"]
  /\ synced = {}
  /\ faults = 0
  /\ stops = 0

Goes(o, from, to) ==
  /\ pc[o] = from
  /\ pc' = [pc EXCEPT ![o] = to]

-----------------------------------------------------------------------------
Call(o) ==
  /\ Goes(o, "ready", IF o \in Saves THEN "opening" ELSE "called")
  /\ UNCHANGED <<handle, result, target, onDisk, fileVars, faults, stops>>

\* The temporary file of a save(): its name has a random part.
OneTemp(s) == CHOOSE any \in Saves : TRUE
Temp(s) == s

\* mkdir() and open(tmp, "w").
Open(s) ==
  /\ Goes(s, "opening", "writing")
  /\ content' = [content EXCEPT ![Temp(s)] = "none"]
  /\ synced' = synced \ {Temp(s)}
  /\ UNCHANGED <<handle, result, target, onDisk, faults, stops>>

\* writeFile() takes as many writes as it needs.
WritePart(s) ==
  /\ pc[s] = "writing"
  /\ content' = [content EXCEPT ![Temp(s)] = "part"]
  /\ UNCHANGED <<callVars, target, onDisk, synced, faults, stops>>

Written(s) ==
  /\ Goes(s, "writing", "syncing")
  /\ content' = [content EXCEPT ![Temp(s)] = s]
  /\ UNCHANGED <<handle, result, target, onDisk, synced, faults, stops>>

\* sync() and close().
Synced(s) ==
  /\ Goes(s, "syncing", "renaming")
  /\ synced' = synced \cup {Temp(s)}
  /\ UNCHANGED <<handle, result, target, onDisk, content, faults, stops>>

Renamed(s) ==
  /\ Goes(s, "renaming", "effective")
  /\ target' = Temp(s)
  /\ UNCHANGED <<handle, result, onDisk, content, synced, faults, stops>>

\* Any of the calls of save() may fail, the rename included.
SaveFailedLate(s) ==
  /\ pc[s] \in SavePC \cup {"effective"}
  /\ faults < MaxFaults
  /\ faults' = faults + 1
  /\ pc' = [pc EXCEPT ![s] = "failed"]
  /\ UNCHANGED <<handle, result, target, onDisk, fileVars, stops>>

SaveFailed(s) ==
  /\ pc[s] \in SavePC
  /\ faults < MaxFaults
  /\ faults' = faults + 1
  /\ pc' = [pc EXCEPT ![s] = "failed"]
  /\ UNCHANGED <<handle, result, target, onDisk, fileVars, stops>>

-----------------------------------------------------------------------------
NotFound == NoCredential

\* readFile() opens the file that bears the name now, and reads that file.
Opened(l) ==
  /\ pc[l] = "called"
  /\ \/ /\ target = NoCredential
        /\ result' = [result EXCEPT ![l] = NotFound]
        /\ pc' = [pc EXCEPT ![l] = "effective"]
        /\ UNCHANGED handle
     \/ /\ target # NoCredential
        /\ handle' = [handle EXCEPT ![l] = target]
        /\ pc' = [pc EXCEPT ![l] = "reading"]
        /\ UNCHANGED result
  /\ UNCHANGED <<target, onDisk, fileVars, faults, stops>>

\* JSON.parse() rejects half a credential.
Read(l) ==
  /\ pc[l] = "reading"
  /\ IF content[handle[l]] \in Partial
       THEN /\ pc' = [pc EXCEPT ![l] = "failed"]
            /\ UNCHANGED result
       ELSE /\ pc' = [pc EXCEPT ![l] = "effective"]
            /\ result' = [result EXCEPT ![l] = content[handle[l]]]
  /\ UNCHANGED <<handle, target, onDisk, fileVars, faults, stops>>

LoadFailed(l) ==
  /\ pc[l] \in {"called", "reading"}
  /\ faults < MaxFaults
  /\ faults' = faults + 1
  /\ pc' = [pc EXCEPT ![l] = "failed"]
  /\ UNCHANGED <<handle, result, target, onDisk, fileVars, stops>>

\* rm() with force.
Cleared(k) ==
  /\ Goes(k, "called", "effective")
  /\ target' = NoCredential
  /\ UNCHANGED <<handle, result, onDisk, fileVars, faults, stops>>

ClearFailed(k) ==
  /\ pc[k] = "called"
  /\ faults < MaxFaults
  /\ faults' = faults + 1
  /\ pc' = [pc EXCEPT ![k] = "failed"]
  /\ UNCHANGED <<handle, result, target, onDisk, fileVars, stops>>

\* The continuation of the last await resolves the promise.
Resolve(o) ==
  /\ Goes(o, "effective", "done")
  /\ UNCHANGED <<handle, result, target, onDisk, fileVars, faults, stops>>

-----------------------------------------------------------------------------
\* The file system writes the directory back when it likes.
WriteBack ==
  /\ onDisk' = target
  /\ UNCHANGED <<callVars, target, fileVars, faults, stops>>

Stopped ==
  /\ stops < MaxStops
  /\ stops' = stops + 1
  /\ pc' = [o \in Operations |-> IF Unsettled(o) THEN "lost" ELSE pc[o]]

Crash ==
  /\ Stopped
  /\ UNCHANGED <<handle, result, target, onDisk, fileVars, faults>>

\* The cache is gone: names are those on the medium, and a file that was not fsynced
\* holds whatever part of it had been written back.
PowerLoss ==
  /\ Stopped
  /\ target' = onDisk
  /\ \E torn \in SUBSET (Saves \ synced) :
       content' = [s \in Saves |-> IF s \in torn /\ content[s] # "none" THEN "part"
                                                                         ELSE content[s]]
  /\ UNCHANGED <<handle, result, onDisk, synced, faults>>

SaveStep(s) ==
  \/ Open(s) \/ WritePart(s) \/ Written(s) \/ Synced(s) \/ Renamed(s) \/ SaveFailed(s)
LoadStep(l) == Opened(l) \/ Read(l) \/ LoadFailed(l)
ClearStep(k) == Cleared(k) \/ ClearFailed(k)

Next ==
  \/ \E o \in Operations : Call(o) \/ Resolve(o)
  \/ \E s \in Saves : SaveStep(s)
  \/ \E l \in Loads : LoadStep(l)
  \/ \E k \in Clears : ClearStep(k)
  \/ WriteBack \/ Crash \/ PowerLoss

Spec == Init /\ [][Next]_vars

-----------------------------------------------------------------------------
TypeOK ==
  /\ pc \in [Operations -> OperationState]
  /\ handle \in [Loads -> Values]
  /\ result \in [Loads -> Values]
  /\ target \in Values
  /\ onDisk \in Values
  /\ content \in [Saves -> Saves \cup Partial]
  /\ synced \subseteq Saves
  /\ faults \in 0..MaxFaults
  /\ stops \in 0..MaxStops

\* A file holds a credential whole, and would after a loss of power.
Safe(f) == f \in synced /\ content[f] \in Saves

\* "A power loss mid-write can never leave a half-written credential": whatever stops
\* the process and whenever, the credential file, in the cache and on the medium, and
\* every file a load() reads, is whole and fsynced.
NeverHalfWritten ==
  /\ target # NoCredential => Safe(target)
  /\ onDisk # NoCredential => Safe(onDisk)
  /\ \A l \in Loads : handle[l] # NoCredential => Safe(handle[l])

\* The inductive form: a save() holds its credential whole from the write on, fsynced
\* from the sync on, and has not named the file before the rename.
WholeBeforeRename ==
  \A s \in Saves :
    /\ pc[s] \in {"syncing", "renaming"} => content[s] = s
    /\ pc[s] = "renaming" => s \in synced
    /\ pc[s] \in {"ready"} \cup SavePC =>
         /\ s \notin {target, onDisk}
         /\ \A l \in Loads : handle[l] # s

Held(f) == IF f = NoCredential THEN NoCredential ELSE content[f]

\* A load() answers with what it opened.
ReadWhatOpened ==
  \A l \in Loads :
    /\ pc[l] \in {"ready", "called"} => handle[l] = NoCredential
    /\ pc[l] = "reading" => handle[l] # NoCredential
    /\ pc[l] \in {"effective", "done"} => result[l] = Held(handle[l])

StoreInv == NeverHalfWritten /\ WholeBeforeRename /\ ReadWhatOpened

\* The file store is the atomic register of CredentialStore.
StatusOf(p) ==
  CASE p \in SavePC \cup {"called"} -> "pending"
    [] p = "reading" -> "effective"
    [] OTHER -> p

Status == [o \in Operations |-> StatusOf(pc[o])]
Returned == [l \in Loads |-> IF pc[l] \in {"effective", "done"} THEN result[l]
                                                             ELSE Held(handle[l])]

Contract == INSTANCE CredentialStore WITH
  status <- Status, stored <- Held(target), durable <- Held(onDisk), result <- Returned

\* Every behaviour of the file store, with its failures and stops, is one of the
\* contract: saves and clears are atomic, a rejected one has no effect, a load() returns
\* the credential stored at one moment of the call.
ImplementsContract == Contract!Spec
=============================================================================
