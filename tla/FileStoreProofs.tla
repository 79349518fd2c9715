---------------------------- MODULE FileStoreProofs ----------------------------
(***************************************************************************)
(* Proofs about FileStore: types, the inductive invariant StoreInv and,    *)
(* from the two, that the file store implements CredentialStore.           *)
(***************************************************************************)
EXTENDS FileStore, TLAPS

USE DEF Mutators, Operations, Values, Partial, SavePC, SettledPC, OperationState

\* The initial state has the types, and satisfies the inductive invariant.
LEMMA InitInv == Init => TypeOK /\ StoreInv
BY OperationsAssumption, BoundsAssumption
   DEF Init, TypeOK, StoreInv, NeverHalfWritten, WholeBeforeRename, ReadWhatOpened, Held

\* Every step of save() keeps the types.
LEMMA SaveType == ASSUME TypeOK, NEW s \in Saves, SaveStep(s) PROVE TypeOK'
BY OperationsAssumption, BoundsAssumption
   DEF TypeOK, SaveStep, Open, WritePart, Written, Synced, Renamed, SaveFailed, Goes, Temp,
       callVars, fileVars

\* Every other step keeps the types.
LEMMA OtherType ==
  ASSUME TypeOK, StoreInv,
         \/ \E o \in Operations : Call(o) \/ Resolve(o)
         \/ \E l \in Loads : LoadStep(l)
         \/ \E k \in Clears : ClearStep(k)
         \/ WriteBack \/ Crash \/ PowerLoss
  PROVE  TypeOK'
<1>1. CASE \E o \in Operations : Call(o) \/ Resolve(o)
  BY <1>1 DEF TypeOK, Call, Resolve, Goes, fileVars
<1>2. CASE \E l \in Loads : LoadStep(l)
  <2>1. PICK l \in Loads : LoadStep(l) BY <1>2
  <2>2. CASE Opened(l)
    BY <2>2, OperationsAssumption DEF TypeOK, Opened, NotFound, fileVars
  <2>3. CASE Read(l)
    <3>1. handle[l] \in Saves
      BY <2>3 DEF TypeOK, Read, StoreInv, ReadWhatOpened
    <3> QED BY <2>3, <3>1, OperationsAssumption DEF TypeOK, Read, fileVars
  <2>4. CASE LoadFailed(l)
    BY <2>4, OperationsAssumption, BoundsAssumption DEF TypeOK, LoadFailed, fileVars
  <2> QED BY <2>1, <2>2, <2>3, <2>4 DEF LoadStep
<1>3. CASE \E k \in Clears : ClearStep(k)
  BY <1>3, BoundsAssumption DEF TypeOK, ClearStep, Cleared, ClearFailed, Goes, fileVars
<1>4. CASE WriteBack
  BY <1>4 DEF TypeOK, WriteBack, callVars, fileVars
<1>5. CASE Crash
  BY <1>5, BoundsAssumption DEF TypeOK, Crash, Stopped, Unsettled, fileVars
<1>6. CASE PowerLoss
  BY <1>6, BoundsAssumption DEF TypeOK, PowerLoss, Stopped, Unsettled
<1> QED BY <1>1, <1>2, <1>3, <1>4, <1>5, <1>6

\* StoreInv is kept by every step of save(): the file it works on has no name yet.
LEMMA SaveStore == ASSUME TypeOK, StoreInv, NEW s \in Saves, SaveStep(s) PROVE StoreInv'
<1> USE OperationsAssumption, ContentAssumption
    DEF TypeOK, StoreInv, NeverHalfWritten, WholeBeforeRename, ReadWhatOpened, Safe, Held
<1>1. CASE Open(s) BY <1>1 DEF Open, Goes, Temp
<1>2. CASE WritePart(s) BY <1>2 DEF WritePart, callVars, Temp
<1>3. CASE Written(s) BY <1>3 DEF Written, Goes, Temp
<1>4. CASE Synced(s) BY <1>4 DEF Synced, Goes, Temp
<1>5. CASE Renamed(s) BY <1>5 DEF Renamed, Goes, Temp
<1>6. CASE SaveFailed(s) BY <1>6 DEF SaveFailed, fileVars
<1> QED BY <1>1, <1>2, <1>3, <1>4, <1>5, <1>6 DEF SaveStep

\* ... and by every other step: files are only named by what already bears the name.
LEMMA OtherStore ==
  ASSUME TypeOK, StoreInv,
         \/ \E o \in Operations : Call(o) \/ Resolve(o)
         \/ \E l \in Loads : LoadStep(l)
         \/ \E k \in Clears : ClearStep(k)
         \/ WriteBack \/ Crash \/ PowerLoss
  PROVE  StoreInv'
<1> USE OperationsAssumption, ContentAssumption
    DEF TypeOK, StoreInv, NeverHalfWritten, WholeBeforeRename, ReadWhatOpened, Safe, Held
<1>1. CASE \E o \in Operations : Call(o) \/ Resolve(o)
  BY <1>1 DEF Call, Resolve, Goes, fileVars
<1>2. CASE \E l \in Loads : LoadStep(l)
  <2>1. PICK l \in Loads : LoadStep(l) BY <1>2
  <2>2. CASE Opened(l) BY <2>2 DEF Opened, NotFound, fileVars
  <2>3. CASE Read(l) BY <2>3 DEF Read, fileVars
  <2>4. CASE LoadFailed(l) BY <2>4 DEF LoadFailed, fileVars
  <2> QED BY <2>1, <2>2, <2>3, <2>4 DEF LoadStep
<1>3. CASE \E k \in Clears : ClearStep(k)
  BY <1>3 DEF ClearStep, Cleared, ClearFailed, Goes, fileVars
<1>4. CASE WriteBack BY <1>4 DEF WriteBack, callVars, fileVars
<1>5. CASE Crash BY <1>5 DEF Crash, Stopped, Unsettled, fileVars
<1>6. CASE PowerLoss BY <1>6 DEF PowerLoss, Stopped, Unsettled
<1> QED BY <1>1, <1>2, <1>3, <1>4, <1>5, <1>6

\* The two are inductive together.
THEOREM StoreInvariant == Spec => [](TypeOK /\ StoreInv)
<1>1. TypeOK /\ StoreInv /\ [Next]_vars => TypeOK' /\ StoreInv'
  <2> SUFFICES ASSUME TypeOK, StoreInv, [Next]_vars PROVE TypeOK' /\ StoreInv'
    OBVIOUS
  <2>1. CASE UNCHANGED vars
    BY <2>1 DEF vars, TypeOK, StoreInv, NeverHalfWritten, WholeBeforeRename, ReadWhatOpened,
                Safe, Held
  <2>2. CASE \E s \in Saves : SaveStep(s) BY <2>2, SaveType, SaveStore
  <2>3. CASE \/ \E o \in Operations : Call(o) \/ Resolve(o)
             \/ \E l \in Loads : LoadStep(l)
             \/ \E k \in Clears : ClearStep(k)
             \/ WriteBack \/ Crash \/ PowerLoss
    BY <2>3, OtherType, OtherStore
  <2> QED BY <2>1, <2>2, <2>3 DEF Next
<1> QED BY InitInv, <1>1, PTL DEF Spec

\* The credential file is never half-written: not in the cache, not on the medium, not
\* under a load() (the file comment of store.ts).
THEOREM CredentialIsWhole == Spec => []NeverHalfWritten
<1>1. StoreInv => NeverHalfWritten BY DEF StoreInv
<1> QED BY StoreInvariant, <1>1, PTL
-----------------------------------------------------------------------------
USE DEF Contract!Mutators, Contract!Operations, Contract!Values

\* The initial state is one of the contract.
LEMMA InitImplements == Init => Contract!Init
BY DEF Init, Contract!Init, Status, StatusOf, Held, Returned

\* save() takes effect at the rename, and a save() that rejects before it has none.
LEMMA SaveImplements ==
  ASSUME TypeOK, StoreInv, NEW s \in Saves, SaveStep(s)
  PROVE  [Contract!Next]_(Contract!vars)
<1> USE OperationsAssumption, ContentAssumption
    DEF TypeOK, StoreInv, NeverHalfWritten, WholeBeforeRename, ReadWhatOpened, Safe, Held
<1>1. CASE Open(s) \/ WritePart(s) \/ Written(s) \/ Synced(s)
  <2>1. Status' = Status
    BY <1>1 DEF Open, WritePart, Written, Synced, Goes, callVars, Status, StatusOf
  <2>2. Held(target)' = Held(target) /\ Held(onDisk)' = Held(onDisk)
    BY <1>1 DEF Open, WritePart, Written, Synced, Goes, Temp
  <2>3. Returned' = Returned
    BY <1>1 DEF Open, WritePart, Written, Synced, Goes, Temp, callVars, Returned
  <2> QED BY <2>1, <2>2, <2>3 DEF Contract!vars
<1>2. CASE Renamed(s)
  <2>1. Contract!Takes(s)
    <3>1. Status[s] = "pending" /\ Status' = [Status EXCEPT ![s] = "effective"]
      BY <1>2 DEF Renamed, Goes, Status, StatusOf
    <3>2. Held(target)' = s /\ Held(onDisk)' = Held(onDisk)
      BY <1>2 DEF Renamed, Goes, Temp
    <3>3. Returned' = Returned
      BY <1>2 DEF Renamed, Goes, Returned
    <3> QED BY <3>1, <3>2, <3>3 DEF Contract!Takes, Contract!Goes
  <2> QED BY <2>1 DEF Contract!Next
<1>3. CASE SaveFailed(s)
  <2>1. Contract!Reject(s)
    <3>1. Status[s] = "pending" /\ Status' = [Status EXCEPT ![s] = "failed"]
      BY <1>3 DEF SaveFailed, Status, StatusOf
    <3>2. UNCHANGED <<Held(target), Held(onDisk), Returned>>
      BY <1>3 DEF SaveFailed, fileVars, Returned
    <3> QED BY <3>1, <3>2 DEF Contract!Reject, Contract!Goes
  <2> QED BY <2>1 DEF Contract!Next
<1> QED BY <1>1, <1>2, <1>3 DEF SaveStep

\* A call, and the resolution of its promise, are those of the contract.
LEMMA CallImplements ==
  ASSUME TypeOK, StoreInv, NEW o \in Operations, Call(o) \/ Resolve(o)
  PROVE  [Contract!Next]_(Contract!vars)
<1> USE OperationsAssumption
    DEF TypeOK, StoreInv, ReadWhatOpened, Held
<1>1. CASE Call(o)
  <2>1. Contract!Call(o)
    <3>1. Status[o] = "ready" /\ Status' = [Status EXCEPT ![o] = "pending"]
      BY <1>1 DEF Call, Goes, Status, StatusOf
    <3>2. UNCHANGED <<Held(target), Held(onDisk), Returned>>
      BY <1>1 DEF Call, Goes, fileVars, Returned
    <3> QED BY <3>1, <3>2 DEF Contract!Call, Contract!Goes
  <2> QED BY <2>1 DEF Contract!Next
<1>2. CASE Resolve(o)
  <2>1. Contract!Resolve(o)
    <3>1. Status[o] = "effective" /\ Status' = [Status EXCEPT ![o] = "done"]
      BY <1>2 DEF Resolve, Goes, Status, StatusOf
    <3>2. UNCHANGED <<Held(target), Held(onDisk), Returned>>
      BY <1>2 DEF Resolve, Goes, fileVars, Returned
    <3> QED BY <3>1, <3>2 DEF Contract!Resolve, Contract!Goes
  <2> QED BY <2>1 DEF Contract!Next
<1> QED BY <1>1, <1>2

\* load() takes effect when it opens the file; reading it changes nothing.
LEMMA LoadImplements ==
  ASSUME TypeOK, StoreInv, NEW l \in Loads, LoadStep(l)
  PROVE  [Contract!Next]_(Contract!vars)
<1> USE OperationsAssumption, ContentAssumption
    DEF TypeOK, StoreInv, NeverHalfWritten, ReadWhatOpened, Safe, Held
<1>1. CASE Opened(l)
  <2>1. Contract!Takes(l)
    <3>1. Status[l] = "pending" /\ Status' = [Status EXCEPT ![l] = "effective"]
      <4>1. CASE pc' = [pc EXCEPT ![l] = "effective"]
        BY <1>1, <4>1 DEF Opened, Status, StatusOf
      <4>2. CASE pc' = [pc EXCEPT ![l] = "reading"]
        BY <1>1, <4>2 DEF Opened, Status, StatusOf
      <4> QED BY <1>1, <4>1, <4>2 DEF Opened
    <3>2. UNCHANGED <<Held(target), Held(onDisk)>>
      BY <1>1 DEF Opened, fileVars
    <3>3. Returned' = [Returned EXCEPT ![l] = Held(target)]
      <4>1. CASE target = NoCredential
        <5>1. /\ pc' = [pc EXCEPT ![l] = "effective"]
              /\ result' = [result EXCEPT ![l] = NoCredential]
          BY <1>1, <4>1 DEF Opened, NotFound
        <5>2. handle' = handle /\ content' = content
          BY <1>1, <4>1 DEF Opened, fileVars
        <5> QED BY <4>1, <5>1, <5>2 DEF Returned
      <4>2. CASE target # NoCredential
        <5>1. /\ pc' = [pc EXCEPT ![l] = "reading"]
              /\ handle' = [handle EXCEPT ![l] = target]
              /\ result' = result
              /\ content' = content
          BY <1>1, <4>2 DEF Opened, fileVars
        <5>2. Returned'[l] = Held(target)
          BY <4>2, <5>1 DEF Returned
        <5>3. ASSUME NEW other \in Loads \ {l} PROVE Returned'[other] = Returned[other]
          <6>1. handle'[other] = handle[other] /\ result'[other] = result[other]
            BY <5>1
          <6>2. pc'[other] = pc[other]
            BY <5>1
          <6> QED BY <5>1, <6>1, <6>2 DEF Returned
        <5> HIDE DEF TypeOK, StoreInv, NeverHalfWritten, ReadWhatOpened, Safe
        <5> QED BY <5>2, <5>3 DEF Returned
      <4> QED BY <4>1, <4>2
    <3> QED BY <3>1, <3>2, <3>3 DEF Contract!Takes, Contract!Goes
  <2> QED BY <2>1 DEF Contract!Next
<1>2. CASE Read(l)
  <2>1. handle[l] \in Saves /\ content[handle[l]] \notin Partial
    BY <1>2 DEF Read
  <2>2. Status' = Status
    BY <1>2, <2>1 DEF Read, Status, StatusOf
  <2>3. UNCHANGED <<Held(target), Held(onDisk), Returned>>
    BY <1>2, <2>1 DEF Read, fileVars, Returned
  <2> QED BY <2>2, <2>3 DEF Contract!vars
<1>3. CASE LoadFailed(l)
  <2>1. Contract!Reject(l)
    <3>1. Status[l] \in {"pending", "effective"} /\ Status' = [Status EXCEPT ![l] = "failed"]
      BY <1>3 DEF LoadFailed, Status, StatusOf
    <3>2. UNCHANGED <<Held(target), Held(onDisk), Returned>>
      BY <1>3 DEF LoadFailed, fileVars, Returned
    <3> QED BY <3>1, <3>2 DEF Contract!Reject, Contract!Goes
  <2> QED BY <2>1 DEF Contract!Next
<1> QED BY <1>1, <1>2, <1>3 DEF LoadStep

\* clear() takes effect at the unlink.
LEMMA ClearImplements ==
  ASSUME TypeOK, StoreInv, NEW k \in Clears, ClearStep(k)
  PROVE  [Contract!Next]_(Contract!vars)
<1> USE OperationsAssumption DEF TypeOK, Held
<1>1. CASE Cleared(k)
  <2>1. Contract!Takes(k)
    <3>1. Status[k] = "pending" /\ Status' = [Status EXCEPT ![k] = "effective"]
      BY <1>1 DEF Cleared, Goes, Status, StatusOf
    <3>2. Held(target)' = NoCredential /\ Held(onDisk)' = Held(onDisk)
      BY <1>1 DEF Cleared, fileVars
    <3>3. Returned' = Returned
      BY <1>1 DEF Cleared, Goes, fileVars, Returned
    <3> QED BY <3>1, <3>2, <3>3 DEF Contract!Takes, Contract!Goes
  <2> QED BY <2>1 DEF Contract!Next
<1>2. CASE ClearFailed(k)
  <2>1. Contract!Reject(k)
    <3>1. Status[k] = "pending" /\ Status' = [Status EXCEPT ![k] = "failed"]
      BY <1>2 DEF ClearFailed, Status, StatusOf
    <3>2. UNCHANGED <<Held(target), Held(onDisk), Returned>>
      BY <1>2 DEF ClearFailed, fileVars, Returned
    <3> QED BY <3>1, <3>2 DEF Contract!Reject, Contract!Goes
  <2> QED BY <2>1 DEF Contract!Next
<1> QED BY <1>1, <1>2 DEF ClearStep

\* A write-back persists the register; a stop cuts off what is pending.
LEMMA SystemImplements ==
  ASSUME TypeOK, StoreInv, WriteBack \/ Crash \/ PowerLoss
  PROVE  [Contract!Next]_(Contract!vars)
<1> USE OperationsAssumption, ContentAssumption
    DEF TypeOK, StoreInv, NeverHalfWritten, ReadWhatOpened, Safe, Held
<1>1. CASE WriteBack
  <2>1. Contract!Persist
    BY <1>1 DEF WriteBack, callVars, fileVars, Contract!Persist, Status, Returned
  <2> QED BY <2>1 DEF Contract!Next
<1>2. CASE Crash
  <2>1. Contract!Crash
    <3>1. Contract!Interrupted
      BY <1>2 DEF Crash, Stopped, Unsettled, Contract!Interrupted, Status, StatusOf
    <3>2. UNCHANGED <<Held(target), Held(onDisk), Returned>>
      BY <1>2 DEF Crash, Stopped, Unsettled, fileVars, Returned
    <3> QED BY <3>1, <3>2 DEF Contract!Crash
  <2> QED BY <2>1 DEF Contract!Next
<1>3. CASE PowerLoss
  <2>1. Contract!PowerLoss
    <3>1. Contract!Interrupted
      BY <1>3 DEF PowerLoss, Stopped, Unsettled, Contract!Interrupted, Status, StatusOf
    <3>2. Held(target)' = Held(onDisk) /\ Held(onDisk)' = Held(onDisk)
      BY <1>3 DEF PowerLoss
    <3>3. Returned' = Returned
      BY <1>3 DEF PowerLoss, Stopped, Unsettled, Returned
    <3> QED BY <3>1, <3>2, <3>3 DEF Contract!PowerLoss
  <2> QED BY <2>1 DEF Contract!Next
<1> QED BY <1>1, <1>2, <1>3

\* The file store implements the atomic register the other components rely on
\* (createFileCredentialStore() against the CredentialStore contract).
THEOREM FileStoreImplements == Spec => ImplementsContract
<1>1. TypeOK /\ StoreInv /\ [Next]_vars => [Contract!Next]_(Contract!vars)
  <2> SUFFICES ASSUME TypeOK, StoreInv, [Next]_vars PROVE [Contract!Next]_(Contract!vars)
    OBVIOUS
  <2>1. CASE UNCHANGED vars
    BY <2>1 DEF vars, Contract!vars, Status, StatusOf, Held, Returned
  <2>2. CASE Next
    BY <2>2, SaveImplements, CallImplements, LoadImplements, ClearImplements, SystemImplements
       DEF Next
  <2> QED BY <2>1, <2>2
<1> QED BY InitImplements, StoreInvariant, <1>1, PTL
        DEF Spec, ImplementsContract, Contract!Spec
=============================================================================
