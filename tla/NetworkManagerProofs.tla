------------------------- MODULE NetworkManagerProofs -------------------------
(***************************************************************************)
(* Theorems about NetworkManager, for any sets of networks: what is on     *)
(* disk after a forget() or a join() that resolved, losses of power        *)
(* included, and that no unusable network gets there.                      *)
(***************************************************************************)
EXTENDS NetworkManager, TLAPS

\* Each await belongs to its call, and the keyfile and the profile follow the steps of
\* join(): written, then loaded.
CallInv ==
  /\ call = "join" => network \in Networks
  /\ pc = "lowering" => call = "stop"
  /\ pc = "raising" => call = "start"
  /\ pc \in {"deleting", "removing"} => call = "forget"
  /\ pc \in {"writing", "loading", "activating"} => call = "join" /\ network \in Usable
  /\ pc \in {"loading", "activating"} => keyfile = Whole(network)
  /\ pc = "activating" => loaded = network

DiskInv == CallInv /\ ForgottenIsGone /\ JoinedIsSaved /\ OnlyUsable

\* What a write leaves is a keyfile of its network.
LEMMA KeyfilesOf ==
  ASSUME NEW n \in Networks
  PROVE  /\ Whole(n) \in Keyfiles /\ Whole(n).of = n /\ Whole(n).whole
         /\ Torn(n) \in Keyfiles /\ Torn(n).of = n /\ ~Torn(n).whole
BY DEF Whole, Torn, Keyfiles

\* A reboot finds the network of a whole keyfile.
LEMMA WholeIsLoaded ==
  ASSUME NEW n \in Networks
  PROVE  (IF Whole(n) # Nothing /\ Whole(n).whole THEN Whole(n).of ELSE Nothing) = n
BY KeyfilesOf, NetworksAssumption

\* The fields of a keyfile.
LEMMA KeyfileOf == \A k \in Keyfiles : k.of \in Networks /\ k.whole \in BOOLEAN
BY DEF Keyfiles

\* What a write under way may leave is a keyfile of the network join() was given.
LEMMA InFlightOf ==
  ASSUME TypeOK, CallInv
  PROVE  /\ InFlight \subseteq Keyfiles
         /\ pc # "writing" => InFlight = {}
         /\ \A k \in InFlight : k.of = network /\ network \in Usable
BY KeyfilesOf, NetworksAssumption DEF InFlight, CallInv

\* The initial state satisfies the types and the invariant.
LEMMA DiskInit == Init => TypeOK /\ DiskInv
BY NetworksAssumption
   DEF Init, TypeOK, DiskInv, CallInv, ForgottenIsGone, JoinedIsSaved, OnlyUsable, Calls, Settled

\* Every step keeps the types.
LEMMA TypeStep == TypeOK /\ DiskInv /\ [Next]_vars => TypeOK'
<1> SUFFICES ASSUME TypeOK, DiskInv, [Next]_vars PROVE TypeOK'
  OBVIOUS
<1> USE NetworksAssumption
    DEF TypeOK, Calls, Settled, Awaits, disk
<1>1. CASE UNCHANGED vars
  BY <1>1 DEF vars
<1>2. CASE AccessPoint
  BY <1>2 DEF AccessPoint, Start, Stop, Raised, RaiseFailed, Lowered, Call, Goes
<1>3. CASE HomeNetwork
  <2>1. CASE (\E n \in Networks : Join(n)) \/ Forget
    BY <2>1 DEF Join, Forget, Call, Taken
  <2>2. CASE Written \/ WriteFailed
    <3>1. CallInv
      BY DEF DiskInv
    <3>. QED
      BY <2>2, <3>1, KeyfilesOf, InFlightOf DEF Written, WriteFailed, Cached, Goes, CallInv
  <2>3. CASE Loaded \/ LoadFailed \/ Activated \/ ActivateFailed
    BY <2>3, KeyfilesOf DEF Loaded, LoadFailed, Activated, ActivateFailed, Goes, DiskInv, CallInv
  <2>4. CASE Deleted \/ DeleteFailed \/ Removed \/ RemoveFailed
    BY <2>4 DEF Deleted, DeleteFailed, Removed, RemoveFailed, Cached, Goes
  <2>. QED
    BY <1>3, <2>1, <2>2, <2>3, <2>4 DEF HomeNetwork
<1>4. InFlight \subseteq Keyfiles
  BY InFlightOf DEF DiskInv
<1>5. CASE Crash
  BY <1>5, <1>4 DEF Crash, Cached, Stopped
<1>6. CASE Reboot \/ PowerLoss
  <2>1. keyfile' \in Keyfiles \cup {Nothing} /\ Booted /\ cut' \in BOOLEAN
    BY <1>6, <1>4 DEF Reboot, PowerLoss
  <2>2. loaded' \in Networks \cup {Nothing}
    BY <2>1, KeyfileOf DEF Booted
  <2>. QED
    BY <2>1, <2>2 DEF Booted, Stopped
<1>7. CASE WriteBack \/ AutoConnect
  BY <1>7 DEF WriteBack, AutoConnect
<1>. QED
  BY <1>1, <1>2, <1>3, <1>5, <1>6, <1>7 DEF Next

\* Every step keeps the invariant.
LEMMA DiskStep == TypeOK /\ DiskInv /\ [Next]_vars => DiskInv'
<1> SUFFICES ASSUME TypeOK, DiskInv, [Next]_vars PROVE DiskInv'
  OBVIOUS
<1> USE NetworksAssumption
    DEF TypeOK, DiskInv, CallInv, ForgottenIsGone, JoinedIsSaved, OnlyUsable, Settled, Awaits,
        Whole, Torn, Keyfiles, disk
<1>1. CASE UNCHANGED vars
  BY <1>1 DEF vars
<1>2. CASE AccessPoint
  BY <1>2 DEF AccessPoint, Start, Stop, Raised, RaiseFailed, Lowered, Call, Goes
<1>3. CASE HomeNetwork
  <2>1. CASE (\E n \in Networks : Join(n)) \/ Forget
    BY <2>1 DEF Join, Forget, Call, Taken
  <2>2. CASE Written \/ WriteFailed
    BY <2>2 DEF Written, WriteFailed, Cached, InFlight, Goes
  <2>3. CASE Loaded \/ LoadFailed \/ Activated \/ ActivateFailed
    BY <2>3 DEF Loaded, LoadFailed, Activated, ActivateFailed, Goes
  <2>4. CASE Deleted \/ DeleteFailed \/ Removed \/ RemoveFailed
    BY <2>4 DEF Deleted, DeleteFailed, Removed, RemoveFailed, Cached, Goes
  <2>. QED
    BY <1>3, <2>1, <2>2, <2>3, <2>4 DEF HomeNetwork
<1>4. CASE Crash
  BY <1>4 DEF Crash, Cached, InFlight, Stopped
<1>5. CASE Reboot \/ PowerLoss
  <2>1. /\ keyfile' \in medium \cup {keyfile} \cup InFlight
        /\ ~cut' => ~cut /\ keyfile' \in {keyfile} \cup InFlight
        /\ Booted
    BY <1>5 DEF Reboot, PowerLoss
  <2>2. /\ call' = call /\ network' = network /\ pc' \notin Awaits
        /\ pc' = "resolved" => pc = "resolved"
        /\ medium' = {keyfile'}
        /\ loaded' = IF keyfile' # Nothing /\ keyfile'.whole THEN keyfile'.of ELSE Nothing
    BY <2>1 DEF Booted, Stopped
  <2>3. pc = "resolved" => InFlight = {}
    BY InFlightOf
  <2>4. \A k \in InFlight : k.of \in Usable
    BY InFlightOf
  <2>5. OnlyUsable'
    BY <2>1, <2>2, <2>4
  <2>6. ASSUME pc' = "resolved", ~cut' PROVE pc = "resolved" /\ ~cut /\ keyfile' = keyfile
    BY <2>1, <2>2, <2>3, <2>6
  <2>7. ForgottenIsGone'
    BY <2>2, <2>6
  <2>8. ASSUME call' = "join", pc' = "resolved", ~cut'
        PROVE  keyfile' = Whole(network') /\ loaded' = network'
    <3>1. keyfile' = Whole(network) /\ network \in Networks
      BY <2>2, <2>6, <2>8
    <3>. QED
      BY <2>2, <3>1, WholeIsLoaded
  <2>. QED
    BY <2>2, <2>5, <2>7, <2>8
<1>6. CASE WriteBack \/ AutoConnect
  BY <1>6 DEF WriteBack, AutoConnect
<1>. QED
  BY <1>1, <1>2, <1>3, <1>4, <1>5, <1>6 DEF Next

\* The types and the disk invariant hold throughout, reboots included.
LEMMA DiskInvariant == Spec => [](TypeOK /\ DiskInv)
BY DiskInit, TypeStep, DiskStep, PTL DEF Spec

\* Every variable has its type.
THEOREM TypeCorrect == Spec => []TypeOK
BY DiskInvariant, PTL

\* A forget() that resolved leaves no keyfile, whatever failed before it, unless the power
\* is lost before the removal is on disk.
THEOREM ForgetLeavesNothing == Spec => []ForgottenIsGone
BY DiskInvariant, PTL DEF DiskInv

\* A join() that resolved is what the host reconnects to after a reboot, and after a loss of
\* power once its keyfile is on disk.
THEOREM JoinSurvivesReboots == Spec => []JoinedIsSaved
BY DiskInvariant, PTL DEF DiskInv

\* No unusable network reaches the disk or NetworkManager.
THEOREM OnlyUsableNetworks == Spec => []OnlyUsable
BY DiskInvariant, PTL DEF DiskInv
=============================================================================
