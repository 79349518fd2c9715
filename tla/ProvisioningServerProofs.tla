----------------------- MODULE ProvisioningServerProofs -----------------------
(***************************************************************************)
(* Theorems about ProvisioningServer, for any sets of calls and requests:  *)
(* type correctness; whatever overlaps, what is handed over when every     *)
(* request carries the same claim code, whom a teardown waits for and what *)
(* becomes of the passphrase; and, when only stop() overlaps, that the     *)
(* endpoint is never served once a credential was handed over, that the    *)
(* access point outlives the replies, and the promise of OneClaim.         *)
(***************************************************************************)
EXTENDS ProvisioningServer, TLAPS

\* The assumptions about actors, listeners and codes.
LEMMA Names ==
  /\ NoServer \notin Listeners /\ NoCredential \notin Requests
  /\ Code \in [Requests -> Codes] /\ MaxCrashes \in Nat
  /\ Listeners = Starts \cup Requests /\ Actors = Starts \cup Stops \cup Requests
  /\ Starts \cap Stops = {} /\ Starts \cap Requests = {} /\ Stops \cap Requests = {}
BY ActorsAssumption, NamesAssumption, CodeAssumption, ModeAssumption DEF Actors, Listeners

\* The initial state has the types.
LEMMA TypeInit == Init => TypeOK
<1> SUFFICES ASSUME Init PROVE TypeOK
  OBVIOUS
<1>1. pc \in [Actors -> StartPC \cup TeardownPC \cup ClaimPC \cup SettledPC]
  BY DEF Init, SettledPC
<1>2. /\ closing \in [Actors -> Listeners \cup {NoServer}]
      /\ conn \in [Requests -> Listeners \cup {NoServer}]
  BY DEF Init
<1>3. crashes \in 0..MaxCrashes
  BY Names DEF Init
<1>. QED
  BY <1>1, <1>2, <1>3 DEF Init, TypeOK, ServerState

\* A step of start(), or of the start that an onboarding falls back to, keeps the types.
LEMMA StartType ==
  ASSUME TypeOK,
         (\E s \in Starts : Start(s)) \/ (\E s \in Listeners : StartStep(s))
  PROVE  TypeOK'
<1> USE Names DEF TypeOK, ServerState, StartPC, SettledPC, worldVars, serverVars
<1>1. CASE \E s \in Starts : Start(s)
  BY <1>1 DEF Start
<1>2. ASSUME NEW s \in Listeners, StoreLoaded(s) \/ Raised(s) \/ Bound(s)
      PROVE  TypeOK'
  <2>1. CASE StoreLoaded(s)
    BY <2>1 DEF StoreLoaded
  <2>2. CASE Raised(s)
    BY <2>2 DEF Raised
  <2>3. CASE Bound(s)
    BY <2>3 DEF Bound
  <2>. QED
    BY <1>2, <2>1, <2>2, <2>3
<1>3. ASSUME NEW s \in Listeners, BindFailed(s) \/ Undone(s)
      PROVE  TypeOK'
  BY <1>3 DEF BindFailed, UndoAccessPoint, Undone
<1>. QED
  BY <1>1, <1>2, <1>3 DEF StartStep

\* The teardown that stop(), a plain claim and an onboarding share keeps the types.
LEMMA TornDownType ==
  ASSUME TypeOK, NEW a \in Stops \cup Requests, TornDown(a)
  PROVE  /\ serverState' \in ServerState
         /\ handed' \subseteq Requests
         /\ pc' \in [Actors -> StartPC \cup TeardownPC \cup ClaimPC \cup SettledPC]
BY Names DEF TornDown, TypeOK, StateAfterStop, ServerState, SettledPC, ClaimPC

\* Lowering the access point keeps the types.
LEMMA StopAccessPointType ==
  ASSUME TypeOK, NEW a \in Stops \cup Requests, StopAccessPoint(a)
  PROVE  /\ serverState' \in ServerState
         /\ handed' \subseteq Requests
         /\ pc' \in [Actors -> StartPC \cup TeardownPC \cup ClaimPC \cup SettledPC]
         /\ accessPointStarted' \in BOOLEAN
BY Names, TornDownType DEF StopAccessPoint, TypeOK, TeardownPC

\* So does letting go of the listener.
LEMMA CloseHttpType ==
  ASSUME TypeOK, NEW a \in Stops \cup Requests, CloseHttp(a)
  PROVE  /\ serverState' \in ServerState
         /\ handed' \subseteq Requests
         /\ pc' \in [Actors -> StartPC \cup TeardownPC \cup ClaimPC \cup SettledPC]
         /\ accessPointStarted' \in BOOLEAN
         /\ server' \in Listeners \cup {NoServer}
         /\ listening' \subseteq Listeners
         /\ closing' \in [Actors -> Listeners \cup {NoServer}]
BY Names, StopAccessPointType DEF CloseHttp, TypeOK, TeardownPC

\* So does every step of a teardown.
LEMMA TeardownType ==
  ASSUME TypeOK, \/ \E t \in Stops : Stop(t)
                 \/ \E a \in Stops \cup Requests : TeardownStep(a)
                 \/ \E r \in Requests : Flushed(r)
  PROVE  TypeOK'
<1>1. CASE \E t \in Stops : Stop(t)
  BY <1>1, CloseHttpType DEF Stop, TypeOK
<1>2. ASSUME NEW a \in Stops \cup Requests, HttpClosed(a)
      PROVE  TypeOK'
  BY <1>2, Names, StopAccessPointType DEF HttpClosed, TypeOK
<1>3. ASSUME NEW a \in Stops \cup Requests, Lowered(a)
      PROVE  TypeOK'
  BY <1>3, TornDownType DEF Lowered, TypeOK
<1>4. ASSUME NEW a \in Stops \cup Requests, LoweringFailed(a)
      PROVE  TypeOK'
  BY <1>4, Names DEF LoweringFailed, TypeOK, ClaimPC, SettledPC, serverVars, worldVars
<1>5. ASSUME NEW r \in Requests, Flushed(r)
      PROVE  TypeOK'
  BY <1>5, Names, CloseHttpType DEF Flushed, TypeOK
<1>. QED
  BY <1>1, <1>2, <1>3, <1>4, <1>5, Names DEF TeardownStep

\* Every other step of a claim keeps the types.
LEMMA ClaimType ==
  ASSUME TypeOK, NEW r \in Requests,
         \/ Claim(r) \/ HangUp(r) \/ Read(r) \/ Exchanged(r) \/ ExchangeFailed(r)
         \/ Saved(r) \/ SaveFailed(r) \/ Joined(r) \/ JoinFailed(r) \/ Forgotten(r)
         \/ HandedOff(r)
  PROVE  TypeOK'
<1> USE Names DEF TypeOK, ServerState, ClaimPC, StartPC, SettledPC, serverVars, worldVars, Replied
<1>1. CASE Claim(r) \/ HangUp(r)
  BY <1>1 DEF Claim, HangUp
<1>2. CASE Read(r)
  BY <1>2 DEF Read, PlainClaimRead, WifiClaimRead, BadClaimRead
<1>3. CASE Exchanged(r) \/ ExchangeFailed(r)
  BY <1>3 DEF Exchanged, ExchangeFailed, StepFailed
<1>4. CASE Saved(r) \/ SaveFailed(r)
  BY <1>4 DEF Saved, SaveFailed, StepFailed
<1>5. CASE Joined(r) \/ JoinFailed(r) \/ Forgotten(r) \/ HandedOff(r)
  BY <1>5 DEF Joined, JoinFailed, Forgotten, HandedOff
<1>. QED
  BY <1>1, <1>2, <1>3, <1>4, <1>5

\* So does a restart.
LEMMA CrashType == ASSUME TypeOK, Crash PROVE TypeOK'
<1>1. spent' \subseteq Codes
  BY Names DEF Crash, TypeOK
<1>2. profile' \in BOOLEAN
  BY DEF Crash, TypeOK
<1>3. crashes' \in 0..MaxCrashes
  BY Names DEF Crash, TypeOK
<1>. QED
  BY <1>1, <1>2, <1>3, Names DEF Crash, TypeOK, ServerState, SettledPC

\* Every step preserves the types.
LEMMA TypeStep == TypeOK /\ [Next]_vars => TypeOK'
<1> SUFFICES ASSUME TypeOK, [Next]_vars PROVE TypeOK'
  OBVIOUS
<1>1. CASE UNCHANGED vars
  BY <1>1 DEF vars, serverVars, actorVars, worldVars, TypeOK
<1>. QED
  BY <1>1, StartType, TeardownType, ClaimType, CrashType DEF Next, RequestStep, Handling

\* Every variable has its type.
THEOREM TypeCorrect == Spec => []TypeOK
BY TypeInit, TypeStep, PTL DEF Spec

-----------------------------------------------------------------------------
(***************************************************************************)
(* One claim code.  However requests overlap, the platform honours one     *)
(* exchange, so one request saves, and only that one is handed over.       *)
(***************************************************************************)
OneCode == \A r, q \in Requests : Code[r] = Code[q]

\* A request that saves holds the one answer, and one past its save is the stored one.
Claimant(r) ==
  /\ pc[r] = "saving" => /\ Code[r] \in spent
                         /\ store = NoCredential
                         /\ handed = {}
                         /\ \A q \in Requests : pc[q] = "saving" => q = r
  /\ pc[r] \in {"replying", "handing"} => store = r
  /\ pc[r] \in TeardownPC /\ r \notin wifi => store = r
  /\ pc[r] \in {"accepted", "joining", "forgetting"} => r \in wifi

ClaimInv ==
  /\ store # NoCredential => Code[store] \in spent
  /\ \A r \in Requests : Claimant(r)
  /\ HandedIsStored

\* Nothing is claimed or handed over at the start.
LEMMA ClaimInit == Init => ClaimInv
BY Names DEF Init, ClaimInv, Claimant, HandedIsStored, TeardownPC

\* What an actor's teardown hands over is what is stored.
LEMMA TeardownClaims ==
  ASSUME TypeOK, ClaimInv,
         \/ \E t \in Stops : Stop(t)
         \/ \E a \in Stops \cup Requests : TeardownStep(a)
         \/ \E r \in Requests : Flushed(r)
  PROVE  ClaimInv'
<1> USE Names DEF TypeOK, ClaimInv, Claimant, HandedIsStored, TeardownPC, CloseHttp, StopAccessPoint,
        TornDown
<1>1. CASE \E t \in Stops : Stop(t)
  BY <1>1 DEF Stop
<1>2. ASSUME NEW a \in Stops \cup Requests, HttpClosed(a)
      PROVE  ClaimInv'
  BY <1>2 DEF HttpClosed
<1>3. ASSUME NEW a \in Stops \cup Requests, Lowered(a) \/ LoweringFailed(a)
      PROVE  ClaimInv'
  BY <1>3 DEF Lowered, LoweringFailed, serverVars, worldVars
<1>4. ASSUME NEW r \in Requests, Flushed(r)
      PROVE  ClaimInv'
  BY <1>4 DEF Flushed
<1>. QED
  BY <1>1, <1>2, <1>3, <1>4 DEF TeardownStep

\* With one code, every step keeps the stored credential the only one claimed.
LEMMA ClaimStep ==
  ASSUME OneCode, TypeOK, ClaimInv, [Next]_vars
  PROVE  ClaimInv'
<1> USE Names DEF TypeOK, ClaimInv, Claimant, HandedIsStored, TeardownPC, serverVars, worldVars
<1>1. CASE UNCHANGED vars
  BY <1>1 DEF vars, actorVars
<1>2. CASE (\E s \in Starts : Start(s)) \/ (\E s \in Listeners : StartStep(s))
  BY <1>2 DEF Start, StartStep, StoreLoaded, Raised, Bound, BindFailed, UndoAccessPoint, Undone
<1>3. CASE \/ \E t \in Stops : Stop(t)
           \/ \E a \in Stops \cup Requests : TeardownStep(a)
           \/ \E r \in Requests : Flushed(r)
  BY <1>3, TeardownClaims
<1>4. ASSUME NEW r \in Requests, Claim(r) \/ HangUp(r) \/ Read(r) \/ HandedOff(r)
      PROVE  ClaimInv'
  BY <1>4 DEF Claim, HangUp, Read, PlainClaimRead, WifiClaimRead, BadClaimRead, HandedOff, Replied
<1>5. ASSUME NEW r \in Requests, Exchanged(r)
      PROVE  ClaimInv'
  BY <1>5 DEF Exchanged, OneCode
<1>6. ASSUME NEW r \in Requests, ExchangeFailed(r) \/ SaveFailed(r)
      PROVE  ClaimInv'
  BY <1>6 DEF ExchangeFailed, SaveFailed, StepFailed, Replied
<1>7. ASSUME NEW r \in Requests, Saved(r)
      PROVE  ClaimInv'
  BY <1>7 DEF Saved
<1>8. ASSUME NEW r \in Requests, Joined(r) \/ JoinFailed(r) \/ Forgotten(r)
      PROVE  ClaimInv'
  <2>1. CASE Joined(r)
    BY <2>1 DEF Joined
  <2>2. CASE JoinFailed(r)
    BY <2>2 DEF JoinFailed
  <2>3. CASE Forgotten(r)
    BY <2>3 DEF Forgotten
  <2>. QED
    BY <1>8, <2>1, <2>2, <2>3
<1>9. CASE Crash
  BY <1>9 DEF Crash, InFlight, SettledPC
<1>. QED
  BY <1>1, <1>2, <1>3, <1>4, <1>5, <1>6, <1>7, <1>8, <1>9 DEF Next, RequestStep, Handling

\* With one claim code, onProvisioned only ever gets the credential a restarted device
\* would load, whatever overlaps.
THEOREM HandedIsStoredForOneCode == ASSUME OneCode PROVE Spec => []HandedIsStored
<1>1. TypeOK /\ ClaimInv /\ [Next]_vars => TypeOK' /\ ClaimInv'
  BY TypeStep, ClaimStep
<1>2. ClaimInv => HandedIsStored
  BY DEF ClaimInv
<1>. QED
  BY <1>1, <1>2, TypeInit, ClaimInit, PTL DEF Spec

-----------------------------------------------------------------------------
(***************************************************************************)
(* Only stop() overlaps.  One start() or claim is under way at a time, so  *)
(* the fields it tests before an await still hold after it.                *)
(***************************************************************************)
Orderly == Overlaps \subseteq {"stop"}

OneMover ==
  \A a, b \in Listeners : pc[a] \notin SettledPC /\ pc[b] \notin SettledPC => a = b

ServerListens == listening = IF server = NoServer THEN {} ELSE {server}

\* A start goes on only while nothing is stored.
Mover(a) ==
  /\ pc[a] \in StartPC => serverState # "provisioned"
  /\ pc[a] \in {"raising", "binding"} => store = NoCredential

\* Nothing was handed over before the request under way; once it let its listener go, no
\* other takes its place.
Request(r) ==
  /\ pc[r] \in {"ready", "reading", "replying"} => r \notin wifi
  /\ pc[r] \in {"accepted", "joining", "forgetting"} => r \in wifi
  /\ pc[r] \in {"reading", "exchanging", "saving", "accepted", "joining", "forgetting"}
       => handed = {} /\ serverState # "provisioned"
  /\ pc[r] = "replying" => store = r /\ handed = {}
  /\ pc[r] \in TeardownPC => /\ server = NoServer /\ handed = {}
                             /\ r \in wifi => serverState # "provisioned"
                             /\ r \notin wifi => store = r
  /\ pc[r] \in {"joining", "exchanging", "saving"} /\ r \in wifi => server = NoServer

NeverServedAgain == handed # {} => store # NoCredential /\ server = NoServer

OrderlyInv ==
  /\ OneMover
  /\ ServerListens
  /\ \A a \in Listeners : Mover(a)
  /\ \A r \in Requests : Request(r)
  /\ NeverServedAgain
  /\ HandedIsStored

\* No call is under way at the start.
LEMMA OrderlyInit == Init => OrderlyInv
BY Names DEF Init, OrderlyInv, OneMover, ServerListens, Mover, Request, NeverServedAgain,
   HandedIsStored, SettledPC, StartPC, TeardownPC

\* A start finds nothing stored, or fails.
LEMMA OrderlyStart ==
  ASSUME Orderly, TypeOK, OrderlyInv,
         (\E s \in Starts : Start(s)) \/ (\E s \in Listeners : StartStep(s))
  PROVE  OrderlyInv'
<1> USE Names DEF Orderly, TypeOK, OrderlyInv, OneMover, ServerListens, Mover, Request,
        NeverServedAgain, HandedIsStored, SettledPC, StartPC, TeardownPC, serverVars, worldVars
<1>1. ASSUME NEW s \in Starts, Start(s)
      PROVE  OrderlyInv'
  BY <1>1 DEF Start, MayCall, InFlight, StartRefused
<1>2. ASSUME NEW s \in Listeners, StoreLoaded(s)
      PROVE  OrderlyInv'
  BY <1>2 DEF StoreLoaded, Existing
<1>3. ASSUME NEW s \in Listeners, Raised(s)
      PROVE  OrderlyInv'
  BY <1>3 DEF Raised
<1>4. ASSUME NEW s \in Listeners, Bound(s)
      PROVE  OrderlyInv'
  BY <1>4 DEF Bound
<1>5. ASSUME NEW s \in Listeners, BindFailed(s) \/ Undone(s)
      PROVE  OrderlyInv'
  BY <1>5 DEF BindFailed, UndoAccessPoint, Undone
<1>. QED
  BY <1>1, <1>2, <1>3, <1>4, <1>5 DEF StartStep

\* A teardown, of stop() too, leaves no listener.
LEMMA OrderlyTeardown ==
  ASSUME Orderly, TypeOK, OrderlyInv,
         \/ \E t \in Stops : Stop(t)
         \/ \E a \in Stops \cup Requests : TeardownStep(a)
         \/ \E r \in Requests : Flushed(r)
  PROVE  OrderlyInv'
<1> USE Names DEF Orderly, TypeOK, OrderlyInv, OneMover, ServerListens, Mover, Request,
        NeverServedAgain, HandedIsStored, SettledPC, StartPC, TeardownPC, serverVars, worldVars,
        CloseHttp, StopAccessPoint, TornDown, StateAfterStop
<1>1. ASSUME NEW t \in Stops, Stop(t)
      PROVE  OrderlyInv'
  BY <1>1 DEF Stop
<1>2. ASSUME NEW a \in Stops \cup Requests, HttpClosed(a)
      PROVE  OrderlyInv'
  BY <1>2 DEF HttpClosed
<1>3. ASSUME NEW a \in Stops \cup Requests, Lowered(a)
      PROVE  OrderlyInv'
  BY <1>3 DEF Lowered
<1>4. ASSUME NEW a \in Stops \cup Requests, LoweringFailed(a)
      PROVE  OrderlyInv'
  BY <1>4 DEF LoweringFailed
<1>5. ASSUME NEW r \in Requests, Flushed(r)
      PROVE  OrderlyInv'
  BY <1>5 DEF Flushed
<1>. QED
  BY <1>1, <1>2, <1>3, <1>4, <1>5 DEF TeardownStep

\* A claim begins only on a listener, and so before any hand-over.
LEMMA OrderlyClaim ==
  ASSUME Orderly, TypeOK, OrderlyInv, NEW r \in Requests,
         \/ Claim(r) \/ HangUp(r) \/ Read(r) \/ Exchanged(r) \/ ExchangeFailed(r)
         \/ Saved(r) \/ SaveFailed(r) \/ Joined(r) \/ JoinFailed(r) \/ Forgotten(r)
         \/ HandedOff(r)
  PROVE  OrderlyInv'
<1> USE Names DEF Orderly, TypeOK, OrderlyInv, OneMover, ServerListens, Mover, Request,
        NeverServedAgain, HandedIsStored, SettledPC, StartPC, TeardownPC, serverVars, worldVars,
        Replied
<1>1. CASE Claim(r)
  BY <1>1 DEF Claim, MayCall, InFlight, ClaimsClosed
<1>2. CASE HangUp(r)
  BY <1>2 DEF HangUp
<1>3. CASE Read(r)
  <2>1. CASE PlainClaimRead(r)
    BY <2>1 DEF PlainClaimRead
  <2>2. CASE WifiClaimRead(r)
    BY <2>2 DEF WifiClaimRead
  <2>3. CASE BadClaimRead(r)
    BY <2>3 DEF BadClaimRead
  <2> QED BY <1>3, <2>1, <2>2, <2>3 DEF Read
<1>4. CASE Exchanged(r)
  BY <1>4 DEF Exchanged
<1>5. CASE ExchangeFailed(r)
  BY <1>5 DEF ExchangeFailed, StepFailed
<1>6. CASE Saved(r)
  BY <1>6 DEF Saved
<1>7. CASE SaveFailed(r)
  BY <1>7 DEF SaveFailed, StepFailed
<1>8. CASE Joined(r)
  BY <1>8 DEF Joined
<1>9. CASE JoinFailed(r)
  BY <1>9 DEF JoinFailed
<1>10. CASE Forgotten(r)
  BY <1>10 DEF Forgotten
<1>11. CASE HandedOff(r)
  BY <1>11 DEF HandedOff
<1>. QED
  BY <1>1, <1>2, <1>3, <1>4, <1>5, <1>6, <1>7, <1>8, <1>9, <1>10, <1>11

\* A restart leaves no call under way and no listener.
LEMMA OrderlyCrash == ASSUME TypeOK, OrderlyInv, Crash PROVE OrderlyInv'
BY Names DEF Crash, InFlight, TypeOK, OrderlyInv, OneMover, ServerListens, Mover, Request,
   NeverServedAgain, HandedIsStored, SettledPC, StartPC, TeardownPC

\* Every step keeps one start or claim at a time, and none after a hand-over.
LEMMA OrderlyStep == Orderly /\ TypeOK /\ OrderlyInv /\ [Next]_vars => OrderlyInv'
<1> SUFFICES ASSUME Orderly, TypeOK, OrderlyInv, [Next]_vars PROVE OrderlyInv'
  OBVIOUS
<1>1. CASE UNCHANGED vars
  BY <1>1 DEF vars, serverVars, actorVars, worldVars, OrderlyInv, OneMover, ServerListens, Mover,
     Request, NeverServedAgain, HandedIsStored
<1>. QED
  BY <1>1, OrderlyStart, OrderlyTeardown, OrderlyClaim, OrderlyCrash
     DEF Next, RequestStep, Handling

\* The types and the invariant hold when only stop() overlaps other calls.
LEMMA OrderlyInvariant == ASSUME Orderly PROVE Spec => [](TypeOK /\ OrderlyInv)
BY TypeInit, TypeStep, OrderlyInit, OrderlyStep, PTL DEF Spec

\* When only stop() overlaps, the endpoint is never served once a credential was handed
\* over, not by a later start either.
THEOREM NeverServedAlongside == ASSUME Orderly PROVE Spec => []NeverAlongside
<1>1. OrderlyInv => NeverAlongside
  BY DEF OrderlyInv, ServerListens, NeverServedAgain, NeverAlongside
<1>. QED
  BY <1>1, OrderlyInvariant, PTL

\* When only stop() overlaps, what was handed over is what is stored, whatever codes the
\* requests carry.
THEOREM HandedIsStoredInOrder == ASSUME Orderly PROVE Spec => []HandedIsStored
<1>1. OrderlyInv => HandedIsStored
  BY DEF OrderlyInv
<1>. QED
  BY <1>1, OrderlyInvariant, PTL

\* When only stop() overlaps, only a restart takes a provisioned server out of its state.
THEOREM ProvisionedStays == ASSUME Orderly PROVE Spec => ProvisionedIsFinal
<1>1. TypeOK /\ OrderlyInv /\ [Next]_vars =>
        (serverState = "provisioned" /\ serverState' # "provisioned" => crashes' # crashes)
  <2> SUFFICES ASSUME TypeOK, OrderlyInv, [Next]_vars, serverState = "provisioned",
                      serverState' # "provisioned"
      PROVE crashes' # crashes
    OBVIOUS
  <2> USE Names DEF TypeOK, OrderlyInv, Mover, Request, StartPC
  <2>1. ~UNCHANGED vars
    BY DEF vars, serverVars
  <2>2. ~(\E s \in Starts : Start(s)) /\ ~(\E s \in Listeners : StartStep(s))
    BY DEF Start, StartStep, StoreLoaded, Raised, Bound, BindFailed, Undone, serverVars
  <2>3. /\ ~(\E t \in Stops : Stop(t))
        /\ ~(\E a \in Stops \cup Requests : TeardownStep(a))
        /\ ~(\E r \in Requests : Flushed(r))
    BY DEF Stop, TeardownStep, HttpClosed, Lowered, LoweringFailed, Flushed, CloseHttp,
       StopAccessPoint, TornDown, StateAfterStop, serverVars
  <2>4. \A r \in Requests :
          /\ ~Claim(r) /\ ~HangUp(r) /\ ~Read(r) /\ ~Exchanged(r) /\ ~ExchangeFailed(r)
          /\ ~Saved(r) /\ ~SaveFailed(r) /\ ~Joined(r) /\ ~JoinFailed(r) /\ ~Forgotten(r)
          /\ ~HandedOff(r)
    BY DEF Claim, HangUp, Read, PlainClaimRead, WifiClaimRead, BadClaimRead, Exchanged,
       ExchangeFailed, Saved, SaveFailed, Joined, JoinFailed, Forgotten, HandedOff, serverVars
  <2>. QED
    BY <2>1, <2>2, <2>3, <2>4 DEF Next, RequestStep, Handling, Crash
<1>2. TypeOK /\ OrderlyInv /\ [Next]_vars => TypeOK' /\ OrderlyInv'
  BY TypeStep, OrderlyStep
<1>. QED
  BY <1>1, <1>2, TypeInit, OrderlyInit, PTL DEF Spec, ProvisionedIsFinal
-----------------------------------------------------------------------------
(***************************************************************************)
(* The access point goes down after the replies.  A second stop() would    *)
(* find no server, and lower the access point while the first still waits  *)
(* for a reply: one stop() overlaps.                                       *)
(***************************************************************************)
OneStop == \A t, u \in Stops : t = u

Replying == {"reading", "exchanging", "saving", "replying", "accepted"}

\* A connection belongs to a claim that has not replied, an onboarding's to its 202, and
\* its listener is the one the server holds, with no stop() under way, or the one a stop()
\* waits for.
Awaited(r) ==
  conn[r] # NoServer =>
    /\ pc[r] \in Replying
    /\ r \in wifi => pc[r] = "accepted"
    /\ \/ conn[r] = server /\ \A t \in Stops : pc[t] \notin TeardownPC
       \/ \E t \in Stops : pc[t] = "closing" /\ closing[t] = conn[r]

RepliesInv == \A r \in Requests : Awaited(r)

\* A start binds only when no claim is under way, and its own claim was answered.
LEMMA RepliesStart ==
  ASSUME Orderly, TypeOK, OrderlyInv, RepliesInv,
         (\E s \in Starts : Start(s)) \/ (\E s \in Listeners : StartStep(s))
  PROVE  RepliesInv'
<1> USE Names DEF TypeOK, OrderlyInv, OneMover, RepliesInv, Awaited, Replying, SettledPC,
        TeardownPC, serverVars, worldVars
<1>1. ASSUME NEW s \in Starts, Start(s)
      PROVE  RepliesInv'
  BY <1>1 DEF Start
<1>2. ASSUME NEW s \in Listeners, StoreLoaded(s) \/ Raised(s)
      PROVE  RepliesInv'
  BY <1>2 DEF StoreLoaded, Raised
<1>3. ASSUME NEW s \in Listeners, Bound(s)
      PROVE  RepliesInv'
  <2>1. \A r \in Requests : conn[r] = NoServer
    BY <1>3 DEF Bound
  <2> QED BY <1>3, <2>1 DEF Bound
<1>4. ASSUME NEW s \in Listeners, BindFailed(s) \/ Undone(s)
      PROVE  RepliesInv'
  BY <1>4 DEF BindFailed, UndoAccessPoint, Undone
<1>. QED
  BY <1>1, <1>2, <1>3, <1>4 DEF StartStep

\* stop() takes over the connections of the listener it closes; a claim that tears down
\* has replied, and is the only one.
LEMMA RepliesTeardown ==
  ASSUME Orderly, OneStop, TypeOK, OrderlyInv, RepliesInv,
         \/ \E t \in Stops : Stop(t)
         \/ \E a \in Stops \cup Requests : TeardownStep(a)
         \/ \E r \in Requests : Flushed(r)
  PROVE  RepliesInv'
<1> USE Names DEF OneStop, TypeOK, OrderlyInv, OneMover, RepliesInv, Awaited, Replying,
        SettledPC, TeardownPC, serverVars, worldVars, StopAccessPoint, TornDown
<1>1. ASSUME NEW t \in Stops, Stop(t)
      PROVE  RepliesInv'
  BY <1>1 DEF Stop, CloseHttp
<1>2. ASSUME NEW a \in Stops \cup Requests, HttpClosed(a)
      PROVE  RepliesInv'
  BY <1>2 DEF HttpClosed, ConnectionsEnded
<1>3. ASSUME NEW a \in Stops \cup Requests, Lowered(a)
      PROVE  RepliesInv'
  BY <1>3 DEF Lowered
<1>4. ASSUME NEW a \in Stops \cup Requests, LoweringFailed(a)
      PROVE  RepliesInv'
  BY <1>4 DEF LoweringFailed
<1>5. ASSUME NEW r \in Requests, Flushed(r)
      PROVE  RepliesInv'
  BY <1>5 DEF Flushed, CloseHttp
<1>. QED
  BY <1>1, <1>2, <1>3, <1>4, <1>5 DEF TeardownStep

\* A claim holds its connection until it replies.
LEMMA RepliesClaim ==
  ASSUME Orderly, TypeOK, OrderlyInv, RepliesInv, NEW r \in Requests,
         \/ Claim(r) \/ HangUp(r) \/ Read(r) \/ Exchanged(r) \/ ExchangeFailed(r)
         \/ Saved(r) \/ SaveFailed(r) \/ Joined(r) \/ JoinFailed(r) \/ Forgotten(r)
         \/ HandedOff(r)
  PROVE  RepliesInv'
<1> USE Names DEF TypeOK, OrderlyInv, ServerListens, RepliesInv, Awaited, Replying, SettledPC,
        TeardownPC, serverVars, worldVars, Replied
<1>1. CASE Claim(r)
  BY <1>1 DEF Orderly, Claim, MayCall, InFlight, Request
<1>2. CASE HangUp(r)
  BY <1>2 DEF HangUp
<1>3. CASE Read(r)
  BY <1>3 DEF Read, PlainClaimRead, WifiClaimRead, BadClaimRead
<1>4. CASE Exchanged(r)
  BY <1>4 DEF Exchanged
<1>5. CASE ExchangeFailed(r)
  BY <1>5 DEF ExchangeFailed, StepFailed
<1>6. CASE Saved(r)
  BY <1>6 DEF Saved
<1>7. CASE SaveFailed(r)
  BY <1>7 DEF SaveFailed, StepFailed
<1>8. CASE Joined(r) \/ JoinFailed(r)
  BY <1>8 DEF Joined, JoinFailed
<1>9. CASE Forgotten(r)
  BY <1>9 DEF Forgotten
<1>10. CASE HandedOff(r)
  BY <1>10 DEF HandedOff
<1>. QED
  BY <1>1, <1>2, <1>3, <1>4, <1>5, <1>6, <1>7, <1>8, <1>9, <1>10

\* Every step leaves a connection to a claim that will reply and to whoever waits for it.
LEMMA RepliesStep ==
  Orderly /\ OneStop /\ TypeOK /\ OrderlyInv /\ RepliesInv /\ [Next]_vars => RepliesInv'
<1> SUFFICES ASSUME Orderly, OneStop, TypeOK, OrderlyInv, RepliesInv, [Next]_vars
    PROVE  RepliesInv'
  OBVIOUS
<1>1. CASE UNCHANGED vars
  BY <1>1 DEF vars, serverVars, actorVars, worldVars, RepliesInv, Awaited
<1>2. CASE Crash
  BY <1>2 DEF Crash, RepliesInv, Awaited
<1>. QED
  BY <1>1, <1>2, RepliesStart, RepliesTeardown, RepliesClaim DEF Next, RequestStep, Handling

\* Only the end of a teardown, or of a start that undoes its access point, takes it down.
LEMMA WhoLowers ==
  ASSUME TypeOK, [Next]_vars, ap, ~ap'
  PROVE  \E a \in Actors : pc[a] = "lowering" \/ (a \in Listeners /\ pc[a] = "undoing")
<1> USE Names DEF TypeOK, serverVars, worldVars
<1>1. ~UNCHANGED vars /\ ~Crash
  BY DEF vars, Crash
<1>2. ASSUME NEW s \in Listeners, Start(s) \/ StartStep(s)
      PROVE  pc[s] = "undoing"
  BY <1>2 DEF Start, StartStep, StoreLoaded, Raised, Bound, BindFailed, Undone
<1>3. ASSUME NEW a \in Stops \cup Requests, Stop(a) \/ TeardownStep(a)
      PROVE  pc[a] = "lowering"
  BY <1>3 DEF Stop, TeardownStep, HttpClosed, Lowered, LoweringFailed
<1>4. ASSUME NEW r \in Requests
      PROVE  ~Claim(r) /\ ~RequestStep(r) /\ ~HangUp(r)
  BY <1>4 DEF Claim, HangUp, RequestStep, Handling, Read, PlainClaimRead, WifiClaimRead,
     BadClaimRead, Exchanged, ExchangeFailed, Saved, SaveFailed, Flushed, Joined, JoinFailed, Forgotten,
     HandedOff
<1>. QED
  BY <1>1, <1>2, <1>3, <1>4 DEF Next

\* When one stop() overlaps a start or a claim, the access point goes down only once every
\* reply left its connection.
THEOREM RepliesGoBeforeTheDrop == ASSUME Orderly, OneStop PROVE Spec => RepliesBeforeDown
<1>1. TypeOK /\ OrderlyInv /\ RepliesInv /\ [Next]_vars =>
        (ap /\ ~ap' => \A r \in Requests : conn[r] = NoServer)
  <2> SUFFICES ASSUME TypeOK, OrderlyInv, RepliesInv, [Next]_vars, ap, ~ap', NEW r \in Requests
      PROVE  conn[r] = NoServer
    OBVIOUS
  <2>1. PICK a \in Actors : pc[a] = "lowering" \/ (a \in Listeners /\ pc[a] = "undoing")
    BY WhoLowers
  <2>2. CASE a \in Listeners
    <3>1. pc[a] \notin SettledPC /\ pc[a] \notin Replying
      BY <2>1 DEF SettledPC, Replying
    <3>2. pc[r] \in Replying => pc[r] \notin SettledPC
      BY DEF SettledPC, Replying
    <3>. QED
      BY <2>2, <3>1, <3>2, Names DEF OrderlyInv, OneMover, RepliesInv, Awaited
  <2>3. CASE a \in Stops
    BY <2>1, <2>3, Names DEF Listeners, OneStop, TypeOK, RepliesInv, Awaited, TeardownPC
  <2>. QED
    BY <2>2, <2>3, Names
<1>2. TypeOK /\ OrderlyInv /\ RepliesInv /\ [Next]_vars => TypeOK' /\ OrderlyInv' /\ RepliesInv'
  BY TypeStep, OrderlyStep, RepliesStep
<1>3. Init => RepliesInv
  BY DEF Init, RepliesInv, Awaited
<1>. QED
  BY <1>1, <1>2, <1>3, TypeInit, OrderlyInit, PTL DEF Spec, RepliesBeforeDown

-----------------------------------------------------------------------------
(***************************************************************************)
(* Whom a teardown waits for, whatever overlaps.                           *)
(***************************************************************************)

\* A connection belongs to a handler that has not replied; an onboarding gave its own up
\* with its 202.
Holding(r) ==
  /\ pc[r] \in {"ready", "reading"} => r \notin wifi
  /\ conn[r] # NoServer => /\ pc[r] \in Replying
                           /\ r \in wifi => pc[r] = "accepted"

HoldInv ==
  /\ \A r \in Requests : Holding(r)
  /\ \A a \in Actors : pc[a] = "closing" => closing[a] # NoServer

\* A teardown waits for the listener it closed, and its own connection is gone by then.
LEMMA HoldTeardown ==
  ASSUME TypeOK, HoldInv,
         \/ \E t \in Stops : Stop(t)
         \/ \E a \in Stops \cup Requests : TeardownStep(a)
         \/ \E r \in Requests : Flushed(r)
  PROVE  HoldInv'
<1> USE Names DEF TypeOK, HoldInv, Holding, Replying, StopAccessPoint, TornDown, serverVars,
        worldVars
<1>1. ASSUME NEW t \in Stops, Stop(t)
      PROVE  HoldInv'
  BY <1>1 DEF Stop, CloseHttp
<1>2. ASSUME NEW a \in Stops \cup Requests, HttpClosed(a)
      PROVE  HoldInv'
  BY <1>2 DEF HttpClosed
<1>3. ASSUME NEW a \in Stops \cup Requests, Lowered(a) \/ LoweringFailed(a)
      PROVE  HoldInv'
  BY <1>3 DEF Lowered, LoweringFailed
<1>4. ASSUME NEW r \in Requests, Flushed(r)
      PROVE  HoldInv'
  BY <1>4 DEF Flushed, CloseHttp
<1>. QED
  BY <1>1, <1>2, <1>3, <1>4 DEF TeardownStep

\* A claim holds its connection until it replies.
LEMMA HoldClaim ==
  ASSUME TypeOK, HoldInv, NEW r \in Requests,
         \/ Claim(r) \/ HangUp(r) \/ Read(r) \/ Exchanged(r) \/ ExchangeFailed(r)
         \/ Saved(r) \/ SaveFailed(r) \/ Joined(r) \/ JoinFailed(r) \/ Forgotten(r)
         \/ HandedOff(r)
  PROVE  HoldInv'
<1> USE Names DEF TypeOK, HoldInv, Holding, Replying, serverVars, worldVars, Replied
<1>1. CASE Claim(r) \/ HangUp(r)
  BY <1>1 DEF Claim, HangUp
<1>2. CASE Read(r)
  BY <1>2 DEF Read, PlainClaimRead, WifiClaimRead, BadClaimRead
<1>3. CASE Exchanged(r) \/ ExchangeFailed(r)
  BY <1>3 DEF Exchanged, ExchangeFailed, StepFailed
<1>4. CASE Saved(r) \/ SaveFailed(r)
  BY <1>4 DEF Saved, SaveFailed, StepFailed
<1>5. CASE Joined(r) \/ JoinFailed(r) \/ Forgotten(r) \/ HandedOff(r)
  BY <1>5 DEF Joined, JoinFailed, Forgotten, HandedOff
<1>. QED
  BY <1>1, <1>2, <1>3, <1>4, <1>5

\* So does every step.
LEMMA HoldStep == TypeOK /\ HoldInv /\ [Next]_vars => HoldInv'
<1> SUFFICES ASSUME TypeOK, HoldInv, [Next]_vars PROVE HoldInv'
  OBVIOUS
<1> USE Names DEF TypeOK, HoldInv, Holding, Replying
<1>1. CASE UNCHANGED vars
  BY <1>1 DEF vars, actorVars
<1>2. CASE (\E s \in Starts : Start(s)) \/ (\E s \in Listeners : StartStep(s))
  BY <1>2 DEF Start, StartStep, StoreLoaded, Raised, Bound, BindFailed, UndoAccessPoint, Undone
<1>3. CASE Crash
  BY <1>3 DEF Crash, InFlight, SettledPC
<1>. QED
  BY <1>1, <1>2, <1>3, HoldTeardown, HoldClaim DEF Next, RequestStep, Handling

\* Nothing that starts, stops or claims do to each other has a teardown wait for a handler
\* that waits for a teardown.
THEOREM TeardownsNeverWaitInCircles == Spec => []NoWaitingCircle
<1>1. Init => HoldInv
  BY Names DEF Init, HoldInv, Holding
<1>2. TypeOK /\ HoldInv /\ [Next]_vars => TypeOK' /\ HoldInv'
  BY TypeStep, HoldStep
<1>3. HoldInv => NoWaitingCircle
  BY DEF HoldInv, Holding, NoWaitingCircle, Replying, ClaimPC
<1>. QED
  BY <1>1, <1>2, <1>3, TypeInit, PTL DEF Spec

-----------------------------------------------------------------------------
(***************************************************************************)
(* What becomes of a stored credential, whatever overlaps.                 *)
(***************************************************************************)

\* A stored credential went to onProvisioned, or its handler is on the way there: it waits
\* for its reply or tears down; or it reported that the access point stayed up, or its
\* companion app has gone; otherwise only a restart loses it.
StoredIsOnItsWay ==
  \A r \in Requests :
    store = r => \/ r \in handed
                 \/ pc[r] \in {"replying", "failed", "abandoned"} \cup TeardownPC
                 \/ crashes > 0

\* An onboarding stores after its teardown, and then hands over at once.
PlainReplies ==
  \A r \in Requests : /\ pc[r] = "replying" => r \notin wifi
                      /\ pc[r] \in {"ready", "reading"} => r \notin wifi
                      /\ pc[r] = "accepted" => r \in wifi
                      /\ store = r /\ pc[r] \in TeardownPC
                           => r \notin wifi \/ r \in handed \/ crashes > 0

\* Every step keeps both.
LEMMA OnItsWayStep ==
  TypeOK /\ PlainReplies /\ StoredIsOnItsWay /\ [Next]_vars => PlainReplies' /\ StoredIsOnItsWay'
<1> SUFFICES ASSUME TypeOK, PlainReplies, StoredIsOnItsWay, [Next]_vars
    PROVE  PlainReplies' /\ StoredIsOnItsWay'
  OBVIOUS
<1> USE Names DEF TypeOK, PlainReplies, StoredIsOnItsWay, TeardownPC, serverVars, worldVars
<1>1. CASE UNCHANGED vars
  BY <1>1 DEF vars, actorVars
<1>2. CASE (\E s \in Starts : Start(s)) \/ (\E s \in Listeners : StartStep(s))
  BY <1>2 DEF Start, StartStep, StoreLoaded, Raised, Bound, BindFailed, UndoAccessPoint, Undone
<1>3. CASE \E t \in Stops : Stop(t)
  BY <1>3 DEF Stop, CloseHttp, StopAccessPoint, TornDown
<1>4. ASSUME NEW a \in Stops \cup Requests, HttpClosed(a)
      PROVE  PlainReplies' /\ StoredIsOnItsWay'
  BY <1>4 DEF HttpClosed, StopAccessPoint, TornDown
<1>5. ASSUME NEW a \in Stops \cup Requests, Lowered(a) \/ LoweringFailed(a)
      PROVE  PlainReplies' /\ StoredIsOnItsWay'
  BY <1>5 DEF Lowered, LoweringFailed, TornDown
<1>6. ASSUME NEW r \in Requests, Flushed(r)
      PROVE  PlainReplies' /\ StoredIsOnItsWay'
  BY <1>6 DEF Flushed, CloseHttp, StopAccessPoint, TornDown
<1>7. ASSUME NEW r \in Requests, Claim(r) \/ HangUp(r) \/ Read(r) \/ HandedOff(r)
      PROVE  PlainReplies' /\ StoredIsOnItsWay'
  BY <1>7 DEF Claim, HangUp, Read, PlainClaimRead, WifiClaimRead, BadClaimRead, HandedOff, Replied
<1>8. ASSUME NEW r \in Requests, Exchanged(r) \/ ExchangeFailed(r) \/ SaveFailed(r)
      PROVE  PlainReplies' /\ StoredIsOnItsWay'
  BY <1>8 DEF Exchanged, ExchangeFailed, SaveFailed, StepFailed, Replied
<1>9. ASSUME NEW r \in Requests, Saved(r)
      PROVE  PlainReplies' /\ StoredIsOnItsWay'
  BY <1>9 DEF Saved
<1>10. ASSUME NEW r \in Requests, Joined(r) \/ JoinFailed(r) \/ Forgotten(r)
      PROVE  PlainReplies' /\ StoredIsOnItsWay'
  <2>1. CASE Joined(r)
    BY <2>1 DEF Joined
  <2>2. CASE JoinFailed(r)
    BY <2>2 DEF JoinFailed
  <2>3. CASE Forgotten(r)
    BY <2>3 DEF Forgotten
  <2>. QED
    BY <1>10, <2>1, <2>2, <2>3
<1>11. CASE Crash
  BY <1>11 DEF Crash, InFlight, SettledPC
<1>. QED
  BY <1>1, <1>2, <1>3, <1>4, <1>5, <1>6, <1>7, <1>8, <1>9, <1>10, <1>11
     DEF Next, RequestStep, Handling, TeardownStep

\* No overlap, failed step or hang-up has the server drop a credential it stored.
THEOREM StoredCredentialIsNeverDropped == Spec => []StoredIsOnItsWay
<1>1. Init => PlainReplies /\ StoredIsOnItsWay
  BY Names DEF Init, PlainReplies, StoredIsOnItsWay, TeardownPC
<1>. QED
  BY <1>1, OnItsWayStep, TypeInit, TypeStep, PTL DEF Spec

-----------------------------------------------------------------------------
(***************************************************************************)
(* The promise of OneClaim, when only stop() overlaps.                     *)
(***************************************************************************)

\* A claim under way finds nothing stored; once something is, the endpoint is open only
\* for the reply of the claim that stored it, and refuses every other.
Claiming(r) ==
  /\ pc[r] \in {"reading", "exchanging", "saving", "accepted", "joining", "forgetting"}
       => store = NoCredential
  /\ pc[r] \in TeardownPC /\ r \in wifi => store = NoCredential

OneClaimInv ==
  /\ \A r \in Requests : Claiming(r)
  /\ server # NoServer /\ store # NoCredential
       => pc[store] \in {"replying", "abandoned"} /\ serverState = "provisioned"

\* A start, and a teardown, keep it: neither changes the store.
LEMMA OneClaimLifecycle ==
  ASSUME Orderly, TypeOK, OrderlyInv, OneClaimInv,
         \/ (\E s \in Starts : Start(s)) \/ (\E s \in Listeners : StartStep(s))
         \/ \E t \in Stops : Stop(t)
         \/ \E a \in Stops \cup Requests : TeardownStep(a)
         \/ \E r \in Requests : Flushed(r)
  PROVE  OneClaimInv'
<1> USE Names DEF TypeOK, OneClaimInv, Claiming, TeardownPC, serverVars, worldVars
<1>1. CASE (\E s \in Starts : Start(s)) \/ (\E s \in Listeners : StartStep(s))
  <2>1. ASSUME NEW s \in Listeners, Start(s) \/ StoreLoaded(s) \/ Raised(s)
        PROVE  OneClaimInv'
    BY <2>1 DEF Start, StoreLoaded, Raised
  <2>2. ASSUME NEW s \in Listeners, Bound(s)
        PROVE  OneClaimInv'
    BY <2>2 DEF Bound, OrderlyInv, Mover
  <2>3. ASSUME NEW s \in Listeners, BindFailed(s) \/ Undone(s)
        PROVE  OneClaimInv'
    BY <2>3 DEF BindFailed, UndoAccessPoint, Undone
  <2> QED BY <1>1, <2>1, <2>2, <2>3 DEF StartStep
<1>2. ASSUME NEW t \in Stops, Stop(t)
      PROVE  OneClaimInv'
  BY <1>2 DEF Stop, CloseHttp, StopAccessPoint, TornDown,
     StateAfterStop
<1>3. ASSUME NEW a \in Stops \cup Requests, TeardownStep(a)
      PROVE  OneClaimInv'
  BY <1>3 DEF TeardownStep, HttpClosed, Lowered, LoweringFailed, StopAccessPoint, TornDown,
     StateAfterStop
<1>4. ASSUME NEW r \in Requests, Flushed(r)
      PROVE  OneClaimInv'
  BY <1>4 DEF Flushed, CloseHttp, StopAccessPoint, TornDown,
     StateAfterStop, OrderlyInv, Request
<1>. QED
  BY <1>1, <1>2, <1>3, <1>4

\* A claim begins while no other is under way, and so finds nothing stored.
LEMMA OneClaimClaim ==
  ASSUME Orderly, TypeOK, OrderlyInv, OneClaimInv, NEW r \in Requests,
         \/ Claim(r) \/ HangUp(r) \/ Read(r) \/ Exchanged(r) \/ ExchangeFailed(r)
         \/ Saved(r) \/ SaveFailed(r) \/ Joined(r) \/ JoinFailed(r) \/ Forgotten(r)
         \/ HandedOff(r)
  PROVE  OneClaimInv'
<1> USE Names DEF TypeOK, OneClaimInv, Claiming, TeardownPC, serverVars, worldVars, Replied
<1>1. CASE Claim(r)
  BY <1>1 DEF Orderly, Claim, MayCall, InFlight, SettledPC, OrderlyInv, ServerListens,
     ClaimsClosed
<1>2. CASE HangUp(r)
  BY <1>2 DEF HangUp
<1>3. CASE Read(r)
  BY <1>3 DEF Read, PlainClaimRead, WifiClaimRead, BadClaimRead
<1>4. CASE Exchanged(r) \/ ExchangeFailed(r)
  BY <1>4 DEF Exchanged, ExchangeFailed, StepFailed
<1>5. CASE Saved(r)
  BY <1>5 DEF Saved, OrderlyInv, OneMover, Request, SettledPC
<1>6. CASE SaveFailed(r)
  BY <1>6 DEF SaveFailed, StepFailed
<1>7. CASE Joined(r) \/ JoinFailed(r) \/ Forgotten(r) \/ HandedOff(r)
  BY <1>7 DEF Joined, JoinFailed, Forgotten, HandedOff
<1>. QED
  BY <1>1, <1>2, <1>3, <1>4, <1>5, <1>6, <1>7

\* Every step keeps a claim under way the first.
LEMMA OneClaimStep ==
  Orderly /\ TypeOK /\ OrderlyInv /\ OneClaimInv /\ [Next]_vars => OneClaimInv'
<1> SUFFICES ASSUME Orderly, TypeOK, OrderlyInv, OneClaimInv, [Next]_vars PROVE OneClaimInv'
  OBVIOUS
<1>1. CASE UNCHANGED vars
  BY <1>1 DEF vars, serverVars, actorVars, worldVars, OneClaimInv, Claiming
<1>2. CASE Crash
  BY <1>2, Names DEF Crash, OneClaimInv, Claiming, TypeOK, InFlight, SettledPC, TeardownPC
<1>. QED
  BY <1>1, <1>2, OneClaimLifecycle, OneClaimClaim DEF Next, RequestStep, Handling

\* start() opens the endpoint only while nothing is stored.
LEMMA StartImplements ==
  ASSUME TypeOK, OrderlyInv,
         (\E s \in Starts : Start(s)) \/ (\E s \in Listeners : StartStep(s))
  PROVE  [Contract!Next]_(Contract!vars)
<1> USE Names DEF worldVars, Contract!vars
<1>1. ASSUME NEW s \in Listeners, Bound(s)
      PROVE  Contract!Open
  BY <1>1 DEF Bound, OrderlyInv, Mover, Contract!Open
<1>2. ASSUME NEW s \in Listeners,
             Start(s) \/ StoreLoaded(s) \/ Raised(s) \/ BindFailed(s) \/ Undone(s)
      PROVE  UNCHANGED Contract!vars
  BY <1>2 DEF Start, StoreLoaded, Raised, BindFailed, Undone
<1>. QED
  BY <1>1, <1>2 DEF StartStep, Contract!Next

\* What follows a teardown hands over the stored credential, or nothing.
LEMMA TornDownImplements ==
  ASSUME TypeOK, OrderlyInv, NEW a \in Stops \cup Requests, TornDown(a),
         a \in Requests => pc[a] \in TeardownPC \/ (pc[a] \in {"replying", "accepted"} /\ server = NoServer),
         UNCHANGED <<listening, store>>
  PROVE  [Contract!Next]_(Contract!vars)
<1> USE Names DEF TypeOK, OrderlyInv, Request, TeardownPC, Contract!vars
<1>1. CASE a \in Stops \/ a \in wifi
  BY <1>1 DEF TornDown
<1>2. CASE a \in Requests \ wifi
  <2>1. handed = {} /\ handed' = {store} /\ store # NoCredential /\ listening = {}
    BY <1>2 DEF TornDown, ServerListens
  <2>2. Contract!HandOver
    BY <2>1 DEF Contract!HandOver
  <2> QED BY <2>2 DEF Contract!Next
<1>. QED
  BY <1>1, <1>2

\* A teardown closes the endpoint, and hands over only once it is closed.
LEMMA TeardownImplements ==
  ASSUME TypeOK, OrderlyInv,
         \/ \E t \in Stops : Stop(t)
         \/ \E a \in Stops \cup Requests : TeardownStep(a)
         \/ \E r \in Requests : Flushed(r)
  PROVE  [Contract!Next]_(Contract!vars)
<1>1. ASSUME NEW a \in Stops \cup Requests, StopAccessPoint(a), UNCHANGED <<listening, store>>,
             a \in Requests =>
               pc[a] \in TeardownPC \/ (pc[a] \in {"replying", "accepted"} /\ server = NoServer)
      PROVE  [Contract!Next]_(Contract!vars)
  BY <1>1, TornDownImplements DEF StopAccessPoint, Contract!vars
<1>2. ASSUME NEW a \in Stops \cup Requests, CloseHttp(a), UNCHANGED store,
             a \in Requests => pc[a] \in {"replying", "accepted"}
      PROVE  [Contract!Next]_(Contract!vars)
  <2>1. CASE server # NoServer
    <3>1. listening' = {} /\ UNCHANGED handed
      BY <1>2, <2>1 DEF CloseHttp, OrderlyInv, ServerListens
    <3>2. Contract!Close
      BY <1>2, <3>1 DEF Contract!Close
    <3> QED BY <3>2 DEF Contract!Next
  <2>2. CASE server = NoServer
    BY <1>1, <1>2, <2>2 DEF CloseHttp
  <2> QED BY <2>1, <2>2
<1>3. ASSUME NEW t \in Stops, Stop(t)
      PROVE  [Contract!Next]_(Contract!vars)
  BY <1>2, <1>3, Names DEF Stop
<1>4. ASSUME NEW a \in Stops \cup Requests, HttpClosed(a)
      PROVE  [Contract!Next]_(Contract!vars)
  BY <1>1, <1>4 DEF HttpClosed, TeardownPC
<1>5. ASSUME NEW a \in Stops \cup Requests, Lowered(a)
      PROVE  [Contract!Next]_(Contract!vars)
  BY <1>5, TornDownImplements DEF Lowered, TeardownPC
<1>6. ASSUME NEW a \in Stops \cup Requests, LoweringFailed(a)
      PROVE  UNCHANGED Contract!vars
  BY <1>6 DEF LoweringFailed, worldVars, Contract!vars
<1>7. ASSUME NEW r \in Requests, Flushed(r)
      PROVE  [Contract!Next]_(Contract!vars)
  BY <1>2, <1>7 DEF Flushed
<1>. QED
  BY <1>3, <1>4, <1>5, <1>6, <1>7 DEF TeardownStep

\* A claim saves while nothing is stored; an onboarding, off its setup network, hands over
\* at once.
LEMMA ClaimImplements ==
  ASSUME TypeOK, OrderlyInv, OneClaimInv, NEW r \in Requests,
         \/ Claim(r) \/ HangUp(r) \/ Read(r) \/ Exchanged(r) \/ ExchangeFailed(r)
         \/ Saved(r) \/ SaveFailed(r) \/ Joined(r) \/ JoinFailed(r) \/ Forgotten(r)
         \/ HandedOff(r)
  PROVE  [Contract!Next]_(Contract!vars)
<1>1. CASE Saved(r)
  <2>1. store = NoCredential /\ store' = r /\ UNCHANGED listening
    BY <1>1 DEF Saved, OneClaimInv, Claiming
  <2>2. r \in wifi => listening = {} /\ handed = {} /\ handed' = {r}
    BY <1>1 DEF Saved, OrderlyInv, Request, ServerListens
  <2>3. r \notin wifi => UNCHANGED handed
    BY <1>1 DEF Saved
  <2>4. Contract!Save(r)
    BY <2>1, <2>2, <2>3 DEF Contract!Save
  <2> QED BY <2>4 DEF Contract!Next
<1>2. CASE ~Saved(r)
  BY <1>2 DEF Claim, HangUp, Read, PlainClaimRead, WifiClaimRead, BadClaimRead, Exchanged,
     ExchangeFailed, SaveFailed, Joined, JoinFailed, Forgotten, HandedOff, worldVars,
     Contract!vars
<1>. QED
  BY <1>1, <1>2

\* A restart is one of the contract.
LEMMA CrashImplements ==
  ASSUME TypeOK, OneClaimInv, Crash
  PROVE  [Contract!Next]_(Contract!vars)
<1>1. listening' = {} /\ UNCHANGED handed
  BY DEF Crash
<1>2. store' = store \/ (store = NoCredential /\ store' \in Requests)
  BY DEF Crash, OneClaimInv, Claiming
<1>3. Contract!Restart
  BY <1>1, <1>2 DEF Contract!Restart
<1>. QED
  BY <1>3 DEF Contract!Next

\* When only stop() overlaps, the server implements OneClaim, whatever fails, hangs up or
\* restarts: the endpoint opens only while nothing is stored, one claim is stored, and it
\* is handed over, once, after the endpoint closed.
THEOREM ServerImplementsOneClaim == ASSUME Orderly PROVE Spec => ImplementsOneClaim
<1>1. Init => OneClaimInv /\ Contract!Init
  BY DEF Init, OneClaimInv, Claiming, TeardownPC, Contract!Init
<1>2. TypeOK /\ OrderlyInv /\ OneClaimInv /\ [Next]_vars => [Contract!Next]_(Contract!vars)
  <2> SUFFICES ASSUME TypeOK, OrderlyInv, OneClaimInv, [Next]_vars
      PROVE  [Contract!Next]_(Contract!vars)
    OBVIOUS
  <2>1. CASE UNCHANGED vars
    BY <2>1 DEF vars, worldVars, Contract!vars
  <2>. QED
    BY <2>1, StartImplements, TeardownImplements, ClaimImplements, CrashImplements
       DEF Next, RequestStep, Handling
<1>3. TypeOK /\ OrderlyInv /\ OneClaimInv /\ [Next]_vars
        => TypeOK' /\ OrderlyInv' /\ OneClaimInv'
  BY TypeStep, OrderlyStep, OneClaimStep
<1>. QED
  BY <1>1, <1>2, <1>3, TypeInit, OrderlyInit, PTL DEF Spec, ImplementsOneClaim, Contract!Spec

-----------------------------------------------------------------------------
(***************************************************************************)
(* The passphrase, whatever overlaps.                                      *)
(***************************************************************************)
PassphraseInv ==
  /\ \A r \in Requests : pc[r] = "joining" => r \in wifi
  /\ PassphraseForgotten

\* Every step keeps a stored home network with an onboarding that will forget or finish
\* it.
LEMMA PassphraseStep ==
  ASSUME "forget" \notin Failing, TypeOK, PassphraseInv, [Next]_vars
  PROVE  PassphraseInv'
<1> USE Names DEF TypeOK, PassphraseInv, PassphraseForgotten, serverVars, worldVars
<1>1. CASE UNCHANGED vars
  BY <1>1 DEF vars, actorVars
<1>2. CASE (\E s \in Starts : Start(s)) \/ (\E s \in Listeners : StartStep(s))
  BY <1>2 DEF Start, StartStep, StoreLoaded, Raised, Bound, BindFailed, UndoAccessPoint, Undone
<1>3. CASE \/ \E t \in Stops : Stop(t)
           \/ \E a \in Stops \cup Requests : TeardownStep(a)
           \/ \E r \in Requests : Flushed(r)
  BY <1>3 DEF Stop, TeardownStep, HttpClosed, Lowered, LoweringFailed, Flushed, CloseHttp,
     StopAccessPoint, TornDown
<1>4. ASSUME NEW r \in Requests, Claim(r) \/ HangUp(r) \/ Read(r) \/ HandedOff(r)
      PROVE  PassphraseInv'
  BY <1>4 DEF Claim, HangUp, Read, PlainClaimRead, WifiClaimRead, BadClaimRead, HandedOff, Replied
<1>5. ASSUME NEW r \in Requests, Exchanged(r) \/ ExchangeFailed(r) \/ SaveFailed(r)
      PROVE  PassphraseInv'
  BY <1>5 DEF Exchanged, ExchangeFailed, SaveFailed, StepFailed, Replied
<1>6. ASSUME NEW r \in Requests, Saved(r)
      PROVE  PassphraseInv'
  BY <1>6 DEF Saved
<1>7. ASSUME NEW r \in Requests, Joined(r) \/ JoinFailed(r) \/ Forgotten(r)
      PROVE  PassphraseInv'
  BY <1>7 DEF Joined, JoinFailed, Forgotten, MayFail
<1>8. CASE Crash
  BY <1>8 DEF Crash, InFlight, SettledPC
<1>. QED
  BY <1>1, <1>2, <1>3, <1>4, <1>5, <1>6, <1>7, <1>8 DEF Next, RequestStep, Handling

\* Unless the controller fails to forget, a stored passphrase belongs to an onboarding under
\* way or handed over, or was left by a restart.
THEOREM PassphraseNeverLeftBehind ==
  ASSUME "forget" \notin Failing PROVE Spec => []PassphraseForgotten
<1>1. Init => PassphraseInv
  BY Names DEF Init, PassphraseInv, PassphraseForgotten
<1>2. TypeOK /\ PassphraseInv /\ [Next]_vars => TypeOK' /\ PassphraseInv'
  BY TypeStep, PassphraseStep
<1>3. PassphraseInv => PassphraseForgotten
  BY DEF PassphraseInv
<1>. QED
  BY <1>1, <1>2, <1>3, TypeInit, PTL DEF Spec
=============================================================================
