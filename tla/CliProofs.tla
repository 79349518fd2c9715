------------------------------ MODULE CliProofs ------------------------------
(***************************************************************************)
(* Theorems about Cli, for any sets of processes: type correctness, that   *)
(* every credential stored or presented works, whatever overlaps, and that *)
(* the store only moves forward when one command writes at a time.         *)
(***************************************************************************)
EXTENDS Cli, TLAPS

\* Each await belongs to a command, and a command holds a credential exactly where it
\* is about to present or to save it.
Places ==
  \A p \in Processes :
    /\ pc[p] = "claiming" => p \in Claims
    /\ pc[p] = "loading" => p \in Provisions \cup Connects
    /\ pc[p] = "enrolling" => p \in Provisions /\ held[p] # Nothing
    /\ pc[p] = "saving" => p \in Writers /\ held[p] # Nothing
    /\ pc[p] \in {"connecting", "subscribing", "publishing", "holding", "disconnecting"}
         => p \in Connects
    /\ pc[p] = "connecting" => held[p] # Nothing

CliInv == TypeOK /\ Places /\ CredentialsWork

\* The assumptions about the processes and the absent credential.
LEMMA ProcessSets ==
  /\ Claims \cap Provisions = {} /\ Writers \cap Connects = {}
  /\ Exclusive \in BOOLEAN /\ Nothing \notin Credentials
BY ProcessesAssumption, ExclusiveAssumption, NothingAssumption

\* A token, and a certificate for a held credential, are secrets; the credential that
\* carries one has it as its secret.
LEMMA SecretsOf ==
  /\ \A c \in Credentials : SecretOf(c) \in Secrets
  /\ \A p \in Claims : TokenFor(p) \in Secrets
  /\ \A p \in Claims, g \in Gateways :
       LET c == [device |-> p, kind |-> "token", secret |-> p, gateway |-> g]
       IN  c \in Credentials /\ SecretOf(c) = TokenFor(p)
BY DEF SecretOf, TokenFor, Secrets, Credentials, Writers

\* The certificate stored by an enrolment carries the secret the platform issued to it.
LEMMA CertificateOf ==
  ASSUME NEW p \in Provisions, held[p] \in Credentials
  PROVE  /\ CertificateFor(p) \in Secrets
         /\ \A n \in Gateways : /\ Certified(p, held[p], n) \in Credentials
                               /\ SecretOf(Certified(p, held[p], n)) = CertificateFor(p)
BY DEF SecretOf, CertificateFor, Certified, CertifiedFor, KeptGateway, Gateways, Secrets, Credentials, Writers

-----------------------------------------------------------------------------
\* Nothing is stored, held or granted before a command is launched.
LEMMA CliInit == Init => CliInv
BY ProcessSets DEF Init, CliInv, TypeOK, Places, CredentialsWork, StoredWorks, HeldWorks, Running,
   Ended

\* Every step of every process keeps what is stored and held one the platform takes.
LEMMA CliStep == CliInv /\ [Next]_vars => CliInv'
<1> SUFFICES ASSUME CliInv, [Next]_vars PROVE CliInv'
  OBVIOUS
<1> USE ProcessSets DEF CliInv, TypeOK, Places, CredentialsWork, StoredWorks, HeldWorks, Goto
<1>a. Claims \subseteq Writers /\ Provisions \subseteq Writers /\ Writers \subseteq Processes
      /\ Connects \subseteq Processes /\ Processes = Claims \cup Provisions \cup Connects
  BY DEF Writers, Processes
<1>1. CASE UNCHANGED vars
  BY <1>1 DEF vars
<1>2. ASSUME NEW p \in Processes, Launch(p) \/ Misused(p) \/ Interrupted(p)
      PROVE CliInv'
  BY <1>2, <1>a DEF Launch, Misused, Interrupted, FirstAwait, Running, Ended
<1>3. ASSUME NEW p \in Processes, Claimed(p)
      PROVE CliInv'
  BY <1>3, <1>a, SecretsOf DEF Claimed, Running, Ended
<1>4. ASSUME NEW p \in Processes, ClaimFailed(p)
      PROVE CliInv'
  BY <1>4, <1>a, SecretsOf DEF ClaimFailed, Rejected, Running, Ended
<1>5. ASSUME NEW p \in Processes, Loaded(p) \/ LoadRejected(p)
      PROVE CliInv'
  BY <1>5, <1>a DEF Loaded, LoadRejected, Rejected, Running, Ended
<1>6. ASSUME NEW p \in Processes, Enrolled(p)
      PROVE CliInv'
  BY <1>6, <1>a, CertificateOf DEF Enrolled, Running, Ended
<1>7. ASSUME NEW p \in Processes, EnrolFailed(p)
      PROVE CliInv'
  BY <1>7, <1>a, CertificateOf DEF EnrolFailed, Rejected, Running, Ended
<1>8. ASSUME NEW p \in Processes, Saved(p) \/ SaveFailed(p)
      PROVE CliInv'
  BY <1>8, <1>a DEF Saved, SaveFailed, Rejected, Running, Ended
<1>9. ASSUME NEW p \in Processes,
             Connected(p) \/ ConnectFailed(p) \/ Subscribed(p) \/ Published(p)
             \/ SmokeTestFailed(p) \/ Disconnected(p)
      PROVE CliInv'
  BY <1>9, <1>a DEF Connected, ConnectFailed, Subscribed, Published, SmokeTestFailed, Disconnected,
     AfterConnect, AfterSubscribe, Rejected, Running, Ended
<1>10. ASSUME NEW p \in Processes, Killed(p)
       PROVE CliInv'
  BY <1>10, <1>a, SecretsOf, CertificateOf DEF Killed, AskedFor, Running, Ended
<1>. QED
  BY <1>1, <1>2, <1>3, <1>4, <1>5, <1>6, <1>7, <1>8, <1>9, <1>10 DEF Next, Step

\* So it holds throughout, however the processes overlap.
LEMMA CliInvariant == Spec => []CliInv
BY CliInit, CliStep, PTL DEF Spec

\* Every variable has its type.
THEOREM TypeCorrect == Spec => []TypeOK
BY CliInvariant, PTL DEF CliInv

\* The platform takes the credential that is stored, and every one that a command presents
\* or is about to store, for any overlap of the commands.
THEOREM CredentialsAlwaysWork == Spec => []CredentialsWork
BY CliInvariant, PTL DEF CliInv

-----------------------------------------------------------------------------
(***************************************************************************)
(* One writer at a time.  StoreMovesForward is about what is stored when   *)
(* the save runs, so the invariant follows a provision from its load: the  *)
(* credential it enrols with is still the stored one, and what it is about *)
(* to save is its certificate.                                             *)
(***************************************************************************)
OneWriter == \A p, q \in Writers : pc[p] \in Running /\ pc[q] \in Running => p = q

EnrolsTheStored ==
  \A p \in Provisions :
    /\ pc[p] = "enrolling" => store = held[p]
    /\ pc[p] = "saving" => store # Nothing /\ Upgrades(held[p], store)

ClaimsAToken == \A p \in Claims : pc[p] = "saving" => held[p].kind = "token"

WriterInv == CliInv /\ OneWriter /\ EnrolsTheStored /\ ClaimsAToken

\* No writer is under way at the start.
LEMMA WriterInit == Init => WriterInv
<1> SUFFICES ASSUME Init PROVE WriterInv
  OBVIOUS
<1>1. CliInv
  BY CliInit
<1>. QED
  BY <1>1 DEF Init, WriterInv, OneWriter, EnrolsTheStored, ClaimsAToken, Processes, Writers, Running

\* Of two writers one is not under way, so a save by p finds the store as p left it.
LEMMA WriterStep == Exclusive /\ WriterInv /\ [Next]_vars => WriterInv'
<1> SUFFICES ASSUME Exclusive, WriterInv, [Next]_vars PROVE WriterInv'
  OBVIOUS
<1>i. CliInv'
  BY CliStep DEF WriterInv
<1> USE ProcessSets DEF WriterInv, CliInv, TypeOK, Places, OneWriter, EnrolsTheStored,
        ClaimsAToken, Upgrades, Goto
<1>a. Claims \subseteq Writers /\ Provisions \subseteq Writers /\ Writers \subseteq Processes
      /\ Connects \subseteq Processes /\ Processes = Claims \cup Provisions \cup Connects
  BY DEF Writers, Processes
<1>1. CASE UNCHANGED vars
  BY <1>1, <1>i DEF vars
<1>2. ASSUME NEW p \in Processes, Launch(p)
      PROVE WriterInv'
  BY <1>2, <1>i, <1>a DEF Launch, MayLaunch, FirstAwait, Under, Running
<1>3. ASSUME NEW p \in Processes, Misused(p) \/ Interrupted(p)
      PROVE WriterInv'
  BY <1>3, <1>i, <1>a DEF Misused, Interrupted, Running
<1>4. ASSUME NEW p \in Processes, Claimed(p) \/ ClaimFailed(p)
      PROVE WriterInv'
  BY <1>4, <1>i, <1>a DEF Claimed, ClaimFailed, Rejected, Running
<1>5. ASSUME NEW p \in Processes, Loaded(p) \/ LoadRejected(p)
      PROVE WriterInv'
  BY <1>5, <1>i, <1>a DEF Loaded, LoadRejected, Rejected, Running
<1>6. ASSUME NEW p \in Processes, Enrolled(p)
      PROVE WriterInv'
  <2>1. held[p] \in Credentials /\ p \in Provisions /\ store = held[p]
    BY <1>6 DEF Enrolled
  <2>2. PICK answer \in Gateways : held' = [held EXCEPT ![p] = Certified(p, held[p], answer)]
    BY <1>6 DEF Enrolled
  <2>3. /\ Certified(p, held[p], answer).device = held[p].device
        /\ held[p].gateway = "named" => Certified(p, held[p], answer).gateway = "named"
    BY DEF Certified, CertifiedFor, KeptGateway
  <2>. QED
    BY <1>6, <1>i, <1>a, <2>1, <2>2, <2>3 DEF Enrolled, Running
<1>7. ASSUME NEW p \in Processes, EnrolFailed(p)
      PROVE WriterInv'
  BY <1>7, <1>i, <1>a DEF EnrolFailed, Rejected, Running
<1>8. ASSUME NEW p \in Processes, Saved(p) \/ SaveFailed(p)
      PROVE WriterInv'
  BY <1>8, <1>i, <1>a DEF Saved, SaveFailed, Rejected, Running
<1>9. ASSUME NEW p \in Processes,
             Connected(p) \/ ConnectFailed(p) \/ Subscribed(p) \/ Published(p)
             \/ SmokeTestFailed(p) \/ Disconnected(p)
      PROVE WriterInv'
  BY <1>9, <1>i, <1>a DEF Connected, ConnectFailed, Subscribed, Published, SmokeTestFailed,
     Disconnected, AfterConnect, AfterSubscribe, Rejected, Running
<1>10. ASSUME NEW p \in Processes, Killed(p)
       PROVE WriterInv'
  BY <1>10, <1>i, <1>a DEF Killed, Running
<1>. QED
  BY <1>1, <1>2, <1>3, <1>4, <1>5, <1>6, <1>7, <1>8, <1>9, <1>10 DEF Next, Step

\* A stored credential is replaced only by a claimed token, or by a certificate of its own
\* device that still names a gateway.
THEOREM TheStoreMovesForward == ASSUME Exclusive PROVE Spec => StoreMovesForward
<1>1. WriterInv /\ [Next]_vars =>
        (store # Nothing /\ store' # store =>
           store' # Nothing /\ (store'.kind = "cert" => Upgrades(store', store)))
  <2> SUFFICES ASSUME WriterInv, [Next]_vars, store # Nothing, store' # store
      PROVE store' # Nothing /\ (store'.kind = "cert" => Upgrades(store', store))
    OBVIOUS
  <2>1. PICK p \in Processes : pc[p] = "saving" /\ store' = held[p]
    BY DEF Next, Step, vars, Launch, Misused, Interrupted, Claimed, ClaimFailed, Loaded, LoadRejected,
       Enrolled, EnrolFailed, Saved, SaveFailed, Connected, ConnectFailed, Subscribed, Published,
       SmokeTestFailed, Disconnected, Killed
  <2>2. p \in Writers /\ held[p] # Nothing
    BY <2>1 DEF WriterInv, CliInv, Places
  <2>3. CASE p \in Claims
    BY <2>1, <2>2, <2>3 DEF WriterInv, ClaimsAToken
  <2>4. CASE p \in Provisions
    BY <2>1, <2>2, <2>4 DEF WriterInv, EnrolsTheStored
  <2>. QED
    BY <2>2, <2>3, <2>4 DEF Writers
<1>2. WriterInv /\ [Next]_vars => WriterInv'
  BY WriterStep
<1>. QED
  BY <1>1, <1>2, WriterInit, PTL DEF Spec, StoreMovesForward
=============================================================================
