---------------------------- MODULE NetworkManager ----------------------------
(***************************************************************************)
(* The controllers for a NetworkManager host: createNmcliHomeNetwork() of  *)
(* src/src/home-network.ts and createNmcliAccessPoint() of                 *)
(* src/src/access-point.ts, each call with the nmcli invocations it awaits.*)
(*                                                                         *)
(* The provisioning server awaits each call before the next.  The process  *)
(* may stop, the host reboot or lose its power, between any two steps;     *)
(* NetworkManager keeps what is on disk and, by itself, reconnects a       *)
(* profile it loaded.  Nothing fsyncs the keyfile: until the file system   *)
(* wrote it back, a loss of power may undo, or tear, its last changes.     *)
(***************************************************************************)
EXTENDS Naturals

CONSTANTS Networks,  \* home networks the companion app may send
          Usable,    \* those whose SSID and passphrase Wi-Fi can use
          Nothing    \* no keyfile, no profile

Keyfiles == [of : Networks, whole : BOOLEAN]

ASSUME NetworksAssumption == Usable \subseteq Networks /\ Nothing \notin Networks \cup Keyfiles

VARIABLES
  call,     \* the controller call under way, or the last one
  network,  \* the network the last join() was given
  pc,       \* the await the call is suspended at, or how it ended
  keyfile,  \* the keyfile, whole or in part
  medium,   \* the keyfiles that a loss of power may leave on disk
  cut,      \* since the call, a loss of power came before the keyfile was written back
  loaded,   \* NetworkManager: the home profile, which reconnects by itself
  radio     \* NetworkManager: what the one interface runs

disk == <<keyfile, medium>>
vars == <<call, network, pc, disk, cut, loaded, radio>>

Calls    == {"start", "stop", "join", "forget"}
Settled  == {"resolved", "rejected", "lost"}
Awaits   == {"raising", "lowering", "writing", "loading", "activating", "deleting", "removing"}

Init ==
  /\ call = "stop"
  /\ network = Nothing
  /\ pc = "resolved"
  /\ keyfile = Nothing
  /\ medium = {Nothing}
  /\ cut = FALSE
  /\ loaded = Nothing
  /\ radio = "off"

-----------------------------------------------------------------------------
Call(name, await) ==
  /\ pc \in Settled
  /\ call' = name
  /\ pc' = await
  /\ cut' = FALSE
  /\ UNCHANGED <<disk, loaded, radio>>

\* The call goes on, or ends, while the disk and NetworkManager are as the caller says.
Goes(from, to) ==
  /\ pc = from
  /\ pc' = to
  /\ UNCHANGED <<call, network, cut>>

\* A change of the keyfile reaches the disk when the file system writes it back.
Cached(contents) ==
  /\ keyfile' \in contents
  /\ medium' = medium \cup contents

-----------------------------------------------------------------------------
(***************************************************************************)
(* The setup access point.                                                 *)
(***************************************************************************)
Start == Call("start", "raising") /\ UNCHANGED network

\* A hotspot takes the interface from whatever ran on it.
Raised ==
  /\ Goes("raising", "resolved")
  /\ radio' = "setup"
  /\ UNCHANGED <<disk, loaded>>

RaiseFailed ==
  /\ Goes("raising", "rejected")
  /\ radio' \in {radio, "off"}
  /\ UNCHANGED <<disk, loaded>>

Stop == Call("stop", "lowering") /\ UNCHANGED network

\* The profile is deleted; that it does not exist, or that nmcli fails, is swallowed.
Lowered ==
  /\ Goes("lowering", "resolved")
  /\ radio' \in {radio, IF radio = "setup" THEN "off" ELSE radio}
  /\ UNCHANGED <<disk, loaded>>

-----------------------------------------------------------------------------
(***************************************************************************)
(* join(): the keyfile is built, written, loaded, and the profile is       *)
(* brought up.                                                             *)
(***************************************************************************)
\* homeNetworkKeyfile() throws before anything is written.
Taken(n) == IF n \in Usable THEN "writing" ELSE "rejected"

Join(n) ==
  /\ Call("join", Taken(n))
  /\ network' = n

Whole(n) == [of |-> n, whole |-> TRUE]
Torn(n)  == [of |-> n, whole |-> FALSE]

\* What the truncation and the write of the file may leave, in the cache or on disk.
InFlight == IF pc = "writing" THEN {Torn(network), Whole(network)} ELSE {}

Written ==
  /\ Goes("writing", "loading")
  /\ keyfile' = Whole(network)
  /\ medium' = medium \cup InFlight
  /\ UNCHANGED <<loaded, radio>>

WriteFailed ==
  /\ Goes("writing", "rejected")
  /\ Cached({keyfile} \cup InFlight)
  /\ UNCHANGED <<loaded, radio>>

LoadSkipped ==
  /\ Goes("loading", "activating")
  /\ UNCHANGED <<disk, loaded, radio>>

Loaded ==
  /\ Goes("loading", "activating")
  /\ loaded' = keyfile.of
  /\ UNCHANGED <<disk, radio>>

LoadFailed ==
  /\ Goes("loading", "rejected")
  /\ UNCHANGED <<disk, loaded, radio>>

Activated ==
  /\ loaded # Nothing
  /\ Goes("activating", "resolved")
  /\ radio' = "home"
  /\ UNCHANGED <<disk, loaded>>

\* The network is not found or the passphrase wrong; the interface may have been freed.
ActivateFailed ==
  /\ Goes("activating", "rejected")
  /\ radio' \in {radio, "off"}
  /\ UNCHANGED <<disk, loaded>>

-----------------------------------------------------------------------------
(***************************************************************************)
(* forget(): the profile is deleted, best effort, then the keyfile.        *)
(***************************************************************************)
Forget == Call("forget", "deleting") /\ UNCHANGED network

\* nmcli deletes a loaded profile with its file, and its connection goes down.
Deleted ==
  /\ loaded # Nothing
  /\ Goes("deleting", "removing")
  /\ loaded' = Nothing
  /\ Cached({Nothing})
  /\ radio' = IF radio = "home" THEN "off" ELSE radio

DeleteFailedLast ==
  /\ Goes("deleting", "resolved")
  /\ UNCHANGED <<disk, loaded, radio>>

\* There is no such profile, or nmcli fails: swallowed.
DeleteFailed ==
  /\ Goes("deleting", "removing")
  /\ UNCHANGED <<disk, loaded, radio>>

Removed ==
  /\ Goes("removing", "resolved")
  /\ Cached({Nothing})
  /\ UNCHANGED <<loaded, radio>>

RemoveFailed ==
  /\ Goes("removing", "rejected")
  /\ UNCHANGED <<disk, loaded, radio>>

-----------------------------------------------------------------------------
\* The process stops; a write may have got through, in part or in full.
Stopped ==
  /\ pc' = IF pc \in Awaits THEN "lost" ELSE pc
  /\ UNCHANGED <<call, network>>

Crash ==
  /\ Stopped
  /\ Cached({keyfile} \cup InFlight)
  /\ UNCHANGED <<cut, loaded, radio>>

\* NetworkManager starts over from the keyfile on disk, if that is one.
Booted ==
  /\ Stopped
  /\ medium' = {keyfile'}
  /\ radio' = "off"
  /\ loaded' = IF keyfile' # Nothing /\ keyfile'.whole THEN keyfile'.of ELSE Nothing

\* A shutdown writes the cache back.
Reboot ==
  /\ keyfile' \in {keyfile} \cup InFlight
  /\ Booted
  /\ UNCHANGED cut

PowerLoss ==
  /\ keyfile' \in medium \cup InFlight
  /\ Booted
  /\ cut' = (cut \/ medium # {keyfile})

WriteBack ==
  /\ medium # {keyfile}
  /\ medium' = {keyfile}
  /\ UNCHANGED <<call, network, pc, keyfile, cut, loaded, radio>>

\* autoconnect=true: an idle interface joins the home network.
AutoConnect ==
  /\ radio = "off"
  /\ loaded # Nothing
  /\ radio' = "home"
  /\ UNCHANGED <<call, network, pc, disk, cut, loaded>>

AccessPoint == Start \/ Raised \/ RaiseFailed \/ Stop \/ Lowered

HomeNetwork ==
  \/ (\E n \in Networks : Join(n)) \/ Forget
  \/ Written \/ WriteFailed \/ Loaded \/ LoadFailed \/ Activated \/ ActivateFailed
  \/ Deleted \/ DeleteFailed \/ Removed \/ RemoveFailed

Next ==
  \/ AccessPoint \/ HomeNetwork
  \/ Crash \/ Reboot \/ PowerLoss \/ WriteBack \/ AutoConnect

Spec == Init /\ [][Next]_vars

-----------------------------------------------------------------------------
TypeOK ==
  /\ call \in Calls
  /\ network \in Networks \cup {Nothing}
  /\ pc \in Awaits \cup Settled
  /\ keyfile \in Keyfiles \cup {Nothing}
  /\ medium \subseteq Keyfiles \cup {Nothing}
  /\ cut \in BOOLEAN
  /\ loaded \in Networks \cup {Nothing}
  /\ radio \in {"off", "setup", "home"}

\* "A failed onboarding never leaves the passphrase on disk": whatever failed before it,
\* in this process or an earlier one, once forget() resolved there is no keyfile, in part
\* or whole, and a boot finds no profile to load; unless the power is lost before the
\* removal, which nothing fsyncs, is on disk.
ForgottenIsGone == call = "forget" /\ pc = "resolved" /\ ~cut => keyfile = Nothing

\* "The profile is saved, so the device reconnects after a reboot": once join() resolved,
\* its network, whole, is the keyfile and the profile that reconnects, and stays so through
\* stops and reboots until another call, and through a loss of power once the keyfile,
\* which nothing fsyncs, is on disk.
JoinedIsSaved ==
  call = "join" /\ pc = "resolved" /\ ~cut => keyfile = Whole(network) /\ loaded = network

\* No attempt, however it ends, has the host keep or join a network Wi-Fi can't use.
OnlyUsable ==
  /\ \A k \in medium \cup {keyfile} : k # Nothing => k.of \in Usable
  /\ loaded # Nothing => loaded \in Usable
=============================================================================
