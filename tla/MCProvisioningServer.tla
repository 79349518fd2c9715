------------------------ MODULE MCProvisioningServer ------------------------
(***************************************************************************)
(* Instances of ProvisioningServer for TLC.                                *)
(***************************************************************************)
EXTENDS ProvisioningServer, TLC

CONSTANTS same,    \* the claim code of every request, or
          another  \* of the first one when two codes are in play

SameCode == [r \in Requests |-> same]
\* Requests with a code each, for two requests.
TwoCodes == LET first == CHOOSE r \in Requests : TRUE
            IN  [r \in Requests |-> IF r = first THEN another ELSE same]
=============================================================================
