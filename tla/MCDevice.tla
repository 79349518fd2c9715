------------------------------ MODULE MCDevice ------------------------------
(***************************************************************************)
(* Instances of Device for TLC: the sets are model values given in the     *)
(* configurations.                                                         *)
(***************************************************************************)
EXTENDS Device

CONSTANTS good,      \* a credential that names a gateway and carries its secret
          lacking    \* one that does not

MCCredentials == {good, lacking}
MCGatewayless == {lacking}
=============================================================================
