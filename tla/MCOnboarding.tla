---------------------------- MODULE MCOnboarding ----------------------------
(***************************************************************************)
(* An instance of Onboarding for TLC.                                      *)
(***************************************************************************)
EXTENDS Onboarding, TLC

CONSTANT same  \* the claim code of every request

SameCode == [r \in Requests |-> same]

MCSymmetry == Permutations(Calls) \cup Permutations(ServerStarts)
=============================================================================
