-------------------------- MODULE MCAccountOpening --------------------------
(* Instances of AccountOpening for TLC.                                    *)
EXTENDS AccountOpening, TLC
=============================================================================
