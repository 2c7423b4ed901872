---------------------------- MODULE MCLocalKMS ----------------------------
(* Instances of LocalKMS for TLC: keys are interchangeable.                *)
EXTENDS LocalKMS, TLC

KeySymmetry == Permutations(Key)
=============================================================================
