---------------------------- MODULE MCOnboarding ----------------------------
(* Instances of Onboarding for TLC: three people, of whom the second has   *)
(* the NIK of the first and the e-mail address of the third.               *)
EXTENDS Onboarding, TLC

MCForm == {
    [nik |-> "n1", email |-> "e1", phone |-> "p1"],
    [nik |-> "n1", email |-> "e2", phone |-> "p2"],
    [nik |-> "n3", email |-> "e2", phone |-> "p3"]}

MCSymmetry == Permutations(Cust) \union Permutations(VSlot) \union Permutations(RSlot)
=============================================================================
