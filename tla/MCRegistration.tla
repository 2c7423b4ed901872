---------------------------- MODULE MCRegistration ----------------------------
(* The instance of Onboarding with forms as they arrive: three people, of  *)
(* whom the second has the NIK of the first and the e-mail address of the  *)
(* third.  One number has the digits of the country code inside, one a     *)
(* zero.                                                                   *)
EXTENDS RegistrationForm, TLC

MCPeople == {
    [nik |-> <<11>>, email |-> <<21>>, national |-> <<"8", "1">>],
    [nik |-> <<11>>, email |-> <<22>>, national |-> <<"8", "6", "2">>],
    [nik |-> <<13>>, email |-> <<22>>, national |-> <<"8", "0">>]}

\* Its length needs both bytes.
MCAddress == [i \in 1 .. 258 |-> 1]

MCForm == Forms

MCSymmetry == Permutations(Cust) \union Permutations(VSlot) \union Permutations(RSlot)
=============================================================================
