---------------------------- MODULE MCSubmission ----------------------------
(* Instances of Submission for TLC: requests are interchangeable, and so   *)
(* are messages; with the number that a new account is given.              *)
EXTENDS Submission, AccountNumber, TLC

Symmetry == Permutations(Req) \union Permutations(Msg)

\* A bound on the run: a login starts when no access token is valid.
LoginWhenNeeded == seen # {} => access = 0

\* Branch codes: two branches, one that is too short, one that is no number.
Branches == {<<0, 0, 1>>, <<9, 4, 7>>, <<1, 2>>, <<1, -5, 2>>}

\* Every pair of neighbouring digits, at even and at odd positions.
Randoms == {<<a, b, a, b, a, b>> : a, b \in Digit}

ASSUME SlipsAssumption == SlipsAreCaught(Numbers(Branches, Randoms))
=============================================================================
