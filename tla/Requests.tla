------------------------------ MODULE Requests ------------------------------
(* What the models of the stages of one route have in common.              *)

\* Requests a server is handling at the same time; a slot is used again.
CONSTANT Req
=============================================================================
