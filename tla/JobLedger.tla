----------------------------- MODULE JobLedger -----------------------------
(***************************************************************************)
(* What a worker pool promises to those who give it jobs, without channel, *)
(* workers or shutdown: a job that was taken on is pending until it is     *)
(* done, once; the pool may say that it has stopped cleanly when nothing   *)
(* is pending, and takes on nothing after it has said how it stopped.      *)
(***************************************************************************)
CONSTANT Job

VARIABLES pending, done, outcome

ledger == <<pending, done, outcome>>

Init == pending = {} /\ done = {} /\ outcome = "none"

TakeOn(j) ==
    /\ outcome = "none"
    /\ j \notin pending \union done
    /\ pending' = pending \union {j}
    /\ UNCHANGED <<done, outcome>>

Complete(j) ==
    /\ j \in pending
    /\ pending' = pending \ {j}
    /\ done' = done \union {j}
    /\ UNCHANGED outcome

StopCleanly ==
    /\ outcome = "none" /\ pending = {}
    /\ outcome' = "clean"
    /\ UNCHANGED <<pending, done>>

GiveUp ==
    /\ outcome = "none"
    /\ outcome' = "timeout"
    /\ UNCHANGED <<pending, done>>

Next == (\E j \in Job : TakeOn(j) \/ Complete(j)) \/ StopCleanly \/ GiveUp

Spec == Init /\ [][Next]_ledger
=============================================================================
