------------------------------ MODULE Membership ------------------------------
(***************************************************************************)
(* What the onboarding of customers promises, without handlers, mail,      *)
(* tokens or a clock: one enrols under an identity that nobody else has,   *)
(* proves to own the e-mail address, becomes active and can then come in.  *)
(* No step is left out, none is undone, and an identity never changes.     *)
(***************************************************************************)
CONSTANTS
    Member,
    Identity,  \* functions from Field
    Field,
    None

VARIABLES identity, stage, inside

membership == <<identity, stage, inside>>

Init ==
    /\ identity = [m \in Member |-> None]
    /\ stage = [m \in Member |-> "stranger"]
    /\ inside = {}

Free(id) ==
    \A m \in Member, f \in Field : identity[m] # None => identity[m][f] # id[f]

Enrol(m, id) ==
    /\ stage[m] = "stranger"
    /\ Free(id)
    /\ identity' = [identity EXCEPT ![m] = id]
    /\ stage' = [stage EXCEPT ![m] = "enrolled"]
    /\ UNCHANGED inside

Prove(m) ==
    /\ stage[m] = "enrolled"
    /\ stage' = [stage EXCEPT ![m] = "proved"]
    /\ UNCHANGED <<identity, inside>>

Activate(m) ==
    /\ stage[m] = "proved"
    /\ stage' = [stage EXCEPT ![m] = "active"]
    /\ UNCHANGED <<identity, inside>>

Enter(m) ==
    /\ stage[m] = "active"
    /\ inside' = inside \union {m}
    /\ UNCHANGED <<identity, stage>>

Next ==
    \E m \in Member :
        \/ \E id \in Identity : Enrol(m, id)
        \/ Prove(m) \/ Activate(m) \/ Enter(m)

Spec == Init /\ [][Next]_membership
=============================================================================
