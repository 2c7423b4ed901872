----------------------------- MODULE Submission -----------------------------
(***************************************************************************)
(* POST /accounts/open from the wire to the database: the middlewares in   *)
(* the order of SetupRouter (AntiReplay, the signature, Idempotency, JWT   *)
(* and role) around OpenAccount, for one customer whose messages all carry *)
(* one X-Idempotency-Key.  Each action is one of the three modules' steps, *)
(* or several of them that the code takes together.                        *)
(***************************************************************************)
EXTENDS AntiReplay, AccountOpening

CONSTANTS
    LockTTL, RespTTL, MaxExecs, MaxFaults, \* of Idempotency
    MaxAllFaults \* bound on the faults of the three modules together

ASSUME LockAssumption == LockTTL \in Nat \ {0} /\ RespTTL \in Nat \ {0}
ASSUME AllBoundAssumption == MaxExecs \in Nat /\ MaxFaults \in Nat /\ MaxAllFaults \in Nat

VARIABLES lock, resp, pc, gone, execs, faults, overlapped, overran

I == INSTANCE Idempotency

idemVars == <<lock, resp, pc, gone, execs, faults, overlapped, overran>>

vars == <<idemVars, replayVars, openingVars>>

Init == I!Init /\ ReplayInit /\ OpeningInit

\* The steps of one module alone.
OfReplay(A) == A /\ UNCHANGED <<idemVars, openingVars>>
OfIdempotency(A) == A /\ UNCHANGED <<replayVars, openingVars>>
OfOpening(A) == A /\ UNCHANGED <<idemVars, replayVars>>

-----------------------------------------------------------------------------
(* In front of the handler                                                 *)

Receive(r, m) == pc[r] = "idle" /\ OfReplay(CheckTimestamp(r, m))

\* Past the nonce the signature holds and the message goes on to the
\* idempotency key, or it does not: 401, and the nonce is taken.
PassNonce(r) ==
    /\ TakeNonce(r) \/ NonceUnknown(r)
    /\ I!Arrive(r) \/ UNCHANGED idemVars
    /\ UNCHANGED openingVars

Refuse409(r) == OfReplay(Replayed(r) \/ NonceRetried(r))

\* The stored response holds the elevated token.
Resend(r) ==
    /\ I!GetHit(r)
    /\ GetElevated
    /\ UNCHANGED <<replayVars, step>>

Lookup(r) == OfIdempotency(I!GetMiss(r))

Lock(r) == OfIdempotency(I!SetNX(r))

Busy(r) == OfIdempotency(I!SetNXRefused(r))

\* 401 or 403: no token, an expired one, or a role that may not open.
Unauthorized(r) == step[r] = "idle" /\ OfIdempotency(I!ExecFails(r))

-----------------------------------------------------------------------------
(* The handler, its statements in the context of the request               *)

Authorize(r) == pc[r] = "exec" /\ OfOpening(AdmitOpening(r))

Check(r) == ~gone[r] /\ OfOpening(HasNoAccount(r))

Insert(r) == ~gone[r] /\ OfOpening(CreateAccount(r))

Activate(r) ==
    OfOpening((~gone[r] /\ SetCustomerActive(r)) \/ StatusNotSet(r))

\* An error response: nothing is stored under the key.
HandlerFails(r) ==
    /\ RefuseOpening(r) \/ CreateFails(r) \/ ElevateFails(r)
    /\ I!ExecFails(r)
    /\ UNCHANGED replayVars

HandlerAnswers(r) ==
    /\ Elevate(r)
    /\ I!ExecOK(r)
    /\ UNCHANGED replayVars

-----------------------------------------------------------------------------
(* Behind the handler                                                      *)

StoreResponse(r) == OfIdempotency(I!Store(r))

\* The deferred Del, and the response leaves the server.
Done(r) ==
    /\ I!Release(r)
    /\ \/ step[r] = "answer" /\ ~gone[r] /\ Answer(r)
       \/ step[r] = "answer" /\ gone[r] /\ AnswerLost(r)
       \/ step[r] = "idle" /\ UNCHANGED openingVars
    /\ UNCHANGED replayVars

Disconnect(r) == OfIdempotency(I!ClientGone(r))

-----------------------------------------------------------------------------
(* Around it                                                               *)

Customer == OfOpening((\E l \in LoginReq : LoginStep(l)) \/ Suspend)

\* The server ends, with requests behind the nonce or only before it, or with
\* logins only.
Crash ==
    /\ I!Crash \/ ((\A r \in Req : pc[r] = "idle") /\ UNCHANGED idemVars)
    /\ ServerLost /\ OpeningCrash

RedisRestarts ==
    /\ NoncesLost
    /\ I!RedisRestarts \/ (lock + resp = 0 /\ UNCHANGED idemVars)
    /\ UNCHANGED openingVars

Tick ==
    /\ ReplayTick
    /\ OpeningTick
    /\ I!Tick \/ (lock + resp = 0 /\ UNCHANGED idemVars)

Handle(r) ==
    \/ \E m \in Msg : Receive(r, m)
    \/ PassNonce(r) \/ Refuse409(r)
    \/ Resend(r) \/ Lookup(r) \/ Lock(r) \/ Busy(r) \/ Unauthorized(r)
    \/ Authorize(r) \/ Check(r) \/ Insert(r) \/ Activate(r)
    \/ HandlerFails(r) \/ HandlerAnswers(r)
    \/ StoreResponse(r) \/ Done(r) \/ Disconnect(r)

Next ==
    /\ (\E r \in Req : Handle(r)) \/ Customer \/ Crash \/ RedisRestarts \/ Tick
    /\ faults' + nonceFaults' + dbFaults' <= MaxAllFaults

Spec == Init /\ [][Next]_vars

-----------------------------------------------------------------------------
(* Properties                                                              *)

TypeOK == I!TypeOK /\ ReplayTypeOK /\ OpeningTypeOK

\* One account per customer, through every retry, duplicate delivery, lost
\* answer, failed statement, crash and failed Get: the check and the INSERT of
\* OpenAccount are not atomic, and it is the lock of the key that keeps two of
\* them apart, as long as none is outlived or lost.
OneAccountPerKey == ~overran => accounts <= 1

\* Without a fault whoever has got an account has got the elevated token with
\* it: what OpenAccount does after the INSERT cannot send the customer away
\* empty-handed, and no stage refuses the answer on its way out.
AccountComesWithToken ==
    /\ faults = 0 /\ dbFaults = 0
    /\ \A r \in Req : pc[r] = "idle"
    => (accounts > 0 => granted = "given")

\* What retries are answered with is an opening that took place: a refusal, an
\* error or a panic is never stored under the key, and the answer holds a token
\* that was signed.
ResentWasOpened == resp > 0 => accounts > 0 /\ granted # "none"
=============================================================================
