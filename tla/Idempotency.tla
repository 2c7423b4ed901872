---------------------------- MODULE Idempotency ----------------------------
(***************************************************************************)
(* IdempotencyMiddleware for one X-Idempotency-Key: the requests that carry*)
(* it, the two Redis keys idempotency:lock and idempotency:resp with their *)
(* time to live, and the handler the middleware wraps.  Every Redis call   *)
(* is a step.  Requests without the header, and a server without Redis,    *)
(* pass the middleware by; keys do not interact.                           *)
(***************************************************************************)
EXTENDS Naturals

CONSTANTS
    Req,        \* requests under way at the same time (a slot is used again)
    LockTTL,    \* 30 seconds, in ticks
    RespTTL,    \* 10 minutes, in ticks
    MaxExecs,   \* bound on the successful executions of the handler
    MaxFaults   \* bound on failed Redis calls, clients gone and crashes

ASSUME TTLAssumption == LockTTL \in Nat \ {0} /\ RespTTL \in Nat \ {0}
ASSUME BoundAssumption == MaxExecs \in Nat /\ MaxFaults \in Nat

VARIABLES
    lock,       \* ticks the lock key has to live, 0 when it is not there
    resp,       \* ticks the response key has to live, 0 when it is not there
    pc,         \* idle, get, lock, exec, store, release
    gone,       \* the client has gone: the request's context is cancelled
    execs,      \* history: 2xx executions since a cached response last expired
    faults,
    overlapped, \* history: two requests were under way at the same time
    overran     \* history: a handler was at work when its lock expired or was lost

vars == <<lock, resp, pc, gone, execs, faults, overlapped, overran>>

TypeOK ==
    /\ lock \in 0 .. LockTTL
    /\ resp \in 0 .. RespTTL
    /\ pc \in [Req -> {"idle", "get", "lock", "exec", "store", "release"}]
    /\ gone \in [Req -> BOOLEAN]
    /\ execs \in 0 .. MaxExecs
    /\ faults \in 0 .. MaxFaults
    /\ overlapped \in BOOLEAN
    /\ overran \in BOOLEAN

Init ==
    /\ lock = 0
    /\ resp = 0
    /\ pc = [r \in Req |-> "idle"]
    /\ gone = [r \in Req |-> FALSE]
    /\ execs = 0
    /\ faults = 0
    /\ overlapped = FALSE
    /\ overran = FALSE

Go(r, from, to) == pc[r] = from /\ pc' = [pc EXCEPT ![r] = to]

Fault == faults < MaxFaults /\ faults' = faults + 1

\* Between a successful SetNX and the deferred Del.
Holding(r) == pc[r] \in {"exec", "store", "release"}

-----------------------------------------------------------------------------
(* Faulty variants of the steps below; each breaks one property.           *)

\* Set in place of SetNX.
SetLock(r) ==
    /\ Go(r, "lock", "exec")
    /\ lock' = LockTTL
    /\ UNCHANGED <<resp, gone, execs, faults, overlapped, overran>>

\* The lock has no time to live.
TickNoTTL ==
    /\ lock + resp > 0
    /\ resp' = IF resp > 0 THEN resp - 1 ELSE 0
    /\ execs' = IF resp = 1 THEN 0 ELSE execs
    /\ UNCHANGED <<lock, pc, gone, faults, overlapped, overran>>

\* A response that is not 2xx returns before the Del.
FailUnreleased(r) ==
    /\ Go(r, "exec", "idle")
    /\ gone' = [gone EXCEPT ![r] = FALSE]
    /\ UNCHANGED <<lock, resp, execs, faults, overlapped, overran>>

\* Whatever the handler answers is stored.
StoreAnyStatus(r) ==
    /\ Go(r, "exec", "store")
    /\ UNCHANGED <<lock, resp, gone, execs, faults, overlapped, overran>>

\* The response is not stored, or stored and not looked at.
StoreNothing(r) ==
    /\ Go(r, "store", "release")
    /\ UNCHANGED <<lock, resp, gone, execs, faults, overlapped, overran>>

\* Set without a time to live counts from zero.
StoreTooLong(r) ==
    /\ Go(r, "store", "release")
    /\ resp' = RespTTL + LockTTL
    /\ UNCHANGED <<lock, gone, execs, faults, overlapped, overran>>

-----------------------------------------------------------------------------
(* The middleware                                                          *)

Arrive(r) ==
    /\ Go(r, "idle", "get")
    /\ overlapped' = (overlapped \/ \E q \in Req \ {r} : pc[q] # "idle")
    /\ UNCHANGED <<lock, resp, gone, execs, faults, overran>>

\* The first response is sent again, as 201.
GetHit(r) ==
    /\ Go(r, "get", "idle")
    /\ resp > 0
    /\ UNCHANGED <<lock, resp, gone, execs, faults, overlapped, overran>>

\* There is no response, or Get fails: the code does not tell the two apart.
GetMiss(r) ==
    /\ Go(r, "get", "lock")
    /\ \/ resp = 0 /\ UNCHANGED faults
       \/ Fault
    /\ UNCHANGED <<lock, resp, gone, execs, overlapped, overran>>

SetNX(r) ==
    /\ Go(r, "lock", "exec")
    /\ lock = 0
    /\ lock' = LockTTL
    /\ UNCHANGED <<resp, gone, execs, faults, overlapped, overran>>

\* The lock is there, or SetNX fails: 409. The statement may have taken effect
\* although it failed, and then nobody deletes the lock.
SetNXRefused(r) ==
    /\ Go(r, "lock", "idle")
    /\ \/ lock > 0 /\ UNCHANGED <<lock, faults>>
       \/ Fault /\ lock' \in {lock, IF lock = 0 THEN LockTTL ELSE lock}
    /\ UNCHANGED <<resp, gone, execs, overlapped, overran>>

\* The client disconnects while the handler is at work.
ClientGone(r) ==
    /\ Holding(r) /\ ~gone[r]
    /\ Fault
    /\ gone' = [gone EXCEPT ![r] = TRUE]
    /\ UNCHANGED <<lock, resp, pc, execs, overlapped, overran>>

\* c.Next() with a 2xx response, the work is done.
ExecOK(r) ==
    /\ Go(r, "exec", "store")
    /\ execs < MaxExecs
    /\ execs' = execs + 1
    /\ UNCHANGED <<lock, resp, gone, faults, overlapped, overran>>

\* c.Next() with another response, or a panic: nothing is cached.
ExecFails(r) ==
    /\ Go(r, "exec", "release")
    /\ UNCHANGED <<lock, resp, gone, execs, faults, overlapped, overran>>

\* rdb.Set in the context of the request; its error is dropped.
Store(r) ==
    /\ Go(r, "store", "release")
    /\ \/ ~gone[r] /\ resp' = RespTTL /\ UNCHANGED faults
       \/ gone[r] /\ UNCHANGED <<resp, faults>>
       \/ Fault /\ UNCHANGED resp
    /\ UNCHANGED <<lock, gone, execs, overlapped, overran>>

\* The deferred rdb.Del, in the same context. It does not ask whose lock it is.
Release(r) ==
    /\ Go(r, "release", "idle")
    /\ \/ ~gone[r] /\ lock' = 0 /\ UNCHANGED faults
       \/ gone[r] /\ UNCHANGED <<lock, faults>>
       \/ Fault /\ UNCHANGED lock
    /\ gone' = [gone EXCEPT ![r] = FALSE]
    /\ UNCHANGED <<resp, execs, overlapped, overran>>

\* The server ends; what Redis has stays.
Crash ==
    /\ \E r \in Req : pc[r] # "idle"
    /\ Fault
    /\ pc' = [r \in Req |-> "idle"]
    /\ gone' = [r \in Req |-> FALSE]
    /\ UNCHANGED <<lock, resp, execs, overlapped, overran>>

\* Redis restarts; it is configured without persistence.
RedisRestarts ==
    /\ lock + resp > 0
    /\ Fault
    /\ lock' = 0
    /\ resp' = 0
    /\ overran' = (overran \/ (lock > 0 /\ \E r \in Req : Holding(r)))
    /\ UNCHANGED <<pc, gone, execs, overlapped>>

\* Redis lets the keys age.
Tick ==
    /\ lock + resp > 0
    /\ lock' = IF lock > 0 THEN lock - 1 ELSE 0
    /\ resp' = IF resp > 0 THEN resp - 1 ELSE 0
    /\ execs' = IF resp = 1 THEN 0 ELSE execs
    /\ overran' = (overran \/ (lock = 1 /\ \E r \in Req : Holding(r)))
    /\ UNCHANGED <<pc, gone, faults, overlapped>>

Handle(r) ==
    \/ Arrive(r) \/ GetHit(r) \/ GetMiss(r) \/ SetNX(r) \/ SetNXRefused(r)
    \/ ClientGone(r) \/ ExecOK(r) \/ ExecFails(r) \/ Store(r) \/ Release(r)

Next == (\E r \in Req : Handle(r)) \/ Crash \/ RedisRestarts \/ Tick

Spec == Init /\ [][Next]_vars

\* Time passes in Redis whatever the server does.
FairSpec == Spec /\ WF_vars(Tick)

-----------------------------------------------------------------------------
(* Properties                                                              *)

\* The wrapped handler runs for one request at a time, as long as no handler
\* has outlived or lost its lock (then the Del of the late one also removes the lock
\* of the next).
OneHandler ==
    ~overran => \A q, r \in Req : Holding(q) /\ Holding(r) => q = r

\* The lock is there on behalf of a handler at work; one that nobody will
\* delete, so that every retry is answered 409 until it expires, is left by a
\* fault only, however the handler ended.
LockIsHeld == lock > 0 /\ faults = 0 => \E r \in Req : Holding(r)

\* Retries one after the other: for as long as the response of the first
\* success lives, each further execution is the price of a fault.
RetryPaid == ~overlapped => execs <= 1 + faults

\* No fault blocks a key for good.
LockClears == lock > 0 ~> lock = 0

\* "The backend does not execute a new registration but returns the response of
\* the first" (v1-prd.md), of requests that overlap and without any fault.
ExecutedOnce == faults = 0 => execs <= 1
=============================================================================
