-------------------------- MODULE IdempotencyProofs --------------------------
(***************************************************************************)
(* What the idempotency middleware guarantees for any number of requests,  *)
(* any times to live and any number of faults.                             *)
(***************************************************************************)
EXTENDS Idempotency, TLAPS

USE TTLAssumption, BoundAssumption

\* A cancelled context belongs to a handler at work and is a fault.
GoneInv == \A r \in Req : gone[r] => Holding(r) /\ faults > 0

\* Handlers at work hold the lock, one at a time, until one outlives it.
HoldInv ==
    ~overran => /\ OneHandler
                /\ \A r \in Req : Holding(r) => lock > 0

\* What the one request under way still owes: an execution without a response
\* in the cache is covered by a fault, or is about to be stored.
PaidInv ==
    ~overlapped =>
        /\ \A q, r \in Req : pc[q] # "idle" /\ pc[r] # "idle" => q = r
        /\ execs <= faults + 1
        /\ resp = 0 /\ (\A r \in Req : pc[r] # "store") => execs <= faults
        /\ \A r \in Req :
              /\ pc[r] \in {"lock", "exec"} => execs <= faults
              /\ pc[r] = "exec" /\ gone[r] => execs < faults
              /\ pc[r] = "store" /\ gone[r] => execs <= faults

IInv ==
    /\ TypeOK
    /\ GoneInv
    /\ HoldInv
    /\ LockIsHeld
    /\ PaidInv

\* No lock, no response, no request.
LEMMA InitIInv == Init => IInv
<1> SUFFICES ASSUME Init PROVE IInv
  OBVIOUS
<1>1. overlapped \in BOOLEAN /\ overran \in BOOLEAN
  BY DEF Init
<1>2. TypeOK
  BY <1>1 DEF Init, TypeOK
<1>3. GoneInv /\ HoldInv /\ LockIsHeld
  BY DEF Init, GoneInv, HoldInv, OneHandler, LockIsHeld, Holding
<1>4. PaidInv
  BY DEF Init, PaidInv
<1> QED BY <1>2, <1>3, <1>4 DEF IInv

\* A request arrives; it holds nothing.
LEMMA ArriveStep ==
  ASSUME IInv, NEW r \in Req, Arrive(r)
  PROVE  IInv'
<1> USE DEF IInv, Arrive, Go, Fault
<1>1. TypeOK'
  BY DEF TypeOK
<1>2. GoneInv'
  BY DEF TypeOK, GoneInv, Holding
<1>3. HoldInv'
  BY DEF TypeOK, HoldInv, OneHandler, Holding
<1>4. LockIsHeld'
  BY DEF TypeOK, GoneInv, LockIsHeld, Holding
<1>5. PaidInv'
  BY DEF TypeOK, GoneInv, Holding, PaidInv
<1> QED BY <1>1, <1>2, <1>3, <1>4, <1>5

\* The stored response is replayed.
LEMMA GetHitStep ==
  ASSUME IInv, NEW r \in Req, GetHit(r)
  PROVE  IInv'
<1> USE DEF IInv, GetHit, Go, Fault
<1>1. TypeOK'
  BY DEF TypeOK
<1>2. GoneInv'
  BY DEF TypeOK, GoneInv, Holding
<1>3. HoldInv'
  BY DEF TypeOK, HoldInv, OneHandler, Holding
<1>4. LockIsHeld'
  BY DEF TypeOK, GoneInv, LockIsHeld, Holding
<1>5. PaidInv'
  BY DEF TypeOK, GoneInv, Holding, PaidInv
<1> QED BY <1>1, <1>2, <1>3, <1>4, <1>5

\* No response: whatever was executed is covered by faults.
LEMMA GetMissStep ==
  ASSUME IInv, NEW r \in Req, GetMiss(r)
  PROVE  IInv'
<1> USE DEF IInv, GetMiss, Go, Fault
<1>1. TypeOK'
  BY DEF TypeOK
<1>2. GoneInv'
  BY DEF TypeOK, GoneInv, Holding
<1>3. HoldInv'
  BY DEF TypeOK, HoldInv, OneHandler, Holding
<1>4. LockIsHeld'
  BY DEF TypeOK, GoneInv, LockIsHeld, Holding
<1>5. PaidInv'
  BY DEF TypeOK, GoneInv, Holding, PaidInv
<1> QED BY <1>1, <1>2, <1>3, <1>4, <1>5

\* The lock was free, so no handler was at work (or one had overrun).
LEMMA SetNXStep ==
  ASSUME IInv, NEW r \in Req, SetNX(r)
  PROVE  IInv'
<1> USE DEF IInv, SetNX, Go, Fault
<1>1. TypeOK'
  BY DEF TypeOK
<1>2. GoneInv'
  BY DEF TypeOK, GoneInv, Holding
<1>3. HoldInv'
  BY DEF TypeOK, HoldInv, OneHandler, Holding
<1>4. LockIsHeld'
  BY DEF TypeOK, GoneInv, LockIsHeld, Holding
<1>5. PaidInv'
  BY DEF TypeOK, GoneInv, Holding, PaidInv
<1> QED BY <1>1, <1>2, <1>3, <1>4, <1>5

\* Nothing changes, or a lock is left behind by a fault.
LEMMA SetNXRefusedStep ==
  ASSUME IInv, NEW r \in Req, SetNXRefused(r)
  PROVE  IInv'
<1> USE DEF IInv, SetNXRefused, Go, Fault
<1>1. TypeOK'
  BY DEF TypeOK
<1>2. GoneInv'
  BY DEF TypeOK, GoneInv, Holding
<1>3. HoldInv'
  BY DEF TypeOK, HoldInv, OneHandler, Holding
<1>4. LockIsHeld'
  BY DEF TypeOK, GoneInv, LockIsHeld, Holding
<1>5. PaidInv'
  BY DEF TypeOK, GoneInv, Holding, PaidInv
<1> QED BY <1>1, <1>2, <1>3, <1>4, <1>5

\* A fault, which covers the response that will not be stored.
LEMMA ClientGoneStep ==
  ASSUME IInv, NEW r \in Req, ClientGone(r)
  PROVE  IInv'
<1> USE DEF IInv, ClientGone, Go, Fault
<1>1. TypeOK'
  BY DEF TypeOK
<1>2. GoneInv'
  BY DEF TypeOK, GoneInv, Holding
<1>3. HoldInv'
  BY DEF TypeOK, HoldInv, OneHandler, Holding
<1>4. LockIsHeld'
  BY DEF TypeOK, GoneInv, LockIsHeld, Holding
<1>5. PaidInv'
  BY DEF TypeOK, GoneInv, Holding, PaidInv
<1> QED BY <1>1, <1>2, <1>3, <1>4, <1>5

\* One more execution, about to be stored.
LEMMA ExecOKStep ==
  ASSUME IInv, NEW r \in Req, ExecOK(r)
  PROVE  IInv'
<1> USE DEF IInv, ExecOK, Go, Fault
<1>1. TypeOK'
  BY DEF TypeOK
<1>2. GoneInv'
  BY DEF TypeOK, GoneInv, Holding
<1>3. HoldInv'
  BY DEF TypeOK, HoldInv, OneHandler, Holding
<1>4. LockIsHeld'
  BY DEF TypeOK, GoneInv, LockIsHeld, Holding
<1>5. PaidInv'
  BY DEF TypeOK, GoneInv, Holding, PaidInv
<1> QED BY <1>1, <1>2, <1>3, <1>4, <1>5

\* Nothing was executed.
LEMMA ExecFailsStep ==
  ASSUME IInv, NEW r \in Req, ExecFails(r)
  PROVE  IInv'
<1> USE DEF IInv, ExecFails, Go, Fault
<1>1. TypeOK'
  BY DEF TypeOK
<1>2. GoneInv'
  BY DEF TypeOK, GoneInv, Holding
<1>3. HoldInv'
  BY DEF TypeOK, HoldInv, OneHandler, Holding
<1>4. LockIsHeld'
  BY DEF TypeOK, GoneInv, LockIsHeld, Holding
<1>5. PaidInv'
  BY DEF TypeOK, GoneInv, Holding, PaidInv
<1> QED BY <1>1, <1>2, <1>3, <1>4, <1>5

\* The execution is in the cache, or covered by a fault.
LEMMA StoreStep ==
  ASSUME IInv, NEW r \in Req, Store(r)
  PROVE  IInv'
<1> USE DEF IInv, Store, Go, Fault
<1>1. TypeOK'
  BY DEF TypeOK
<1>2. GoneInv'
  BY DEF TypeOK, GoneInv, Holding
<1>3. HoldInv'
  BY DEF TypeOK, HoldInv, OneHandler, Holding
<1>4. LockIsHeld'
  BY DEF TypeOK, GoneInv, LockIsHeld, Holding
<1>5. PaidInv'
  BY DEF TypeOK, GoneInv, Holding, PaidInv
<1> QED BY <1>1, <1>2, <1>3, <1>4, <1>5

\* The lock is deleted, or left by a fault.
LEMMA ReleaseStep ==
  ASSUME IInv, NEW r \in Req, Release(r)
  PROVE  IInv'
<1> USE DEF IInv, Release, Go, Fault
<1>1. TypeOK'
  BY DEF TypeOK
<1>2. GoneInv'
  BY DEF TypeOK, GoneInv, Holding
<1>3. HoldInv'
  BY DEF TypeOK, HoldInv, OneHandler, Holding
<1>4. LockIsHeld'
  BY DEF TypeOK, GoneInv, LockIsHeld, Holding
<1>5. PaidInv'
  BY DEF TypeOK, GoneInv, Holding, PaidInv
<1> QED BY <1>1, <1>2, <1>3, <1>4, <1>5

\* No handler survives, and the crash is a fault.
LEMMA CrashStep ==
  ASSUME IInv, Crash
  PROVE  IInv'
<1> USE DEF IInv, Crash, Fault
<1>1. TypeOK'
  BY DEF TypeOK
<1>2. GoneInv' /\ HoldInv'
  BY DEF TypeOK, GoneInv, HoldInv, OneHandler, Holding
<1>3. LockIsHeld'
  BY DEF TypeOK, GoneInv, LockIsHeld, Holding
<1>4. PaidInv'
  BY DEF TypeOK, GoneInv, Holding, PaidInv
<1> QED BY <1>1, <1>2, <1>3, <1>4

\* Both keys are gone, at the price of a fault; a handler at work has lost its lock.
LEMMA RedisRestartsStep ==
  ASSUME IInv, RedisRestarts
  PROVE  IInv'
<1> USE DEF IInv, RedisRestarts, Fault
<1>0. overran' \in BOOLEAN
  BY Zenon DEF TypeOK
<1>1. TypeOK'
  BY <1>0 DEF TypeOK
<1>2. GoneInv'
  BY DEF TypeOK, GoneInv, Holding
<1>3. HoldInv'
  <2>1. ASSUME ~overran', NEW q \in Req, Holding(q)
        PROVE  FALSE
    <3>1. ~overran /\ ~(lock > 0)
      BY <2>1, Zenon
    <3> QED BY <2>1, <3>1 DEF HoldInv
  <2> QED BY <2>1 DEF HoldInv, OneHandler, Holding
<1>4. LockIsHeld'
  BY DEF TypeOK, LockIsHeld
<1>5. PaidInv'
  BY DEF TypeOK, GoneInv, Holding, PaidInv
<1> QED BY <1>1, <1>2, <1>3, <1>4, <1>5

\* The keys age; with the response the executions it stood for are forgotten.
LEMMA TickStep ==
  ASSUME IInv, Tick
  PROVE  IInv'
<1> USE DEF IInv, Tick, Fault
<1>1. TypeOK'
  BY DEF TypeOK
<1>2. GoneInv' /\ HoldInv'
  <2>1. GoneInv'
    BY DEF TypeOK, GoneInv, Holding
  <2>2. ASSUME ~overran', NEW q \in Req, Holding(q)
        PROVE  lock' > 0
    <3>1. ~overran /\ lock # 1
      BY <2>2, Zenon
    <3>2. lock > 0
      BY <2>2, <3>1 DEF HoldInv
    <3> QED BY <3>1, <3>2 DEF TypeOK
  <2>3. ~overran' => OneHandler'
    BY DEF HoldInv, OneHandler, Holding
  <2> QED BY <2>1, <2>2, <2>3 DEF HoldInv, Holding
<1>3. LockIsHeld'
  BY DEF TypeOK, GoneInv, LockIsHeld, Holding
<1>4. PaidInv'
  BY DEF TypeOK, GoneInv, Holding, PaidInv
<1> QED BY <1>1, <1>2, <1>3, <1>4

\* The invariant is inductive.
LEMMA IInvStep ==
  ASSUME IInv, [Next]_vars
  PROVE  IInv'
<1>1. CASE \E r \in Req : Handle(r)
  BY <1>1, ArriveStep, GetHitStep, GetMissStep, SetNXStep, SetNXRefusedStep,
     ClientGoneStep, ExecOKStep, ExecFailsStep, StoreStep, ReleaseStep DEF Handle
<1>2. CASE UNCHANGED vars
  BY <1>2 DEF vars, IInv, TypeOK, GoneInv, HoldInv, OneHandler, LockIsHeld,
     PaidInv, Holding
<1> QED BY <1>1, <1>2, CrashStep, RedisRestartsStep, TickStep DEF Next

LEMMA Invariance == Spec => []IInv
<1>1. IInv /\ [Next]_vars => IInv'
  BY IInvStep
<1> QED BY <1>1, InitIInv, PTL DEF Spec

\* Every variable keeps its type.
THEOREM IdemTypeCorrect == Spec => []TypeOK
<1>1. IInv => TypeOK
  BY DEF IInv
<1> QED BY <1>1, Invariance, PTL

\* SetNX keeps the wrapped handler to one request at a time until a handler
\* outlives its lock.
THEOREM IdemOneHandler == Spec => []OneHandler
<1>1. IInv => OneHandler
  BY DEF IInv, HoldInv, OneHandler
<1> QED BY <1>1, Invariance, PTL

\* Without faults there is no lock without a handler that will delete it.
THEOREM IdemLockIsHeld == Spec => []LockIsHeld
<1>1. IInv => LockIsHeld
  BY DEF IInv
<1> QED BY <1>1, Invariance, PTL

\* A retry that overlaps no other request executes nothing again, faults apart.
THEOREM IdemRetryPaid == Spec => []RetryPaid
<1>1. IInv => RetryPaid
  BY DEF IInv, TypeOK, PaidInv, RetryPaid
<1> QED BY <1>1, Invariance, PTL
=============================================================================
