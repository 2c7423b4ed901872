-------------------------- MODULE SubmissionProofs --------------------------
(***************************************************************************)
(* What POST /accounts/open guarantees for any number of requests and      *)
(* messages, any times to live and any faults.  The composition keeps the  *)
(* specification of each of its three parts, so what is proved of the      *)
(* parts holds of the whole; what is true only of the whole is proved from *)
(* an invariant about where a request is in the middleware and in the      *)
(* handler.                                                                *)
(***************************************************************************)
EXTENDS Submission, StageProofs

IP == INSTANCE IdempotencyProofs

USE LockAssumption, AllBoundAssumption

-----------------------------------------------------------------------------
(* The idempotency middleware is a part                                    *)

\* Whatever a request does is a step of the idempotency middleware or leaves it
\* alone ...
LEMMA IdemHandleStep ==
  ASSUME NEW r \in Req, Handle(r)
  PROVE  (\E q \in Req : I!Handle(q)) \/ UNCHANGED idemVars
<1>1. CASE (\E m \in Msg : Receive(r, m)) \/ Refuse409(r)
  BY <1>1 DEF Receive, Refuse409, OfReplay
<1>2. CASE \/ PassNonce(r) \/ Resend(r) \/ Lookup(r) \/ Lock(r) \/ Busy(r)
           \/ Unauthorized(r) \/ StoreResponse(r) \/ Disconnect(r)
  BY <1>2 DEF PassNonce, Resend, Lookup, Lock, Busy, Unauthorized, StoreResponse,
     Disconnect, OfIdempotency, I!Handle
<1>3. CASE Authorize(r) \/ Check(r) \/ Insert(r) \/ Activate(r)
  BY <1>3 DEF Authorize, Check, Insert, Activate, OfOpening
<1>4. CASE HandlerFails(r) \/ HandlerAnswers(r) \/ Done(r)
  BY <1>4 DEF HandlerFails, HandlerAnswers, Done, I!Handle
<1> QED BY <1>1, <1>2, <1>3, <1>4 DEF Handle

\* ... and so is every step of the route.
LEMMA IdemStep ==
  ASSUME [Next]_vars
  PROVE  [I!Next]_(I!vars)
<1>1. CASE \E r \in Req : Handle(r)
  BY <1>1, IdemHandleStep DEF I!Next, I!vars, idemVars
<1>2. CASE Customer
  BY <1>2 DEF Customer, OfOpening, I!vars, idemVars
<1>3. CASE Crash \/ RedisRestarts \/ Tick
  BY <1>3 DEF Crash, RedisRestarts, Tick, I!Next, I!vars, idemVars
<1>4. CASE UNCHANGED vars
  BY <1>4 DEF vars, I!vars, idemVars
<1> QED BY <1>1, <1>2, <1>3, <1>4 DEF Next

\* The route keeps the specification of the idempotency middleware, the faults
\* it allows included.
THEOREM RouteIsIdempotency == Spec => I!Spec
<1>1. Init => I!Init
  BY DEF Init
<1>2. [Next]_vars => [I!Next]_(I!vars)
  BY IdemStep
<1> QED BY <1>1, <1>2, PTL DEF Spec, I!Spec

\* The instance with the proofs says the same as the one without.
LEMMA SameIdempotency == I!Spec => IP!Spec
<1>1. I!Init => IP!Init
  BY DEF I!Init, IP!Init
<1>2. [I!Next]_(I!vars) => [IP!Next]_(IP!vars)
  <2>1. ASSUME NEW r \in Req, I!Handle(r) PROVE IP!Handle(r)
    BY <2>1 DEF I!Handle, IP!Handle, I!Arrive, IP!Arrive, I!GetHit, IP!GetHit,
       I!GetMiss, IP!GetMiss, I!SetNX, IP!SetNX, I!SetNXRefused, IP!SetNXRefused,
       I!ClientGone, IP!ClientGone, I!ExecOK, IP!ExecOK, I!ExecFails, IP!ExecFails,
       I!Store, IP!Store, I!Release, IP!Release, I!Go, IP!Go, I!Fault, IP!Fault,
       I!Holding, IP!Holding
  <2>2. I!Crash => IP!Crash
    BY DEF I!Crash, IP!Crash, I!Fault, IP!Fault
  <2>3. I!RedisRestarts => IP!RedisRestarts
    BY DEF I!RedisRestarts, IP!RedisRestarts, I!Fault, IP!Fault, I!Holding, IP!Holding
  <2>4. I!Tick => IP!Tick
    BY DEF I!Tick, IP!Tick, I!Holding, IP!Holding
  <2> QED BY <2>1, <2>2, <2>3, <2>4 DEF I!Next, IP!Next, I!vars, IP!vars
<1> QED BY <1>1, <1>2, PTL DEF I!Spec, IP!Spec

LEMMA IdemInvariance == Spec => []IP!IInv
BY RouteIsIdempotency, SameIdempotency, IP!Invariance, PTL

-----------------------------------------------------------------------------
(* Where a request is                                                      *)

\* The handler is at work inside the middleware, and its answer is stored and
\* sent afterwards.
WithinInv ==
    \A r \in Req :
        /\ step[r] \notin {"idle", "answer"} => pc[r] = "exec"
        /\ step[r] = "answer" => pc[r] \in {"store", "release"}

\* An answer, under way or in Redis, is that of an opening that took place.
OpenedInv ==
    /\ \A r \in Req :
          /\ step[r] \in {"status", "token", "answer"} => accounts > 0
          /\ step[r] = "answer" \/ pc[r] = "store" => accounts > 0 /\ granted # "none"
    /\ ResentWasOpened

\* Nobody is about to insert a second account.
OnceInv ==
    ~overran => /\ accounts <= 1
                /\ \A r \in Req : step[r] = "insert" => accounts = 0

\* Without a fault the token of an account is given, or on its way.
DueInv ==
    faults = 0 /\ dbFaults = 0 /\ accounts > 0 =>
        \/ granted = "given"
        \/ \E r \in Req : step[r] \in {"status", "token", "answer"}

Steps == {"idle", "check", "insert", "status", "token", "answer"}

RouteIInv ==
    /\ step \in [Req -> Steps]
    /\ accounts \in Nat /\ dbFaults \in Nat
    /\ WithinInv
    /\ OpenedInv
    /\ OnceInv
    /\ DueInv

\* What the idempotency middleware brings to it.
Middleware ==
    /\ pc \in [Req -> {"idle", "get", "lock", "exec", "store", "release"}]
    /\ resp \in Nat /\ faults \in Nat
    /\ \A r \in Req : gone[r] => faults > 0
    /\ ~overran => \A q, r \in Req : pc[q] = "exec" /\ pc[r] = "exec" => q = r

LEMMA IdemBrings == IP!IInv => Middleware
BY DEF IP!IInv, IP!TypeOK, IP!GoneInv, IP!HoldInv, IP!OneHandler, IP!Holding, Middleware

\* Nothing has been opened.
LEMMA InitRouteIInv == Init => RouteIInv
BY DEF Init, I!Init, OpeningInit, RouteIInv, Steps, WithinInv, OpenedInv,
   ResentWasOpened, OnceInv, DueInv

\* In front of the handler a request is nowhere in it.
LEMMA FrontStep ==
  ASSUME RouteIInv, Middleware, NEW r \in Req,
         \/ \E m \in Msg : Receive(r, m)
         \/ PassNonce(r) \/ Refuse409(r) \/ Lookup(r) \/ Lock(r) \/ Busy(r)
         \/ Unauthorized(r) \/ Disconnect(r)
  PROVE  RouteIInv'
<1> USE DEF RouteIInv, Middleware
<1>1. /\ UNCHANGED openingVars
      /\ resp' = resp /\ overran' = overran
      /\ faults' \in Nat /\ faults' >= faults
      /\ \/ UNCHANGED pc
         \/ /\ pc[r] \in {"idle", "get", "lock"} \/ (pc[r] = "exec" /\ step[r] = "idle")
            /\ \E to \in {"idle", "get", "lock", "exec", "release"} :
                  pc' = [pc EXCEPT ![r] = to]
  BY DEF Receive, PassNonce, Refuse409, Lookup, Lock, Busy, Unauthorized, Disconnect,
     OfReplay, OfIdempotency, I!Arrive, I!GetMiss, I!SetNX, I!SetNXRefused,
     I!ExecFails, I!ClientGone, I!Go, I!Fault, idemVars
<1>2. step' = step /\ accounts' = accounts /\ granted' = granted /\ dbFaults' = dbFaults
  BY <1>1 DEF openingVars
<1>3. WithinInv'
  BY <1>1, <1>2 DEF WithinInv, Steps
<1>4. OpenedInv'
  BY <1>1, <1>2 DEF OpenedInv, ResentWasOpened
<1>5. OnceInv' /\ DueInv'
  BY <1>1, <1>2 DEF OnceInv, DueInv
<1> QED BY <1>2, <1>3, <1>4, <1>5

\* The stored answer is one that was signed.
LEMMA ResendStep ==
  ASSUME RouteIInv, Middleware, NEW r \in Req, Resend(r)
  PROVE  RouteIInv'
<1> USE DEF RouteIInv, Middleware, Resend, GetElevated, I!GetHit, I!Go
<1>1. WithinInv'
  BY DEF WithinInv, Steps
<1>2. OpenedInv'
  BY DEF OpenedInv, ResentWasOpened
<1>3. OnceInv' /\ DueInv'
  BY DEF OnceInv, DueInv
<1> QED BY <1>1, <1>2, <1>3

\* The request enters the handler, which no other request is in, and finds no
\* account.
LEMMA CheckStep ==
  ASSUME RouteIInv, Middleware, NEW r \in Req, Authorize(r) \/ Check(r)
  PROVE  RouteIInv'
<1> USE DEF RouteIInv, Middleware, Authorize, Check, OfOpening, AdmitOpening,
       HasNoAccount, To, tokenVars, idemVars
<1>1. step' \in [Req -> Steps]
  BY DEF Steps
<1>2. WithinInv'
  BY DEF WithinInv, Steps
<1>3. OpenedInv'
  BY DEF OpenedInv, ResentWasOpened
<1>4. OnceInv'
  BY DEF OnceInv
<1>5. DueInv'
  BY DEF DueInv
<1> QED BY <1>1, <1>2, <1>3, <1>4, <1>5

\* The account is the first: no other request is in the handler.
LEMMA InsertAccountStep ==
  ASSUME RouteIInv, Middleware, NEW r \in Req, Insert(r)
  PROVE  RouteIInv'
<1> USE DEF RouteIInv, Middleware, Insert, OfOpening, CreateAccount, To, tokenVars,
       idemVars
<1>1. step' \in [Req -> Steps] /\ accounts' \in Nat
  BY DEF Steps
<1>2. WithinInv'
  BY DEF WithinInv, Steps
<1>3. OpenedInv'
  BY DEF OpenedInv, ResentWasOpened
<1>4. OnceInv'
  <2> SUFFICES ASSUME ~overran
               PROVE  accounts' <= 1 /\ \A q \in Req : step'[q] # "insert"
    BY DEF OnceInv
  <2>1. accounts' = 1
    BY DEF OnceInv
  <2>2. ASSUME NEW q \in Req, q # r PROVE step[q] # "insert"
    BY <2>2 DEF WithinInv
  <2> QED BY <2>1, <2>2
<1>5. DueInv'
  BY DEF DueInv
<1> QED BY <1>1, <1>2, <1>3, <1>4, <1>5

\* After the INSERT the handler goes on to the token, come what may.
LEMMA ActivateStep ==
  ASSUME RouteIInv, Middleware, NEW r \in Req, Activate(r)
  PROVE  RouteIInv'
<1> USE DEF RouteIInv, Middleware, Activate, OfOpening, SetCustomerActive,
       StatusNotSet, To, tokenVars, idemVars
<1>1. step' \in [Req -> Steps]
  BY DEF Steps
<1>2. WithinInv'
  BY DEF WithinInv, Steps
<1>3. OpenedInv'
  BY DEF OpenedInv, ResentWasOpened
<1>4. OnceInv'
  BY DEF OnceInv
<1>5. DueInv'
  BY DEF DueInv
<1> QED BY <1>1, <1>2, <1>3, <1>4, <1>5

\* The token is signed and the answer goes back to the middleware.
LEMMA HandlerAnswersStep ==
  ASSUME RouteIInv, Middleware, NEW r \in Req, HandlerAnswers(r)
  PROVE  RouteIInv'
<1> USE DEF RouteIInv, Middleware, HandlerAnswers, Elevate, I!ExecOK, I!Go, To
<1>1. step' \in [Req -> Steps]
  BY DEF Steps
<1>2. WithinInv'
  BY DEF WithinInv, Steps
<1>3. OpenedInv'
  BY DEF OpenedInv, ResentWasOpened
<1>4. OnceInv'
  BY DEF OnceInv
<1>5. DueInv'
  BY DEF DueInv
<1> QED BY <1>1, <1>2, <1>3, <1>4, <1>5

\* An error before the INSERT, or one of the database or of the signature: an
\* account inserted all the same is the first, and its token is lost to a fault.
LEMMA HandlerFailsStep ==
  ASSUME RouteIInv, Middleware, NEW r \in Req, HandlerFails(r)
  PROVE  RouteIInv'
<1> USE DEF RouteIInv, Middleware, HandlerFails, I!ExecFails, I!Go, To
<1>1. /\ step' = [step EXCEPT ![r] = "idle"]
      /\ pc' = [pc EXCEPT ![r] = "release"]
      /\ pc[r] = "exec" /\ resp' = resp /\ faults' = faults /\ overran' = overran
  BY DEF RefuseOpening, CreateFails, ElevateFails
<1>2. /\ granted' = granted
      /\ \/ accounts' = accounts /\ dbFaults' = dbFaults
            /\ step[r] \in {"check", "insert"}
         \/ accounts' = accounts /\ dbFaults' = dbFaults + 1
         \/ accounts' = accounts + 1 /\ dbFaults' = dbFaults + 1 /\ step[r] = "insert"
  BY DEF RefuseOpening, CreateFails, ElevateFails, DbFault, tokenVars
<1>3. step' \in [Req -> Steps] /\ accounts' \in Nat /\ dbFaults' \in Nat
  BY <1>1, <1>2 DEF Steps
<1>4. WithinInv'
  BY <1>1 DEF WithinInv, Steps
<1>5. OpenedInv'
  BY <1>1, <1>2 DEF OpenedInv, ResentWasOpened
<1>6. OnceInv'
  <2> SUFFICES ASSUME ~overran
               PROVE  /\ accounts' <= 1
                      /\ \A q \in Req : step'[q] = "insert" => accounts' = 0
    BY <1>1 DEF OnceInv
  <2>1. CASE accounts' = accounts
    BY <2>1, <1>1 DEF OnceInv
  <2>2. CASE accounts' = accounts + 1 /\ step[r] = "insert"
    <3>1. accounts' = 1
      BY <2>2 DEF OnceInv
    <3>2. \A q \in Req : step'[q] # "insert"
      BY <1>1 DEF WithinInv
    <3> QED BY <3>1, <3>2
  <2> QED BY <2>1, <2>2, <1>2
<1>7. DueInv'
  BY <1>1, <1>2 DEF DueInv
<1> QED BY <1>3, <1>4, <1>5, <1>6, <1>7

\* What is stored is the answer of an opening.
LEMMA StoreResponseStep ==
  ASSUME RouteIInv, Middleware, NEW r \in Req, StoreResponse(r)
  PROVE  RouteIInv'
<1> USE DEF RouteIInv, Middleware, StoreResponse, OfIdempotency, I!Store, I!Go,
       I!Fault, replayVars, openingVars
<1>1. WithinInv'
  BY DEF WithinInv, Steps
<1>2. OpenedInv'
  BY DEF OpenedInv, ResentWasOpened
<1>3. OnceInv' /\ DueInv'
  BY DEF OnceInv, DueInv
<1> QED BY <1>1, <1>2, <1>3

\* An answer that does not reach the customer is lost to a fault.
LEMMA DoneStep ==
  ASSUME RouteIInv, Middleware, NEW r \in Req, Done(r)
  PROVE  RouteIInv'
<1> USE DEF RouteIInv, Middleware
<1>1. /\ pc[r] = "release" /\ pc' = [pc EXCEPT ![r] = "idle"]
      /\ resp' = resp /\ overran' = overran
      /\ faults' \in Nat /\ faults' >= faults
  BY DEF Done, I!Release, I!Go, I!Fault
<1>2. /\ accounts' = accounts /\ dbFaults' = dbFaults
      /\ step[r] \in {"idle", "answer"} /\ step' = [step EXCEPT ![r] = "idle"]
      /\ granted' \in {granted, "given"}
      /\ step[r] = "answer" => granted' = "given" \/ faults > 0
  BY DEF Done, Answer, AnswerLost, GetElevated, To, openingVars, tokenVars
<1>3. step' \in [Req -> Steps]
  BY <1>2 DEF Steps
<1>4. WithinInv'
  BY <1>1, <1>2 DEF WithinInv, Steps
<1>5. OpenedInv'
  BY <1>1, <1>2 DEF OpenedInv, ResentWasOpened
<1>6. OnceInv'
  BY <1>1, <1>2 DEF OnceInv
<1>7. DueInv'
  BY <1>1, <1>2 DEF DueInv
<1> QED BY <1>2, <1>3, <1>4, <1>5, <1>6, <1>7

\* The customer, the time and a Redis that restarts are not in the handler.
LEMMA AroundStep ==
  ASSUME RouteIInv, Middleware, Customer \/ RedisRestarts \/ Tick
  PROVE  RouteIInv'
<1> USE DEF RouteIInv, Middleware
<1>1. /\ UNCHANGED <<pc, step, accounts, granted, dbFaults>>
      /\ resp' > 0 => resp > 0
      /\ faults' \in Nat /\ faults' >= faults
  <2>1. CASE Customer
    BY <2>1 DEF Customer, OfOpening, LoginStep, ReadActive, SignAccess, LoginFails,
       Suspend, tokenVars, idemVars
  <2>2. CASE RedisRestarts
    BY <2>2 DEF RedisRestarts, I!RedisRestarts, I!Fault, openingVars, idemVars
  <2>3. CASE Tick
    BY <2>3 DEF Tick, OpeningTick, I!Tick, idemVars
  <2> QED BY <2>1, <2>2, <2>3
<1>2. overran => overran'
  BY Zenon DEF Customer, RedisRestarts, Tick, OfOpening, I!RedisRestarts, I!Tick,
     idemVars
<1>3. WithinInv' /\ OpenedInv'
  BY <1>1 DEF WithinInv, OpenedInv, ResentWasOpened
<1>4. OnceInv'
  <2> SUFFICES ASSUME ~overran' PROVE OnceInv'
    BY DEF OnceInv
  <2>1. ~overran
    BY <1>2, Zenon
  <2> QED BY <2>1, <1>1 DEF OnceInv
<1>5. DueInv'
  BY <1>1 DEF DueInv
<1> QED BY <1>1, <1>3, <1>4, <1>5

\* A crash takes a request's progress at the price of a fault; the progress of
\* logins alone costs nothing.
LEMMA CrashRouteStep ==
  ASSUME RouteIInv, Middleware, Crash
  PROVE  RouteIInv'
<1> USE DEF RouteIInv, Middleware
<1>1. CASE I!Crash /\ ServerLost /\ OpeningCrash
  <2>1. /\ UNCHANGED <<accounts, granted, dbFaults, resp, overran>>
        /\ step' = [r \in Req |-> "idle"] /\ pc' = [r \in Req |-> "idle"]
        /\ faults' > 0
    BY <1>1 DEF I!Crash, I!Fault, OpeningCrash, tokenVars
  <2>2. step' \in [Req -> Steps]
    BY <2>1 DEF Steps
  <2>3. WithinInv' /\ OpenedInv'
    BY <2>1 DEF WithinInv, OpenedInv, ResentWasOpened
  <2>4. OnceInv' /\ DueInv'
    BY <2>1 DEF OnceInv, DueInv
  <2> QED BY <2>1, <2>2, <2>3, <2>4
<1>2. CASE /\ (\A r \in Req : pc[r] = "idle") /\ UNCHANGED idemVars
           /\ ServerLost /\ OpeningCrash
  <2>1. step' = step
    BY <1>2 DEF WithinInv, OpeningCrash, Steps
  <2>2. UNCHANGED <<accounts, granted, dbFaults, idemVars>>
    BY <1>2 DEF OpeningCrash, tokenVars
  <2> QED BY <2>1, <2>2 DEF idemVars, WithinInv, OpenedInv, ResentWasOpened, OnceInv,
             DueInv
<1> QED BY <1>1, <1>2 DEF Crash

\* The invariant is inductive, given what the middleware brings.
LEMMA RouteIInvStep ==
  ASSUME RouteIInv, Middleware, [Next]_vars
  PROVE  RouteIInv'
<1>1. ASSUME NEW r \in Req, Handle(r) PROVE RouteIInv'
  BY <1>1, FrontStep, ResendStep, CheckStep, InsertAccountStep, ActivateStep,
     HandlerFailsStep, HandlerAnswersStep, StoreResponseStep, DoneStep DEF Handle
<1>2. CASE UNCHANGED vars
  BY <1>2 DEF vars, idemVars, openingVars, RouteIInv, WithinInv, OpenedInv,
     ResentWasOpened, OnceInv, DueInv
<1> QED BY <1>1, <1>2, AroundStep, CrashRouteStep DEF Next

LEMMA RouteInvariance == Spec => []RouteIInv
<1>1. RouteIInv /\ Middleware /\ [Next]_vars => RouteIInv'
  BY RouteIInvStep
<1> QED BY <1>1, InitRouteIInv, IdemInvariance, IdemBrings, PTL DEF Spec

-----------------------------------------------------------------------------
(* The other two parts                                                     *)

\* Whatever the route does is a step of the anti-replay middleware or leaves it
\* alone.
LEMMA ReplayStep ==
  ASSUME [Next]_vars
  PROVE  [ReplayNext]_replayVars
<1>1. ASSUME NEW r \in Req, Handle(r) PROVE [ReplayNext]_replayVars
  <2>1. CASE \E m \in Msg : Receive(r, m)
    BY <2>1 DEF Receive, OfReplay, ReplayNext
  <2>2. CASE PassNonce(r) \/ Refuse409(r)
    BY <2>2 DEF PassNonce, Refuse409, OfReplay, ReplayNext
  <2>3. CASE \/ Resend(r) \/ Lookup(r) \/ Lock(r) \/ Busy(r) \/ Unauthorized(r)
             \/ StoreResponse(r) \/ Disconnect(r)
    BY <2>3 DEF Resend, Lookup, Lock, Busy, Unauthorized, StoreResponse, Disconnect,
       OfIdempotency, replayVars
  <2>4. CASE \/ Authorize(r) \/ Check(r) \/ Insert(r) \/ Activate(r)
             \/ HandlerFails(r) \/ HandlerAnswers(r) \/ Done(r)
    BY <2>4 DEF Authorize, Check, Insert, Activate, HandlerFails, HandlerAnswers,
       Done, OfOpening, replayVars
  <2> QED BY <1>1, <2>1, <2>2, <2>3, <2>4 DEF Handle
<1>2. CASE Customer
  BY <1>2 DEF Customer, OfOpening, replayVars
<1>3. CASE Crash \/ RedisRestarts \/ Tick
  BY <1>3 DEF Crash, RedisRestarts, Tick, ReplayNext
<1>4. CASE UNCHANGED vars
  BY <1>4 DEF vars
<1> QED BY <1>1, <1>2, <1>3, <1>4 DEF Next

\* ... and a step of the opening of accounts, where the answer that Redis holds
\* is one that was signed.
LEMMA OpeningPartStep ==
  ASSUME RouteIInv, [Next]_vars
  PROVE  [OpeningNext]_openingVars
<1>1. ASSUME NEW r \in Req, Handle(r) PROVE [OpeningNext]_openingVars
  <2>1. CASE (\E m \in Msg : Receive(r, m)) \/ PassNonce(r) \/ Refuse409(r)
    BY <2>1 DEF Receive, PassNonce, Refuse409, OfReplay, openingVars
  <2>2. CASE \/ Lookup(r) \/ Lock(r) \/ Busy(r) \/ Unauthorized(r)
             \/ StoreResponse(r) \/ Disconnect(r)
    BY <2>2 DEF Lookup, Lock, Busy, Unauthorized, StoreResponse, Disconnect,
       OfIdempotency, openingVars
  <2>3. CASE Resend(r)
    <3>1. granted # "none"
      BY <2>3 DEF RouteIInv, OpenedInv, ResentWasOpened, Resend, I!GetHit
    <3> QED BY <2>3, <3>1 DEF Resend, AnsweredAgain, OpeningNext
  <2>4. CASE \/ Authorize(r) \/ Check(r) \/ Insert(r) \/ Activate(r)
             \/ HandlerFails(r) \/ HandlerAnswers(r)
    BY <2>4 DEF Authorize, Check, Insert, Activate, HandlerFails, HandlerAnswers,
       OfOpening, OpeningNext, OpeningStep
  <2>5. CASE Done(r)
    BY <2>5 DEF Done, OpeningNext, OpeningStep
  <2> QED BY <1>1, <2>1, <2>2, <2>3, <2>4, <2>5 DEF Handle
<1>2. CASE Customer \/ Tick
  BY <1>2 DEF Customer, Tick, OfOpening, OpeningNext
<1>3. CASE Crash
  BY <1>3 DEF Crash, OpeningNext
<1>4. CASE RedisRestarts
  BY <1>4 DEF RedisRestarts
<1>5. CASE UNCHANGED vars
  BY <1>5 DEF vars
<1> QED BY <1>1, <1>2, <1>3, <1>4, <1>5 DEF Next

\* The route keeps the specification of the anti-replay middleware.
THEOREM RouteIsAntiReplay == Spec => ReplaySpec
<1>1. Init => ReplayInit
  BY DEF Init
<1>2. [Next]_vars => [ReplayNext]_replayVars
  BY ReplayStep
<1> QED BY <1>1, <1>2, PTL DEF Spec, ReplaySpec

\* The route keeps the specification of the opening of accounts.
THEOREM RouteIsAccountOpening == Spec => OpeningSpec
<1>1. Init => OpeningInit
  BY DEF Init
<1>2. RouteIInv /\ [Next]_vars => [OpeningNext]_openingVars
  BY OpeningPartStep
<1> QED BY <1>1, <1>2, RouteInvariance, PTL DEF Spec, OpeningSpec

-----------------------------------------------------------------------------
(* The whole                                                               *)

\* Every variable of the three parts keeps its type.
THEOREM RouteTypeCorrect == Spec => []TypeOK
<1>1. IP!TypeOK => I!TypeOK
  BY DEF I!TypeOK, IP!TypeOK
<1>2. IP!IInv => IP!TypeOK
  BY DEF IP!IInv
<1>3. I!TypeOK /\ ReplayTypeOK /\ OpeningTypeOK => TypeOK
  BY DEF TypeOK
<1> QED BY <1>1, <1>2, <1>3, IdemInvariance, RouteIsAntiReplay, ReplayTypeCorrect,
        RouteIsAccountOpening, OpeningTypeCorrect, PTL

\* Behind one idempotency key a customer gets one account at most, unless a
\* handler outlives or loses the lock.
THEOREM RouteOneAccountPerKey == Spec => []OneAccountPerKey
<1>1. RouteIInv => OneAccountPerKey
  BY DEF RouteIInv, OnceInv, OneAccountPerKey
<1> QED BY <1>1, RouteInvariance, PTL

\* Nobody who has an account is without the token, faults apart.
THEOREM RouteAccountComesWithToken == Spec => []AccountComesWithToken
<1>1. RouteIInv => AccountComesWithToken
  BY DEF RouteIInv, WithinInv, DueInv, AccountComesWithToken, Steps
<1> QED BY <1>1, RouteInvariance, PTL

\* Around the handler, too, a suspension that is settled is not undone: not by an
\* answer stored under the key, not by a message delivered again.
THEOREM RouteSuspensionStands == Spec => SuspensionStands
BY RouteIsAccountOpening, OpeningSuspensionStands, PTL

\* A stored answer is never that of an opening that did not take place.
THEOREM RouteResentWasOpened == Spec => []ResentWasOpened
<1>1. RouteIInv => ResentWasOpened
  BY DEF RouteIInv, OpenedInv
<1> QED BY <1>1, RouteInvariance, PTL
=============================================================================
