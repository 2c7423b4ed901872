-------------------------- MODULE WorkerPoolProofs --------------------------
(***************************************************************************)
(* What the worker pool keeps for any number of requests and workers and   *)
(* any size of the channel.                                                *)
(***************************************************************************)
EXTENDS WorkerPool, TLAPS

USE WorkerAssumption, BufferAssumption, NilAssumption

-----------------------------------------------------------------------------
(* The channel                                                             *)

\* What Append does to the set of queued jobs, and to the order of the others.
LEMMA AppendQueued ==
  ASSUME NEW q \in Seq(Job), NEW j \in Job
  PROVE  /\ Append(q, j) \in Seq(Job)
         /\ Len(Append(q, j)) = Len(q) + 1
         /\ {Append(q, j)[i] : i \in 1 .. Len(Append(q, j))}
                = {q[i] : i \in 1 .. Len(q)} \union {j}
         /\ \A i \in 1 .. Len(q) : Append(q, j)[i] = q[i]
         /\ Append(q, j)[Len(q) + 1] = j
<1> DEFINE a == Append(q, j)
<1>1. /\ a \in Seq(Job) /\ Len(a) = Len(q) + 1
      /\ \A i \in 1 .. Len(q) : a[i] = q[i]
      /\ a[Len(q) + 1] = j
  OBVIOUS
<1>2. Len(q) \in Nat
  OBVIOUS
<1> HIDE DEF a
<1>3. 1 .. Len(q) + 1 = 1 .. Len(q) \union {Len(q) + 1}
  BY <1>2
<1>4. {a[i] : i \in 1 .. Len(a)} = {q[i] : i \in 1 .. Len(q)} \union {j}
  BY <1>1, <1>3, Zenon
<1> QED BY <1>1, <1>4 DEF a

\* The head and the tail make up the channel.
LEMMA TailQueued ==
  ASSUME NEW q \in Seq(Job), q # <<>>
  PROVE  /\ Head(q) \in Job /\ Tail(q) \in Seq(Job)
         /\ Len(q) \in Nat \ {0}
         /\ Len(Tail(q)) = Len(q) - 1
         /\ Head(q) = q[1]
         /\ \A i \in 1 .. Len(q) - 1 : Tail(q)[i] = q[i + 1]
         /\ {q[i] : i \in 1 .. Len(q)}
                = {Head(q)} \union {Tail(q)[i] : i \in 1 .. Len(Tail(q))}
<1> DEFINE t == Tail(q)
<1>1. /\ Head(q) \in Job /\ t \in Seq(Job)
      /\ Len(q) \in Nat \ {0}
      /\ Len(t) = Len(q) - 1
      /\ Head(q) = q[1]
      /\ \A i \in 1 .. Len(q) - 1 : t[i] = q[i + 1]
  OBVIOUS
<1> HIDE DEF t
<1>2. \A i \in 1 .. Len(q) : i = 1 \/ (i - 1 \in 1 .. Len(t) /\ q[i] = t[i - 1])
  BY <1>1
<1>3. \A i \in 1 .. Len(t) : i + 1 \in 1 .. Len(q) /\ t[i] = q[i + 1]
  BY <1>1
<1>4. 1 \in 1 .. Len(q)
  BY <1>1
<1>5. {q[i] : i \in 1 .. Len(q)} = {Head(q)} \union {t[i] : i \in 1 .. Len(t)}
  BY <1>1, <1>2, <1>3, <1>4
<1> QED BY <1>1, <1>5 DEF t

-----------------------------------------------------------------------------
(* The inductive invariant                                                 *)

\* A worker leaves only a closed and empty channel.
Left ==
    (\E w \in Worker : wpc[w] = "done") =>
        queue = <<>> /\ main \notin {"running", "draining", "stopping", "cancelled"}

DoneIsIdle == \A w \in Worker : wpc[w] = "done" => job[w] = Nil

CleanLeft == reported = "clean" => \A w \in Worker : wpc[w] = "done"

\* Before the deadline srv.Shutdown has returned only without requests.
InTime ==
    ~expired => /\ \A r \in Request : rpc[r] # "panicked"
                /\ main \in {"stopping", "cancelled", "waiting", "returning", "closing"} =>
                       \A r \in Request : rpc[r] \notin {"handling", "query", "audit", "email"}

\* A job that was accepted is behind its handler.
Behind ==
    \A r \in Request :
        /\ <<r, "audit">> \in accepted => rpc[r] \in {"email", "answered", "panicked"}
        /\ <<r, "email">> \in accepted => rpc[r] = "answered"

\* Nothing is reported before the workers have been waited for.
ReportedInv ==
    main \in {"running", "draining", "stopping", "cancelled", "waiting"} => reported = "none"

IInv ==
    /\ TypeOK
    /\ ReportedInv
    /\ NothingLost
    /\ ProcessedOnce
    /\ Left
    /\ DoneIsIdle
    /\ CleanLeft
    /\ InTime
    /\ Behind

\* Nothing is queued, held or done.
LEMMA InitIInv == Init => IInv
<1> SUFFICES ASSUME Init PROVE IInv
  OBVIOUS
<1>1. queue = <<>> /\ queue \in Seq(Job) /\ Len(queue) = 0
  BY DEF Init
<1>2. TypeOK
  <2>0. expired \in BOOLEAN
    BY DEF Init
  <2>1. Len(queue) <= BufferSize
    BY <1>1
  <2>2. /\ wpc \in [Worker -> {"select", "drain", "done"}]
        /\ job \in [Worker -> Job \union {Nil}]
        /\ rpc \in [Request -> {"idle", "handling", "query", "audit", "email",
                                "answered", "panicked"}]
    BY DEF Init
  <2>3. accepted \subseteq Job /\ processed \subseteq Job
    BY DEF Init
  <2> QED BY <1>1, <2>0, <2>1, <2>2, <2>3 DEF Init, TypeOK
<1>3. Queued = {} /\ Held = {}
  BY <1>1 DEF Init, Queued, Held
<1>4. NothingLost /\ ProcessedOnce
  BY <1>1, <1>3 DEF Init, NothingLost, ProcessedOnce
<1> QED BY <1>2, <1>4 DEF Init, IInv, Left, DoneIsIdle, CleanLeft, InTime, Behind,
       ReportedInv

\* Steps that leave the channel, the workers and the histories alone.
LEMMA PoolUnchanged ==
  ASSUME IInv, UNCHANGED <<queue, job, accepted, processed>>
  PROVE  NothingLost' /\ ProcessedOnce'
BY DEF IInv, NothingLost, ProcessedOnce, Queued, Held

\* A handler moves on without a job: it starts before the signal, and the
\* rest of its way does not touch the pool.
LEMMA HandlerStep ==
  ASSUME IInv, NEW r \in Request,
         \/ Accept(r) \/ BeginQuery(r) \/ QueryDone(r) \/ QueryFails(r)
         \/ Refuse(r) \/ Saved(r) \/ Drop(r) \/ SendPanics(r)
  PROVE  IInv'
<1> DEFINE Moves(to) ==
        \/ rpc[r] = "idle" /\ main = "running" /\ to = "handling"
        \/ rpc[r] = "handling" /\ to \in {"query", "answered"}
        \/ rpc[r] = "query" /\ to \in {"handling", "audit", "answered"}
        \/ rpc[r] = "audit" /\ to = "email"
        \/ rpc[r] = "email" /\ to = "answered"
        \/ rpc[r] \in {"audit", "email"} /\ Closed /\ to = "panicked"
<1>1. /\ UNCHANGED pool /\ UNCHANGED proc
      /\ \E to \in {"handling", "query", "audit", "email", "answered", "panicked"} :
             Moves(to) /\ rpc' = [rpc EXCEPT ![r] = to]
  BY DEF Accept, BeginQuery, QueryDone, QueryFails, Refuse, Saved, Drop, SendPanics,
         Go, Sending, AfterJob
<1>2. UNCHANGED <<queue, wpc, job, accepted, processed, main, expired, reported>>
  BY <1>1 DEF pool, proc
<1>3. TypeOK'
  BY <1>1, <1>2 DEF IInv, TypeOK
<1>4. NothingLost' /\ ProcessedOnce'
  BY <1>2, PoolUnchanged
<1>5. Left' /\ DoneIsIdle' /\ CleanLeft' /\ ReportedInv'
  BY <1>2 DEF IInv, Left, DoneIsIdle, CleanLeft, ReportedInv
<1>6. InTime'
  BY <1>1, <1>2 DEF IInv, TypeOK, InTime, Closed
<1>7. Behind'
  <2>1. PICK to \in {"handling", "query", "audit", "email", "answered", "panicked"} :
            Moves(to) /\ rpc' = [rpc EXCEPT ![r] = to]
    BY <1>1
  <2>2. ASSUME NEW q \in Request
        PROVE  /\ <<q, "audit">> \in accepted => rpc'[q] \in {"email", "answered", "panicked"}
               /\ <<q, "email">> \in accepted => rpc'[q] = "answered"
    BY <2>1 DEF IInv, TypeOK, Behind
  <2> QED BY <1>2, <2>2 DEF Behind
<1> QED BY <1>3, <1>4, <1>5, <1>6, <1>7 DEF IInv

\* The job is new: its handler has not passed the send before.
LEMMA EnqueueStep ==
  ASSUME IInv, NEW r \in Request, Enqueue(r)
  PROVE  IInv'
<1> DEFINE j == ThisJob(r)
<1>1. /\ rpc[r] \in {"audit", "email"}
      /\ rpc' = [rpc EXCEPT ![r] = IF rpc[r] = "audit" THEN "email" ELSE "answered"]
      /\ Alive /\ ~Closed /\ Len(queue) < BufferSize
  <2>1. DOMAIN AfterJob = {"audit", "email"}
    BY DEF AfterJob
  <2>2. rpc[r] \in {"audit", "email"}
    BY <2>1 DEF Enqueue, Sending
  <2>3. AfterJob[rpc[r]] = IF rpc[r] = "audit" THEN "email" ELSE "answered"
    BY <2>2 DEF AfterJob
  <2>4. rpc' = [rpc EXCEPT ![r] = AfterJob[rpc[r]]]
    BY DEF Enqueue, Go
  <2>5. Alive /\ ~Closed /\ Len(queue) < BufferSize
    BY DEF Enqueue, Go
  <2> QED BY <2>2, <2>3, <2>4, <2>5
<1>2. j \in Job /\ j \notin accepted
  BY <1>1 DEF IInv, Behind, ThisJob, Job
<1>3. /\ queue' = Append(queue, j) /\ accepted' = accepted \union {j}
      /\ UNCHANGED <<wpc, job, processed, main, expired, reported>>
  BY DEF Enqueue, proc
<1>4. queue \in Seq(Job) /\ Len(queue) \in Nat
  BY DEF IInv, TypeOK
<1> HIDE DEF j
<1>5. /\ queue' \in Seq(Job) /\ Len(queue') = Len(queue) + 1
      /\ Queued' = Queued \union {j}
      /\ \A i \in 1 .. Len(queue) : queue'[i] = queue[i]
      /\ queue'[Len(queue) + 1] = j
  BY <1>2, <1>3, <1>4, AppendQueued DEF Queued
<1>6. Held' = Held
  BY <1>3 DEF Held
<1>7. TypeOK'
  BY <1>1, <1>2, <1>3, <1>4, <1>5 DEF IInv, TypeOK
<1>8. NothingLost'
  BY <1>3, <1>5, <1>6 DEF IInv, NothingLost
<1>9. j \notin Queued /\ j \notin Held /\ j \notin processed
  BY <1>2 DEF IInv, NothingLost
<1>10. ProcessedOnce'
  <2>1. ASSUME NEW i \in 1 .. Len(queue'), NEW k \in 1 .. Len(queue'), queue'[i] = queue'[k]
        PROVE  i = k
    <3>1. \A n \in 1 .. Len(queue) : queue[n] # j
      BY <1>9 DEF Queued
    <3> QED BY <2>1, <3>1, <1>4, <1>5 DEF IInv, ProcessedOnce
  <2>2. Queued' \cap Held' = {} /\ processed' \cap (Queued' \union Held') = {}
    BY <1>3, <1>5, <1>6, <1>9 DEF IInv, ProcessedOnce
  <2>3. \A v, w \in Worker : job'[v] # Nil /\ job'[v] = job'[w] => v = w
    BY <1>3 DEF IInv, ProcessedOnce
  <2> QED BY <2>1, <2>2, <2>3 DEF ProcessedOnce
<1>11. Left'
  BY <1>1, <1>3 DEF IInv, TypeOK, Left, Closed, Alive
<1>12. DoneIsIdle' /\ CleanLeft' /\ ReportedInv'
  BY <1>3 DEF IInv, DoneIsIdle, CleanLeft, ReportedInv
<1>13. InTime'
  BY <1>1, <1>3 DEF IInv, TypeOK, InTime
<1>14. Behind'
  BY <1>1, <1>3 DEF IInv, TypeOK, Behind, j, ThisJob
<1> QED BY <1>7, <1>8, <1>10, <1>11, <1>12, <1>13, <1>14 DEF IInv

\* The head goes from the channel to a worker that holds nothing.
LEMMA TakeStep ==
  ASSUME IInv, NEW w \in Worker, Take(w)
  PROVE  IInv'
<1> DEFINE j == Head(queue)
<1>1. /\ wpc[w] # "done" /\ job[w] = Nil /\ queue # <<>>
      /\ queue' = Tail(queue) /\ job' = [job EXCEPT ![w] = j]
      /\ UNCHANGED <<wpc, rpc, accepted, processed, main, expired, reported>>
  BY DEF Take, proc
<1>2. queue \in Seq(Job) /\ job \in [Worker -> Job \union {Nil}]
  BY DEF IInv, TypeOK
<1>3. /\ j \in Job /\ queue' \in Seq(Job) /\ Len(queue) \in Nat \ {0}
      /\ Len(queue') = Len(queue) - 1
      /\ j = queue[1]
      /\ \A i \in 1 .. Len(queue) - 1 : queue'[i] = queue[i + 1]
      /\ Queued = {j} \union Queued'
  BY <1>1, <1>2, TailQueued DEF Queued
<1> HIDE DEF j
<1>4. Held' = Held \union {j}
  BY <1>1, <1>2, <1>3 DEF Held
<1>5. TypeOK'
  BY <1>1, <1>2, <1>3 DEF IInv, TypeOK
<1>6. NothingLost'
  BY <1>1, <1>3, <1>4 DEF IInv, NothingLost
<1>7. j \notin Queued'
  BY <1>3 DEF IInv, ProcessedOnce, Queued
<1>8. j \notin Held /\ j \notin processed
  BY <1>3 DEF IInv, ProcessedOnce
<1>9. ProcessedOnce'
  <2>1. \A i, k \in 1 .. Len(queue') : queue'[i] = queue'[k] => i = k
    BY <1>3 DEF IInv, ProcessedOnce
  <2>2. \A u, v \in Worker : job'[u] # Nil /\ job'[u] = job'[v] => u = v
    BY <1>1, <1>2, <1>3, <1>8 DEF IInv, ProcessedOnce, Held
  <2>3. Queued' \cap Held' = {} /\ processed' \cap (Queued' \union Held') = {}
    BY <1>1, <1>3, <1>4, <1>7, <1>8 DEF IInv, ProcessedOnce
  <2> QED BY <2>1, <2>2, <2>3 DEF ProcessedOnce
<1>10. Left'
  BY <1>1 DEF IInv, Left
<1>11. DoneIsIdle' /\ CleanLeft' /\ ReportedInv'
  BY <1>1, <1>2 DEF IInv, DoneIsIdle, CleanLeft, ReportedInv
<1>12. InTime' /\ Behind'
  BY <1>1 DEF IInv, InTime, Behind
<1> QED BY <1>5, <1>6, <1>9, <1>10, <1>11, <1>12 DEF IInv

\* The job goes from the worker to the processed ones.
LEMMA ProcessJobStep ==
  ASSUME IInv, NEW w \in Worker, ProcessJob(w)
  PROVE  IInv'
<1>1. /\ job[w] # Nil /\ processed' = processed \union {job[w]}
      /\ job' = [job EXCEPT ![w] = Nil]
      /\ UNCHANGED <<queue, wpc, rpc, accepted, main, expired, reported>>
  BY DEF ProcessJob, proc
<1>2. job \in [Worker -> Job \union {Nil}]
  BY DEF IInv, TypeOK
<1>3. TypeOK'
  BY <1>1, <1>2 DEF IInv, TypeOK
<1>4. Queued' = Queued
  BY <1>1 DEF Queued
<1>5. Held' = Held \ {job[w]} /\ job[w] \in Held
  BY <1>1, <1>2 DEF Held, IInv, ProcessedOnce
<1>6. NothingLost'
  BY <1>1, <1>4, <1>5 DEF IInv, NothingLost
<1>7. ProcessedOnce'
  <2>1. \A i, k \in 1 .. Len(queue') : queue'[i] = queue'[k] => i = k
    BY <1>1 DEF IInv, ProcessedOnce
  <2>2. \A u, v \in Worker : job'[u] # Nil /\ job'[u] = job'[v] => u = v
    BY <1>1, <1>2 DEF IInv, ProcessedOnce
  <2>3. Queued' \cap Held' = {} /\ processed' \cap (Queued' \union Held') = {}
    BY <1>1, <1>4, <1>5 DEF IInv, ProcessedOnce
  <2> QED BY <2>1, <2>2, <2>3 DEF ProcessedOnce
<1>8. Left' /\ CleanLeft' /\ ReportedInv'
  BY <1>1 DEF IInv, Left, CleanLeft, ReportedInv
<1>9. DoneIsIdle'
  BY <1>1, <1>2 DEF IInv, DoneIsIdle
<1>10. InTime' /\ Behind'
  BY <1>1 DEF IInv, InTime, Behind
<1> QED BY <1>3, <1>6, <1>7, <1>8, <1>9, <1>10 DEF IInv

\* Only the control state of the worker changes.
LEMMA WorkerStep ==
  ASSUME IInv, NEW w \in Worker, SeeCancel(w) \/ Leave(w)
  PROVE  IInv'
<1>1. UNCHANGED <<queue, job, rpc, accepted, processed, main, expired, reported>>
  BY DEF SeeCancel, Leave, proc
<1>2. TypeOK'
  BY <1>1 DEF IInv, TypeOK, SeeCancel, Leave
<1>3. NothingLost' /\ ProcessedOnce'
  BY <1>1, PoolUnchanged
<1>4. Left'
  BY <1>1 DEF IInv, TypeOK, Left, SeeCancel, Leave, Closed
<1>5. DoneIsIdle' /\ CleanLeft' /\ ReportedInv'
  BY <1>1 DEF IInv, TypeOK, DoneIsIdle, CleanLeft, ReportedInv, SeeCancel, Leave
<1>6. InTime' /\ Behind'
  BY <1>1 DEF IInv, InTime, Behind
<1> QED BY <1>2, <1>3, <1>4, <1>5, <1>6 DEF IInv

\* main and the clock do not touch the pool.
LEMMA MainStep ==
  ASSUME IInv, Signal \/ Shutdown \/ Expire \/ Die
  PROVE  IInv'
<1>1. UNCHANGED <<queue, wpc, job, rpc, accepted, processed>>
  BY DEF Signal, Shutdown, Expire, Die, ServerDrained, ServerGivesUp, Cancel, CloseChan,
         ReportClean, ReportTimeout, CloseDB, Exit, pool
<1>2. TypeOK'
  BY <1>1 DEF IInv, TypeOK, Signal, Shutdown, Expire, Die, ServerDrained, ServerGivesUp, Cancel,
              CloseChan, ReportClean, ReportTimeout, CloseDB, Exit, MainGoes
<1>3. NothingLost' /\ ProcessedOnce'
  BY <1>1, PoolUnchanged
<1>4. Left' /\ DoneIsIdle'
  BY <1>1 DEF IInv, Left, DoneIsIdle, Signal, Shutdown, Expire, Die, ServerDrained, ServerGivesUp,
              Cancel, CloseChan, ReportClean, ReportTimeout, CloseDB, Exit, MainGoes
<1>5. CleanLeft'
  BY <1>1 DEF IInv, CleanLeft, Signal, Shutdown, Expire, Die, ServerDrained, ServerGivesUp,
              Cancel, CloseChan, ReportClean, ReportTimeout, CloseDB, Exit
<1>6. InTime'
  BY <1>1 DEF IInv, InTime, Signal, Shutdown, Expire, Die, ServerDrained, ServerGivesUp,
              Cancel, CloseChan, ReportClean, ReportTimeout, CloseDB, Exit, MainGoes, ServerIdle
<1>7. ReportedInv'
  BY DEF IInv, ReportedInv, Signal, Shutdown, Expire, Die, ServerDrained, ServerGivesUp,
         Cancel, CloseChan, ReportClean, ReportTimeout, CloseDB, Exit, MainGoes
<1>8. Behind'
  BY <1>1 DEF IInv, Behind
<1> QED BY <1>2, <1>3, <1>4, <1>5, <1>6, <1>7, <1>8 DEF IInv

\* Every step of the specification preserves the invariant.
LEMMA NextIInv == IInv /\ [Next]_vars => IInv'
<1> SUFFICES ASSUME IInv, [Next]_vars PROVE IInv'
  OBVIOUS
<1>1. ASSUME NEW r \in Request, Handle(r) PROVE IInv'
  BY <1>1, HandlerStep, EnqueueStep DEF Handle
<1>2. ASSUME NEW w \in Worker, Work(w) PROVE IInv'
  BY <1>2, TakeStep, ProcessJobStep, WorkerStep DEF Work
<1>3. CASE Signal \/ Shutdown \/ Expire \/ Die
  BY <1>3, MainStep
<1>4. CASE UNCHANGED vars
  <2>1. UNCHANGED <<queue, wpc, job, rpc, main, expired, reported, accepted, processed>>
    BY <1>4 DEF vars
  <2>2. NothingLost' /\ ProcessedOnce'
    BY <2>1, PoolUnchanged
  <2>3. TypeOK' /\ Left' /\ DoneIsIdle' /\ CleanLeft' /\ InTime' /\ Behind' /\ ReportedInv'
    BY <2>1 DEF IInv, TypeOK, Left, DoneIsIdle, CleanLeft, InTime, Behind, ReportedInv
  <2> QED BY <2>2, <2>3 DEF IInv
<1> QED BY <1>1, <1>2, <1>3, <1>4 DEF Next

-----------------------------------------------------------------------------
(* The theorems                                                            *)

\* The inductive invariant holds in every state of every behaviour.
THEOREM Invariant == Spec => []IInv
<1> QED BY InitIInv, NextIInv, PTL DEF Spec

\* Type correctness; above all, the channel never exceeds its capacity.
THEOREM PoolTypes == Spec => []TypeOK
<1>1. IInv => TypeOK
  BY DEF IInv
<1> QED BY <1>1, Invariant, PTL

\* No accepted job goes astray, for any pool and any order of its shutdown.
THEOREM PoolLosesNothing == Spec => []NothingLost
<1>1. IInv => NothingLost
  BY DEF IInv
<1> QED BY <1>1, Invariant, PTL

\* No job is processed twice.
THEOREM PoolProcessesOnce == Spec => []ProcessedOnce
<1>1. IInv => ProcessedOnce
  BY DEF IInv
<1> QED BY <1>1, Invariant, PTL

\* A clean report means that every accepted job is done: all workers have
\* left, hence hold nothing, and there is one, hence the channel is empty.
THEOREM PoolCleanMeansDone == Spec => []CleanMeansDone
<1>1. ASSUME IInv, reported = "clean" PROVE processed = accepted
  <2>1. \A w \in Worker : wpc[w] = "done" /\ job[w] = Nil
    BY <1>1 DEF IInv, CleanLeft, DoneIsIdle
  <2>2. queue = <<>>
    BY <1>1, <2>1 DEF IInv, Left
  <2>3. Held = {} /\ Queued = {}
    BY <2>1, <2>2 DEF Held, Queued
  <2> QED BY <1>1, <2>3 DEF IInv, NothingLost
<1>2. IInv => CleanMeansDone
  BY <1>1 DEF CleanMeansDone
<1> QED BY <1>2, Invariant, PTL

\* Only a request that outlives the deadline can meet the closed channel.
THEOREM PoolOnlySlowRequestsPanic == Spec => []OnlySlowRequestsPanic
<1>1. IInv => OnlySlowRequestsPanic
  BY DEF IInv, TypeOK, InTime, OnlySlowRequestsPanic
<1> QED BY <1>1, Invariant, PTL

-----------------------------------------------------------------------------
(* The refinement                                                          *)

\* What is queued or held is what was accepted and is not done yet.
LEMMA Pending ==
  ASSUME IInv
  PROVE  Queued \union Held = accepted \ processed
BY DEF IInv, NothingLost, ProcessedOnce

\* Every step of the pool is one of the ledger, or none.
LEMMA LedgerStep ==
  ASSUME IInv, IInv', [Next]_vars
  PROVE  [Ledger!Next]_(Ledger!ledger)
<1> USE DEF Ledger!Next, Ledger!ledger
<1>1. /\ Queued \union Held = accepted \ processed
      /\ (Queued \union Held)' = accepted' \ processed'
  <2>1. (Queued \union Held = accepted \ processed)'
    BY DEF IInv, NothingLost, ProcessedOnce
  <2> QED BY <2>1, Pending
<1>2. ASSUME UNCHANGED <<accepted, processed, reported>>
      PROVE  [Ledger!Next]_(Ledger!ledger)
  BY <1>1, <1>2
<1>3. ASSUME NEW r \in Request, Handle(r)
      PROVE  [Ledger!Next]_(Ledger!ledger)
  <2>1. CASE Enqueue(r)
    <3>1. rpc[r] \in {"audit", "email"} /\ ~Closed /\ Alive
      BY <2>1 DEF Enqueue, Sending, AfterJob, Go
    <3>2. ThisJob(r) \in Job /\ ThisJob(r) \notin accepted
      BY <3>1 DEF IInv, Behind, ThisJob, Job
    <3>3. reported = "none"
      BY <3>1 DEF IInv, TypeOK, Closed, Alive, ReportedInv
    <3>4. /\ accepted' = accepted \union {ThisJob(r)}
          /\ processed' = processed /\ reported' = reported
      BY <2>1 DEF Enqueue, proc
    <3>5. ThisJob(r) \notin processed
      BY <3>2 DEF IInv, NothingLost
    <3>6. Ledger!TakeOn(ThisJob(r))
      BY <1>1, <3>2, <3>3, <3>4, <3>5 DEF Ledger!TakeOn
    <3> QED BY <3>2, <3>6
  <2>2. CASE ~Enqueue(r)
    BY <1>2, <1>3, <2>2 DEF Handle, Accept, BeginQuery, QueryDone, QueryFails, Refuse,
       Saved, Drop, SendPanics, pool, proc
  <2> QED BY <2>1, <2>2
<1>4. ASSUME NEW w \in Worker, Work(w)
      PROVE  [Ledger!Next]_(Ledger!ledger)
  <2>1. CASE ProcessJob(w)
    <3>1. /\ job[w] # Nil /\ processed' = processed \union {job[w]}
          /\ accepted' = accepted /\ reported' = reported
      BY <2>1 DEF ProcessJob, proc
    <3>2. job[w] \in Job /\ job[w] \in Held
      BY <3>1 DEF IInv, TypeOK, Held
    <3>3. Ledger!Complete(job[w])
      BY <1>1, <3>1, <3>2 DEF Ledger!Complete
    <3> QED BY <3>2, <3>3
  <2>2. CASE ~ProcessJob(w)
    BY <1>2, <1>4, <2>2 DEF Work, Take, SeeCancel, Leave, proc
  <2> QED BY <2>1, <2>2
<1>5. CASE ReportClean
  <2>1. \A w \in Worker : wpc[w] = "done" /\ job[w] = Nil
    BY <1>5 DEF ReportClean, IInv, DoneIsIdle
  <2>2. queue = <<>>
    BY <2>1 DEF IInv, Left
  <2>3. Held = {} /\ Queued = {}
    BY <2>1, <2>2 DEF Held, Queued
  <2>4. reported = "none"
    BY <1>5 DEF ReportClean, MainGoes, IInv, ReportedInv
  <2>5. Ledger!StopCleanly
    BY <1>1, <1>5, <2>3, <2>4 DEF ReportClean, pool, Ledger!StopCleanly
  <2> QED BY <2>5
<1>6. CASE ReportTimeout
  <2>1. reported = "none"
    BY <1>6 DEF ReportTimeout, MainGoes, IInv, ReportedInv
  <2>2. Ledger!GiveUp
    BY <1>1, <1>6, <2>1 DEF ReportTimeout, pool, Ledger!GiveUp
  <2> QED BY <2>2
<1>7. CASE \/ Signal \/ Expire \/ Die \/ ServerDrained \/ ServerGivesUp
           \/ Cancel \/ CloseChan \/ CloseDB \/ Exit
  BY <1>2, <1>7 DEF Signal, Expire, Die, ServerDrained, ServerGivesUp, Cancel,
     CloseChan, CloseDB, Exit, pool
<1>8. CASE UNCHANGED vars
  BY <1>2, <1>8 DEF vars
<1> QED BY <1>3, <1>4, <1>5, <1>6, <1>7, <1>8 DEF Next, Shutdown

\* The worker pool implements the ledger, for any number of workers and any
\* capacity of its channel.
THEOREM PoolImplementsLedger == Spec => ImplementsLedger
<1>1. Init => Ledger!Init
  <2> SUFFICES ASSUME Init PROVE Queued \union Held = {}
    BY DEF Init, Ledger!Init
  <2>1. queue = <<>> /\ \A w \in Worker : job[w] = Nil
    BY DEF Init
  <2> QED BY <2>1 DEF Queued, Held
<1>2. IInv /\ IInv' /\ [Next]_vars => [Ledger!Next]_(Ledger!ledger)
  BY LedgerStep
<1> QED BY <1>1, <1>2, Invariant, PTL DEF Spec, ImplementsLedger, Ledger!Spec
=============================================================================
