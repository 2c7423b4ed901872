----------------------------- MODULE WorkerPool -----------------------------
(***************************************************************************)
(* The worker pool of registrations and the end of the process: handlers   *)
(* that enqueue two jobs each, workers that take them from a bounded       *)
(* channel, and main, which on a signal stops the HTTP server, the pool    *)
(* and the database connections, with one deadline for the first two.      *)
(***************************************************************************)
EXTENDS Naturals, Sequences

CONSTANTS
    Request,    \* registrations
    Worker,     \* goroutines of the pool
    BufferSize, \* capacity of jobChan
    Nil         \* no job in the hands of a worker

ASSUME WorkerAssumption == Worker # {}
ASSUME BufferAssumption == BufferSize \in Nat \ {0}

Job == Request \X {"audit", "email"}

ASSUME NilAssumption == Nil \notin Job

VARIABLES
    queue,      \* jobChan
    wpc,        \* workers: select, drain, done
    job,        \* the job each worker is processing
    rpc,        \* requests: idle, handling, query, audit, email, answered, panicked
    main,       \* running, draining, stopping, cancelled, waiting, returning,
                \* closing, exited; dead when it did not get that far
    expired,    \* the five seconds of shutdownCtx are over
    reported,   \* how WorkerPool.Shutdown ended: none, clean, timeout
    accepted,   \* history: jobs for which Enqueue returned true
    processed   \* history: jobs for which processJob returned

vars == <<queue, wpc, job, rpc, main, expired, reported, accepted, processed>>
pool == <<queue, wpc, job, accepted, processed>>
proc == <<main, expired, reported>>

TypeOK ==
    /\ queue \in Seq(Job) /\ Len(queue) <= BufferSize
    /\ wpc \in [Worker -> {"select", "drain", "done"}]
    /\ job \in [Worker -> Job \union {Nil}]
    /\ rpc \in [Request -> {"idle", "handling", "query", "audit", "email",
                            "answered", "panicked"}]
    /\ main \in {"running", "draining", "stopping", "cancelled", "waiting",
                 "returning", "closing", "exited", "dead"}
    /\ expired \in BOOLEAN
    /\ reported \in {"none", "clean", "timeout"}
    /\ accepted \subseteq Job
    /\ processed \subseteq Job

\* NewWorkerPool has started its workers, the server listens.
Init ==
    /\ queue = <<>>
    /\ wpc = [w \in Worker |-> "select"]
    /\ job = [w \in Worker |-> Nil]
    /\ rpc = [r \in Request |-> "idle"]
    /\ main = "running"
    /\ expired = FALSE
    /\ reported = "none"
    /\ accepted = {}
    /\ processed = {}

\* Every goroutine ends with main.
Alive == main \notin {"exited", "dead"}

Closed == main \in {"waiting", "returning", "closing"}
Cancelled == main = "cancelled" \/ Closed

Queued == {queue[i] : i \in 1 .. Len(queue)}
Held == {job[w] : w \in Worker} \ {Nil}

\* No connection of the HTTP server has a request under way.
ServerIdle == \A r \in Request : rpc[r] \in {"idle", "answered", "panicked"}

-----------------------------------------------------------------------------
Go(r, from, to) ==
    /\ Alive
    /\ rpc[r] = from
    /\ rpc' = [rpc EXCEPT ![r] = to]

\* What a handler does after its audit and after its e-mail job.
AfterJob == [audit |-> "email", email |-> "answered"]
Sending(r) == rpc[r] \in DOMAIN AfterJob
ThisJob(r) == <<r, rpc[r]>>

MainGoes(from, to) == main = from /\ main' = to

-----------------------------------------------------------------------------
(* Faulty variants of the steps below; each breaks one property.           *)

\* The channel grows instead of being full.
EnqueueUnbounded(r) ==
    /\ Sending(r) /\ ~Closed
    /\ queue' = Append(queue, ThisJob(r))
    /\ accepted' = accepted \union {ThisJob(r)}
    /\ Go(r, rpc[r], AfterJob[rpc[r]])
    /\ UNCHANGED <<wpc, job, processed, proc>>

\* A full channel loses its oldest job to make room.
EnqueueDropOldest(r) ==
    /\ Sending(r) /\ ~Closed
    /\ queue' = Append(IF Len(queue) < BufferSize THEN queue ELSE Tail(queue), ThisJob(r))
    /\ accepted' = accepted \union {ThisJob(r)}
    /\ Go(r, rpc[r], AfterJob[rpc[r]])
    /\ UNCHANGED <<wpc, job, processed, proc>>

\* A job is looked at and stays in the channel.
TakeCopy(w) ==
    /\ Alive
    /\ wpc[w] # "done" /\ job[w] = Nil
    /\ queue # <<>>
    /\ job' = [job EXCEPT ![w] = Head(queue)]
    /\ UNCHANGED <<queue, wpc, rpc, accepted, processed, proc>>

\* A worker returns on ctx.Done() without draining the channel.
LeaveAtOnce(w) ==
    /\ Alive
    /\ wpc[w] # "done" /\ job[w] = Nil
    /\ Cancelled
    /\ wpc' = [wpc EXCEPT ![w] = "done"]
    /\ UNCHANGED <<queue, job, rpc, accepted, processed, proc>>

\* A default case instead of a blocking receive: an idle worker returns.
LeaveIdle(w) ==
    /\ Alive
    /\ wpc[w] # "done" /\ job[w] = Nil
    /\ queue = <<>>
    /\ wpc' = [wpc EXCEPT ![w] = "done"]
    /\ UNCHANGED <<queue, job, rpc, accepted, processed, proc>>

\* srv.Close() instead of srv.Shutdown(): nobody waits for the handlers.
ServerCloses ==
    /\ MainGoes("draining", "stopping")
    /\ UNCHANGED <<expired, reported, rpc, pool>>

\* Shutdown does not wait for its workers.
ReportAtOnce ==
    /\ MainGoes("waiting", "returning")
    /\ reported' = "clean"
    /\ UNCHANGED <<expired, rpc, pool>>

\* srv.Shutdown(context.Background()).
ServerNeverGivesUp == FALSE /\ UNCHANGED vars

-----------------------------------------------------------------------------
(* The handler of a registration                                           *)

\* The server accepts connections until srv.Shutdown closes its listener.
Accept(r) ==
    /\ main = "running"
    /\ Go(r, "idle", "handling")
    /\ UNCHANGED <<proc, pool>>

\* Each statement takes a connection of the database pool, which a closed
\* pool no longer hands out.
BeginQuery(r) ==
    /\ main # "closing"
    /\ Go(r, "handling", "query")
    /\ UNCHANGED <<proc, pool>>

\* A statement before the last one.
QueryDone(r) ==
    /\ Go(r, "query", "handling")
    /\ UNCHANGED <<proc, pool>>

\* An invalid form, a duplicate, a pool without connections.
Refuse(r) ==
    /\ Go(r, "handling", "answered")
    /\ UNCHANGED <<proc, pool>>

\* The last statement, CreateVerification, has stored the code.
Saved(r) ==
    /\ Go(r, "query", "audit")
    /\ UNCHANGED <<proc, pool>>

QueryFails(r) ==
    /\ Go(r, "query", "answered")
    /\ UNCHANGED <<proc, pool>>

\* The two calls of Enqueue: a send that never blocks.
Enqueue(r) ==
    /\ Sending(r) /\ ~Closed
    /\ Len(queue) < BufferSize
    /\ queue' = Append(queue, ThisJob(r))
    /\ accepted' = accepted \union {ThisJob(r)}
    /\ Go(r, rpc[r], AfterJob[rpc[r]])
    /\ UNCHANGED <<wpc, job, processed, proc>>

\* The buffer is full; the false that Enqueue returns is ignored.
Drop(r) ==
    /\ Sending(r) /\ ~Closed
    /\ Len(queue) = BufferSize
    /\ Go(r, rpc[r], AfterJob[rpc[r]])
    /\ UNCHANGED <<proc, pool>>

\* A send on a closed channel panics, also in a select with a default;
\* RecoveryMiddleware turns the panic into a 500.
SendPanics(r) ==
    /\ Sending(r) /\ Closed
    /\ Go(r, rpc[r], "panicked")
    /\ UNCHANGED <<proc, pool>>

-----------------------------------------------------------------------------
(* The workers                                                             *)

\* With a job at hand and ctx.Done() ready, select takes either case.
Take(w) ==
    /\ Alive
    /\ wpc[w] # "done" /\ job[w] = Nil
    /\ queue # <<>>
    /\ job' = [job EXCEPT ![w] = Head(queue)]
    /\ queue' = Tail(queue)
    /\ UNCHANGED <<wpc, rpc, accepted, processed, proc>>

SeeCancel(w) ==
    /\ Cancelled
    /\ wpc[w] = "select" /\ job[w] = Nil
    /\ wpc' = [wpc EXCEPT ![w] = "drain"]
    /\ UNCHANGED <<queue, job, rpc, accepted, processed, proc>>

\* A receive reports a closed channel only once it is empty, in select as
\* in the range loop.
Leave(w) ==
    /\ Closed
    /\ wpc[w] # "done" /\ job[w] = Nil
    /\ queue = <<>>
    /\ wpc' = [wpc EXCEPT ![w] = "done"]
    /\ UNCHANGED <<queue, job, rpc, accepted, processed, proc>>

ProcessJob(w) ==
    /\ Alive
    /\ job[w] # Nil
    /\ processed' = processed \union {job[w]}
    /\ job' = [job EXCEPT ![w] = Nil]
    /\ UNCHANGED <<queue, wpc, rpc, accepted, proc>>

-----------------------------------------------------------------------------
(* main                                                                    *)

\* SIGINT or SIGTERM; the deadline starts to run.
Signal ==
    /\ MainGoes("running", "draining")
    /\ UNCHANGED <<expired, reported, rpc, pool>>

Expire ==
    /\ Alive /\ main # "running" /\ ~expired
    /\ expired' = TRUE
    /\ UNCHANGED <<main, reported, rpc, pool>>

ServerDrained ==
    /\ MainGoes("draining", "stopping")
    /\ ServerIdle
    /\ UNCHANGED <<expired, reported, rpc, pool>>

\* srv.Shutdown returns an error that is logged; the handlers go on.
ServerGivesUp ==
    /\ MainGoes("draining", "stopping")
    /\ expired
    /\ UNCHANGED <<expired, reported, rpc, pool>>

Cancel ==
    /\ MainGoes("stopping", "cancelled")
    /\ UNCHANGED <<expired, reported, rpc, pool>>

CloseChan ==
    /\ MainGoes("cancelled", "waiting")
    /\ UNCHANGED <<expired, reported, rpc, pool>>

ReportClean ==
    /\ MainGoes("waiting", "returning")
    /\ \A w \in Worker : wpc[w] = "done"
    /\ reported' = "clean"
    /\ UNCHANGED <<expired, rpc, pool>>

ReportTimeout ==
    /\ MainGoes("waiting", "returning")
    /\ expired
    /\ reported' = "timeout"
    /\ UNCHANGED <<expired, rpc, pool>>

\* dbPool.Close, deferred in main, first refuses every new use ...
CloseDB ==
    /\ MainGoes("returning", "closing")
    /\ UNCHANGED <<expired, reported, rpc, pool>>

\* ... and then waits until every connection has come back.
Exit ==
    /\ MainGoes("closing", "exited")
    /\ \A r \in Request : rpc[r] # "query"
    /\ UNCHANGED <<expired, reported, rpc, pool>>

\* log.Fatalf of the goroutine that listens, or the process is killed.
Die ==
    /\ Alive
    /\ main' = "dead"
    /\ UNCHANGED <<expired, reported, rpc, pool>>

-----------------------------------------------------------------------------
Handle(r) ==
    \/ Accept(r) \/ BeginQuery(r) \/ QueryDone(r) \/ QueryFails(r)
    \/ Refuse(r) \/ Saved(r)
    \/ Enqueue(r) \/ Drop(r) \/ SendPanics(r)

Work(w) == Take(w) \/ SeeCancel(w) \/ Leave(w) \/ ProcessJob(w)

Shutdown ==
    \/ ServerDrained \/ ServerGivesUp \/ Cancel \/ CloseChan
    \/ ReportClean \/ ReportTimeout \/ CloseDB \/ Exit

Next ==
    \/ \E r \in Request : Handle(r)
    \/ \E w \in Worker : Work(w)
    \/ Signal \/ Shutdown \/ Expire \/ Die

\* Goroutines that can run are run and the deadline passes. Nothing is
\* assumed of the handlers: clients and statements may hang.
Fairness ==
    /\ \A w \in Worker : WF_vars(Work(w))
    /\ WF_vars(Shutdown)
    /\ WF_vars(Expire)

Spec == Init /\ [][Next]_vars /\ Fairness

-----------------------------------------------------------------------------
(* Properties                                                              *)

\* Between Enqueue and processJob no job goes astray, through cancel, close
\* and the two ways a worker receives: what was accepted is in the channel,
\* in the hands of a worker, or done (Enqueue, worker).
NothingLost == accepted = processed \union Queued \union Held

\* ... and in one of these places only: no job is processed twice, neither
\* by two workers nor by one that sees the cancellation while it drains.
ProcessedOnce ==
    /\ \A i, j \in 1 .. Len(queue) : queue[i] = queue[j] => i = j
    /\ \A v, w \in Worker : job[v] # Nil /\ job[v] = job[w] => v = w
    /\ Queued \cap Held = {}
    /\ processed \cap (Queued \union Held) = {}

\* "All workers stopped cleanly" is said only when every job that Enqueue
\* accepted is done, those accepted between cancel and close included
\* (worker_pool.go, Shutdown).
CleanMeansDone == reported = "clean" => processed = accepted

\* A request is cut off by the closing of the channel only if it was at work
\* when the five seconds had passed; a request that ends in time never meets
\* a closed channel (main waits in srv.Shutdown before it stops the pool).
OnlySlowRequestsPanic == (\E r \in Request : rpc[r] = "panicked") => expired

\* A process that was told to stop does stop, however long its requests
\* take, unless a statement never returns its connection to the pool.
Exits ==
    \/ \E r \in Request : <>[](rpc[r] = "query")
    \/ main = "draining" ~> main \in {"exited", "dead"}

\* An accepted job is done sooner or later unless the process is killed or
\* its shutdown runs into the deadline (worker: "process remaining jobs in
\* channel before exiting").
JobsDone ==
    \A j \in Job : j \in accepted ~> \/ j \in processed
                                     \/ expired
                                     \/ main = "dead"

\* The pool with its channel, its workers and its shutdown is a ledger of jobs:
\* each Enqueue that returns true takes a job on, each processJob completes one,
\* and what Shutdown reports is so.
Ledger == INSTANCE JobLedger
              WITH pending <- Queued \union Held, done <- processed, outcome <- reported

ImplementsLedger == Ledger!Spec
=============================================================================
