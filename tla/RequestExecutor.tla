-------------------------- MODULE RequestExecutor --------------------------
(***************************************************************************)
(* The pool of threads that run the handlers of HTTP requests.  The event  *)
(* loops hand it jobs through a bounded queue and never wait for it; Stop, *)
(* which main calls after the event loops have ended and the destructor    *)
(* calls again, refuses new jobs and joins the workers.                    *)
(*                                                                         *)
(* Every critical section of mutex_ is one step.  Each job is submitted    *)
(* once: a route makes a new closure for every request.                    *)
(***************************************************************************)
EXTENDS Naturals, Sequences, FiniteSets

CONSTANTS Loops,          \* event-loop threads, which call Submit
          Threads,        \* the threads of workers_
          Jobs,           \* the requests that may arrive
          QueueCapacity,  \* queue_capacity_
          NoJob            \* no job

ASSUME ExecutorAssumption ==
  /\ QueueCapacity \in Nat \ {0}
  /\ Threads # {}
  /\ NoJob \notin Jobs

VARIABLES
  jobs,      \* jobs_, oldest first
  stopping,  \* stopping_
  lpc,       \* lpc[l]: the job l has pushed and not yet notified a worker of
  wpc,       \* wpc[w]: where w is in Work
  job,       \* job[w]: the job that w runs
  fate,      \* fate[j]: what became of job j
  spc        \* where the thread in Stop is

executorVars == <<jobs, stopping, lpc, wpc, job, fate, spc>>

Queued == {jobs[k] : k \in DOMAIN jobs}
Running(w) == wpc[w] = "running"

ExecutorTypeOK ==
  /\ jobs \in Seq(Jobs)
  /\ Len(jobs) <= QueueCapacity
  /\ stopping \in BOOLEAN
  /\ lpc \in [Loops -> Jobs \cup {NoJob}]
  /\ wpc \in [Threads -> {"check", "asleep", "running", "exited"}]
  /\ job \in [Threads -> Jobs \cup {NoJob}]
  /\ \A w \in Threads : Running(w) <=> job[w] # NoJob
  /\ fate \in [Jobs -> {"new", "refused", "accepted", "ended"}]
  /\ spc \in {"idle", "notify", "joining", "stopped"}

\* ready_.notify_one(): any one sleeping worker wakes, if there is one.
WakeOneWorker ==
  IF \E w \in Threads : wpc[w] = "asleep"
  THEN \E w \in Threads : wpc[w] = "asleep" /\ wpc' = [wpc EXCEPT ![w] = "check"]
  ELSE UNCHANGED wpc

-----------------------------------------------------------------------------
(* Submit *)

Accepts == ~stopping /\ Len(jobs) < QueueCapacity

\* A refused job is destroyed; the route answers for it.
Submit(l, j) ==
  /\ lpc[l] = NoJob
  /\ fate[j] = "new"
  /\ IF Accepts
     THEN /\ jobs' = Append(jobs, j)
          /\ fate' = [fate EXCEPT ![j] = "accepted"]
          /\ lpc' = [lpc EXCEPT ![l] = j]
     ELSE /\ fate' = [fate EXCEPT ![j] = "refused"]
          /\ UNCHANGED <<jobs, lpc>>
  /\ UNCHANGED <<stopping, wpc, job, spc>>

\* notify_one() after the mutex is released.
Notify(l) ==
  /\ lpc[l] # NoJob
  /\ WakeOneWorker
  /\ lpc' = [lpc EXCEPT ![l] = NoJob]
  /\ UNCHANGED <<jobs, stopping, job, fate, spc>>

-----------------------------------------------------------------------------
(* Work *)

Take(w) ==
  /\ wpc[w] = "check"
  /\ jobs # << >>
  /\ job' = [job EXCEPT ![w] = Head(jobs)]
  /\ jobs' = Tail(jobs)
  /\ wpc' = [wpc EXCEPT ![w] = "running"]
  /\ UNCHANGED <<stopping, lpc, fate, spc>>

\* Mutant: the worker looks at stopping_ before it looks at the queue.
RestStoppingFirst(w) ==
  /\ wpc[w] = "check"
  /\ jobs = << >> \/ stopping
  /\ wpc' = [wpc EXCEPT ![w] = IF stopping THEN "exited" ELSE "asleep"]
  /\ UNCHANGED <<jobs, stopping, lpc, job, fate, spc>>

\* Nothing to run: the predicate of ready_.wait is false, or Work returns.
Rest(w) ==
  /\ wpc[w] = "check"
  /\ jobs = << >>
  /\ wpc' = [wpc EXCEPT ![w] = IF stopping THEN "exited" ELSE "asleep"]
  /\ UNCHANGED <<jobs, stopping, lpc, job, fate, spc>>

\* Mutant: a thread may end with what its job throws.
EndJobLosesWorker(w) ==
  /\ Running(w)
  /\ fate' = [fate EXCEPT ![job[w]] = "ended"]
  /\ \E next \in {"check", "exited"} : wpc' = [wpc EXCEPT ![w] = next]
  /\ job' = [job EXCEPT ![w] = NoJob]
  /\ UNCHANGED <<jobs, stopping, lpc, spc>>

\* The job returns, or throws, whatever it had done: the worker catches
\* everything, records nothing, and goes on in either case.
EndJob(w) ==
  /\ Running(w)
  /\ fate' = [fate EXCEPT ![job[w]] = "ended"]
  /\ wpc' = [wpc EXCEPT ![w] = "check"]
  /\ job' = [job EXCEPT ![w] = NoJob]
  /\ UNCHANGED <<jobs, stopping, lpc, spc>>

SpuriousWakeup(w) ==
  /\ wpc[w] = "asleep"
  /\ wpc' = [wpc EXCEPT ![w] = "check"]
  /\ UNCHANGED <<jobs, stopping, lpc, job, fate, spc>>

-----------------------------------------------------------------------------
(* Stop.  A call after the workers were joined returns at once. *)

\* Mutant: Stop drops the jobs that nobody has begun.
StopBeginsByDropping ==
  /\ spc = "idle"
  /\ stopping' = TRUE
  /\ jobs' = << >>
  /\ spc' = "notify"
  /\ UNCHANGED <<lpc, wpc, job, fate>>

StopBegins ==
  /\ spc = "idle"
  /\ stopping' = TRUE
  /\ spc' = "notify"
  /\ UNCHANGED <<jobs, lpc, wpc, job, fate>>

\* Mutant: one worker is told to stop.
StopNotifiesOne ==
  /\ spc = "notify"
  /\ WakeOneWorker
  /\ spc' = "joining"
  /\ UNCHANGED <<jobs, stopping, lpc, job, fate>>

StopNotifies ==
  /\ spc = "notify"
  /\ wpc' = [w \in Threads |-> IF wpc[w] = "asleep" THEN "check" ELSE wpc[w]]
  /\ spc' = "joining"
  /\ UNCHANGED <<jobs, stopping, lpc, job, fate>>

StopJoins ==
  /\ spc = "joining"
  /\ \A w \in Threads : wpc[w] = "exited"
  /\ spc' = "stopped"
  /\ UNCHANGED <<jobs, stopping, lpc, wpc, job, fate>>

ExecutorInit ==
  /\ jobs = << >>
  /\ stopping = FALSE
  /\ lpc = [l \in Loops |-> NoJob]
  /\ wpc = [w \in Threads |-> "check"]
  /\ job = [w \in Threads |-> NoJob]
  /\ fate = [j \in Jobs |-> "new"]
  /\ spc = "idle"

Worker(w) == Take(w) \/ Rest(w) \/ EndJob(w)
Stopper == StopNotifies \/ StopJoins

ExecutorNext ==
  \/ \E l \in Loops : Notify(l) \/ \E j \in Jobs : Submit(l, j)
  \/ \E w \in Threads : Worker(w) \/ SpuriousWakeup(w)
  \/ StopBegins \/ Stopper

ExecutorSpec == ExecutorInit /\ [][ExecutorNext]_executorVars

\* Threads that can run do, and jobs end; requests and Stop need not come, and
\* spurious wakeups need not happen.
ExecutorFairSpec ==
  /\ ExecutorSpec
  /\ \A l \in Loops : WF_executorVars(Notify(l))
  /\ \A w \in Threads : WF_executorVars(Worker(w))
  /\ WF_executorVars(Stopper)

-----------------------------------------------------------------------------
(* Properties. *)

\* An accepted job has ended, or it is queued, or exactly one worker runs it: an
\* exception, a full queue or Stop never makes a request lose its answer.
AcceptedIsServed ==
  \A j \in Jobs :
    LET runners == {w \in Threads : job[w] = j}
    IN  /\ Cardinality(runners) <= 1
        /\ fate[j] = "accepted" <=> j \in Queued \/ runners # {}
        /\ ~(j \in Queued /\ runners # {})

\* Every accepted request is served in the end.
EveryJobEnds == \A j \in Jobs : fate[j] = "accepted" ~> fate[j] = "ended"

\* Every Stop returns.
StopReturns == spc = "notify" ~> spc = "stopped"
=============================================================================
