-------------------------- MODULE PasswordExecutor --------------------------
(***************************************************************************)
(* The pool of threads that hash passwords.  Run puts a Job that lives on  *)
(* the caller's stack into a bounded queue and blocks until a worker has   *)
(* run it, or gives up while it is still queued; Drain, called by the      *)
(* destructor, stops the pool and joins the workers.                       *)
(*                                                                         *)
(* Every critical section of state_->mutex is one step.  A thread asleep   *)
(* on a condition variable leaves it by a notification, by a spurious      *)
(* wakeup, or by its timeout, and then evaluates its predicate under the   *)
(* mutex.  A caller has one Run at a time, so it names its Job as well.    *)
(***************************************************************************)
EXTENDS Naturals, Sequences, FiniteSets, SequencesExt

CONSTANTS Callers,     \* threads that call Run
          Workers,     \* hashing threads
          QueueDepth,  \* options.queue_depth
          NoJob        \* a worker has not claimed a job yet

ASSUME PoolAssumption ==
  /\ QueueDepth \in Nat \ {0}
  /\ NoJob \notin Callers
  /\ IsFiniteSet(Workers)

VARIABLES
  queue,     \* jobs nobody has claimed, oldest first
  active,    \* the counter of busy workers
  stopping,  \* Drain has begun
  cpc,       \* cpc[c]: where c is in Run
  done,      \* done[c]: job.done
  result,    \* result[c]: what c's last Run returned
  runs,      \* runs[c]: how often the work of c's last Run has been invoked
  wpc,       \* wpc[w]: where w is in its loop
  job,       \* job[w]: the job w claimed last
  dpc        \* where the thread that drains is

callerVars == <<cpc, done, result, runs>>
workerVars == <<wpc, job>>
vars == <<queue, active, stopping, callerVars, workerVars, dpc>>

\* The workers between claiming a job and setting its done.
Busy == {w \in Workers : wpc[w] \in {"claimed", "invoked"}}
Queued == {queue[k] : k \in DOMAIN queue}

TypeOK ==
  /\ queue \in Seq(Callers)
  /\ Len(queue) <= QueueDepth
  /\ active = Cardinality(Busy)
  /\ stopping \in BOOLEAN
  /\ cpc \in [Callers -> {"idle", "pushed", "check", "asleep",
                          "lastcheck", "lastsleep"}]
  /\ done \in [Callers -> BOOLEAN]
  /\ result \in [Callers -> {"none", "true", "false"}]
  /\ runs \in [Callers -> Nat]
  /\ wpc \in [Workers -> {"check", "asleep", "claimed", "invoked", "notify", "exited"}]
  /\ job \in [Workers -> Callers \cup {NoJob}]
  /\ \A w \in Busy : job[w] # NoJob
  /\ dpc \in {"idle", "notify", "joining", "drained"}

\* pending.notify_one(): any one sleeping worker wakes, if there is one.
WakeOneWorker ==
  IF \E w \in Workers : wpc[w] = "asleep"
  THEN \E w \in Workers : wpc[w] = "asleep" /\ wpc' = [wpc EXCEPT ![w] = "check"]
  ELSE UNCHANGED wpc

-----------------------------------------------------------------------------
(* Run *)

Return(c, answer) ==
  /\ cpc' = [cpc EXCEPT ![c] = "idle"]
  /\ result' = [result EXCEPT ![c] = answer]

\* A new job: refused while stopping or when the queue is full.
Push(c) ==
  /\ cpc[c] = "idle"
  /\ done' = [done EXCEPT ![c] = FALSE]
  /\ runs' = [runs EXCEPT ![c] = 0]
  /\ IF stopping \/ Len(queue) >= QueueDepth
     THEN Return(c, "false") /\ UNCHANGED queue
     ELSE /\ queue' = Append(queue, c)
          /\ cpc' = [cpc EXCEPT ![c] = "pushed"]
          /\ result' = [result EXCEPT ![c] = "none"]
  /\ UNCHANGED <<active, stopping, workerVars, dpc>>

\* The mutex is released before the notification and taken again after it.
Announce(c) ==
  /\ cpc[c] = "pushed"
  /\ cpc' = [cpc EXCEPT ![c] = "check"]
  /\ WakeOneWorker
  /\ UNCHANGED <<queue, active, stopping, done, result, runs, job, dpc>>

\* The predicate of wait_for, or of the wait without a timeout.
CheckDone(c) ==
  /\ cpc[c] \in {"check", "lastcheck"}
  /\ IF done[c]
     THEN Return(c, "true")
     ELSE /\ cpc' = [cpc EXCEPT ![c] = IF @ = "check" THEN "asleep" ELSE "lastsleep"]
          /\ UNCHANGED result
  /\ UNCHANGED <<queue, active, stopping, done, runs, workerVars, dpc>>

\* Mutant: a caller that times out gives up whether its job is queued or not.
GiveUpAlways(c) ==
  /\ cpc[c] = "asleep"
  /\ IF done[c]
     THEN Return(c, "true") /\ UNCHANGED queue
     ELSE /\ Return(c, "false")
          /\ queue' = Remove(queue, c)
  /\ UNCHANGED <<active, stopping, done, runs, workerVars, dpc>>

\* Mutant: a caller that times out forgets to take its job out of the queue.
GiveUpQueued(c) ==
  /\ cpc[c] = "asleep"
  /\ IF done[c]
     THEN Return(c, "true")
     ELSE IF c \in Queued
     THEN Return(c, "false")
     ELSE /\ cpc' = [cpc EXCEPT ![c] = "lastsleep"]
          /\ UNCHANGED result
  /\ UNCHANGED <<queue, active, stopping, done, runs, workerVars, dpc>>

\* queue_timeout_ms passes.  A job that is still queued is withdrawn; one that
\* a worker has claimed is waited for without a timeout.
TimeOut(c) ==
  /\ cpc[c] = "asleep"
  /\ IF done[c]
     THEN Return(c, "true") /\ UNCHANGED queue
     ELSE IF c \in Queued
     THEN /\ Return(c, "false")
          /\ \E k \in DOMAIN queue : queue[k] = c /\ queue' = RemoveAt(queue, k)
     ELSE /\ cpc' = [cpc EXCEPT ![c] = "lastsleep"]
          /\ UNCHANGED <<queue, result>>
  /\ UNCHANGED <<active, stopping, done, runs, workerVars, dpc>>

-----------------------------------------------------------------------------
(* The loop of a worker. *)

\* The predicate of pending.wait, and what follows it under the same lock.
Claim(w) ==
  /\ wpc[w] = "check"
  /\ IF queue # << >>
     THEN /\ job' = [job EXCEPT ![w] = Head(queue)]
          /\ queue' = Tail(queue)
          /\ active' = active + 1
          /\ wpc' = [wpc EXCEPT ![w] = "claimed"]
     ELSE /\ wpc' = [wpc EXCEPT ![w] = IF stopping THEN "exited" ELSE "asleep"]
          /\ UNCHANGED <<queue, active, job>>
  /\ UNCHANGED <<stopping, callerVars, dpc>>

Invoke(w) ==
  /\ wpc[w] = "claimed"
  /\ runs' = [runs EXCEPT ![job[w]] = @ + 1]
  /\ wpc' = [wpc EXCEPT ![w] = "invoked"]
  /\ UNCHANGED <<queue, active, stopping, cpc, done, result, job, dpc>>

Complete(w) ==
  /\ wpc[w] = "invoked"
  /\ active' = active - 1
  /\ done' = [done EXCEPT ![job[w]] = TRUE]
  /\ wpc' = [wpc EXCEPT ![w] = "notify"]
  /\ UNCHANGED <<queue, stopping, cpc, result, runs, job, dpc>>

\* Mutant: only callers in their timed wait are notified.
NotifyTimedOnly(w) ==
  /\ wpc[w] = "notify"
  /\ wpc' = [wpc EXCEPT ![w] = "check"]
  /\ cpc' = [cpc EXCEPT ![job[w]] = IF @ = "asleep" THEN "check" ELSE @]
  /\ UNCHANGED <<queue, active, stopping, done, result, runs, job, dpc>>

\* Mutant: the worker waits for the next job without testing the predicate.
NotifyAndSleep(w) ==
  /\ wpc[w] = "notify"
  /\ wpc' = [wpc EXCEPT ![w] = "asleep"]
  /\ cpc' = [cpc EXCEPT ![job[w]] = CASE @ = "asleep" -> "check"
                                      [] @ = "lastsleep" -> "lastcheck"
                                      [] OTHER -> @]
  /\ UNCHANGED <<queue, active, stopping, done, result, runs, job, dpc>>

\* job->finished.notify_one(), after the mutex was released.  The caller may
\* have returned, and may even have begun another Run on the same stack.
NotifyFinished(w) ==
  /\ wpc[w] = "notify"
  /\ wpc' = [wpc EXCEPT ![w] = "check"]
  /\ cpc' = [cpc EXCEPT ![job[w]] = CASE @ = "asleep" -> "check"
                                      [] @ = "lastsleep" -> "lastcheck"
                                      [] OTHER -> @]
  /\ UNCHANGED <<queue, active, stopping, done, result, runs, job, dpc>>

-----------------------------------------------------------------------------
(* Drain, and spurious wakeups. *)

DrainBegins ==
  /\ dpc = "idle"
  /\ stopping' = TRUE
  /\ dpc' = "notify"
  /\ UNCHANGED <<queue, active, callerVars, workerVars>>

\* Mutant: one worker is told to stop.
DrainNotifiesOne ==
  /\ dpc = "notify"
  /\ WakeOneWorker
  /\ dpc' = "joining"
  /\ UNCHANGED <<queue, active, stopping, callerVars, job>>

DrainNotifies ==
  /\ dpc = "notify"
  /\ wpc' = [w \in Workers |-> IF wpc[w] = "asleep" THEN "check" ELSE wpc[w]]
  /\ dpc' = "joining"
  /\ UNCHANGED <<queue, active, stopping, callerVars, job>>

DrainJoins ==
  /\ dpc = "joining"
  /\ \A w \in Workers : wpc[w] = "exited"
  /\ dpc' = "drained"
  /\ UNCHANGED <<queue, active, stopping, callerVars, workerVars>>

WorkerWakes(w) ==
  /\ wpc[w] = "asleep"
  /\ wpc' = [wpc EXCEPT ![w] = "check"]
  /\ UNCHANGED <<queue, active, stopping, callerVars, job, dpc>>

CallerWakes(c) ==
  /\ cpc[c] \in {"asleep", "lastsleep"}
  /\ cpc' = [cpc EXCEPT ![c] = IF @ = "asleep" THEN "check" ELSE "lastcheck"]
  /\ UNCHANGED <<queue, active, stopping, done, result, runs, workerVars, dpc>>

Init ==
  /\ queue = << >>
  /\ active = 0
  /\ stopping = FALSE
  /\ cpc = [c \in Callers |-> "idle"]
  /\ done = [c \in Callers |-> FALSE]
  /\ result = [c \in Callers |-> "none"]
  /\ runs = [c \in Callers |-> 0]
  /\ wpc = [w \in Workers |-> "check"]
  /\ job = [w \in Workers |-> NoJob]
  /\ dpc = "idle"

Caller(c) == Announce(c) \/ CheckDone(c) \/ TimeOut(c)
Worker(w) == Claim(w) \/ Invoke(w) \/ Complete(w) \/ NotifyFinished(w)
Drainer == DrainNotifies \/ DrainJoins

Next ==
  \/ \E c \in Callers : Push(c) \/ Caller(c) \/ CallerWakes(c)
  \/ \E w \in Workers : Worker(w) \/ WorkerWakes(w)
  \/ DrainBegins \/ Drainer

Spec == Init /\ [][Next]_vars

\* Threads that can run do, and work ends; nobody has to call Run or Drain,
\* and spurious wakeups need not happen.
FairSpec ==
  /\ Spec
  /\ \A c \in Callers : WF_vars(Announce(c)) /\ WF_vars(CheckDone(c) \/ TimeOut(c))
  /\ \A w \in Workers : WF_vars(Worker(w))
  /\ WF_vars(Drainer)

-----------------------------------------------------------------------------
(* Properties. *)

\* A busy worker has the job of c.
Claimed(c) == \E w \in Busy : job[w] = c

\* What Run returns is what happened to the work: "false" means that it was
\* never invoked and never will be, although the timeout, the claim by a
\* worker and the shutdown race for the job; "true" means that it ran exactly
\* once and has ended (password_executor.h, "in which case work was never
\* invoked").
AnswerTellsWhatRan ==
  \A c \in Callers : cpc[c] = "idle" =>
    /\ result[c] = "false" => runs[c] = 0
    /\ result[c] = "true" => runs[c] = 1
    /\ c \notin Queued /\ ~Claimed(c)

\* A job is at one place only: queued, with one busy worker, or done.  So no
\* work is run twice and no caller waits for a job that nobody has.
EveryJobHasOnePlace ==
  /\ \A j, k \in DOMAIN queue : queue[j] = queue[k] => j = k
  /\ \A v, w \in Busy : job[v] = job[w] => v = w
  /\ \A c \in Callers : cpc[c] # "idle" =>
       /\ c \in Queued <=> ~Claimed(c) /\ ~done[c]
       /\ ~(Claimed(c) /\ done[c])

\* No lost wakeup: a worker sleeps only if for every queued job another worker
\* is on its way to the queue, or a caller is about to notify one.  Timeouts
\* would hide such a loss from every liveness property.
NoLostWakeup ==
  (\E w \in Workers : wpc[w] = "asleep") =>
    Len(queue) <= Cardinality({w \in Workers : wpc[w] = "check"})
                    + Cardinality({c \in Callers : cpc[c] = "pushed"})

\* What the comment in Run says it waits for: a worker that still has to use a
\* Job never finds that its caller has returned (password_executor.cc:112-117).
JobOutlivesItsWorker ==
  \A w \in Workers : wpc[w] \in {"claimed", "invoked", "notify"} => cpc[job[w]] # "idle"

\* Every Run returns, whatever the other callers, the timeout and Drain do.
RunReturns == \A c \in Callers : cpc[c] = "pushed" ~> cpc[c] = "idle"

\* Every Drain ends, though callers go on calling Run.
DrainReturns == dpc = "notify" ~> dpc = "drained"
=============================================================================
