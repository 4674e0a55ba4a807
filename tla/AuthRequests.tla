----------------------------- MODULE AuthRequests -----------------------------
(***************************************************************************)
(* The two pools of threads together.  Logging in and registering are jobs  *)
(* of the request executor that hash a password: the request worker calls   *)
(* Run of the password executor and waits.  All request workers may wait    *)
(* for hashing at once, and then nobody serves anything else; Stop of the    *)
(* executor waits for them all.  The password executor is drained when      *)
(* AuthState is destroyed, after main has stopped the request executor.     *)
(*                                                                         *)
(* What the handlers do to accounts and sessions is in Sessions.            *)
(***************************************************************************)
EXTENDS RequestExecutor

CONSTANTS Hashers,         \* threads of the password executor
          HashQueueDepth,  \* PasswordExecutorOptions::queue_depth
          Logins,          \* requests that log in
          Registrations    \* requests that register; others hash nothing

ASSUME AuthAssumption == /\ Logins \cup Registrations \subseteq Jobs
                         /\ Logins \cap Registrations = {}
                         /\ HashQueueDepth \in Nat \ {0}
                         /\ IsFiniteSet(Hashers)
                         /\ NoJob \notin Threads

VARIABLES place,      \* place[w]: how far the handler that w runs has come
          hashQueue, hashing, draining, cpc, done, result, runs,
          hasher, hashJob, dpc

poolVars == <<hashQueue, hashing, draining, cpc, done, result, runs, hasher, hashJob, dpc>>
authVars == <<executorVars, place, poolVars>>

Pool == INSTANCE PasswordExecutor
  WITH Callers <- Threads, Workers <- Hashers, QueueDepth <- HashQueueDepth,
       queue <- hashQueue, active <- hashing, stopping <- draining,
       wpc <- hasher, job <- hashJob

AuthInit ==
  /\ ExecutorInit
  /\ place = [w \in Threads |-> "none"]
  /\ Pool!Init

Reach(w, there) == place' = [place EXCEPT ![w] = there]

-----------------------------------------------------------------------------
(* On the event loop. *)

\* The origin, the form or its token is not accepted, or the client is over a
\* limit: answered without a job.
Refuse(j) ==
  /\ fate[j] = "new"
  /\ fate' = [fate EXCEPT ![j] = "refused"]
  /\ UNCHANGED <<jobs, stopping, lpc, wpc, job, spc, place, poolVars>>

TurnLoginAway(j) == j \in Logins /\ Refuse(j)
TurnRegistrationAway(j) == j \in Registrations /\ Refuse(j)

\* Whoever is refused by Submit is answered at once.
SubmitAuthJob(l, j) == Submit(l, j) /\ UNCHANGED <<place, poolVars>>

-----------------------------------------------------------------------------
(* The handlers, in a request worker. *)

\* The account is looked up.  Whether it is found or not, a password is verified.
FindLoginCandidate(w) ==
  /\ Running(w) /\ job[w] \in Logins /\ place[w] = "none"
  /\ Reach(w, "found")
  /\ UNCHANGED <<executorVars, poolVars>>

\* passwords.Run is called; it may be refused at once.
Hash(w) ==
  /\ Running(w)
  /\ place[w] = IF job[w] \in Logins THEN "found" ELSE "none"
  /\ job[w] \in Logins \cup Registrations
  /\ Reach(w, "hash")
  /\ Pool!Push(w)
  /\ UNCHANGED executorVars

\* The request worker is inside Run.
Wait(w) ==
  /\ place[w] = "hash"
  /\ Pool!Caller(w)
  /\ UNCHANGED <<executorVars, place>>

\* Run has returned, or there is nothing to hash: the rest of the handler, and
\* the answer, which SubmitAuthJob also has for everything the handler throws.
\* What sending it throws, nobody catches before the worker's own loop.
AnswerRequest(w) ==
  /\ IF job[w] \in Logins \cup Registrations
     THEN place[w] = "hash" /\ cpc[w] = "idle"
     ELSE place[w] = "none"
  /\ EndJob(w)
  /\ Reach(w, "none")
  /\ UNCHANGED poolVars

\* What comes before the hashing throws: the answer is that the service is
\* unavailable.
FailLogin(w) ==
  /\ Running(w) /\ job[w] \in Logins /\ place[w] = "none"
  /\ EndJob(w)
  /\ UNCHANGED <<place, poolVars>>

RequestWorker(w) ==
  \/ (Take(w) \/ Rest(w)) /\ UNCHANGED <<place, poolVars>>
  \/ FindLoginCandidate(w) \/ FailLogin(w) \/ Hash(w) \/ Wait(w) \/ AnswerRequest(w)

HashWorker(h) == Pool!Worker(h) /\ UNCHANGED <<executorVars, place>>

\* AuthState goes with the handlers, after Stop.
Drain ==
  /\ spc = "stopped"
  /\ Pool!DrainBegins \/ Pool!Drainer
  /\ UNCHANGED <<executorVars, place>>

SpuriousWakeups ==
  \/ \E w \in Threads : SpuriousWakeup(w) /\ UNCHANGED <<place, poolVars>>
  \/ /\ \E w \in Threads : Pool!CallerWakes(w)
     /\ UNCHANGED <<executorVars, place>>
  \/ /\ \E h \in Hashers : Pool!WorkerWakes(h)
     /\ UNCHANGED <<executorVars, place>>

AuthNext ==
  \/ \E j \in Jobs : TurnLoginAway(j) \/ TurnRegistrationAway(j) \/ \E l \in Loops : SubmitAuthJob(l, j)
  \/ \E l \in Loops : Notify(l) /\ UNCHANGED <<place, poolVars>>
  \/ \E w \in Threads : RequestWorker(w)
  \/ \E h \in Hashers : HashWorker(h)
  \/ (StopBegins \/ Stopper) /\ UNCHANGED <<place, poolVars>>
  \/ Drain
  \/ SpuriousWakeups

\* Threads that can run do, statements and hashing end, and the timeout of Run
\* passes; requests and Stop need not come.
AuthSpec ==
  /\ AuthInit /\ [][AuthNext]_authVars
  /\ \A l \in Loops : WF_authVars(Notify(l) /\ UNCHANGED <<place, poolVars>>)
  /\ \A w \in Threads : WF_authVars(RequestWorker(w))
  /\ \A h \in Hashers : WF_authVars(HashWorker(h))
  /\ WF_authVars(Stopper /\ UNCHANGED <<place, poolVars>>)

-----------------------------------------------------------------------------
(* A password is hashed, or waits to be, only while the request it is for is  *)
(* being served: whoever gives up waiting leaves nothing behind that reads   *)
(* his stack, and after Stop, when AuthState may be destroyed, no hashing is  *)
(* under way.                                                               *)
HashingIsForARequest ==
  /\ \A w \in Threads :
       Pool!Claimed(w) \/ w \in Pool!Queued => Running(w) /\ place[w] = "hash"
  /\ spc = "stopped" => hashQueue = << >> /\ Pool!Busy = {}
=============================================================================
