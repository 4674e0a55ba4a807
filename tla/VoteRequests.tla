----------------------------- MODULE VoteRequests -----------------------------
(***************************************************************************)
(* The request executor and what its threads run: every job is a vote, and  *)
(* is done when its handler is.  main stops the executor first and then the  *)
(* database, which the handlers use to the end.                             *)
(***************************************************************************)
EXTENDS RequestExecutor, DifficultyVotes

CONSTANTS Asks,       \* Asks[j]: the vote that request j asks for
          MaxOthers   \* bound: decisions about questions and accounts

ASSUME RequestsAssumption == /\ Asks \in [Jobs -> Request]
                             /\ Threads = Workers
                             /\ MaxOthers \in Nat

VARIABLE others

requestVars == <<executorVars, vars, others>>

RequestsInit == ExecutorInit /\ Init /\ others = 0

\* A statement of the handler that w runs; its last one is the end of the job.
Statement(w) ==
  /\ Running(w)
  /\ \/ Authenticate(w) /\ req'[w] = Asks[job[w]]
     \/ Select(w) \/ Vote(w) \/ Refresh(w) \/ Answer(w) \/ Commit(w)
  /\ IF pc'[w] = "idle" THEN EndJob(w) ELSE UNCHANGED executorVars
  /\ UNCHANGED others

\* The handler catches what a statement throws, and its answer may throw again.
Fail(w) == RollBack(w) /\ EndJob(w) /\ UNCHANGED others

\* The request is not signed in, not trusted, or over its limit.
TurnAway(w) ==
  /\ pc[w] = "idle" /\ EndJob(w)
  /\ UNCHANGED <<vars, others>>

Serve(w) == TurnAway(w) \/ Statement(w) \/ Fail(w)

\* What the executor does by itself.
Executor ==
  /\ \/ \E l \in Loops : Notify(l) \/ \E j \in Jobs : Submit(l, j)
     \/ \E w \in Threads : Take(w) \/ Rest(w) \/ SpuriousWakeup(w)
     \/ StopBegins \/ Stopper
  /\ UNCHANGED <<vars, others>>

Others ==
  /\ others < MaxOthers
  /\ others' = others + 1
  /\ \/ \E q \in Questions : Moderate(q)
     \/ \E u \in Users : ChangeStatus(u)
  /\ UNCHANGED executorVars

RequestsNext == Executor \/ Others \/ \E w \in Threads : Serve(w)

RequestsSpec == RequestsInit /\ [][RequestsNext]_requestVars
-----------------------------------------------------------------------------
(* Once Stop has returned no handler is under way, at whatever statement it    *)
(* was when Stop was called, and none will be: what the handlers use may go   *)
(* (main.cc stops the executor after the event loops and before the runtime). *)
QuietWhenStopped ==
  spc = "stopped" => /\ \A w \in Workers : pc[w] = "idle"
                     /\ \A j \in Jobs : fate[j] # "accepted"
=============================================================================
