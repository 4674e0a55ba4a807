------------------------------- MODULE MCWorkers -------------------------------
(***************************************************************************)
(* Instances of the hashing pool and of the search worker of one process.   *)
(* They share no state: each behaviour is of one of them, and the other      *)
(* rests where it begins.                                                   *)
(***************************************************************************)
EXTENDS PasswordExecutor, SearchOutbox

VARIABLE part

\* Every process keeps the lease owner of the example configuration.
SharedOwner == [w \in Processes |-> "placedb-indexer-1"]

workersVars == <<part, vars, outboxVars>>

PoolRests == part = "outbox" /\ UNCHANGED <<part, vars>>
OutboxRests == part = "pool" /\ UNCHANGED <<part, outboxVars>>

WorkersInit == part \in {"pool", "outbox"} /\ Init /\ OutboxInit

\* The fairness of PasswordExecutor and that of SearchOutbox.
WorkersSpec ==
  /\ WorkersInit
  /\ [][(OutboxRests /\ Next) \/ (PoolRests /\ OutboxNext)]_workersVars
  /\ \A c \in Callers : /\ WF_workersVars(OutboxRests /\ Announce(c))
                        /\ WF_workersVars(OutboxRests /\ (CheckDone(c) \/ TimeOut(c)))
  /\ \A w \in Workers : WF_workersVars(OutboxRests /\ Worker(w))
  /\ WF_workersVars(OutboxRests /\ Drainer)
  /\ \A w \in Processes : WF_workersVars(PoolRests /\ Step(w))
  /\ \A k \in 1 .. MaxRequests :
       WF_workersVars(PoolRests /\ k \in DOMAIN rows /\ (ExpireLease(k) \/ BackoffEnds(k)))
=============================================================================
