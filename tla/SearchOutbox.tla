---------------------------- MODULE SearchOutbox ----------------------------
(***************************************************************************)
(* The search worker: it claims rows of search_outbox under a lease,       *)
(* looks up what PostgreSQL says of each row's item now, writes that to    *)
(* the index and finishes the row.  Publication supplies the changes of    *)
(* visibility and the order of the rows; this module adds the columns the  *)
(* worker changes, one worker thread per process, and the index.           *)
(*                                                                         *)
(* Every statement and every call to the index is a step of its own.       *)
(* While healthy is FALSE any of them may fail, before or after it took    *)
(* effect; a process may crash between any two.  What the index accepts    *)
(* it applies in order, so index is what it will answer once it is idle.   *)
(***************************************************************************)
EXTENDS Publication, FiniteSets

CONSTANTS Processes,    \* processes with search enabled
          Owners,       \* values of PLACEDB_SEARCH_LEASE_OWNER
          OwnerOf,      \* the one each process is configured with
          NoOwner,      \* lease_owner is NULL
          BatchSize,    \* rows claimed at a time
          MaxAttempts,  \* claims after which a failure is final
          MaxCrashes    \* bound on the crashes of a behaviour

ASSUME OutboxAssumption ==
  /\ OwnerOf \in [Processes -> Owners]
  /\ NoOwner \notin Owners
  /\ BatchSize \in Nat \ {0}
  /\ MaxAttempts \in Nat \ {0}

VARIABLES
  rows,     \* rows[k]: what the worker changes of row k of the log
  pc,       \* pc[w]: where w is in RunOnce
  batch,    \* batch[w]: the claimed rows w has not finished with
  current,  \* current[w]: the row ProcessClaimed is at
  doc,      \* doc[w]: whether LoadPublished found the row's item published
  index,    \* index[i]: i is in the search index
  healthy,  \* the database and the index answer promptly
  crashes   \* crashes so far

processVars == <<pc, batch, current, doc>>
envVars == <<healthy, crashes>>
outboxVars == <<pubVars, rows, processVars, index, envVars>>

NewRow == [state |-> "pending", attempts |-> 0, due |-> TRUE,
           owner |-> NoOwner, lease |-> "none"]
RowState == [state : {"pending", "claimed", "done", "dead"},
             attempts : 0 .. MaxAttempts,
             due : BOOLEAN,
             owner : Owners \cup {NoOwner},
             lease : {"none", "live", "expired"}]

\* A row names an owner and a lease exactly while it is claimed.
WellLeased(row) ==
  /\ row.state = "claimed" <=> row.owner # NoOwner
  /\ row.state = "claimed" <=> row.lease # "none"

OutboxTypeOK ==
  /\ PubTypeOK
  /\ rows \in [DOMAIN log -> RowState]
  /\ pc \in [Processes -> {"idle", "claiming", "batch", "loaded", "written", "refused"}]
  /\ \A k \in DOMAIN log : WellLeased(rows[k])
  /\ batch \in [Processes -> SUBSET (DOMAIN log)]
  /\ current \in [Processes -> Nat]
  /\ \A w \in Processes : pc[w] \in {"loaded", "written", "refused"} => current[w] \in batch[w]
  /\ doc \in [Processes -> BOOLEAN]
  /\ index \in [Items -> BOOLEAN]
  /\ healthy \in BOOLEAN
  /\ crashes \in Nat

-----------------------------------------------------------------------------
(* The statements of OutboxRepository. *)

\* Mutant: nobody looks for claims that ran out.
StaleUnnoticed == {}

\* The row in a new state and without its lease.
Released(row, new) == [row EXCEPT !.state = new, !.owner = NoOwner, !.lease = "none"]

\* The row leased to an owner; the attempt counter is only ever compared with
\* MaxAttempts, so it stops there.
Leased(row, owner) ==
  [row EXCEPT !.state = "claimed", !.owner = owner, !.lease = "live",
              !.attempts = IF @ < MaxAttempts THEN @ + 1 ELSE @]

\* Rows whose claim has run out.
Stale == {k \in DOMAIN rows : rows[k].state = "claimed" /\ rows[k].lease = "expired"}

Claimable == {k \in DOMAIN rows : rows[k].state = "pending" /\ rows[k].due} \cup Stale

\* The rows of the lowest ids, as many as fit in a batch.
NextBatch ==
  {k \in Claimable : Cardinality({j \in Claimable : j < k}) < BatchSize}

\* RecoverStaleLeases: stale claims return to pending.
RowsRecovered ==
  [k \in DOMAIN rows |-> IF k \in Stale THEN Released(rows[k], "pending") ELSE rows[k]]

\* ClaimBatch
RowsClaimed(owner) ==
  [k \in DOMAIN rows |-> IF k \in NextBatch THEN Leased(rows[k], owner) ELSE rows[k]]

\* The guard that MarkDone and MarkFailed share.
HeldBy(k, owner) ==
  /\ rows[k].state = "claimed"
  /\ rows[k].owner = owner
  /\ rows[k].lease = "live"

\* MarkDone
RowsDone(k, owner) ==
  IF HeldBy(k, owner) THEN [rows EXCEPT ![k] = Released(@, "done")] ELSE rows

\* Mutant: a failure is final one claim early.
RowsFailedEarly(k, owner) ==
  IF ~HeldBy(k, owner) THEN rows
  ELSE IF rows[k].attempts + 1 >= MaxAttempts
       THEN [rows EXCEPT ![k] = Released(@, "dead")]
       ELSE [rows EXCEPT ![k] = [Released(@, "pending") EXCEPT !.due = FALSE]]

\* MarkFailed
RowsFailed(k, owner) ==
  IF ~HeldBy(k, owner) THEN rows
  ELSE IF rows[k].attempts >= MaxAttempts
       THEN [rows EXCEPT ![k] = Released(@, "dead")]
       ELSE [rows EXCEPT ![k] = [Released(@, "pending") EXCEPT !.due = FALSE]]

-----------------------------------------------------------------------------
(* One cycle of the worker. *)

\* RunOnce recovers stale leases first; an error ends the cycle, and so it
\* does when the statement ran and only its reply was lost.
Recover(w, executed, replied) ==
  /\ pc[w] = "idle"
  /\ healthy => executed /\ replied
  /\ rows' = IF executed THEN RowsRecovered ELSE rows
  /\ pc' = [pc EXCEPT ![w] = IF executed /\ replied THEN "claiming" ELSE "idle"]
  /\ UNCHANGED <<pubVars, batch, current, doc, index, envVars>>

\* The worker takes what its UPDATE returned, and the claim commits afterwards,
\* as the transaction goes out of scope, before the worker does anything else:
\* a commit that fails leaves it with entries that it has not claimed.
ClaimEntries(w, executed, replied) ==
  /\ pc[w] = "claiming"
  /\ healthy => executed /\ replied
  /\ executed => replied
  /\ rows' = IF executed THEN RowsClaimed(OwnerOf[w]) ELSE rows
  /\ batch' = [batch EXCEPT ![w] = IF replied THEN NextBatch ELSE {}]
  /\ pc' = [pc EXCEPT ![w] = IF batch'[w] = {} THEN "idle" ELSE "batch"]
  /\ UNCHANGED <<pubVars, current, doc, index, envVars>>

\* The entry is done with, one way or another; a cycle ends with its batch.
NextEntry(w, k) ==
  /\ batch' = [batch EXCEPT ![w] = @ \ {k}]
  /\ pc' = [pc EXCEPT ![w] = IF batch[w] = {k} THEN "idle" ELSE "batch"]
  /\ current' = [current EXCEPT ![w] = 0] /\ doc' = [doc EXCEPT ![w] = FALSE]

\* Mutant: the worker believes the request instead of the tables.
LoadFromRequest(w, k) ==
  /\ pc[w] = "batch"
  /\ k \in batch[w]
  /\ pc' = [pc EXCEPT ![w] = "loaded"]
  /\ current' = [current EXCEPT ![w] = k]
  /\ doc' = [doc EXCEPT ![w] = (log[k].operation = "upsert")]
  /\ UNCHANGED <<pubVars, rows, batch, index, envVars>>

\* LoadPublished, for the entries of the batch in any order.
Load(w, k) ==
  /\ pc[w] = "batch"
  /\ k \in batch[w]
  /\ pc' = [pc EXCEPT ![w] = "loaded"]
  /\ current' = [current EXCEPT ![w] = k]
  /\ doc' = [doc EXCEPT ![w] = visible[log[k].target]]
  /\ UNCHANGED <<pubVars, rows, batch, index, envVars>>

\* When it fails the entry is skipped and its claim left to run out.
LoadFails(w, k) ==
  /\ pc[w] = "batch"
  /\ k \in batch[w]
  /\ ~healthy
  /\ NextEntry(w, k)
  /\ UNCHANGED <<pubVars, rows, index, envVars>>

\* Upsert or Remove; a timeout says failure of what may have been applied.
Write(w, applied, replied) ==
  /\ pc[w] = "loaded"
  /\ healthy => applied /\ replied
  /\ replied => applied
  /\ index' = IF applied THEN [index EXCEPT ![log[current[w]].target] = doc[w]] ELSE index
  /\ pc' = [pc EXCEPT ![w] = IF replied THEN "written" ELSE "refused"]
  /\ UNCHANGED <<pubVars, rows, batch, current, doc, envVars>>

\* Mutant: a refused write is marked done as well.
FinishRegardless(w, executed) ==
  /\ pc[w] \in {"written", "refused"}
  /\ healthy => executed
  /\ rows' = IF executed THEN RowsDone(current[w], OwnerOf[w]) ELSE rows
  /\ NextEntry(w, current[w])
  /\ UNCHANGED <<pubVars, index, envVars>>

\* MarkDone or MarkFailed; the loop only counts whether it succeeded.
Finish(w, executed) ==
  /\ pc[w] \in {"written", "refused"}
  /\ healthy => executed
  /\ rows' = IF ~executed THEN rows
             ELSE IF pc[w] = "written" THEN RowsDone(current[w], OwnerOf[w])
             ELSE RowsFailed(current[w], OwnerOf[w])
  /\ NextEntry(w, current[w])
  /\ UNCHANGED <<pubVars, index, envVars>>

Step(w) ==
  \/ \E executed, replied \in BOOLEAN :
        \/ Recover(w, executed, replied)
        \/ ClaimEntries(w, executed, replied)
        \/ Write(w, executed, replied)
  \/ \E k \in batch[w] : Load(w, k) \/ LoadFails(w, k)
  \/ \E executed \in BOOLEAN : Finish(w, executed)

-----------------------------------------------------------------------------
(* The surroundings. *)

\* A moderator's transaction changes an item's visibility and adds a row.
Change(i) ==
  /\ Publish(i) \/ Hide(i)
  /\ rows' = [k \in DOMAIN log' |-> IF k \in DOMAIN log THEN rows[k] ELSE NewRow]
  /\ UNCHANGED <<processVars, index, envVars>>

\* lease_expires_at passes.  While everything answers promptly a lease lasts
\* longer than the batch it was taken for.
ExpireLease(k) ==
  /\ rows[k].lease = "live"
  /\ healthy => \A w \in Processes : k \notin batch[w]
  /\ rows' = [rows EXCEPT ![k].lease = "expired"]
  /\ UNCHANGED <<pubVars, processVars, index, envVars>>

\* next_attempt_at passes.
BackoffEnds(k) ==
  /\ ~rows[k].due
  /\ rows' = [rows EXCEPT ![k].due = TRUE]
  /\ UNCHANGED <<pubVars, processVars, index, envVars>>

\* The process dies and starts again.
Crash(w) ==
  /\ pc[w] # "idle"
  /\ crashes < MaxCrashes
  /\ crashes' = crashes + 1
  /\ pc' = [pc EXCEPT ![w] = "idle"]
  /\ batch' = [batch EXCEPT ![w] = {}]
  /\ current' = [current EXCEPT ![w] = 0] /\ doc' = [doc EXCEPT ![w] = FALSE]
  /\ UNCHANGED <<pubVars, rows, index, healthy>>

\* The database or the index stops answering, or answers again.
Fault ==
  /\ healthy' = ~healthy
  /\ UNCHANGED <<pubVars, rows, processVars, index, crashes>>

OutboxInit ==
  /\ PubInit
  /\ rows = << >>
  /\ pc = [w \in Processes |-> "idle"]
  /\ batch = [w \in Processes |-> {}]
  /\ current = [w \in Processes |-> 0]
  /\ doc = [w \in Processes |-> FALSE]
  /\ index = [i \in Items |-> FALSE]
  /\ healthy = TRUE
  /\ crashes = 0

OutboxNext ==
  \/ \E w \in Processes : Step(w)
  \/ \E i \in Items : Change(i)
  \/ \E k \in DOMAIN rows : ExpireLease(k) \/ BackoffEnds(k)
  \/ \E w \in Processes : Crash(w)
  \/ Fault

OutboxSpec == OutboxInit /\ [][OutboxNext]_outboxVars

\* Threads are scheduled and clocks advance; nothing makes a fault end.
FairOutboxSpec ==
  /\ OutboxSpec
  /\ \A w \in Processes : WF_outboxVars(Step(w))
  /\ \A k \in 1 .. MaxRequests :
       WF_outboxVars(k \in DOMAIN rows /\ (ExpireLease(k) \/ BackoffEnds(k)))

-----------------------------------------------------------------------------
(* Properties. *)

\* The items that a row not yet done still speaks for.
Unsettled == {log[k].target : k \in {k \in DOMAIN log : IsLatest(k) /\ rows[k].state # "done"}}

\* What the outbox is for: once the latest row of an item is done the index
\* agrees with PostgreSQL about the item, whatever was republished, hidden,
\* retried or crashed while older rows were under way (search_worker.h:39-40,
\* "the latest publication state in PostgreSQL always wins at index time").
SettledIsIndexed ==
  \A i \in Items \ Unsettled : index[i] = visible[i]

Derived == INSTANCE DerivedIndex WITH unsettled <- Unsettled

\* The worker implements DerivedIndex: it writes to the index only about items
\* that a row still speaks for, and lets go of an item only when the index is
\* right about it, so a retry or a late row never disturbs what is settled.
IndexSpec == Derived!IndexSpec

\* Done and dead rows never change again, whichever workers still hold them
\* in a batch, and a row is given up only after MaxAttempts claims, so an
\* outage shorter than that loses no request (outbox.cc:107-129).
RowsEndOnce ==
  [][\A k \in DOMAIN rows :
       /\ rows[k].state \in {"done", "dead"} => rows'[k].state = rows[k].state
       /\ rows[k].state # "dead" /\ rows'[k].state = "dead" =>
            rows[k].attempts = MaxAttempts]_outboxVars

\* If faults end, every row ends: none is stranded by a crash, by a lost
\* reply, or by a claim nobody remembers.
EveryRowEnds ==
  <>[]healthy => <>[](\A k \in DOMAIN rows : rows[k].state \in {"done", "dead"})

\* If faults end, the index catches up with every item but those whose latest
\* row was given up.
IndexCatchesUp ==
  <>[]healthy =>
    <>[](\A k \in DOMAIN log :
           IsLatest(k) /\ rows[k].state # "dead"
             => index[log[k].target] = visible[log[k].target])
=============================================================================
