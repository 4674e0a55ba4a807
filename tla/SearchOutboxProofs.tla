------------------------- MODULE SearchOutboxProofs -------------------------
(***************************************************************************)
(* Proofs about SearchOutbox: for any number of workers, types and that    *)
(* rows end once; and, when one process runs the worker, that settled      *)
(* items are indexed right, for any items, batch size, number of attempts, *)
(* faults and crashes.                                                     *)
(*                                                                         *)
(* The invariant behind the last: what the worker has looked up about the  *)
(* item of its current row is still true, unless a newer row that is not   *)
(* done says that the item changed; and what it has written is in the      *)
(* index.                                                                  *)
(***************************************************************************)
EXTENDS SearchOutbox, TLAPS

-----------------------------------------------------------------------------
(* The statements keep the type of a row. *)

Typed(row) == row \in RowState /\ WellLeased(row)

LEMMA ReleasedTyped ==
  ASSUME NEW row, Typed(row), NEW new \in {"pending", "done", "dead"}
  PROVE  /\ Typed(Released(row, new))
         /\ Released(row, new).state = new
         /\ Typed([Released(row, new) EXCEPT !.due = FALSE])
         /\ [Released(row, new) EXCEPT !.due = FALSE].state = new
<1> DEFINE r == Released(row, new)
<1>1. r \in RowState
  BY DEF Typed, Released, RowState
<1>2. r.state = new /\ r.owner = NoOwner /\ r.lease = "none"
  BY DEF Typed, Released, RowState
<1> HIDE DEF r
<1>3. [r EXCEPT !.due = FALSE] \in RowState
  BY <1>1 DEF RowState
<1>4. /\ [r EXCEPT !.due = FALSE].state = new
      /\ [r EXCEPT !.due = FALSE].owner = NoOwner
      /\ [r EXCEPT !.due = FALSE].lease = "none"
  BY <1>1, <1>2 DEF RowState
<1> QED
  BY <1>1, <1>2, <1>3, <1>4 DEF Typed, WellLeased, r

LEMMA LeasedTyped ==
  ASSUME NEW row, Typed(row), NEW owner \in Owners
  PROVE  Typed(Leased(row, owner)) /\ Leased(row, owner).state = "claimed"
<1> DEFINE n == IF row.attempts < MaxAttempts THEN row.attempts + 1 ELSE row.attempts
<1>0. n \in 0 .. MaxAttempts
  BY OutboxAssumption DEF Typed, RowState
<1>1. Leased(row, owner) \in RowState
  <2>1. Leased(row, owner) = [row EXCEPT !.state = "claimed", !.owner = owner,
                                         !.lease = "live", !.attempts = n]
    BY DEF Leased, Typed, RowState
  <2> HIDE DEF n
  <2> QED
    BY <1>0, <2>1 DEF Typed, RowState
<1>2. /\ Leased(row, owner).state = "claimed"
      /\ Leased(row, owner).owner = owner
      /\ Leased(row, owner).lease = "live"
  BY DEF Typed, Leased, RowState
<1> QED
  BY <1>1, <1>2, OutboxAssumption DEF Typed, WellLeased

\* The rows keep their types, and those that are done are those of Done.
Rewritten(new, Done) ==
  /\ new \in [DOMAIN log -> RowState]
  /\ \A k \in DOMAIN log : WellLeased(new[k])
  /\ \A k \in DOMAIN log : new[k].state = "done" <=> k \in Done

DoneRows == {k \in DOMAIN log : rows[k].state = "done"}

LEMMA RowFacts ==
  OutboxTypeOK => /\ DOMAIN rows = DOMAIN log
                  /\ \A k \in DOMAIN log : Typed(rows[k])
                  /\ Rewritten(rows, DoneRows)
BY DEF OutboxTypeOK, Typed, Rewritten, DoneRows

LEMMA RecoveredFacts == OutboxTypeOK => Rewritten(RowsRecovered, DoneRows)
<1> SUFFICES ASSUME OutboxTypeOK
             PROVE  Rewritten(RowsRecovered, DoneRows)
  OBVIOUS
<1>1. DOMAIN RowsRecovered = DOMAIN log
  BY RowFacts DEF RowsRecovered
<1>2. ASSUME NEW k \in DOMAIN log
      PROVE  /\ Typed(RowsRecovered[k])
             /\ RowsRecovered[k].state = "done" <=> k \in DoneRows
  <2>1. CASE k \in Stale
    <3>1. RowsRecovered[k] = Released(rows[k], "pending") /\ rows[k].state = "claimed"
      BY <2>1, RowFacts DEF RowsRecovered, Stale
    <3> QED
      BY <3>1, RowFacts, ReleasedTyped DEF DoneRows
  <2>2. CASE k \notin Stale
    BY <2>2, RowFacts DEF RowsRecovered, DoneRows
  <2> QED
    BY <2>1, <2>2
<1>3. RowsRecovered = [k \in DOMAIN log |-> RowsRecovered[k]]
  BY RowFacts DEF RowsRecovered
<1> QED
  BY <1>1, <1>2, <1>3 DEF Typed, Rewritten

LEMMA ClaimedFacts ==
  ASSUME OutboxTypeOK, NEW owner \in Owners
  PROVE  Rewritten(RowsClaimed(owner), DoneRows)
<1> DEFINE new == RowsClaimed(owner)
<1>1. DOMAIN new = DOMAIN log
  BY RowFacts DEF RowsClaimed
<1>2. ASSUME NEW k \in DOMAIN log
      PROVE  Typed(new[k]) /\ (new[k].state = "done" <=> k \in DoneRows)
  <2>1. CASE k \in NextBatch
    <3>1. new[k] = Leased(rows[k], owner) /\ rows[k].state # "done"
      BY <2>1, RowFacts DEF RowsClaimed, NextBatch, Claimable, Stale
    <3> QED
      BY <3>1, RowFacts, LeasedTyped DEF DoneRows
  <2>2. CASE k \notin NextBatch
    BY <2>2, RowFacts DEF RowsClaimed, DoneRows
  <2> QED
    BY <2>1, <2>2
<1>3. new = [k \in DOMAIN log |-> new[k]]
  BY RowFacts DEF RowsClaimed
<1> QED
  BY <1>1, <1>2, <1>3 DEF Typed, Rewritten

LEMMA FinishedFacts ==
  ASSUME OutboxTypeOK, NEW k \in DOMAIN log, NEW owner
  PROVE  /\ Rewritten(RowsFailed(k, owner), DoneRows)
         /\ ~HeldBy(k, owner) => RowsDone(k, owner) = rows
         /\ HeldBy(k, owner) =>
              Rewritten(RowsDone(k, owner), DoneRows \cup {k}) /\ k \notin DoneRows
<1> DEFINE dead == Released(rows[k], "dead")
           done == Released(rows[k], "done")
           retry == [Released(rows[k], "pending") EXCEPT !.due = FALSE]
<1>1. ASSUME NEW row, Typed(row)
      PROVE  /\ [rows EXCEPT ![k] = row] \in [DOMAIN log -> RowState]
             /\ \A j \in DOMAIN log : Typed([rows EXCEPT ![k] = row][j])
             /\ \A j \in DOMAIN log :
                   [rows EXCEPT ![k] = row][j] = IF j = k THEN row ELSE rows[j]
  BY <1>1, RowFacts DEF Typed, OutboxTypeOK
<1>2. /\ Typed(dead) /\ dead.state = "dead"
      /\ Typed(done) /\ done.state = "done"
      /\ Typed(retry) /\ retry.state = "pending"
  BY RowFacts, ReleasedTyped
<1>3. HeldBy(k, owner) => k \notin DoneRows
  BY DEF HeldBy, DoneRows
<1>5. /\ RowsDone(k, owner) = IF HeldBy(k, owner) THEN [rows EXCEPT ![k] = done] ELSE rows
      /\ RowsFailed(k, owner) \in {rows} \cup
            (IF HeldBy(k, owner) THEN {[rows EXCEPT ![k] = dead], [rows EXCEPT ![k] = retry]}
             ELSE {})
  BY RowFacts DEF RowsDone, RowsFailed
<1> HIDE DEF dead, done, retry
<1>6. HeldBy(k, owner) => Rewritten([rows EXCEPT ![k] = done], DoneRows \cup {k})
  BY <1>1, <1>2, <1>3 DEF Rewritten, DoneRows, Typed
<1>7. HeldBy(k, owner) => /\ Rewritten([rows EXCEPT ![k] = dead], DoneRows)
                          /\ Rewritten([rows EXCEPT ![k] = retry], DoneRows)
  BY <1>1, <1>2, <1>3 DEF Rewritten, DoneRows, Typed
<1> QED
  BY <1>3, <1>5, <1>6, <1>7, RowFacts

-----------------------------------------------------------------------------
(* Types. *)

\* Every step keeps the rows' types; the rows that are done stay the same but
\* in the MarkDone of a row that is held.
LEMMA WorkerTypes ==
  ASSUME OutboxTypeOK, NEW w \in Processes, Step(w)
  PROVE  OutboxTypeOK'
<1>0. /\ OwnerOf[w] \in Owners
      /\ batch[w] \subseteq DOMAIN log
      /\ DOMAIN rows = DOMAIN log
  BY OutboxAssumption, RowFacts DEF OutboxTypeOK
<1>1. ASSUME NEW executed \in BOOLEAN, NEW replied \in BOOLEAN,
             Recover(w, executed, replied)
      PROVE  OutboxTypeOK'
  BY <1>1, RecoveredFacts DEF Recover, OutboxTypeOK, Rewritten, pubVars, envVars, PubTypeOK
<1>2. ASSUME NEW executed \in BOOLEAN, NEW replied \in BOOLEAN,
             ClaimEntries(w, executed, replied)
      PROVE  OutboxTypeOK'
  <2>1. NextBatch \subseteq DOMAIN log
    BY <1>0 DEF NextBatch, Claimable, Stale
  <2>2. rows' \in [DOMAIN log -> RowState] /\ \A k \in DOMAIN log : WellLeased(rows'[k])
    BY <1>0, <1>2, ClaimedFacts DEF ClaimEntries, OutboxTypeOK, Rewritten
  <2> QED
    BY <1>2, <2>1, <2>2 DEF ClaimEntries, OutboxTypeOK, pubVars, envVars, PubTypeOK
<1>3. ASSUME NEW executed \in BOOLEAN, NEW replied \in BOOLEAN,
             Write(w, executed, replied)
      PROVE  OutboxTypeOK'
  BY <1>3 DEF Write, OutboxTypeOK, pubVars, envVars, PubTypeOK
<1>4. ASSUME NEW k \in batch[w], Load(w, k) \/ LoadFails(w, k)
      PROVE  OutboxTypeOK'
  <2>1. CASE Load(w, k)
    <3>1. k \in Nat /\ log[k].target \in Items
      <4>1. k \in Nat /\ log[k] \in Request
        BY <1>0 DEF OutboxTypeOK, PubTypeOK
      <4> QED
        BY <4>1 DEF Request
    <3>2. visible[log[k].target] \in BOOLEAN
      BY <3>1 DEF OutboxTypeOK, PubTypeOK
    <3> QED
      BY <2>1, <3>1, <3>2 DEF Load, OutboxTypeOK, pubVars, envVars, PubTypeOK
  <2>2. CASE LoadFails(w, k)
    BY <2>2 DEF LoadFails, NextEntry, OutboxTypeOK, pubVars, envVars, PubTypeOK
  <2> QED
    BY <1>4, <2>1, <2>2
<1>5. ASSUME NEW executed \in BOOLEAN, Finish(w, executed)
      PROVE  OutboxTypeOK'
  <2>1. current[w] \in DOMAIN log
    BY <1>0, <1>5 DEF Finish, OutboxTypeOK
  <2>2. rows' \in [DOMAIN log -> RowState] /\ \A k \in DOMAIN log : WellLeased(rows'[k])
    BY <1>5, <2>1, FinishedFacts, RowFacts DEF Finish, Rewritten
  <2> QED
    BY <1>5, <2>2 DEF Finish, NextEntry, OutboxTypeOK, pubVars, envVars, PubTypeOK
<1> QED
  BY <1>1, <1>2, <1>3, <1>4, <1>5 DEF Step

\* The new row at the end of the outbox.
LEMMA ChangeFacts ==
  ASSUME OutboxTypeOK, NEW i \in Items, Change(i)
  PROVE  /\ visible' = [visible EXCEPT ![i] = ~visible[i]]
         /\ Len(log) \in Nat
         /\ DOMAIN log = 1 .. Len(log)
         /\ DOMAIN log' = 1 .. Len(log) + 1
         /\ \A k \in 1 .. Len(log) : log'[k] = log[k] /\ rows'[k] = rows[k]
         /\ log'[Len(log) + 1].target = i
         /\ rows'[Len(log) + 1] = NewRow
         /\ log' \in Seq(Request)
         /\ visible' \in [Items -> BOOLEAN]
         /\ rows' \in [DOMAIN log' -> RowState]
<1>1. PICK request \in Request : log' = Append(log, request) /\ request.target = i
  BY DEF Change, Publish, Hide, Request
<1>2. /\ Len(log) \in Nat
      /\ DOMAIN log = 1 .. Len(log)
      /\ DOMAIN log' = 1 .. Len(log) + 1
      /\ \A k \in 1 .. Len(log) : log'[k] = log[k]
      /\ log'[Len(log) + 1] = request
      /\ log' \in Seq(Request)
  BY <1>1 DEF OutboxTypeOK, PubTypeOK
<1>3. visible' = [visible EXCEPT ![i] = ~visible[i]] /\ visible' \in [Items -> BOOLEAN]
  BY DEF Change, Publish, Hide, OutboxTypeOK, PubTypeOK
<1>4. NewRow \in RowState
  BY OutboxAssumption DEF NewRow, RowState
<1>5. rows' = [k \in DOMAIN log' |-> IF k \in DOMAIN log THEN rows[k] ELSE NewRow]
  BY DEF Change
<1> HIDE DEF NewRow
<1> QED
  BY <1>1, <1>2, <1>3, <1>4, <1>5 DEF OutboxTypeOK

\* Time passes for a row.
LEMMA TimeTypes ==
  ASSUME OutboxTypeOK, NEW k \in DOMAIN rows, ExpireLease(k) \/ BackoffEnds(k)
  PROVE  OutboxTypeOK'
<1>1. k \in DOMAIN log /\ Typed(rows[k])
  BY RowFacts
<1>2. /\ rows[k].lease = "live" => Typed([rows[k] EXCEPT !.lease = "expired"])
      /\ Typed([rows[k] EXCEPT !.due = TRUE])
  BY <1>1 DEF Typed, RowState, WellLeased
<1>3. \E row : Typed(row) /\ rows' = [rows EXCEPT ![k] = row]
  BY <1>2 DEF ExpireLease, BackoffEnds
<1>4. rows' \in [DOMAIN log -> RowState] /\ \A j \in DOMAIN log : WellLeased(rows'[j])
  BY <1>1, <1>3, RowFacts DEF Typed, OutboxTypeOK
<1> QED
  BY <1>4 DEF ExpireLease, BackoffEnds, pubVars, processVars, envVars, OutboxTypeOK, PubTypeOK

(***************************************************************************)
(* Types, for any number of workers: rows are leased exactly while they    *)
(* are claimed, and a worker at an entry still has the entry in its batch. *)
(***************************************************************************)
THEOREM OutboxTypeCorrect == OutboxSpec => []OutboxTypeOK
<1>1. OutboxInit => OutboxTypeOK
  <2> SUFFICES ASSUME OutboxInit
               PROVE  OutboxTypeOK
    OBVIOUS
  <2>1. PubTypeOK /\ DOMAIN log = {} /\ DOMAIN rows = {}
    BY DEF OutboxInit, PubInit, PubTypeOK
  <2>2. rows \in [DOMAIN log -> RowState]
    BY <2>1 DEF OutboxInit
  <2>3. /\ pc \in [Processes -> {"idle", "claiming", "batch", "loaded", "written", "refused"}]
        /\ batch \in [Processes -> SUBSET (DOMAIN log)]
        /\ current \in [Processes -> Nat]
        /\ doc \in [Processes -> BOOLEAN]
        /\ index \in [Items -> BOOLEAN]
        /\ healthy \in BOOLEAN
        /\ crashes \in Nat
    BY DEF OutboxInit
  <2> QED
    BY <2>1, <2>2, <2>3 DEF OutboxInit, OutboxTypeOK
<1>2. OutboxTypeOK /\ [OutboxNext]_outboxVars => OutboxTypeOK'
  <2> SUFFICES ASSUME OutboxTypeOK, [OutboxNext]_outboxVars
               PROVE  OutboxTypeOK'
    OBVIOUS
  <2>1. CASE UNCHANGED outboxVars
    BY <2>1 DEF outboxVars, pubVars, processVars, envVars, OutboxTypeOK, PubTypeOK
  <2>2. ASSUME NEW w \in Processes, Step(w)
        PROVE  OutboxTypeOK'
    BY <2>2, WorkerTypes
  <2>3. ASSUME NEW i \in Items, Change(i)
        PROVE  OutboxTypeOK'
    <3>0. /\ Len(log) \in Nat
          /\ DOMAIN log = 1 .. Len(log)
          /\ DOMAIN log' = 1 .. Len(log) + 1
          /\ \A k \in 1 .. Len(log) : rows'[k] = rows[k]
          /\ rows'[Len(log) + 1] = NewRow
      BY <2>3, ChangeFacts
    <3>1. \A k \in DOMAIN log' : WellLeased(rows'[k])
      <4>1. WellLeased(NewRow)
        BY OutboxAssumption DEF WellLeased, NewRow
      <4> QED
        BY <3>0, <4>1 DEF OutboxTypeOK
    <3>2. batch' \in [Processes -> SUBSET (DOMAIN log')]
      <4>1. DOMAIN log \subseteq DOMAIN log' /\ batch' = batch
        BY <2>3, <3>0 DEF Change, processVars
      <4> QED
        BY <4>1 DEF OutboxTypeOK
    <3> QED
      BY <2>3, <3>1, <3>2, ChangeFacts DEF Change, processVars, envVars, OutboxTypeOK, PubTypeOK
  <2>4. ASSUME NEW k \in DOMAIN rows, ExpireLease(k) \/ BackoffEnds(k)
        PROVE  OutboxTypeOK'
    BY <2>4, TimeTypes
  <2>5. ASSUME NEW w \in Processes, Crash(w)
        PROVE  OutboxTypeOK'
    BY <2>5 DEF Crash, pubVars, OutboxTypeOK, PubTypeOK
  <2>6. CASE Fault
    BY <2>6 DEF Fault, pubVars, processVars, OutboxTypeOK, PubTypeOK
  <2> QED
    BY <2>1, <2>2, <2>3, <2>4, <2>5, <2>6 DEF OutboxNext
<1>3. QED
  BY <1>1, <1>2, PTL DEF OutboxSpec

-----------------------------------------------------------------------------
(* How rows end. *)

\* A row that changes was pending or claimed, and one that is given up had
\* been claimed MaxAttempts times.
EndsRight(old, new) ==
  \/ new.state = old.state
  \/ /\ old.state \in {"pending", "claimed"}
     /\ new.state = "dead" => old.attempts = MaxAttempts

\* What a statement about held rows does to each of them.
LEMMA FinishEndsRight ==
  ASSUME OutboxTypeOK, NEW k \in DOMAIN log, NEW owner, NEW j \in DOMAIN log
  PROVE  /\ EndsRight(rows[j], RowsDone(k, owner)[j])
         /\ EndsRight(rows[j], RowsFailed(k, owner)[j])
<1>1. DOMAIN rows = DOMAIN log /\ rows[k].attempts \in 0 .. MaxAttempts
  <2>1. DOMAIN rows = DOMAIN log /\ rows[k] \in RowState
    BY DEF OutboxTypeOK
  <2> QED
    BY <2>1 DEF RowState
<1>2. /\ Released(rows[k], "done").state = "done"
      /\ Released(rows[k], "dead").state = "dead"
      /\ [Released(rows[k], "pending") EXCEPT !.due = FALSE].state = "pending"
  BY RowFacts, ReleasedTyped
<1>3. rows[k].attempts >= MaxAttempts => rows[k].attempts = MaxAttempts
  BY <1>1, OutboxAssumption
<1>4. CASE ~HeldBy(k, owner) \/ j # k
  <2>1. RowsDone(k, owner)[j] = rows[j] /\ RowsFailed(k, owner)[j] = rows[j]
    BY <1>1, <1>4 DEF RowsDone, RowsFailed
  <2> QED
    BY <2>1 DEF EndsRight
<1>5. CASE HeldBy(k, owner) /\ j = k
  <2>1. rows[j].state = "claimed"
    BY <1>5 DEF HeldBy
  <2>2. RowsDone(k, owner)[j].state = "done"
    BY <1>1, <1>2, <1>5 DEF RowsDone
  <2>3. \/ RowsFailed(k, owner)[j].state = "pending"
        \/ RowsFailed(k, owner)[j].state = "dead" /\ rows[j].attempts = MaxAttempts
    <3>1. CASE rows[k].attempts >= MaxAttempts
      <4>1. RowsFailed(k, owner)[j] = Released(rows[k], "dead")
        BY <1>1, <1>5, <3>1 DEF RowsFailed
      <4> QED
        BY <1>2, <1>3, <1>5, <3>1, <4>1
    <3>2. CASE ~(rows[k].attempts >= MaxAttempts)
      <4>1. RowsFailed(k, owner)[j] = [Released(rows[k], "pending") EXCEPT !.due = FALSE]
        BY <1>1, <1>5, <3>2 DEF RowsFailed
      <4> QED
        BY <1>2, <4>1
    <3> QED
      BY <3>1, <3>2
  <2> QED
    BY <2>1, <2>2, <2>3 DEF EndsRight
<1> QED
  BY <1>4, <1>5

\* What the statements that recover and claim do to each row.
LEMMA ClaimEndsRight ==
  ASSUME OutboxTypeOK, NEW owner \in Owners, NEW j \in DOMAIN log
  PROVE  /\ EndsRight(rows[j], RowsRecovered[j])
         /\ EndsRight(rows[j], RowsClaimed(owner)[j])
<1>1. DOMAIN rows = DOMAIN log /\ Typed(rows[j])
  BY RowFacts
<1>2. EndsRight(rows[j], RowsRecovered[j])
  <2>1. CASE j \in Stale
    <3>1. RowsRecovered[j].state = "pending" /\ rows[j].state = "claimed"
      BY <1>1, <2>1, ReleasedTyped DEF RowsRecovered, Stale
    <3> QED
      BY <3>1 DEF EndsRight
  <2>2. CASE j \notin Stale
    <3>1. RowsRecovered[j] = rows[j]
      BY <1>1, <2>2 DEF RowsRecovered
    <3> QED
      BY <3>1 DEF EndsRight
  <2> QED
    BY <2>1, <2>2
<1>3. EndsRight(rows[j], RowsClaimed(owner)[j])
  <2>1. CASE j \in NextBatch
    <3>1. RowsClaimed(owner)[j] = Leased(rows[j], owner)
      BY <1>1, <2>1 DEF RowsClaimed
    <3>2. rows[j].state \in {"pending", "claimed"}
      BY <2>1 DEF NextBatch, Claimable, Stale
    <3> QED
      BY <1>1, <3>1, <3>2, LeasedTyped DEF EndsRight
  <2>2. CASE j \notin NextBatch
    <3>1. RowsClaimed(owner)[j] = rows[j]
      BY <1>1, <2>2 DEF RowsClaimed
    <3> QED
      BY <3>1 DEF EndsRight
  <2> QED
    BY <2>1, <2>2
<1> QED
  BY <1>2, <1>3

\* Every step, for every row there was before it.
LEMMA StepEndsRight ==
  ASSUME OutboxTypeOK, OutboxNext, NEW j \in DOMAIN log
  PROVE  EndsRight(rows[j], rows'[j])
<1>0. DOMAIN rows = DOMAIN log
  BY RowFacts
<1>1. ASSUME rows' = rows
      PROVE  EndsRight(rows[j], rows'[j])
  BY <1>1 DEF EndsRight
<1>2. ASSUME NEW w \in Processes, Step(w)
      PROVE  EndsRight(rows[j], rows'[j])
  <2>1. OwnerOf[w] \in Owners
    BY OutboxAssumption
  <2>2. rows' \in {rows, RowsRecovered, RowsClaimed(OwnerOf[w])} \/ \E executed \in BOOLEAN : Finish(w, executed)
    BY <1>2 DEF Step, Recover, ClaimEntries, Write, Load, LoadFails
  <2>3. ASSUME NEW executed \in BOOLEAN, Finish(w, executed)
        PROVE  EndsRight(rows[j], rows'[j])
    <3>1. current[w] \in DOMAIN log
      BY <2>3 DEF Finish, OutboxTypeOK
    <3>2. rows' \in {rows, RowsDone(current[w], OwnerOf[w]), RowsFailed(current[w], OwnerOf[w])}
      BY <2>3 DEF Finish
    <3> QED
      BY <1>1, <3>1, <3>2, FinishEndsRight
  <2> QED
    BY <1>1, <2>1, <2>2, <2>3, ClaimEndsRight
<1>3. ASSUME NEW i \in Items, Change(i)
      PROVE  EndsRight(rows[j], rows'[j])
  BY <1>3, ChangeFacts DEF EndsRight
<1>4. ASSUME NEW k \in DOMAIN rows, ExpireLease(k) \/ BackoffEnds(k)
      PROVE  EndsRight(rows[j], rows'[j])
  <2>1. Typed(rows[k])
    BY <1>0, RowFacts
  <2>2. \E row : row.state = rows[k].state /\ rows' = [rows EXCEPT ![k] = row]
    BY <1>4, <2>1 DEF ExpireLease, BackoffEnds, Typed, RowState
  <2> QED
    BY <1>0, <2>2 DEF EndsRight
<1> QED
  BY <1>1, <1>2, <1>3, <1>4 DEF OutboxNext, Crash, Fault

(***************************************************************************)
(* However many workers hold it, a row that is done or dead stays so, and  *)
(* no row is given up before its MaxAttempts claims.                       *)
(***************************************************************************)
THEOREM RowsEndCorrect == OutboxSpec => RowsEndOnce
<1> DEFINE Ends == \A k \in DOMAIN rows :
             /\ rows[k].state \in {"done", "dead"} => rows'[k].state = rows[k].state
             /\ rows[k].state # "dead" /\ rows'[k].state = "dead" =>
                  rows[k].attempts = MaxAttempts
<1>1. OutboxTypeOK /\ [OutboxNext]_outboxVars => [Ends]_outboxVars
  <2> SUFFICES ASSUME OutboxTypeOK, OutboxNext, NEW k \in DOMAIN rows
               PROVE  /\ rows[k].state \in {"done", "dead"} => rows'[k].state = rows[k].state
                      /\ rows[k].state # "dead" /\ rows'[k].state = "dead" =>
                           rows[k].attempts = MaxAttempts
    OBVIOUS
  <2>1. EndsRight(rows[k], rows'[k])
    BY RowFacts, StepEndsRight
  <2> QED
    BY <2>1 DEF EndsRight
<1>2. QED
  BY <1>1, OutboxTypeCorrect, PTL DEF OutboxSpec, RowsEndOnce

-----------------------------------------------------------------------------
(* One worker. *)

Target(w) == log[current[w]].target

\* What the worker found is still so, unless a newer row says otherwise.
DocCurrent ==
  \A w \in Processes :
    /\ pc[w] \in {"loaded", "written"}
    /\ Target(w) \notin Unsettled \/ IsLatest(current[w])
    => doc[w] = visible[Target(w)]

\* What the worker wrote is in the index.
WrittenIsIndexed ==
  \A w \in Processes : pc[w] = "written" => index[Target(w)] = doc[w]

IndexInv == SettledIsIndexed /\ DocCurrent /\ WrittenIsIndexed

\* One step of the worker as DerivedIndex sees it.
IndexStep == [Derived!IndexNext]_(Derived!indexVars)

LEMMA UnsettledMeans ==
  \A i : i \in Unsettled <=>
           \E k \in DOMAIN log : IsLatest(k) /\ log[k].target = i /\ rows[k].state # "done"
BY DEF Unsettled

\* Steps that finish no row and write nothing.
LEMMA SilentStep ==
  ASSUME OutboxTypeOK, IndexInv, UNCHANGED <<pubVars, index>>,
         Rewritten(rows', DoneRows),
         \A w \in Processes : pc'[w] \in {"loaded", "written"} =>
            pc'[w] = pc[w] /\ doc'[w] = doc[w] /\ current'[w] = current[w]
  PROVE  IndexInv' /\ IndexStep
<1>1. Unsettled' = Unsettled
  BY RowFacts DEF Rewritten, DoneRows, Unsettled, IsLatest, pubVars
<1>2. IndexStep
  BY <1>1 DEF IndexStep, Derived!indexVars, pubVars
<1>3. log' = log /\ visible' = visible /\ index' = index
  BY DEF pubVars
<1>4. SettledIsIndexed'
  BY <1>1, <1>3 DEF IndexInv, SettledIsIndexed
<1>5. DocCurrent'
  BY <1>1, <1>3 DEF IndexInv, DocCurrent, Target, IsLatest
<1>6. WrittenIsIndexed'
  BY <1>3 DEF IndexInv, WrittenIsIndexed, Target
<1> QED
  BY <1>2, <1>4, <1>5, <1>6 DEF IndexInv

LEMMA LoadStep ==
  ASSUME OutboxTypeOK, IndexInv, \A v, w \in Processes : v = w,
         NEW w \in Processes, NEW k \in batch[w], Load(w, k)
  PROVE  IndexInv' /\ IndexStep
<1>1. /\ log' = log /\ visible' = visible /\ index' = index /\ rows' = rows
      /\ pc'[w] = "loaded" /\ current'[w] = k /\ doc'[w] = visible[log[k].target]
  BY DEF Load, pubVars, OutboxTypeOK
<1>2. Unsettled' = Unsettled
  BY <1>1 DEF Unsettled, IsLatest
<1>3. IndexStep
  BY <1>1, <1>2 DEF IndexStep, Derived!indexVars
<1>4. SettledIsIndexed'
  BY <1>1, <1>2 DEF IndexInv, SettledIsIndexed
<1>5. DocCurrent' /\ WrittenIsIndexed'
  BY <1>1 DEF DocCurrent, WrittenIsIndexed, Target
<1> QED
  BY <1>3, <1>4, <1>5 DEF IndexInv

LEMMA WriteStep ==
  ASSUME OutboxTypeOK, IndexInv, \A v, w \in Processes : v = w,
         NEW w \in Processes, NEW applied \in BOOLEAN, NEW replied \in BOOLEAN,
         Write(w, applied, replied)
  PROVE  IndexInv' /\ IndexStep
<1> DEFINE t == Target(w)
<1>1. /\ log' = log /\ visible' = visible /\ rows' = rows
      /\ current' = current /\ doc' = doc
      /\ pc[w] = "loaded" /\ pc'[w] \in {"written", "refused"}
      /\ pc'[w] = "written" => applied
      /\ index' = IF applied THEN [index EXCEPT ![t] = doc[w]] ELSE index
  BY DEF Write, pubVars, OutboxTypeOK, Target
<1>2. Unsettled' = Unsettled
  BY <1>1 DEF Unsettled, IsLatest
<1>3. t \in Items /\ doc[w] \in BOOLEAN
  <2>1. current[w] \in DOMAIN log
    BY <1>1 DEF OutboxTypeOK
  <2>2. log[current[w]] \in Request
    BY <2>1 DEF OutboxTypeOK, PubTypeOK
  <2> QED
    BY <2>2 DEF Target, Request, OutboxTypeOK
<1>4. t \notin Unsettled => doc[w] = visible[t]
  BY <1>1 DEF IndexInv, DocCurrent
<1>5. t \notin Unsettled => index[t] = visible[t]
  BY <1>3 DEF IndexInv, SettledIsIndexed
<1> HIDE DEF t
<1>6. \A i \in Items : i # t => index'[i] = index[i]
  BY <1>1 DEF OutboxTypeOK
<1>7. index'[t] \in {index[t], doc[w]} /\ (applied => index'[t] = doc[w])
  BY <1>1, <1>3 DEF OutboxTypeOK
<1>8. SettledIsIndexed'
  BY <1>1, <1>2, <1>4, <1>5, <1>6, <1>7 DEF IndexInv, SettledIsIndexed
<1>9. DocCurrent'
  BY <1>1, <1>2 DEF IndexInv, DocCurrent, Target, IsLatest
<1>10. WrittenIsIndexed'
  BY <1>1, <1>7 DEF WrittenIsIndexed, Target, t
<1>11. IndexStep
  <2>1. CASE t \in Unsettled /\ applied
    <3>1. Derived!WriteIndex(t, doc[w])
      BY <1>1, <1>2, <2>1 DEF Derived!WriteIndex
    <3> QED
      BY <1>3, <3>1 DEF IndexStep, Derived!IndexNext
  <2>2. CASE ~(t \in Unsettled /\ applied)
    <3>1. index' = index
      BY <1>1, <1>3, <1>4, <1>5, <2>2 DEF OutboxTypeOK
    <3> QED
      BY <1>1, <1>2, <3>1 DEF IndexStep, Derived!indexVars
  <2> QED
    BY <2>1, <2>2
<1> QED
  BY <1>8, <1>9, <1>10, <1>11 DEF IndexInv

\* The row that is marked done is the latest of its item, or says nothing.
LEMMA DoneStep ==
  ASSUME OutboxTypeOK, IndexInv, \A v, w \in Processes : v = w,
         NEW w \in Processes, Finish(w, TRUE), pc[w] = "written",
         HeldBy(current[w], OwnerOf[w])
  PROVE  IndexInv' /\ IndexStep
<1> DEFINE k == current[w]
           t == Target(w)
<1>1. /\ log' = log /\ visible' = visible /\ index' = index
      /\ pc'[w] \notin {"loaded", "written"}
      /\ k \in DOMAIN log
  BY DEF Finish, NextEntry, pubVars, OutboxTypeOK
<1>2. /\ Rewritten(rows', DoneRows \cup {k})
      /\ k \notin DoneRows
  BY <1>1, FinishedFacts DEF Finish
<1>3. \A j \in DOMAIN log :
        /\ j # k => (rows'[j].state = "done" <=> rows[j].state = "done")
        /\ j = k => rows'[j].state = "done" /\ rows[j].state # "done"
  BY <1>1, <1>2 DEF Rewritten, DoneRows
<1>4. t = log[k].target /\ t \in Items
  <2>1. log[k] \in Request
    BY <1>1 DEF OutboxTypeOK, PubTypeOK
  <2> QED
    BY <2>1 DEF Request, Target
<1>5. index[t] = doc[w]
  BY DEF IndexInv, WrittenIsIndexed
<1>6. IsLatest(k) => doc[w] = visible[t]
  BY DEF IndexInv, DocCurrent
<1>7. DocCurrent' /\ WrittenIsIndexed'
  BY <1>1 DEF DocCurrent, WrittenIsIndexed
<1> HIDE DEF k, t
<1>8. \A j \in DOMAIN log : IsLatest(j)' <=> IsLatest(j)
  BY <1>1 DEF IsLatest
<1>9. CASE IsLatest(k)
  <2>1. \A j \in DOMAIN log : IsLatest(j) /\ log[j].target = t => j = k
    BY <1>1, <1>4, <1>9 DEF IsLatest, OutboxTypeOK, PubTypeOK
  <2>2. Unsettled' = Unsettled \ {t} /\ t \in Unsettled
    <3>1. t \in Unsettled
      BY <1>1, <1>3, <1>4, <1>9 DEF Unsettled
    <3>2. \A i : i \in Unsettled' <=>
                  \E j \in DOMAIN log : /\ IsLatest(j) /\ log[j].target = i
                                       /\ rows'[j].state # "done"
      BY <1>1, <1>8 DEF Unsettled
    <3>3. \A i : i \in Unsettled' <=> i \in Unsettled /\ i # t
      BY <1>3, <1>4, <2>1, <3>2, UnsettledMeans
    <3> QED
      BY <3>1, <3>3
  <2>3. SettledIsIndexed'
    BY <1>1, <1>5, <1>6, <1>9, <2>2 DEF IndexInv, SettledIsIndexed
  <2>4. Derived!Settle(t)
    BY <1>1, <1>5, <1>6, <1>9, <2>2 DEF Derived!Settle
  <2> QED
    BY <1>4, <1>7, <2>3, <2>4 DEF IndexInv, IndexStep, Derived!IndexNext
<1>10. CASE ~IsLatest(k)
  <2>1. Unsettled' = Unsettled
    <3>1. \A i : i \in Unsettled' <=>
                  \E j \in DOMAIN log : /\ IsLatest(j) /\ log[j].target = i
                                       /\ rows'[j].state # "done"
      BY <1>1, <1>8 DEF Unsettled
    <3>2. \A i : i \in Unsettled' <=> i \in Unsettled
      BY <1>3, <1>10, <3>1, UnsettledMeans
    <3> QED
      BY <3>2
  <2>2. SettledIsIndexed'
    BY <1>1, <2>1 DEF IndexInv, SettledIsIndexed
  <2> QED
    BY <1>1, <1>7, <2>1, <2>2 DEF IndexInv, IndexStep, Derived!indexVars
<1> QED
  BY <1>9, <1>10

LEMMA ChangeStep ==
  ASSUME OutboxTypeOK, IndexInv, NEW i \in Items, Change(i)
  PROVE  IndexInv' /\ IndexStep
<1> DEFINE n == Len(log) + 1
<1>1. /\ visible' = [visible EXCEPT ![i] = ~visible[i]]
      /\ Len(log) \in Nat
      /\ DOMAIN log = 1 .. Len(log)
      /\ DOMAIN log' = 1 .. n
      /\ \A k \in 1 .. Len(log) : log'[k] = log[k] /\ rows'[k] = rows[k]
      /\ log'[n].target = i
      /\ rows'[n].state = "pending"
      /\ index' = index /\ pc' = pc /\ current' = current /\ doc' = doc
  <2>1. NewRow.state = "pending"
    BY DEF NewRow
  <2>2. index' = index /\ pc' = pc /\ current' = current /\ doc' = doc
    BY DEF Change, processVars
  <2> QED
    BY <2>1, <2>2, ChangeFacts
<1>2. PICK m \in Nat : m = n
  BY <1>1
<1>3. IsLatest(m)'
  BY <1>1, <1>2 DEF IsLatest
<1>4. \A k \in DOMAIN log : IsLatest(k)' <=> IsLatest(k) /\ log[k].target # i
  BY <1>1 DEF IsLatest
<1> HIDE DEF n
<1>5. \A j : j \in Unsettled' <=>
            \E k \in DOMAIN log' : IsLatest(k)' /\ log'[k].target = j /\ rows'[k].state # "done"
  BY DEF Unsettled
<1>6. DOMAIN log' = DOMAIN log \cup {m} /\ m \notin DOMAIN log
  BY <1>1, <1>2 DEF n
<1>7. Unsettled' = Unsettled \cup {i}
  <2>1. rows'[m].state # "done" /\ log'[m].target = i
    BY <1>1, <1>2
  <2>2. i \in Unsettled'
    BY <1>3, <1>5, <1>6, <2>1
  <2>3. ASSUME NEW j, j # i, j \in Unsettled
        PROVE  j \in Unsettled'
    <3>1. PICK k \in DOMAIN log : IsLatest(k) /\ log[k].target = j /\ rows[k].state # "done"
      BY <2>3, UnsettledMeans
    <3>2. log'[k].target = j /\ rows'[k].state # "done" /\ IsLatest(k)'
      BY <1>1, <1>4, <2>3, <3>1
    <3> QED
      BY <1>5, <1>6, <3>2
  <2>4. ASSUME NEW j, j # i, j \in Unsettled'
        PROVE  j \in Unsettled
    <3>1. PICK k \in DOMAIN log' : IsLatest(k)' /\ log'[k].target = j /\ rows'[k].state # "done"
      BY <1>5, <2>4
    <3>2. k \in DOMAIN log
      BY <1>6, <2>1, <2>4, <3>1
    <3>3. log[k].target = j /\ rows[k].state # "done" /\ IsLatest(k)
      BY <1>1, <1>4, <3>1, <3>2
    <3> QED
      BY <3>2, <3>3, UnsettledMeans
  <2>5. \A j \in Unsettled : j \in Unsettled'
    BY <2>2, <2>3
  <2> QED
    BY <2>2, <2>4, <2>5
<1>8. \A j \in Items : j # i => visible'[j] = visible[j]
  BY <1>1 DEF OutboxTypeOK, PubTypeOK
<1>9. SettledIsIndexed'
  BY <1>1, <1>7, <1>8 DEF IndexInv, SettledIsIndexed
<1>10. ASSUME NEW w \in Processes, pc[w] \in {"loaded", "written"}
       PROVE  /\ current[w] \in DOMAIN log
              /\ Target(w)' = Target(w)
              /\ Target(w) \in Items
  <2>1. current[w] \in DOMAIN log
    BY <1>10 DEF OutboxTypeOK
  <2>2. log[current[w]] \in Request
    BY <2>1 DEF OutboxTypeOK, PubTypeOK
  <2> QED
    BY <1>1, <2>1, <2>2 DEF Target, Request
<1>11. DocCurrent'
  <2> SUFFICES ASSUME NEW w \in Processes, pc[w] \in {"loaded", "written"},
                      Target(w) \notin Unsettled' \/ IsLatest(current[w])'
               PROVE  doc[w] = visible'[Target(w)]
    BY <1>1, <1>10 DEF DocCurrent
  <2>1. Target(w) # i
    BY <1>1, <1>4, <1>7, <1>10 DEF Target
  <2>2. Target(w) \notin Unsettled \/ IsLatest(current[w])
    BY <1>1, <1>4, <1>7, <1>10
  <2> QED
    BY <1>8, <1>10, <2>1, <2>2 DEF IndexInv, DocCurrent
<1>12. WrittenIsIndexed'
  BY <1>1, <1>10 DEF IndexInv, WrittenIsIndexed
<1>13. Derived!ChangeVisibility(i)
  BY <1>1, <1>7 DEF Derived!ChangeVisibility
<1> QED
  BY <1>9, <1>11, <1>12, <1>13 DEF IndexInv, IndexStep, Derived!IndexNext

LEMMA IndexInductive ==
  ASSUME \A v, w \in Processes : v = w
  PROVE  OutboxTypeOK /\ IndexInv /\ [OutboxNext]_outboxVars => IndexInv' /\ IndexStep
<1> SUFFICES ASSUME OutboxTypeOK, IndexInv, [OutboxNext]_outboxVars
             PROVE  IndexInv' /\ IndexStep
  OBVIOUS
<1>0. Rewritten(rows, DoneRows)
  BY RowFacts
<1>1. CASE UNCHANGED outboxVars
  <2>1. Rewritten(rows', DoneRows)
    BY <1>0, <1>1 DEF outboxVars
  <2> QED
    BY <1>1, <2>1, SilentStep DEF outboxVars, processVars
<1>2. ASSUME NEW w \in Processes, NEW executed \in BOOLEAN, NEW replied \in BOOLEAN,
             Recover(w, executed, replied)
      PROVE  IndexInv' /\ IndexStep
  <2>1. rows' = RowsRecovered \/ rows' = rows
    BY <1>2 DEF Recover
  <2>2. Rewritten(rows', DoneRows)
    BY <1>0, <2>1, RecoveredFacts
  <2> QED
    BY <1>2, <2>2, SilentStep DEF Recover, OutboxTypeOK
<1>3. ASSUME NEW w \in Processes, NEW executed \in BOOLEAN, NEW replied \in BOOLEAN,
             ClaimEntries(w, executed, replied)
      PROVE  IndexInv' /\ IndexStep
  <2>1. rows' = RowsClaimed(OwnerOf[w]) \/ rows' = rows
    BY <1>3 DEF ClaimEntries
  <2>2. Rewritten(rows', DoneRows)
    BY <1>0, <2>1, ClaimedFacts, OutboxAssumption
  <2> QED
    BY <1>3, <2>2, SilentStep DEF ClaimEntries, OutboxTypeOK
<1>4. ASSUME NEW w \in Processes, NEW k \in batch[w], LoadFails(w, k)
      PROVE  IndexInv' /\ IndexStep
  BY <1>4, SilentStep, RowFacts DEF LoadFails, NextEntry, OutboxTypeOK
<1>5. ASSUME NEW w \in Processes, NEW executed \in BOOLEAN, Finish(w, executed)
      PROVE  IndexInv' /\ IndexStep
  <2>1. CASE executed /\ pc[w] = "written" /\ HeldBy(current[w], OwnerOf[w])
    BY <1>5, <2>1, DoneStep
  <2>2. CASE ~(executed /\ pc[w] = "written" /\ HeldBy(current[w], OwnerOf[w]))
    <3>1. current[w] \in DOMAIN log
      BY <1>5 DEF Finish, OutboxTypeOK
    <3>2. Rewritten(rows', DoneRows)
      BY <1>5, <2>2, <3>1, RowFacts, FinishedFacts DEF Finish
    <3> QED
      BY <1>5, <3>2, SilentStep DEF Finish, NextEntry, OutboxTypeOK
  <2> QED
    BY <2>1, <2>2
<1>6. ASSUME NEW k \in DOMAIN rows, ExpireLease(k) \/ BackoffEnds(k)
      PROVE  IndexInv' /\ IndexStep
  <2>1. OutboxTypeOK' /\ rows'[k].state = rows[k].state
         /\ \A j \in DOMAIN rows : j # k => rows'[j] = rows[j]
    <3>1. k \in DOMAIN log /\ Typed(rows[k])
      BY RowFacts
    <3>2. /\ [rows[k] EXCEPT !.lease = "expired"].state = rows[k].state
          /\ [rows[k] EXCEPT !.due = TRUE].state = rows[k].state
      BY <3>1 DEF Typed, RowState
    <3>3. \E row : row.state = rows[k].state /\ rows' = [rows EXCEPT ![k] = row]
      BY <1>6, <3>2 DEF ExpireLease, BackoffEnds
    <3>4. OutboxTypeOK'
      BY <1>6, TimeTypes
    <3> QED
      BY <3>1, <3>3, <3>4, RowFacts DEF OutboxTypeOK
  <2>2. Rewritten(rows', DoneRows)
    BY <1>6, <2>1, RowFacts DEF Rewritten, DoneRows, OutboxTypeOK, ExpireLease, BackoffEnds, pubVars
  <2> QED
    BY <1>6, <2>2, SilentStep DEF ExpireLease, BackoffEnds, processVars
<1>7. ASSUME NEW w \in Processes, Crash(w)
      PROVE  IndexInv' /\ IndexStep
  <2>1. Rewritten(rows', DoneRows)
    BY <1>0, <1>7 DEF Crash
  <2> QED
    BY <1>7, <2>1, SilentStep DEF Crash, OutboxTypeOK
<1>8. CASE Fault
  <2>1. Rewritten(rows', DoneRows)
    BY <1>0, <1>8 DEF Fault
  <2> QED
    BY <1>8, <2>1, SilentStep DEF Fault, processVars
<1> QED
  BY <1>1, <1>2, <1>3, <1>4, <1>5, <1>6, <1>7, <1>8, LoadStep, WriteStep, ChangeStep
  DEF OutboxNext, Step

(***************************************************************************)
(* With one process, what the outbox calls settled is right in the index:  *)
(* whatever is republished, hidden, retried, refused or crashed meanwhile. *)
(***************************************************************************)
THEOREM SettledCorrect ==
  ASSUME \A v, w \in Processes : v = w
  PROVE  OutboxSpec => []SettledIsIndexed
<1>1. OutboxInit => IndexInv
  BY DEF OutboxInit, PubInit, IndexInv, SettledIsIndexed, DocCurrent, WrittenIsIndexed
<1>2. OutboxTypeOK /\ IndexInv /\ [OutboxNext]_outboxVars => IndexInv'
  BY IndexInductive
<1>3. IndexInv => SettledIsIndexed
  BY DEF IndexInv
<1>4. QED
  BY <1>1, <1>2, <1>3, OutboxTypeCorrect, PTL DEF OutboxSpec

(***************************************************************************)
(* With one process, the worker and the outbox implement DerivedIndex.     *)
(***************************************************************************)
THEOREM ImplementsDerivedIndex ==
  ASSUME \A v, w \in Processes : v = w
  PROVE  OutboxSpec => IndexSpec
<1>1. OutboxInit => IndexInv
  BY DEF OutboxInit, PubInit, IndexInv, SettledIsIndexed, DocCurrent, WrittenIsIndexed
<1>2. OutboxInit => Derived!IndexInit
  BY DEF OutboxInit, PubInit, Derived!IndexInit, Unsettled
<1>3. OutboxTypeOK /\ IndexInv /\ [OutboxNext]_outboxVars
        => IndexInv' /\ [Derived!IndexNext]_(Derived!indexVars)
  BY IndexInductive DEF IndexStep
<1>4. QED
  BY <1>1, <1>2, <1>3, OutboxTypeCorrect, PTL DEF OutboxSpec, IndexSpec, Derived!IndexSpec
=============================================================================
