---------------------------- MODULE RequestsProofs ----------------------------
(***************************************************************************)
(* Proofs about what runs in the request executor, for any event loops,     *)
(* threads, jobs, users, questions and depths: votes, and the requests that *)
(* hash a password.                                                         *)
(*                                                                         *)
(* Those of the votes rest on the row lock: at most one transaction has a   *)
(* question, so what it read of the question is still true when it commits. *)
(*                                                                         *)
(* What each pool of threads promises by itself it keeps when the threads   *)
(* of the one call the other; and a thread that is inside Run is serving a  *)
(* request, so what is queued or hashed is for a request.                   *)
(***************************************************************************)
EXTENDS VoteRequests, AuthRequests, RequestExecutorProofs


-----------------------------------------------------------------------------
(* The votes. *)

\* A score that was computed and not yet committed counts the votes that its
\* transaction sees.
DraftCounts ==
  \A w \in Workers : pc[w] \in {"scored", "answered"} =>
    \A u \in DOMAIN draft[w] : draft[w][u] = Seen(w)[u]

\* A locked question stays published.
LockedIsPublished ==
  \A w \in Workers : InTransaction(w) => published[req[w].question]

VotesInv == TypeOK /\ EveryVoteCounts /\ DraftCounts /\ LockedIsPublished

LEMMA EmptyScore == NoScore \in Scores /\ DOMAIN NoScore = {}
<1>1. NoScore \in [{} -> Values \cup {0}]
  BY DEF NoScore
<1> QED
  BY <1>1 DEF NoScore, Scores

LEMMA VotesInit == Init => VotesInv
<1> SUFFICES ASSUME Init PROVE VotesInv
  OBVIOUS
<1>1. TypeOK
  BY EmptyScore DEF Init, TypeOK, NoVotes, InTransaction
<1>2. EveryVoteCounts
  BY EmptyScore DEF Init, EveryVoteCounts
<1> QED
  BY <1>1, <1>2 DEF Init, VotesInv, DraftCounts, LockedIsPublished, InTransaction

\* A worker that ends its request leaves no trace but what it committed.
LEMMA EndTypes ==
  ASSUME TypeOK, NEW w \in Workers, End(w)
  PROVE  /\ pc' = [pc EXCEPT ![w] = "idle"]
         /\ pc' \in [Workers -> {"idle", "authenticated", "locked", "voted", "scored", "answered"}]
         /\ req' \in [Workers -> Request \cup {None}]
         /\ draft' \in [Workers -> Scores]
         /\ \A v \in Workers : pc'[v] = "idle" <=> req'[v] = None
         /\ \A v \in Workers : v # w =>
              pc'[v] = pc[v] /\ req'[v] = req[v] /\ draft'[v] = draft[v]
         /\ pc'[w] = "idle"
  BY EmptyScore DEF End, Goto, TypeOK

\* What a step of w does not change for other workers, and what follows.
LEMMA VotesMove ==
  ASSUME VotesInv, NEW w \in Workers,
         UNCHANGED <<active, published, votes, score, req>>,
         pc[w] # "idle",
         NEW there \in {"locked", "voted", "scored", "answered"}, Goto(w, there),
         InTransaction(w),
         draft' \in [Workers -> Scores],
         \A v \in Workers : v # w => draft'[v] = draft[v],
         there \in {"scored", "answered"} =>
           \A u \in DOMAIN draft'[w] : draft'[w][u] = Seen(w)[u]
  PROVE  VotesInv'
<1>1. /\ pc'[w] = there
      /\ \A v \in Workers : v # w => pc'[v] = pc[v]
      /\ pc' \in [Workers -> {"idle", "authenticated", "locked", "voted", "scored", "answered"}]
      /\ \A v \in Workers : Seen(v)' = Seen(v)
  BY DEF VotesInv, TypeOK, Goto, Seen
<1>2. \A v \in Workers : InTransaction(v)' <=> InTransaction(v)
  BY <1>1 DEF InTransaction
<1>3. TypeOK'
  BY <1>1, <1>2 DEF VotesInv, TypeOK
<1>4. EveryVoteCounts'
  BY DEF VotesInv, EveryVoteCounts
<1>5. DraftCounts'
  BY <1>1 DEF VotesInv, DraftCounts
<1>6. LockedIsPublished'
  BY <1>2 DEF VotesInv, LockedIsPublished
<1> QED
  BY <1>3, <1>4, <1>5, <1>6 DEF VotesInv

\* A request that ends without a commit.
LEMMA VotesEnd ==
  ASSUME VotesInv, NEW w \in Workers, End(w), UNCHANGED <<active, published, votes, score>>
  PROVE  VotesInv'
<1>1. TypeOK
  BY DEF VotesInv
<1>2. /\ pc' \in [Workers -> {"idle", "authenticated", "locked", "voted", "scored", "answered"}]
      /\ req' \in [Workers -> Request \cup {None}]
      /\ draft' \in [Workers -> Scores]
      /\ \A v \in Workers : pc'[v] = "idle" <=> req'[v] = None
      /\ \A v \in Workers : v # w =>
           pc'[v] = pc[v] /\ req'[v] = req[v] /\ draft'[v] = draft[v]
      /\ pc'[w] = "idle"
  BY <1>1, EndTypes
<1>3. /\ ~InTransaction(w)'
      /\ \A v \in Workers : v # w => (InTransaction(v)' <=> InTransaction(v)) /\ Seen(v)' = Seen(v)
  BY <1>2 DEF InTransaction, Seen
<1>4. TypeOK'
  BY <1>1, <1>2, <1>3 DEF TypeOK
<1>5. EveryVoteCounts'
  BY DEF VotesInv, EveryVoteCounts
<1>6. DraftCounts' /\ LockedIsPublished'
  BY <1>2, <1>3 DEF VotesInv, DraftCounts, LockedIsPublished
<1> QED
  BY <1>4, <1>5, <1>6 DEF VotesInv

LEMMA VotesAuthenticate ==
  ASSUME VotesInv, NEW w \in Workers, Authenticate(w)
  PROVE  VotesInv'
<1>1. PICK r \in Request : req' = [req EXCEPT ![w] = r]
  BY DEF Authenticate
<1>2. /\ UNCHANGED <<active, published, votes, score, draft>>
      /\ pc[w] = "idle" /\ pc' = [pc EXCEPT ![w] = "authenticated"]
  BY DEF Authenticate, Goto
<1>3. /\ pc'[w] = "authenticated" /\ req'[w] = r /\ r # None
      /\ \A v \in Workers : v # w => pc'[v] = pc[v] /\ req'[v] = req[v]
  BY <1>1, <1>2, VotesAssumption DEF VotesInv, TypeOK
<1>4. /\ ~InTransaction(w)'
      /\ \A v \in Workers : v # w => (InTransaction(v)' <=> InTransaction(v)) /\ Seen(v)' = Seen(v)
  BY <1>2, <1>3 DEF InTransaction, Seen
<1>5. TypeOK'
  BY <1>1, <1>2, <1>3, <1>4 DEF VotesInv, TypeOK
<1>6. EveryVoteCounts'
  BY <1>2 DEF VotesInv, EveryVoteCounts
<1>7. DraftCounts' /\ LockedIsPublished'
  BY <1>2, <1>3, <1>4 DEF VotesInv, DraftCounts, LockedIsPublished
<1> QED
  BY <1>5, <1>6, <1>7 DEF VotesInv

LEMMA VotesSelect ==
  ASSUME VotesInv, NEW w \in Workers, Select(w)
  PROVE  VotesInv'
<1> DEFINE q == req[w].question
<1>1. pc[w] = "authenticated" /\ UNCHANGED <<active, published, votes, score>>
  BY DEF Select
<1>2. CASE ~(published[q] /\ Author[q] # req[w].user)
  BY <1>1, <1>2, VotesEnd DEF Select
<1>3. CASE published[q] /\ Author[q] # req[w].user
  <2>1. /\ Goto(w, "locked") /\ UNCHANGED <<req, draft>>
        /\ \A v \in Workers : ~Holds(v, q)
    BY <1>3 DEF Select
  <2>2. /\ pc'[w] = "locked"
        /\ \A v \in Workers : v # w => pc'[v] = pc[v]
        /\ \A v \in Workers : Seen(v)' = Seen(v)
        /\ pc' \in [Workers -> {"idle", "authenticated", "locked", "voted", "scored", "answered"}]
    BY <1>1, <2>1 DEF VotesInv, TypeOK, Goto, Seen
  <2>3. /\ InTransaction(w)'
        /\ \A v \in Workers : v # w => (InTransaction(v)' <=> InTransaction(v))
    BY <2>2 DEF InTransaction
  <2>4. TypeOK'
    <3>1. \A v \in Workers : v # w /\ InTransaction(v)' => req[v].question # req[w].question
      BY <2>1, <2>3 DEF Holds
    <3>2. \A u, v \in Workers :
            InTransaction(u)' /\ InTransaction(v)' /\ req'[u].question = req'[v].question => u = v
      BY <2>1, <2>3, <3>1 DEF VotesInv, TypeOK
    <3> QED
      BY <1>1, <2>1, <2>2, <3>2 DEF VotesInv, TypeOK
  <2>5. EveryVoteCounts'
    BY <1>1 DEF VotesInv, EveryVoteCounts
  <2>6. DraftCounts'
    BY <2>1, <2>2 DEF VotesInv, DraftCounts
  <2>7. LockedIsPublished'
    BY <1>1, <1>3, <2>1, <2>3 DEF VotesInv, LockedIsPublished
  <2> QED
    BY <2>4, <2>5, <2>6, <2>7 DEF VotesInv
<1> QED
  BY <1>2, <1>3

LEMMA VotesRefresh ==
  ASSUME VotesInv, NEW w \in Workers, Refresh(w)
  PROVE  VotesInv'
<1> DEFINE counted == [u \in {v \in Users : active[v]} |-> Seen(w)[u]]
<1>1. /\ UNCHANGED <<active, published, votes, score, req>>
      /\ pc[w] = "voted" /\ Goto(w, "scored")
      /\ draft' = [draft EXCEPT ![w] = counted]
  BY DEF Refresh
<1>2. req[w] \in Request
  BY <1>1 DEF VotesInv, TypeOK
<1>3. Seen(w) \in [Users -> Values \cup {0}]
  BY <1>2 DEF VotesInv, TypeOK, Seen, Request
<1>4. counted \in Scores
  <2>1. counted \in [{v \in Users : active[v]} -> Values \cup {0}]
    BY <1>3
  <2> QED
    BY <2>1 DEF Scores
<1>5. /\ draft' \in [Workers -> Scores]
      /\ draft'[w] = counted
      /\ \A v \in Workers : v # w => draft'[v] = draft[v]
  BY <1>1, <1>4 DEF VotesInv, TypeOK
<1>6. \A u \in DOMAIN counted : counted[u] = Seen(w)[u]
  OBVIOUS
<1> HIDE DEF counted
<1> QED
  BY <1>1, <1>5, <1>6, VotesMove DEF InTransaction

\* The commit of w: only w has the question, so the votes are those its score
\* was computed from.
LEMMA VotesCommit ==
  ASSUME VotesInv, NEW w \in Workers, Commit(w)
  PROVE  VotesInv'
<1> DEFINE q == req[w].question
<1>1. /\ pc[w] = "answered" /\ InTransaction(w)
      /\ votes' = [votes EXCEPT ![q] = Seen(w)]
      /\ score' = [score EXCEPT ![q] = draft[w]]
      /\ End(w)
      /\ UNCHANGED <<active, published>>
  BY DEF Commit, InTransaction
<1>2. TypeOK /\ req[w] \in Request /\ q \in Questions
  BY <1>1 DEF VotesInv, TypeOK, Request
<1>3. /\ pc' \in [Workers -> {"idle", "authenticated", "locked", "voted", "scored", "answered"}]
      /\ req' \in [Workers -> Request \cup {None}]
      /\ draft' \in [Workers -> Scores]
      /\ \A v \in Workers : pc'[v] = "idle" <=> req'[v] = None
      /\ \A v \in Workers : v # w =>
           pc'[v] = pc[v] /\ req'[v] = req[v] /\ draft'[v] = draft[v]
      /\ pc'[w] = "idle"
  BY <1>1, <1>2, EndTypes
<1>4. /\ ~InTransaction(w)'
      /\ \A v \in Workers : v # w => (InTransaction(v)' <=> InTransaction(v))
  BY <1>3 DEF InTransaction
<1>5. Seen(w) \in [Users -> Values \cup {0}]
  BY <1>2 DEF TypeOK, Seen, Request
<1>6. /\ votes' \in [Questions -> [Users -> Values \cup {0}]]
      /\ score' \in [Questions -> Scores]
      /\ votes'[q] = Seen(w) /\ score'[q] = draft[w]
      /\ \A p \in Questions : p # q => votes'[p] = votes[p] /\ score'[p] = score[p]
  BY <1>1, <1>2, <1>5 DEF TypeOK
<1>7. TypeOK'
  BY <1>1, <1>2, <1>3, <1>4, <1>6 DEF TypeOK
<1>8. EveryVoteCounts'
  <2>1. \A u \in DOMAIN draft[w] : draft[w][u] = Seen(w)[u]
    BY <1>1 DEF VotesInv, DraftCounts
  <2> HIDE DEF q
  <2> QED
    BY <1>6, <2>1 DEF VotesInv, EveryVoteCounts
<1>9. DraftCounts'
  <2> SUFFICES ASSUME NEW v \in Workers, pc'[v] \in {"scored", "answered"},
                      NEW u \in DOMAIN draft'[v]
               PROVE  draft'[v][u] = Seen(v)'[u]
    BY DEF DraftCounts
  <2>1. v # w /\ InTransaction(v)
    BY <1>3 DEF InTransaction
  <2>2. req[v].question # q /\ req[v] \in Request
    BY <1>1, <1>2, <2>1 DEF TypeOK, InTransaction
  <2>3. votes'[req[v].question] = votes[req[v].question]
    BY <1>6, <2>2 DEF Request
  <2>4. Seen(v)' = Seen(v)
    BY <1>3, <2>1, <2>3 DEF Seen
  <2> QED
    BY <1>3, <2>1, <2>4 DEF VotesInv, DraftCounts
<1>10. LockedIsPublished'
  BY <1>1, <1>3, <1>4 DEF VotesInv, LockedIsPublished
<1> QED
  BY <1>7, <1>8, <1>9, <1>10 DEF VotesInv

LEMMA VotesNext == VotesInv /\ [Next]_vars => VotesInv'
<1> SUFFICES ASSUME VotesInv, [Next]_vars PROVE VotesInv'
  OBVIOUS
<1>1. ASSUME NEW w \in Workers, Vote(w) PROVE VotesInv'
  <2>1. draft' \in [Workers -> Scores] /\ UNCHANGED draft
    BY <1>1 DEF Vote, VotesInv, TypeOK
  <2> QED
    BY <1>1, <2>1, VotesMove DEF Vote, InTransaction
<1>2. ASSUME NEW w \in Workers, Answer(w) PROVE VotesInv'
  <2>1. draft' \in [Workers -> Scores] /\ UNCHANGED draft
    BY <1>2 DEF Answer, VotesInv, TypeOK
  <2>2. \A u \in DOMAIN draft'[w] : draft'[w][u] = Seen(w)[u]
    BY <1>2, <2>1 DEF Answer, VotesInv, DraftCounts
  <2> QED
    BY <1>2, <2>1, <2>2, VotesMove DEF Answer, InTransaction
<1>3. ASSUME NEW w \in Workers, RollBack(w) PROVE VotesInv'
  BY <1>3, VotesEnd DEF RollBack
<1>4. ASSUME NEW q \in Questions, Moderate(q) PROVE VotesInv'
  <2>1. /\ UNCHANGED <<active, votes, score, pc, req, draft>>
        /\ published' = [published EXCEPT ![q] = ~@]
        /\ \A w \in Workers : InTransaction(w) => req[w].question # q
    BY <1>4 DEF Moderate, Holds
  <2>2. /\ \A w \in Workers : InTransaction(w)' <=> InTransaction(w)
        /\ \A w \in Workers : Seen(w)' = Seen(w)
    BY <2>1 DEF InTransaction, Seen
  <2>3. TypeOK'
    BY <2>1, <2>2 DEF VotesInv, TypeOK
  <2>4. EveryVoteCounts' /\ DraftCounts'
    BY <2>1, <2>2 DEF VotesInv, EveryVoteCounts, DraftCounts
  <2>5. LockedIsPublished'
    BY <2>1, <2>2 DEF VotesInv, TypeOK, LockedIsPublished
  <2> QED
    BY <2>3, <2>4, <2>5 DEF VotesInv
<1>5. CASE (\E u \in Users : ChangeStatus(u)) \/ UNCHANGED vars
  <2>1. /\ UNCHANGED <<published, votes, score, pc, req, draft>>
        /\ active' \in [Users -> BOOLEAN]
    BY <1>5 DEF ChangeStatus, vars, VotesInv, TypeOK
  <2>2. /\ \A w \in Workers : InTransaction(w)' <=> InTransaction(w)
        /\ \A w \in Workers : Seen(w)' = Seen(w)
    BY <2>1 DEF InTransaction, Seen
  <2>3. TypeOK'
    BY <2>1, <2>2 DEF VotesInv, TypeOK
  <2>4. EveryVoteCounts' /\ DraftCounts' /\ LockedIsPublished'
    BY <2>1, <2>2 DEF VotesInv, EveryVoteCounts, DraftCounts, LockedIsPublished
  <2> QED
    BY <2>3, <2>4 DEF VotesInv
<1> QED
  BY <1>1, <1>2, <1>3, <1>4, <1>5, VotesAuthenticate, VotesSelect, VotesRefresh, VotesCommit
  DEF Next

LEMMA VotesInvariant == Spec => []VotesInv
<1>1. Init => VotesInv
  BY VotesInit
<1>2. VotesInv /\ [Next]_vars => VotesInv'
  BY VotesNext
<1> QED
  BY <1>1, <1>2, PTL DEF Spec

\* Type correctness, and one transaction at most on a question.
THEOREM VotesTypeCorrect == Spec => []TypeOK
<1>1. VotesInv => TypeOK
  BY DEF VotesInv
<1> QED
  BY <1>1, VotesInvariant, PTL

\* However votes interleave and fail, every vote of an account that was active
\* when the score was computed is in it.
THEOREM ScoresCorrect == Spec => []EveryVoteCounts
<1>1. VotesInv => EveryVoteCounts
  BY DEF VotesInv
<1> QED
  BY <1>1, VotesInvariant, PTL

\* What the voter is told counts the vote.
THEOREM AnswersCountVotes == Spec => []AnswerCountsTheVote
<1>1. VotesInv => AnswerCountsTheVote
  <2> SUFFICES ASSUME VotesInv, NEW w \in Workers, pc[w] = "answered",
                      req[w].user \in DOMAIN draft[w]
               PROVE  draft[w][req[w].user] = req[w].value
    BY DEF AnswerCountsTheVote
  <2>1. draft[w][req[w].user] = Seen(w)[req[w].user]
    BY DEF VotesInv, DraftCounts
  <2>2. req[w] \in Request
    BY DEF VotesInv, TypeOK
  <2>3. votes[req[w].question] \in [Users -> Values \cup {0}] /\ req[w].user \in Users
    BY <2>2 DEF VotesInv, TypeOK, Request
  <2> QED
    BY <2>1, <2>3 DEF Seen
<1> QED
  BY <1>1, VotesInvariant, PTL

\* A vote is stored only while its question is published.
THEOREM VotesNeedPublication == Spec => VotesOnlyOnPublished
<1>1. VotesInv /\ [Next]_vars =>
        [\A q \in Questions : votes'[q] # votes[q] => published[q]]_vars
  <2> SUFFICES ASSUME VotesInv, [Next]_vars, NEW q \in Questions, votes'[q] # votes[q]
               PROVE  published[q]
    OBVIOUS
  <2>1. PICK w \in Workers : Commit(w)
    BY DEF Next, vars, Authenticate, Select, Vote, Refresh, Answer, RollBack,
           Moderate, ChangeStatus
  <2>2. InTransaction(w) /\ votes' = [votes EXCEPT ![req[w].question] = Seen(w)]
    BY <2>1 DEF Commit, InTransaction
  <2>3. q = req[w].question
    BY <2>2 DEF VotesInv, TypeOK
  <2> QED
    BY <2>2, <2>3 DEF VotesInv, LockedIsPublished
<1> QED
  BY <1>1, VotesInvariant, PTL DEF Spec, VotesOnlyOnPublished

-----------------------------------------------------------------------------
(* The executor and the votes it runs. *)

\* Between two jobs a thread is in no handler.
HandlerIsAJob == \A w \in Workers : pc[w] # "idle" => Running(w)

\* A step of the whole is a step of the executor and a step of the votes.
LEMMA RequestsStepIsBoth ==
  ASSUME [RequestsNext]_requestVars
  PROVE  [ExecutorNext]_executorVars /\ [Next]_vars
<1>1. CASE UNCHANGED requestVars
  BY <1>1 DEF requestVars
<1>2. CASE Executor
  BY <1>2 DEF Executor, ExecutorNext, Worker
<1>3. CASE Others
  BY <1>3 DEF Others, Next
<1>4. ASSUME NEW w \in Threads, Serve(w)
      PROVE  [ExecutorNext]_executorVars /\ [Next]_vars
  <2>1. w \in Workers
    BY RequestsAssumption
  <2>2. CASE TurnAway(w)
    BY <2>2 DEF TurnAway, ExecutorNext, Worker
  <2>3. CASE Statement(w)
    BY <2>1, <2>3 DEF Statement, ExecutorNext, Worker, Next
  <2>4. CASE Fail(w)
    BY <2>1, <2>4 DEF Fail, ExecutorNext, Worker, Next
  <2> QED
    BY <1>4, <2>2, <2>3, <2>4 DEF Serve
<1> QED
  BY <1>1, <1>2, <1>3, <1>4, RequestsAssumption DEF RequestsNext

\* The whole is an executor: whatever is proved of the executor by itself holds
\* of the one that runs the handlers.
THEOREM RequestsImplementExecutor == RequestsSpec => ExecutorSpec
<1>1. RequestsInit => ExecutorInit
  BY DEF RequestsInit
<1>2. [RequestsNext]_requestVars => [ExecutorNext]_executorVars
  BY RequestsStepIsBoth
<1> QED
  BY <1>1, <1>2, PTL DEF RequestsSpec, ExecutorSpec

\* And its handlers are voters as DifficultyVotes describes them.
THEOREM RequestsImplementVotes == RequestsSpec => Spec
<1>1. RequestsInit => Init
  BY DEF RequestsInit
<1>2. [RequestsNext]_requestVars => [Next]_vars
  BY RequestsStepIsBoth
<1> QED
  BY <1>1, <1>2, PTL DEF RequestsSpec, Spec

\* A handler that is not at its end goes on in the same thread, with the same job.
LEMMA HandlerKeeps ==
  ASSUME ExecutorTypeOK, TypeOK, HandlerIsAJob, [RequestsNext]_requestVars
  PROVE  HandlerIsAJob'
<1>1. CASE UNCHANGED requestVars
  BY <1>1 DEF requestVars, executorVars, vars, HandlerIsAJob, Running
<1>2. CASE Executor
  <2>1. pc' = pc
    BY <1>2 DEF Executor, vars
  <2>2. \A w \in Threads : Running(w) => Running(w)'
    BY <1>2 DEF Executor, Running, Notify, Submit, Take, Rest, SpuriousWakeup, StopBegins,
                Stopper, StopNotifies, StopJoins, WakeOneWorker, ExecutorTypeOK
  <2> QED
    BY <2>1, <2>2, RequestsAssumption DEF HandlerIsAJob
<1>3. CASE Others
  BY <1>3 DEF Others, executorVars, Moderate, ChangeStatus, HandlerIsAJob, Running
<1>4. ASSUME NEW w \in Threads, Serve(w)
      PROVE  HandlerIsAJob'
  <2>0. w \in Workers
    BY RequestsAssumption
  <2>1. \A v \in Threads : v # w => (Running(v)' <=> Running(v))
    BY <1>4 DEF Serve, TurnAway, Statement, Fail, EndJob, Running, executorVars, ExecutorTypeOK
  <2>2. \A v \in Workers : v # w => pc'[v] = pc[v]
    BY <1>4 DEF Serve, TurnAway, Statement, Fail, vars, Authenticate, Select, Vote, Refresh,
                Answer, Commit, RollBack, End, Goto, TypeOK
  <2>3. pc'[w] # "idle" => Running(w)'
    <3>1. CASE TurnAway(w)
      BY <3>1 DEF TurnAway, vars
    <3>2. CASE Fail(w)
      BY <2>0, <3>2 DEF Fail, RollBack, End, Goto, TypeOK
    <3>3. CASE Statement(w)
      BY <3>3 DEF Statement, executorVars, Running
    <3> QED
      BY <1>4, <3>1, <3>2, <3>3 DEF Serve
  <2> QED
    BY <2>1, <2>2, <2>3, RequestsAssumption DEF HandlerIsAJob
<1> QED
  BY <1>1, <1>2, <1>3, <1>4 DEF RequestsNext

\* When Stop has returned, whatever was under way when it was called, no
\* handler is, and none will be: main may destroy what the handlers use.
THEOREM QuietCorrect == RequestsSpec => []QuietWhenStopped
<1>1. RequestsInit => HandlerIsAJob
  BY DEF RequestsInit, Init, HandlerIsAJob
<1>2. RequestsSpec => []ExecutorInv
  BY RequestsImplementExecutor, ExecutorInvariant, PTL
<1>3. RequestsSpec => []TypeOK
  BY RequestsImplementVotes, VotesTypeCorrect, PTL
<1>4. ExecutorInv => ExecutorTypeOK
  BY DEF ExecutorInv
<1>5. ExecutorInv /\ HandlerIsAJob => QuietWhenStopped
  <2> SUFFICES ASSUME ExecutorInv, HandlerIsAJob, spc = "stopped"
               PROVE  /\ \A w \in Workers : pc[w] = "idle"
                      /\ \A j \in Jobs : fate[j] # "accepted"
    BY DEF QuietWhenStopped
  <2>1. \A w \in Threads : wpc[w] = "exited" /\ job[w] = NoJob
    BY DEF ExecutorInv, StopsInOrder, ExecutorTypeOK, Running
  <2>2. jobs = << >>
    BY <2>1, ExecutorAssumption DEF ExecutorInv, StopsInOrder
  <2>3. \A j \in Jobs : ~Placed(j)
    BY <2>1, <2>2, ExecutorAssumption DEF Placed, Queued
  <2> QED
    BY <2>1, <2>3, RequestsAssumption DEF ExecutorInv, OnePlaceEach, HandlerIsAJob, Running
<1>6. HandlerIsAJob /\ ExecutorTypeOK /\ TypeOK /\ [RequestsNext]_requestVars => HandlerIsAJob'
  BY HandlerKeeps
<1> QED
  BY <1>1, <1>2, <1>3, <1>4, <1>5, <1>6, PTL DEF RequestsSpec

\* What the executor and the votes promise by themselves, they promise together.
THEOREM RequestsCorrect ==
  RequestsSpec => /\ [](AcceptedIsServed /\ EveryVoteCounts /\ AnswerCountsTheVote)
                  /\ VotesOnlyOnPublished
<1> QED
  BY RequestsImplementExecutor, RequestsImplementVotes, ServedCorrect, ScoresCorrect,
     AnswersCountVotes, VotesNeedPublication, PTL

-----------------------------------------------------------------------------
(* The two pools of threads. *)


PoolFacts == INSTANCE PasswordExecutorProofs
  WITH Callers <- Threads, Workers <- Hashers, QueueDepth <- HashQueueDepth,
       queue <- hashQueue, active <- hashing, stopping <- draining,
       wpc <- hasher, job <- hashJob

\* What is proved of the pool by itself.
PoolPromises ==
  /\ Pool!TypeOK /\ Pool!AnswerTellsWhatRan /\ Pool!EveryJobHasOnePlace
  /\ Pool!NoLostWakeup

\* The pool that AuthRequests uses is the one that PoolFacts is about.
LEMMA SamePool ==
  /\ Pool!Init <=> PoolFacts!Init
  /\ [Pool!Next]_(Pool!vars) <=> [PoolFacts!Next]_(PoolFacts!vars)
<1>1. Pool!Init <=> PoolFacts!Init
  BY DEF Pool!Init, PoolFacts!Init
<1>2. UNCHANGED Pool!vars <=> UNCHANGED PoolFacts!vars
  BY DEF Pool!vars, PoolFacts!vars, Pool!callerVars, PoolFacts!callerVars,
         Pool!workerVars, PoolFacts!workerVars
<1>3. Pool!Next <=> PoolFacts!Next
  BY DEF Pool!RemoveAt, PoolFacts!RemoveAt, Pool!Next, PoolFacts!Next, Pool!Push,
         PoolFacts!Push, Pool!Caller, PoolFacts!Caller, Pool!Announce,
         PoolFacts!Announce, Pool!CheckDone, PoolFacts!CheckDone, Pool!TimeOut,
         PoolFacts!TimeOut, Pool!Return, PoolFacts!Return, Pool!WakeOneWorker,
         PoolFacts!WakeOneWorker, Pool!CallerWakes, PoolFacts!CallerWakes, Pool!Worker,
         PoolFacts!Worker, Pool!Claim, PoolFacts!Claim, Pool!Invoke, PoolFacts!Invoke,
         Pool!Complete, PoolFacts!Complete, Pool!NotifyFinished,
         PoolFacts!NotifyFinished, Pool!WorkerWakes, PoolFacts!WorkerWakes,
         Pool!DrainBegins, PoolFacts!DrainBegins, Pool!Drainer, PoolFacts!Drainer,
         Pool!DrainNotifies, PoolFacts!DrainNotifies, Pool!DrainJoins,
         PoolFacts!DrainJoins, Pool!callerVars, PoolFacts!callerVars, Pool!workerVars,
         PoolFacts!workerVars, Pool!Queued, PoolFacts!Queued
<1> QED
  BY <1>1, <1>2, <1>3

LEMMA SamePromises ==
  /\ PoolFacts!TypeOK <=> Pool!TypeOK
  /\ PoolFacts!AnswerTellsWhatRan <=> Pool!AnswerTellsWhatRan
  /\ PoolFacts!EveryJobHasOnePlace <=> Pool!EveryJobHasOnePlace
  /\ PoolFacts!NoLostWakeup <=> Pool!NoLostWakeup
<1> USE DEF Pool!Busy, PoolFacts!Busy, Pool!Queued, PoolFacts!Queued,
            Pool!Claimed, PoolFacts!Claimed
<1>1. PoolFacts!TypeOK <=> Pool!TypeOK
  BY DEF PoolFacts!TypeOK, Pool!TypeOK, PoolFacts!Cardinality, Pool!Cardinality
<1>2. PoolFacts!AnswerTellsWhatRan <=> Pool!AnswerTellsWhatRan
  BY DEF PoolFacts!AnswerTellsWhatRan, Pool!AnswerTellsWhatRan
<1>3. PoolFacts!EveryJobHasOnePlace <=> Pool!EveryJobHasOnePlace
  BY DEF PoolFacts!EveryJobHasOnePlace, Pool!EveryJobHasOnePlace
<1>4. PoolFacts!NoLostWakeup <=> Pool!NoLostWakeup
  BY DEF PoolFacts!NoLostWakeup, Pool!NoLostWakeup, PoolFacts!Cardinality, Pool!Cardinality
<1> QED
  BY <1>1, <1>2, <1>3, <1>4

LEMMA PoolIsAssumed == PoolFacts!PoolAssumption
<1>1. PoolFacts!IsFiniteSet(Hashers)
  BY AuthAssumption DEF IsFiniteSet, PoolFacts!IsFiniteSet
<1> QED
  BY <1>1, AuthAssumption DEF PoolFacts!PoolAssumption

\* Every step is a step of the pool or leaves it alone.
LEMMA PoolSteps == [AuthNext]_authVars => [Pool!Next]_(Pool!vars)
<1> SUFFICES ASSUME [AuthNext]_authVars PROVE [Pool!Next]_(Pool!vars)
  OBVIOUS
<1>1. CASE UNCHANGED poolVars
  BY <1>1 DEF poolVars, Pool!vars, Pool!callerVars, Pool!workerVars
<1>2. ASSUME NEW w \in Threads, Hash(w) \/ Wait(w) PROVE Pool!Next
  BY <1>2 DEF Hash, Wait, Pool!Next
<1>3. ASSUME NEW h \in Hashers, HashWorker(h) PROVE Pool!Next
  BY <1>3 DEF HashWorker, Pool!Next
<1>4. CASE Drain
  BY <1>4 DEF Drain, Pool!Next
<1>5. CASE SpuriousWakeups
  BY <1>1, <1>5 DEF SpuriousWakeups, Pool!Next
<1> QED
  BY <1>1, <1>2, <1>3, <1>4, <1>5
  DEF AuthNext, authVars, TurnLoginAway, TurnRegistrationAway, Refuse, SubmitAuthJob,
      RequestWorker, FindLoginCandidate, FailLogin, AnswerRequest

\* The password executor that request workers call is a PasswordExecutor:
\* nothing they do, and no order in which the two pools stop, is outside of it.
THEOREM AuthImplementsPool == AuthSpec => Pool!Spec
<1>1. AuthInit => Pool!Init
  BY DEF AuthInit
<1>2. [AuthNext]_authVars => [Pool!Next]_(Pool!vars)
  BY PoolSteps
<1> QED
  BY <1>1, <1>2, PTL DEF AuthSpec, Pool!Spec

LEMMA PoolSpecHere == AuthSpec => PoolFacts!Spec
<1>1. Pool!Init => PoolFacts!Init
  BY SamePool
<1>2. [Pool!Next]_(Pool!vars) => [PoolFacts!Next]_(PoolFacts!vars)
  BY SamePool
<1> QED
  BY <1>1, <1>2, AuthImplementsPool, PTL DEF Pool!Spec, PoolFacts!Spec

\* So what Run answers a login or a registration is what became of its hashing.
THEOREM AuthAnswersCorrect == AuthSpec => []PoolPromises
<1>1. PoolFacts!Spec => []PoolFacts!TypeOK
  BY PoolIsAssumed, PoolFacts!PoolTypeCorrect
<1>2. PoolFacts!Spec => []PoolFacts!AnswerTellsWhatRan
  BY PoolIsAssumed, PoolFacts!AnswersCorrect
<1>3. PoolFacts!Spec => []PoolFacts!EveryJobHasOnePlace
  BY PoolIsAssumed, PoolFacts!PlacesCorrect
<1>4. PoolFacts!Spec => []PoolFacts!NoLostWakeup
  BY PoolIsAssumed, PoolFacts!WakeupsCorrect
<1>5. PoolFacts!TypeOK /\ PoolFacts!AnswerTellsWhatRan /\ PoolFacts!EveryJobHasOnePlace
        /\ PoolFacts!NoLostWakeup => PoolPromises
  BY SamePromises DEF PoolPromises
<1> QED
  BY <1>1, <1>2, <1>3, <1>4, <1>5, PoolSpecHere, PTL

-----------------------------------------------------------------------------
(* The request executor, whose jobs may also be turned away before Submit. *)

LEMMA TurnAwayKeeps ==
  ASSUME ExecutorInv, NEW j \in Jobs, Refuse(j)
  PROVE  ExecutorInv'
<1>1. /\ fate[j] = "new" /\ fate' = [fate EXCEPT ![j] = "refused"]
      /\ UNCHANGED <<jobs, lpc, stopping, wpc, job, spc>>
  BY DEF Refuse
<1>2. fate' \in [Jobs -> {"new", "refused", "accepted", "ended"}]
  BY <1>1 DEF ExecutorInv, ExecutorTypeOK
<1>3. ExecutorTypeOK'
  BY <1>1, <1>2 DEF ExecutorInv, ExecutorTypeOK, Running
<1>4. \A i \in Jobs : /\ fate'[i] = "accepted" <=> fate[i] = "accepted"
                      /\ Placed(i)' <=> Placed(i)
  BY <1>1 DEF ExecutorInv, ExecutorTypeOK, Placed, Queued
<1>5. OnePlaceEach'
  BY <1>1, <1>4 DEF ExecutorInv, OnePlaceEach, Queued
<1>6. StopsInOrder'
  BY <1>1 DEF ExecutorInv, StopsInOrder
<1> QED
  BY <1>3, <1>5, <1>6 DEF ExecutorInv

LEMMA ExecutorSteps ==
  ASSUME [AuthNext]_authVars
  PROVE  [ExecutorNext]_executorVars \/ \E j \in Jobs : Refuse(j)
<1>1. CASE UNCHANGED executorVars
  BY <1>1
<1>2. ASSUME NEW w \in Threads, RequestWorker(w)
      PROVE  [ExecutorNext]_executorVars
  BY <1>2 DEF RequestWorker, FindLoginCandidate, FailLogin, Hash, Wait, AnswerRequest, ExecutorNext, Worker
<1>3. CASE SpuriousWakeups
  BY <1>3 DEF SpuriousWakeups, ExecutorNext
<1> QED
  BY <1>1, <1>2, <1>3
  DEF AuthNext, authVars, TurnLoginAway, TurnRegistrationAway, SubmitAuthJob, HashWorker,
      Drain, ExecutorNext

LEMMA AuthExecutorInvariant == AuthSpec => []ExecutorInv
<1>1. AuthInit => ExecutorInv
  BY ExecutorInitInv DEF AuthInit
<1>2. ExecutorInv /\ [AuthNext]_authVars => ExecutorInv'
  BY ExecutorSteps, ExecutorNextInv, TurnAwayKeeps
<1> QED
  BY <1>1, <1>2, PTL DEF AuthSpec

\* No login, no registration and nothing else that was accepted is lost while
\* request workers wait for hashing.
THEOREM AuthServesAccepted == AuthSpec => []AcceptedIsServed
<1> QED
  BY AuthExecutorInvariant, InvServesAccepted, PTL

-----------------------------------------------------------------------------
(* The handlers between the two. *)

\* A handler is somewhere only in a thread that runs a job, and only the one
\* that has come to Run is inside it.
HandlersInRun ==
  /\ place \in [Threads -> {"none", "found", "hash"}]
  /\ \A w \in Threads : place[w] # "none" => Running(w)
  /\ \A w \in Threads : cpc[w] # "idle" => place[w] = "hash"

\* A step of the pool by which nobody enters Run.
LEMMA NobodyEnters ==
  ASSUME PoolPromises, HandlersInRun, ExecutorTypeOK,
         UNCHANGED place,
         \A w \in Threads : cpc'[w] # "idle" => cpc[w] # "idle",
         \A w \in Threads : Running(w) => Running(w)'
  PROVE  HandlersInRun'
  BY DEF HandlersInRun

LEMMA HandlersKeep ==
  ASSUME PoolPromises, HandlersInRun, ExecutorTypeOK, [AuthNext]_authVars
  PROVE  HandlersInRun'
<1>1. cpc \in [Threads -> {"idle", "pushed", "check", "asleep", "lastcheck", "lastsleep"}]
  BY DEF PoolPromises, Pool!TypeOK
<1>2. /\ wpc \in [Threads -> {"check", "asleep", "running", "exited"}]
      /\ place \in [Threads -> {"none", "found", "hash"}]
  BY DEF ExecutorTypeOK, HandlersInRun
<1>3. CASE UNCHANGED <<executorVars, place, poolVars>>
  BY <1>3, NobodyEnters DEF executorVars, poolVars, Running
<1>4. ASSUME UNCHANGED <<place, poolVars>>,
             \/ \E l \in Loops, j \in Jobs : Submit(l, j)
             \/ \E j \in Jobs : Refuse(j)
             \/ \E l \in Loops : Notify(l)
             \/ \E w \in Threads : Take(w) \/ Rest(w) \/ SpuriousWakeup(w)
             \/ StopBegins \/ Stopper
      PROVE  HandlersInRun'
  <2>1. \A w \in Threads : Running(w) => Running(w)'
    BY <1>2, <1>4 DEF Running, Submit, Refuse, Notify, Take, Rest, SpuriousWakeup, StopBegins,
                      Stopper, StopNotifies, StopJoins, WakeOneWorker
  <2> QED
    BY <1>4, <2>1, NobodyEnters DEF poolVars
<1>5. ASSUME UNCHANGED <<executorVars, place>>,
             \/ \E w \in Threads : Wait(w) \/ Pool!CallerWakes(w)
             \/ \E h \in Hashers : Pool!Worker(h) \/ Pool!WorkerWakes(h)
             \/ Pool!DrainBegins \/ Pool!Drainer
      PROVE  HandlersInRun'
  <2>1. \A w \in Threads : cpc'[w] # "idle" => cpc[w] # "idle"
    <3>1. ASSUME NEW w \in Threads, Pool!Caller(w) \/ Pool!CallerWakes(w)
          PROVE  \A v \in Threads : cpc'[v] # "idle" => cpc[v] # "idle"
      BY <1>1, <3>1 DEF Pool!Caller, Pool!Announce, Pool!CheckDone, Pool!TimeOut, Pool!Return,
                        Pool!CallerWakes
    <3>2. ASSUME NEW h \in Hashers, Pool!NotifyFinished(h)
          PROVE  \A v \in Threads : cpc'[v] # "idle" => cpc[v] # "idle"
      BY <1>1, <3>2 DEF Pool!NotifyFinished
    <3>3. ASSUME UNCHANGED cpc
          PROVE  \A v \in Threads : cpc'[v] # "idle" => cpc[v] # "idle"
      BY <3>3
    <3> QED
      BY <1>5, <3>1, <3>2, <3>3
      DEF Wait, Pool!Worker, Pool!Claim, Pool!Invoke, Pool!Complete, Pool!WorkerWakes,
          Pool!DrainBegins, Pool!Drainer, Pool!DrainNotifies, Pool!DrainJoins, Pool!callerVars
  <2> QED
    BY <1>5, <2>1, NobodyEnters DEF executorVars, Running
<1>6. ASSUME NEW w \in Threads, FindLoginCandidate(w) \/ Hash(w)
      PROVE  HandlersInRun'
  <2>1. /\ Running(w) /\ UNCHANGED executorVars
        /\ \/ cpc' = cpc /\ place[w] = "none" /\ place' = [place EXCEPT ![w] = "found"]
           \/ Pool!Push(w) /\ place' = [place EXCEPT ![w] = "hash"]
    BY <1>6 DEF FindLoginCandidate, Hash, Reach, poolVars
  <2>2. \A v \in Threads : Running(v)' <=> Running(v)
    BY <2>1 DEF executorVars, Running
  <2>3. \A v \in Threads : cpc'[v] # cpc[v] => v = w /\ place'[w] = "hash"
    BY <1>1, <1>2, <2>1 DEF Pool!Push, Pool!Return
  <2> QED
    BY <1>2, <2>1, <2>2, <2>3 DEF HandlersInRun
<1>7. ASSUME NEW w \in Threads, AnswerRequest(w) \/ FailLogin(w)
      PROVE  HandlersInRun'
  <2>1. /\ cpc[w] = "idle" /\ cpc' = cpc
        /\ place' = [place EXCEPT ![w] = "none"]
        /\ wpc' = [wpc EXCEPT ![w] = "check"]
    BY <1>2, <1>7 DEF AnswerRequest, FailLogin, Reach, EndJob, poolVars, HandlersInRun
  <2> QED
    BY <1>2, <2>1 DEF HandlersInRun, Running
<1>8. ASSUME NEW j \in Jobs,
             TurnLoginAway(j) \/ TurnRegistrationAway(j) \/ \E l \in Loops : SubmitAuthJob(l, j)
      PROVE  HandlersInRun'
  BY <1>4, <1>8 DEF TurnLoginAway, TurnRegistrationAway, Refuse, SubmitAuthJob
<1>9. ASSUME NEW w \in Threads, RequestWorker(w)
      PROVE  HandlersInRun'
  <2>1. CASE (Take(w) \/ Rest(w)) /\ UNCHANGED <<place, poolVars>>
    BY <1>4, <2>1
  <2>2. CASE Wait(w)
    BY <1>5, <2>2 DEF Wait
  <2> QED
    BY <1>6, <1>7, <1>9, <2>1, <2>2 DEF RequestWorker
<1>10. CASE (\E h \in Hashers : HashWorker(h)) \/ Drain
  BY <1>5, <1>10 DEF HashWorker, Drain
<1>11. CASE SpuriousWakeups
  BY <1>4, <1>5, <1>11 DEF SpuriousWakeups
<1>12. CASE \/ \E l \in Loops : Notify(l) /\ UNCHANGED <<place, poolVars>>
            \/ (StopBegins \/ Stopper) /\ UNCHANGED <<place, poolVars>>
  BY <1>4, <1>12
<1> QED
  BY <1>3, <1>8, <1>9, <1>10, <1>11, <1>12 DEF AuthNext, authVars

\* What is queued or hashed is for a request that is being served, whoever gave
\* up waiting and whatever happens while both pools stop; after Stop nothing is.
THEOREM HashingCorrect == AuthSpec => []HashingIsForARequest
<1>1. AuthInit => HandlersInRun
  BY DEF AuthInit, HandlersInRun, Pool!Init
<1>2. ExecutorInv => ExecutorTypeOK
  BY DEF ExecutorInv
<1>3. AuthSpec => []HandlersInRun
  <2>1. PoolPromises /\ ExecutorTypeOK /\ HandlersInRun /\ [AuthNext]_authVars => HandlersInRun'
    BY HandlersKeep
  <2> QED
    BY <1>1, <1>2, <2>1, AuthAnswersCorrect, AuthExecutorInvariant, PTL DEF AuthSpec
<1>4. ExecutorInv /\ HandlersInRun /\ PoolPromises => HashingIsForARequest
  <2> SUFFICES ASSUME ExecutorInv, HandlersInRun, PoolPromises PROVE HashingIsForARequest
    OBVIOUS
  <2>1. ASSUME NEW w \in Threads, Pool!Claimed(w) \/ w \in Pool!Queued
        PROVE  Running(w) /\ place[w] = "hash"
    <3>1. cpc[w] # "idle"
      BY <2>1 DEF PoolPromises, Pool!AnswerTellsWhatRan
    <3> QED
      BY <3>1 DEF HandlersInRun
  <2>2. ASSUME spc = "stopped"
        PROVE  hashQueue = << >> /\ Pool!Busy = {}
    <3>1. \A w \in Threads : ~Running(w)
      BY <2>2 DEF ExecutorInv, StopsInOrder, Running
    <3>2. \A w \in Threads : ~Pool!Claimed(w) /\ w \notin Pool!Queued
      BY <2>1, <3>1
    <3>3. hashQueue = << >>
      <4>1. hashQueue \in Seq(Threads)
        BY DEF PoolPromises, Pool!TypeOK
      <4>2. hashQueue # << >> => 1 \in DOMAIN hashQueue /\ hashQueue[1] \in Threads
        BY <4>1
      <4> QED
        BY <3>2, <4>2 DEF Pool!Queued
    <3>4. Pool!Busy = {}
      <4>1. \A h \in Pool!Busy : hashJob[h] \in Threads
        BY DEF PoolPromises, Pool!TypeOK, Pool!Busy
      <4> QED
        BY <3>2, <4>1 DEF Pool!Claimed
    <3> QED
      BY <3>3, <3>4
  <2> QED
    BY <2>1, <2>2 DEF HashingIsForARequest
<1> QED
  BY <1>3, <1>4, AuthAnswersCorrect, AuthExecutorInvariant, PTL
================================================================================
