--------------------------- MODULE DifficultyVotes ---------------------------
(***************************************************************************)
(* PUT /questions/{id}/difficulty: a request worker locks the question's   *)
(* row, writes the vote, recomputes the question's score from all votes,   *)
(* and answers with the score; the transaction commits when the handler    *)
(* has ended.  Every statement is a step.  Statements see what is          *)
(* committed when they run and what their own transaction wrote (READ      *)
(* COMMITTED); a row locked FOR UPDATE is changed by nobody else.          *)
(*                                                                         *)
(* A score sums votes times weights over the active accounts.  Here it is  *)
(* the votes it was computed from; the weights, which grow with an         *)
(* account's published contributions, are left out.                        *)
(***************************************************************************)
EXTENDS Naturals

CONSTANTS Users,
          Questions,
          Author,     \* Author[q]: who wrote q
          Workers,    \* request workers
          Values,     \* the votes, 1 through 5
          None        \* no request

Request == [user : Users, question : Questions, value : Values]

ASSUME VotesAssumption ==
  /\ None \notin Request
  /\ Author \in [Questions -> Users]
  /\ Values \subseteq 1 .. 5

VARIABLES
  active,     \* active[u]: the account's status is active
  published,  \* published[q]: the question's state is published
  votes,      \* votes[q][u]: u's active vote in difficulty_votes, 0 if none
  score,      \* score[q]: what question_difficulty_scores was computed from
  pc,         \* pc[w]: the statement w has done last
  req,        \* req[w]: the request w serves
  draft       \* draft[w]: the score w's transaction wrote

vars == <<active, published, votes, score, pc, req, draft>>

NoVotes == [u \in Users |-> 0]

\* The votes counted, 0 for none, by account; accounts that were not active
\* when the score was computed are not in its domain.
Scores == UNION {[counted -> Values \cup {0}] : counted \in SUBSET Users}
NoScore == [u \in {} |-> 0]

InTransaction(w) == pc[w] \in {"locked", "voted", "scored", "answered"}

\* Mutant: the question is read without FOR UPDATE.
HoldsNothing(w, q) == FALSE

\* w's transaction holds the row of q, since it selected it FOR UPDATE.
Holds(w, q) == InTransaction(w) /\ req[w].question = q

TypeOK ==
  /\ active \in [Users -> BOOLEAN]
  /\ published \in [Questions -> BOOLEAN]
  /\ votes \in [Questions -> [Users -> Values \cup {0}]]
  /\ score \in [Questions -> Scores]
  /\ pc \in [Workers -> {"idle", "authenticated", "locked", "voted", "scored", "answered"}]
  /\ req \in [Workers -> Request \cup {None}]
  /\ \A w \in Workers : pc[w] = "idle" <=> req[w] = None
  /\ draft \in [Workers -> Scores]
  /\ \A v, w \in Workers :
       InTransaction(v) /\ InTransaction(w) /\ req[v].question = req[w].question => v = w

Goto(w, place) == pc' = [pc EXCEPT ![w] = place]

End(w) ==
  /\ Goto(w, "idle")
  /\ req' = [req EXCEPT ![w] = None]
  /\ draft' = [draft EXCEPT ![w] = NoScore]

-----------------------------------------------------------------------------
(* The handler. *)

Authenticate(w) ==
  /\ pc[w] = "idle"
  /\ \E r \in Request : active[r.user] /\ req' = [req EXCEPT ![w] = r]
  /\ Goto(w, "authenticated")
  /\ UNCHANGED <<active, published, votes, score, draft>>

\* Waits for the row, unless it is not published; a missing question and the
\* author's own vote are refused.
Select(w) ==
  LET q == req[w].question
  IN  /\ pc[w] = "authenticated"
      /\ published[q] => \A v \in Workers : ~Holds(v, q)
      /\ IF published[q] /\ Author[q] # req[w].user
         THEN Goto(w, "locked") /\ UNCHANGED <<req, draft>>
         ELSE End(w)
      /\ UNCHANGED <<active, published, votes, score>>

\* INSERT ... ON CONFLICT DO UPDATE: nobody else sees the vote yet.
Vote(w) ==
  /\ pc[w] = "locked"
  /\ Goto(w, "voted")
  /\ UNCHANGED <<active, published, votes, score, req, draft>>

\* Mutant: the score is computed without the vote of this transaction.
SeenCommitted(w) == votes[req[w].question]

\* The votes that w's transaction sees.
Seen(w) == [votes[req[w].question] EXCEPT ![req[w].user] = req[w].value]

\* placedb_refresh_question_difficulty: votes of accounts that are not active
\* now do not count.
Refresh(w) ==
  /\ pc[w] = "voted"
  /\ draft' = [draft EXCEPT ![w] =
       [u \in {v \in Users : active[v]} |-> Seen(w)[u]]]
  /\ Goto(w, "scored")
  /\ UNCHANGED <<active, published, votes, score, req>>

\* Aggregate reads the row the transaction wrote, and the handler answers.
Answer(w) ==
  /\ pc[w] = "scored"
  /\ Goto(w, "answered")
  /\ UNCHANGED <<active, published, votes, score, req, draft>>

\* The handler's transaction is destroyed, which commits it.
Commit(w) ==
  LET q == req[w].question
  IN  /\ pc[w] = "answered"
      /\ votes' = [votes EXCEPT ![q] = Seen(w)]
      /\ score' = [score EXCEPT ![q] = draft[w]]
      /\ End(w)
      /\ UNCHANGED <<active, published>>

\* A statement or the commit fails, or the process dies: PostgreSQL rolls back.
RollBack(w) ==
  /\ pc[w] # "idle"
  /\ End(w)
  /\ UNCHANGED <<active, published, votes, score>>

-----------------------------------------------------------------------------
(* What others do. *)

\* Moderators hide and restore q; their UPDATE waits for the row.
Moderate(q) ==
  /\ \A w \in Workers : ~Holds(w, q)
  /\ published' = [published EXCEPT ![q] = ~@]
  /\ UNCHANGED <<active, votes, score, pc, req, draft>>

\* An account is suspended or reactivated.  No score is recomputed.
ChangeStatus(u) ==
  /\ active' = [active EXCEPT ![u] = ~@]
  /\ UNCHANGED <<published, votes, score, pc, req, draft>>

Init ==
  /\ active = [u \in Users |-> TRUE]
  /\ published = [q \in Questions |-> TRUE]
  /\ votes = [q \in Questions |-> NoVotes]
  /\ score = [q \in Questions |-> NoScore]
  /\ pc = [w \in Workers |-> "idle"]
  /\ req = [w \in Workers |-> None]
  /\ draft = [w \in Workers |-> NoScore]

Next ==
  \/ \E w \in Workers : \/ Authenticate(w) \/ Select(w) \/ Vote(w) \/ Refresh(w)
                        \/ Answer(w) \/ Commit(w) \/ RollBack(w)
  \/ \E q \in Questions : Moderate(q)
  \/ \E u \in Users : ChangeStatus(u)

Spec == Init /\ [][Next]_vars

-----------------------------------------------------------------------------
(* Properties. *)

\* No vote is lost from a score: concurrent votes on a question, each of which
\* recomputes the score from all votes, leave a score that counts every vote
\* of every account that was active when it was computed.
EveryVoteCounts ==
  \A q \in Questions : \A u \in DOMAIN score[q] : score[q][u] = votes[q][u]

\* The score the voter is told counts the vote, unless the account has been
\* suspended since the request was authenticated.
AnswerCountsTheVote ==
  \A w \in Workers : pc[w] = "answered" /\ req[w].user \in DOMAIN draft[w] =>
    draft[w][req[w].user] = req[w].value

\* A vote is stored only while its question is published, although it was
\* looked up several statements earlier and moderators act meanwhile.
VotesOnlyOnPublished ==
  [][\A q \in Questions : votes'[q] # votes[q] => published[q]]_vars
=============================================================================
