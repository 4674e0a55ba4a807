---------------------------- MODULE Publication ----------------------------
(***************************************************************************)
(* What the content tables promise to the search index: an item is visible *)
(* to the public or it is not, and every change of its visibility leaves   *)
(* exactly one request for the index, in the order the changes happened.   *)
(* ContentLifecycle implements this specification (its moderation trigger  *)
(* writes the requests); SearchOutbox starts from it.                      *)
(***************************************************************************)
EXTENDS Naturals, Sequences

CONSTANTS Items,        \* questions and experiences
          MaxRequests   \* bound on the length of the request log

VARIABLES visible,      \* visible[i]: i is in state 'published'
          log           \* the rows of search_outbox, in insertion order

pubVars == <<visible, log>>

Request == [target : Items, operation : {"upsert", "delete"}]

PubTypeOK ==
  /\ visible \in [Items -> BOOLEAN]
  /\ log \in Seq(Request)

PubInit ==
  /\ visible = [i \in Items |-> FALSE]
  /\ log = << >>

Publish(i) ==
  /\ ~visible[i]
  /\ Len(log) < MaxRequests
  /\ visible' = [visible EXCEPT ![i] = TRUE]
  /\ log' = Append(log, [target |-> i, operation |-> "upsert"])

Hide(i) ==
  /\ visible[i]
  /\ Len(log) < MaxRequests
  /\ visible' = [visible EXCEPT ![i] = FALSE]
  /\ log' = Append(log, [target |-> i, operation |-> "delete"])

PubNext == \E i \in Items : Publish(i) \/ Hide(i)

PubSpec == PubInit /\ [][PubNext]_pubVars

-----------------------------------------------------------------------------
\* No later request concerns the item that request k concerns.
IsLatest(k) ==
  \A j \in DOMAIN log : j > k => log[j].target # log[k].target

(***************************************************************************)
(* The latest request about an item says what its visibility is now, and   *)
(* an item nobody asked about was never visible: a consumer that honours   *)
(* the latest request of every item (007_outbox.sql) ends up right.        *)
(***************************************************************************)
LatestRequestMatches ==
  /\ \A k \in DOMAIN log : IsLatest(k) =>
        (visible[log[k].target] <=> log[k].operation = "upsert")
  /\ \A i \in Items : visible[i] => \E k \in DOMAIN log : log[k].target = i
=============================================================================
