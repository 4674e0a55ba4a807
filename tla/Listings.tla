-------------------------------- MODULE Listings --------------------------------
(***************************************************************************)
(* The lists that are read page by page while their rows change: comments   *)
(* and the account's own activity (social_routes.cc), the moderators' queue, *)
(* reports and audit (moderation_routes.cc), the browse pages of questions   *)
(* and experiences (question_read_model.cc, experience_read_model.cc), and   *)
(* what the search index finds (content_routes.cc).  A cursor names the last *)
(* row of the page before, and every page is a query of its own.  Pages that  *)
(* are browsed or found are counted from the start, and the number of the one *)
(* that is asked for is clamped, while total_pages of the answer is not.       *)
(*                                                                         *)
(* How old a page may be that the response cache answers is in QuestionCache. *)
(* The index's estimate of its hits is taken for their number.               *)
(***************************************************************************)
EXTENDS Naturals, FiniteSets, FiniteSetsExt

CONSTANTS ListRows,
          NoRow,
          MaxPlace,    \* bound: the places of the list's order
          PageLimit,   \* rows of a page
          LastPage,    \* 200: a page number above it means this one
          MaxListed    \* bound: changes of the list

ASSUME ListingsAssumption == /\ NoRow \notin ListRows
                             /\ MaxPlace \in Nat /\ MaxListed \in Nat
                             /\ PageLimit \in Nat \ {0} /\ LastPage \in Nat \ {0}
                             /\ IsFiniteSet(ListRows)

Lists == {"comments", "queue", "reports", "audit", "my submissions", "my votes",
          "my reports", "questions", "experiences", "search"}

Browsed == {"questions", "experiences", "search"}

\* A comment is hidden, an item or a report decided, an item unpublished.
Shrinking == {"comments", "queue", "reports"} \cup Browsed

\* Ordered by a column that changes, or by votes.
Reordered == {"my submissions", "my votes"} \cup Browsed

\* Rows he is not given, rows he is given again.
Harms == {"skips", "repeats"}

VARIABLES list,      \* which list this is
          listed,    \* the rows in it; for a search, the index has them
          unlisted,  \* for a search: the rows PostgreSQL does not publish
          order,     \* the place of each row, by time and then by id
          walk,      \* where its reader is
          cursor,    \* next_cursor, the last row he was given
          hits,      \* of a search: what the index answered
          pages,     \* how many pages he has
          given,     \* the rows he was given
          repeated,  \* those given more than once
          steady,    \* the rows there from his start, always in their place
          upset,     \* what changes of the list may have done to his walk
          listChanges

rowVars == <<list, listed, unlisted, order>>
reading == <<walk, cursor, hits, pages, given, repeated>>
listingVars == <<rowVars, reading, steady, upset, listChanges>>

ListingsTypeOK ==
  /\ list \in Lists /\ listed \subseteq ListRows
  /\ order \in [ListRows -> 1..MaxPlace]
  /\ unlisted \subseteq ListRows /\ hits \subseteq ListRows
  /\ walk \in {"none", "walking", "looking", "found", "found last", "ended", "refused"}
  /\ cursor \in ListRows \cup {NoRow} /\ pages \in Nat
  /\ given \subseteq ListRows /\ repeated \subseteq given /\ steady \subseteq listed
  /\ upset \subseteq Harms /\ listChanges \in 0..MaxListed

ListingsInit ==
  /\ list \in Lists
  /\ listed \in SUBSET ListRows
  /\ unlisted \in SUBSET listed /\ (list = "search" \/ unlisted = {})
  /\ order \in {o \in [ListRows -> 1..MaxPlace] :
                 \A x, y \in ListRows : x # y => o[x] # o[y]}
  /\ walk = "none" /\ cursor = NoRow /\ hits = {} /\ pages = 0
  /\ given = {} /\ repeated = {} /\ steady = {}
  /\ upset = {} /\ listChanges = 0

StartWalk ==
  /\ walk = "none"
  /\ walk' = "walking"
  /\ steady' = listed \ unlisted
  /\ UNCHANGED <<rowVars, cursor, hits, pages, given, repeated, upset, listChanges>>

Before(x) == {y \in listed : order[y] < order[x]}

\* Mutant: the page begins with the row the cursor names.
FromCursor == IF cursor = NoRow THEN listed
              ELSE {x \in listed : cursor \in listed /\ order[x] >= order[cursor]}

\* The rows after the cursor's.  When that row is not in the list, they are
\* compared with NULL: there are none.
AfterCursor == IF cursor = NoRow THEN listed
               ELSE {x \in listed : cursor \in listed /\ order[x] > order[cursor]}

\* The page he asks for is the next one; its number is clamped.
PageNumber == IF pages < LastPage THEN pages + 1 ELSE LastPage

Offset == (PageNumber - 1) * PageLimit

AfterOffset == {x \in listed : Cardinality(Before(x)) >= Offset}

\* The number he asked for is below total_pages, which is not clamped.
MorePages == (pages + 1) * PageLimit < Cardinality(listed)

FirstOf(selected) == {x \in selected : Cardinality(Before(x) \cap selected) < PageLimit}

Give(page) ==
  /\ given' = given \cup page
  /\ repeated' = repeated \cup (given \cap page)
  /\ pages' = pages + 1

\* The answer to the reader who has a cursor: a page of the rows after it, of
\* which one more than its limit shows whether there is a next one; or what
\* follows from none.
PageOf(whenEmpty) ==
  LET page == FirstOf(AfterCursor) IN
  /\ walk = "walking"
  /\ IF AfterCursor = {}
     THEN walk' = whenEmpty /\ UNCHANGED <<cursor, pages, given, repeated>>
     ELSE /\ Give(page)
          /\ cursor' = CHOOSE x \in page : \A y \in page : order[y] <= order[x]
          /\ walk' = IF page # AfterCursor THEN "walking" ELSE "ended"
  /\ UNCHANGED <<rowVars, hits, steady, upset, listChanges>>

\* GET /questions/{slug}/comments, /experiences/{slug}/comments: after an empty
\* page the cursor's row is looked for once more.
ListComments == /\ list = "comments"
                /\ PageOf(IF cursor = NoRow THEN "ended" ELSE "looking")

LookForAnchor ==
  /\ walk = "looking"
  /\ walk' = IF cursor \in listed THEN "ended" ELSE "refused"
  /\ UNCHANGED <<rowVars, cursor, hits, pages, given, repeated, steady, upset,
                 listChanges>>

\* The reader is not signed in any more, the item he looks at is unpublished,
\* or the database or the index fails.
TurnReaderAway ==
  /\ walk \in {"walking", "looking", "found", "found last"}
  /\ walk' = "refused"
  /\ hits' = {}
  /\ UNCHANGED <<rowVars, cursor, pages, given, repeated, steady, upset, listChanges>>

\* Mutant: an empty page is the end of it, whatever the cursor names.
EmptyEnds == "ended"

\* The moderators' lists refuse a cursor that has nothing after it.
EmptyRefuses == IF cursor = NoRow THEN "ended" ELSE "refused"

\* GET /moderation/queue, /moderation/reports, /moderation/audit.
Queue == list = "queue" /\ PageOf(EmptyRefuses)
ReportsOfState == list = "reports" /\ PageOf(EmptyRefuses)
Audit == list = "audit" /\ PageOf(EmptyRefuses)

\* GET /me/submissions, /me/votes, /me/reports.
ListMySubmissions == list = "my submissions" /\ PageOf("ended")
ListMyVotes == list = "my votes" /\ PageOf("ended")
ListMyReports == list = "my reports" /\ PageOf("ended")

\* The page of that number; he goes on while total_pages says that there are more.
NumberedPage ==
  /\ walk = "walking"
  /\ Give(FirstOf(AfterOffset))
  /\ walk' = IF MorePages THEN "walking" ELSE "ended"
  /\ UNCHANGED <<rowVars, cursor, hits, steady, upset, listChanges>>

\* GET /questions, /experiences.
BrowseQuestions == list = "questions" /\ NumberedPage
BrowseExperiences == list = "experiences" /\ NumberedPage

\* 3980: the index refuses a larger offset, which a clamped number never has.
MaxOffset == (LastPage - 1) * PageLimit

\* GET /search asks the index for the page, and for how many there are in all.
Query ==
  /\ list = "search" /\ walk = "walking"
  /\ Offset <= MaxOffset
  /\ hits' = FirstOf(AfterOffset)
  /\ walk' = IF MorePages THEN "found" ELSE "found last"
  /\ UNCHANGED <<rowVars, cursor, pages, given, repeated, steady, upset, listChanges>>

\* Then PostgreSQL, which of the hits are published: those are shown.  A hit that
\* is not makes the page short.
ShowHits ==
  /\ walk \in {"found", "found last"}
  /\ Give(hits \ unlisted)
  /\ hits' = {}
  /\ walk' = IF walk = "found" THEN "walking" ELSE "ended"
  /\ UNCHANGED <<rowVars, cursor, steady, upset, listChanges>>
-----------------------------------------------------------------------------
\* Pages that are counted from the start shift, while one that a cache has kept
\* does not: a row may be on two of them or on none.
Changed == /\ listChanges < MaxListed
           /\ listChanges' = listChanges + 1
           /\ upset' = IF list \in Browsed THEN Harms ELSE upset

\* A row is committed, or comes back into the state that is listed, which a
\* comment never does.  Times are those at which transactions began: it may
\* come before committed rows.
Enter(x) ==
  /\ x \notin listed /\ Changed
  /\ list = "comments" => x \notin given
  /\ listed' = listed \cup {x}
  /\ unlisted' = unlisted \ {x}
  /\ UNCHANGED <<list, order, steady, reading>>

Leave(x) ==
  /\ x \in listed /\ list \in Shrinking /\ Changed
  /\ listed' = listed \ {x}
  /\ steady' = steady \ {x}
  /\ UNCHANGED <<list, unlisted, order, reading>>

\* An item is hidden, or published again, and the index does not know yet.
ChangePublished(x) ==
  /\ list = "search" /\ x \in listed
  /\ listChanges < MaxListed /\ listChanges' = listChanges + 1
  /\ unlisted' = IF x \in unlisted THEN unlisted \ {x} ELSE unlisted \cup {x}
  /\ steady' = steady \ {x}
  /\ UNCHANGED <<list, listed, order, reading, upset>>

\* updated_at (published_at) is now: the time at which the transaction began,
\* which may be before that of rows committed already; or votes are counted.
\* When it is the row that his cursor names, the reader goes on from its new
\* place.
Touch(x) ==
  /\ x \in listed /\ list \in Reordered
  /\ listChanges < MaxListed /\ listChanges' = listChanges + 1
  /\ \E p \in 1..MaxPlace :
       /\ \A y \in ListRows : order[y] # p
       /\ order' = [order EXCEPT ![x] = p]
       /\ upset' = upset \cup (IF list \in Browsed THEN Harms
                              ELSE IF x # cursor THEN {}
                              ELSE IF p < order[x] THEN {"repeats"} ELSE {"skips"})
  /\ steady' = steady \ {x}
  /\ UNCHANGED <<list, listed, unlisted, reading>>

ListingsNext == \/ StartWalk
                \/ ListComments \/ LookForAnchor \/ TurnReaderAway
                \/ Queue \/ ReportsOfState \/ Audit
                \/ ListMySubmissions \/ ListMyVotes \/ ListMyReports
                \/ BrowseQuestions \/ BrowseExperiences
                \/ Query \/ ShowHits
                \/ \E x \in ListRows : Enter(x) \/ Leave(x) \/ ChangePublished(x) \/ Touch(x)

ListingsSpec == ListingsInit /\ [][ListingsNext]_listingVars
-----------------------------------------------------------------------------
(* Behind the last page there is.                                            *)
Beyond == {x \in listed : list \in Browsed /\ Cardinality(Before(x)) >= LastPage * PageLimit}

(* A reader who came to the end of a list has every row that was there all   *)
(* the while in its place, whatever was hidden, decided, added or touched    *)
(* between his pages: a cursor whose row is gone is refused and not taken    *)
(* for the end.  Of pages that are browsed or found that is promised up to   *)
(* the last one, and only while their rows do not change; that hits are left *)
(* out changes nothing.  A cursor promises it unless its row moves back.     *)
NothingIsSkipped ==
  walk = "ended" /\ "skips" \notin upset => steady \subseteq given \cup Beyond

(* Nobody is given a row twice that stayed in its place, unless what his     *)
(* cursor names came forward (then he begins again), or a browse page was    *)
(* changed; or he asks for pages behind the last one, which are that one.    *)
NothingIsRepeated ==
  "repeats" \notin upset /\ (list \in Browsed => pages <= LastPage)
    => repeated \cap steady = {}

(* What question_read_model.cc:176-177 says of the questions: "Every ordering *)
(* ends in a stable ID tie-breaker so page boundaries cannot repeat or skip a *)
(* row", whatever else happens to other rows meanwhile.                       *)
PageBoundariesHold ==
  list = "questions" => /\ repeated \cap steady = {}
                        /\ walk = "ended" => steady \subseteq given
=============================================================================
