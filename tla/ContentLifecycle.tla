-------------------------- MODULE ContentLifecycle --------------------------
(***************************************************************************)
(* The life of a question or an experience: imported or submitted by its   *)
(* author, edited, decided on by moderators.  The rules live in two        *)
(* places: the WHERE clause of the statement a route runs, and the trigger *)
(* placedb_check_content_state_transition, which validates the transition, *)
(* appends the audit event and enqueues the search request.                *)
(*                                                                         *)
(* A mutating request takes two steps.  The first authenticates it, with   *)
(* queries of its own; the second is its transaction.  Between the two,    *)
(* other requests run, and an operator may change a role or suspend an     *)
(* account.  The request's body is chosen in the second step: no other     *)
(* step depends on it.                                                     *)
(***************************************************************************)
EXTENDS Naturals, Sequences, FiniteSets

CONSTANTS Users,       \* people who can sign in
          System,      \* the import identity, which cannot sign in
          NoActor,     \* placedb.actor_id is not set
          Items,       \* questions and experiences
          AssignedRoles, \* bound on the roles an operator hands out
          MaxEvents,   \* bound on the length of the audit log
          MaxVersion   \* bound on updated_at

ASSUME LifecycleAssumption ==
  /\ System \notin Users
  /\ NoActor \notin Users \cup {System}
  /\ AssignedRoles \subseteq {"user", "moderator", "administrator"}
  /\ MaxEvents \in Nat
  /\ MaxVersion \in Nat

VARIABLES
  state,        \* state[i]: the state column, or "absent"
  author,       \* author[i]: author_id, NoActor while absent
  version,      \* version[i]: updated_at, as a counter
  publishedAt,  \* publishedAt[i]: index of the audit event that published i, 0 for NULL
  role,         \* role[u]: the account's role
  active,       \* active[u]: status = 'active'
  events,       \* moderation_events, append-only
  outbox,       \* search_outbox rows in insertion order
  call,         \* call[u]: what u's request in flight was admitted as
  answer        \* how the request that the last step finished ended

contentVars == <<state, author, version, publishedAt, events, outbox>>
accountVars == <<role, active>>
vars == <<contentVars, accountVars, call, answer>>

Accounts == Users \cup {System}
Roles == {"user", "moderator", "administrator"}
ModeratorRoles == {"moderator", "administrator"}
ContentStates == {"draft", "pending_review", "changes_requested",
                  "rejected", "published", "hidden"}
Editable == {"draft", "changes_requested"}
Decisions == {"published", "changes_requested", "rejected", "hidden"}
Reasons == {"given", "blank"}

Event == [target : Items, actor : Accounts, actorRole : Roles,
          kind : {"lifecycle", "moderation"}, previous : ContentStates,
          new : ContentStates, reason : Reasons \cup {"none"}]
Row == [target : Items, operation : {"upsert", "delete"}]

TypeOK ==
  /\ state \in [Items -> ContentStates \cup {"absent"}]
  /\ author \in [Items -> Accounts \cup {NoActor}]
  /\ version \in [Items -> Nat]
  /\ publishedAt \in [Items -> Nat]
  /\ role \in [Users -> Roles]
  /\ active \in [Users -> BOOLEAN]
  /\ events \in Seq(Event)
  /\ outbox \in Seq(Row)
  /\ call \in [Users -> {"idle", "author", "moderator"}]
  /\ answer \in {"none", "accepted", "not_found", "stale",
                 "edit_refused", "decision_refused"}

-----------------------------------------------------------------------------
(* The trigger. *)

\* Mutant: published content may be sent back to its author, without a delete.
TransitionsWithRecall ==
  { <<"pending_review", "published">>,
    <<"pending_review", "changes_requested">>,
    <<"pending_review", "rejected">>,
    <<"published", "changes_requested">>,
    <<"published", "hidden">>,
    <<"hidden", "published">> }

ModeratorTransitions ==
  { <<"pending_review", "published">>,
    <<"pending_review", "changes_requested">>,
    <<"pending_review", "rejected">>,
    <<"published", "hidden">>,
    <<"hidden", "published">> }

AuthorTransitions ==
  { <<"draft", "pending_review">>,
    <<"changes_requested", "pending_review">>,
    <<"changes_requested", "draft">> }

\* The role the trigger looks up for itself; the import identity is a user.
RoleOf(actor) == IF actor \in Users THEN role[actor] ELSE "user"

\* Mutant: the trigger trusts the role check made when the request came in.
TriggerTrustsRoute(old, new, owner, actor, reason) ==
  \/ old = new
  \/ /\ actor # NoActor
     /\ <<old, new>> \in ModeratorTransitions
     /\ reason = "given"
     /\ actor # owner
  \/ /\ actor # NoActor
     /\ <<old, new>> \in AuthorTransitions
     /\ actor = owner

\* The checks of the trigger on an update of one row; an update that keeps
\* the state is let through before any of them.
TriggerAccepts(old, new, owner, actor, reason) ==
  \/ old = new
  \/ /\ actor # NoActor
     /\ <<old, new>> \in ModeratorTransitions
     /\ reason = "given"
     /\ RoleOf(actor) \in ModeratorRoles
     /\ actor # owner
  \/ /\ actor # NoActor
     /\ <<old, new>> \in AuthorTransitions
     /\ actor = owner

AuditEvent(i, old, new, actor, reason) ==
  LET moderated == <<old, new>> \in ModeratorTransitions
  IN  [target |-> i, actor |-> actor, actorRole |-> RoleOf(actor),
       kind |-> IF moderated THEN "moderation" ELSE "lifecycle",
       previous |-> old, new |-> new,
       reason |-> IF moderated THEN reason ELSE "none"]

\* Mutant: a restoration is not announced to the index.
RequestsWithoutRestore(i, old, new) ==
  IF new = "published" /\ old = "pending_review"
  THEN << [target |-> i, operation |-> "upsert"] >>
  ELSE IF new = "hidden" /\ old = "published"
       THEN << [target |-> i, operation |-> "delete"] >>
       ELSE << >>

SearchRequests(i, old, new) ==
  IF new = "published"
  THEN << [target |-> i, operation |-> "upsert"] >>
  ELSE IF new = "hidden" /\ old = "published"
       THEN << [target |-> i, operation |-> "delete"] >>
       ELSE << >>

\* Mutant: only moderators' decisions are audited.
EffectAuditsDecisions(i, old, new, actor, reason) ==
  /\ state' = [state EXCEPT ![i] = new]
  /\ IF <<old, new>> \notin ModeratorTransitions
     THEN UNCHANGED <<publishedAt, events, outbox>>
     ELSE /\ events' = Append(events, AuditEvent(i, old, new, actor, reason))
          /\ publishedAt' = IF new = "published"
                            THEN [publishedAt EXCEPT ![i] = Len(events) + 1]
                            ELSE publishedAt
          /\ outbox' = outbox \o SearchRequests(i, old, new)

\* Mutant: a restoration keeps the first published_at.
EffectKeepsFirstDate(i, old, new, actor, reason) ==
  /\ state' = [state EXCEPT ![i] = new]
  /\ IF old = new
     THEN UNCHANGED <<publishedAt, events, outbox>>
     ELSE /\ events' = Append(events, AuditEvent(i, old, new, actor, reason))
          /\ publishedAt' = IF new = "published" /\ publishedAt[i] = 0
                            THEN [publishedAt EXCEPT ![i] = Len(events) + 1]
                            ELSE publishedAt
          /\ outbox' = outbox \o SearchRequests(i, old, new)

\* What the trigger writes for an accepted update of item i.
TriggerEffect(i, old, new, actor, reason) ==
  /\ state' = [state EXCEPT ![i] = new]
  /\ IF old = new
     THEN UNCHANGED <<publishedAt, events, outbox>>
     ELSE /\ events' = Append(events, AuditEvent(i, old, new, actor, reason))
          /\ publishedAt' = IF new = "published"
                            THEN [publishedAt EXCEPT ![i] = Len(events) + 1]
                            ELSE publishedAt
          /\ outbox' = outbox \o SearchRequests(i, old, new)

-----------------------------------------------------------------------------
(* Requests. *)

Finish(u, result) ==
  /\ call' = [call EXCEPT ![u] = "idle"]
  /\ answer' = result

\* Room in the bounded logs for one more write to item i.
Bounded(i) == Len(events) < MaxEvents /\ version[i] < MaxVersion

\* A submission or an edit is authenticated.
Authenticate(u) ==
  /\ call[u] = "idle"
  /\ active[u]
  /\ call' = [call EXCEPT ![u] = "author"]
  /\ answer' = "none"
  /\ UNCHANGED <<contentVars, accountVars>>

\* A moderator's request is authenticated and its role is checked.
Authorize(u) ==
  /\ call[u] = "idle"
  /\ active[u]
  /\ role[u] \in ModeratorRoles
  /\ call' = [call EXCEPT ![u] = "moderator"]
  /\ answer' = "none"
  /\ UNCHANGED <<contentVars, accountVars>>

\* One transaction inserts the draft and submits it for review.
Submit(u, i) ==
  /\ call[u] = "author"
  /\ state[i] = "absent"
  /\ Bounded(i)
  /\ TriggerAccepts("draft", "pending_review", u, u, "blank")
  /\ TriggerEffect(i, "draft", "pending_review", u, "blank")
  /\ author' = [author EXCEPT ![i] = u]
  /\ version' = [version EXCEPT ![i] = 1]
  /\ Finish(u, "accepted")
  /\ UNCHANGED accountVars

\* The author replaces the text, quoting the updated_at they last saw.  The
\* statement sends changes_requested back to review, but the transaction
\* never sets placedb.actor_id, so the trigger sees no actor.
Edit(u, i, token) ==
  LET new == IF state[i] = "changes_requested" THEN "pending_review" ELSE state[i]
      owned == author[i] = u /\ state[i] \in Editable
      fresh == version[i] = token
      written == /\ owned
                 /\ fresh
                 /\ TriggerAccepts(state[i], new, author[i], NoActor, "blank")
  IN  /\ call[u] = "author"
      /\ Bounded(i)
      /\ IF written
         THEN /\ TriggerEffect(i, state[i], new, NoActor, "blank")
              /\ version' = [version EXCEPT ![i] = @ + 1]
              /\ UNCHANGED author
         ELSE UNCHANGED contentVars
      /\ Finish(u, IF ~owned THEN "not_found"
                   ELSE IF ~fresh THEN "stale"
                   ELSE IF ~written THEN "edit_refused"
                   ELSE "accepted")
      /\ UNCHANGED accountVars

\* A moderator's decision: the statement matches the state the moderator saw
\* and refuses the moderator's own content; the trigger may still raise.
Decide(u, i, expected, new, reason) ==
  LET matched == state[i] = expected /\ author[i] # u
      written == matched /\ TriggerAccepts(state[i], new, author[i], u, reason)
  IN  /\ call[u] = "moderator"
      /\ Bounded(i)
      /\ IF written
         THEN /\ TriggerEffect(i, state[i], new, u, reason)
              /\ version' = [version EXCEPT ![i] = @ + 1]
              /\ UNCHANGED author
         ELSE UNCHANGED contentVars
      /\ Finish(u, IF ~matched THEN "stale"
                   ELSE IF ~written THEN "decision_refused"
                   ELSE "accepted")
      /\ UNCHANGED accountVars

\* The archive loader inserts a draft of the import identity.
ImportDraft(i) ==
  /\ state[i] = "absent"
  /\ state' = [state EXCEPT ![i] = "draft"]
  /\ author' = [author EXCEPT ![i] = System]
  /\ version' = [version EXCEPT ![i] = 1]
  /\ UNCHANGED <<publishedAt, events, outbox, accountVars, call>>
  /\ answer' = "none"

\* An operator promotes, demotes, suspends or reinstates an account; no code
\* of the repository does, and nothing stops it while a request runs.
ChangeAccount(u, r, a) ==
  /\ role' = [role EXCEPT ![u] = r]
  /\ active' = [active EXCEPT ![u] = a]
  /\ answer' = "none"
  /\ UNCHANGED <<contentVars, call>>

Init ==
  /\ state = [i \in Items |-> "absent"]
  /\ author = [i \in Items |-> NoActor]
  /\ version = [i \in Items |-> 0]
  /\ publishedAt = [i \in Items |-> 0]
  /\ role \in [Users -> AssignedRoles]
  /\ active = [u \in Users |-> TRUE]
  /\ events = << >>
  /\ outbox = << >>
  /\ call = [u \in Users |-> "idle"]
  /\ answer = "none"

Next ==
  \/ \E u \in Users : Authenticate(u)
  \/ \E u \in Users : Authorize(u)
  \/ \E u \in Users, i \in Items : Submit(u, i)
  \/ \E u \in Users, i \in Items, token \in 1..MaxVersion : Edit(u, i, token)
  \/ \E u \in Users, i \in Items, expected \in ContentStates, new \in Decisions,
        reason \in Reasons : Decide(u, i, expected, new, reason)
  \/ \E i \in Items : ImportDraft(i)
  \/ \E u \in Users, r \in AssignedRoles, a \in BOOLEAN : ChangeAccount(u, r, a)

Spec == Init /\ [][Next]_vars

-----------------------------------------------------------------------------
(* Properties. *)

\* Event k is the last one about its item.
IsLastEvent(k) ==
  \A j \in DOMAIN events : j > k => events[j].target # events[k].target

\* Event j is the next one, after event k, about the item of k.
NextEvent(k, j) ==
  /\ k < j
  /\ events[j].target = events[k].target
  /\ \A m \in DOMAIN events : k < m /\ m < j => events[m].target # events[k].target

\* The audit log is enough to replay every item: an item's events form an
\* unbroken path from draft to the state it is in now, whatever interleaving
\* of submissions, edits and rival decisions produced it, and an item without
\* events has never left draft (006_moderation.sql: the trigger is the only
\* writer of moderation_events and runs on every update of state).
AuditTrailReplays ==
  /\ \A k, j \in DOMAIN events : NextEvent(k, j) => events[k].new = events[j].previous
  /\ \A j \in DOMAIN events :
        (\A k \in DOMAIN events : k < j => events[k].target # events[j].target)
          => events[j].previous = "draft"
  /\ \A k \in DOMAIN events : IsLastEvent(k) => state[events[k].target] = events[k].new
  /\ \A i \in Items : (\A k \in DOMAIN events : events[k].target # i)
                        => state[i] \in {"absent", "draft"}

\* Two people and current authority behind every decision: whatever is not
\* its author's to set was set last by somebody else, who held a moderator's
\* role when the statement ran (not only when the request was admitted, which
\* may have been before a demotion) and gave a reason.
DecidedByAnotherModerator ==
  \A i \in Items :
    state[i] \in Decisions =>
      \E k \in DOMAIN events :
        /\ events[k].target = i
        /\ IsLastEvent(k)
        /\ events[k].kind = "moderation"
        /\ events[k].actor # author[i]
        /\ events[k].actorRole \in ModeratorRoles
        /\ events[k].reason = "given"

\* published_at is the time of the latest publication of whatever is or was
\* public, a restoration included, and NULL for what never was: the ranking
\* feeds order by it and the import trigger takes NULL for never published.
PublishedAtIsLatest ==
  \A i \in Items :
    /\ publishedAt[i] # 0 <=> state[i] \in {"published", "hidden"}
    /\ publishedAt[i] # 0 =>
         /\ publishedAt[i] \in DOMAIN events
         /\ events[publishedAt[i]].target = i
         /\ events[publishedAt[i]].new = "published"
         /\ \A k \in DOMAIN events : k > publishedAt[i] /\ events[k].target = i
               => events[k].new # "published"

\* The outbox as the index's worker sees it: visible items, and the requests.
Public == INSTANCE Publication
            WITH visible <- [i \in Items |-> state[i] = "published"],
                 log <- outbox,
                 MaxRequests <- MaxEvents

\* The content tables implement Publication: visibility changes only together
\* with one outbox row that says how, and no row is written otherwise.
PublicationSpec == Public!PubSpec

\* After any history of hides and restores, the newest outbox row of an item
\* says whether the item is public now; the worker may drop all older ones.
OutboxEndsInVisibility == Public!LatestRequestMatches

\* What the code says of a refused edit, "The content changed before this
\* edit." (submission_routes.cc:32), and what 006_moderation.sql:6-7 says of
\* an author's resubmission: an edit by the author of editable content that
\* quotes its current updated_at is not refused.
CurrentEditIsNotRefused ==
  answer # "edit_refused"
=============================================================================
