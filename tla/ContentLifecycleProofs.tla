----------------------- MODULE ContentLifecycleProofs -----------------------
(***************************************************************************)
(* Proofs about ContentLifecycle for any accounts, items and bounds.       *)
(*                                                                         *)
(* Every step of the system is one of four steps of the content tables:    *)
(* nothing, an import, a submission, or a moderator's decision.  An edit   *)
(* is always the first: the trigger refuses the only one that would move   *)
(* an item.  The invariants are proved of those four.                      *)
(***************************************************************************)
EXTENDS ContentLifecycle, TLAPS

\* The columns the invariants speak of stay as they are.
Quiet == UNCHANGED <<state, author, publishedAt, events, outbox>>

Imported(i) ==
  /\ state[i] = "absent"
  /\ state' = [state EXCEPT ![i] = "draft"]
  /\ author' = [author EXCEPT ![i] = System]
  /\ UNCHANGED <<publishedAt, events, outbox>>

Submitted(u, i) ==
  /\ state[i] = "absent"
  /\ Len(events) < MaxEvents
  /\ state' = [state EXCEPT ![i] = "pending_review"]
  /\ author' = [author EXCEPT ![i] = u]
  /\ events' = Append(events, [target |-> i, actor |-> u, actorRole |-> role[u],
                               kind |-> "lifecycle", previous |-> "draft",
                               new |-> "pending_review", reason |-> "none"])
  /\ UNCHANGED <<publishedAt, outbox>>

Decided(u, i, new) ==
  /\ Len(events) < MaxEvents
  /\ author[i] # u
  /\ role[u] \in ModeratorRoles
  /\ <<state[i], new>> \in ModeratorTransitions
  /\ state' = [state EXCEPT ![i] = new]
  /\ events' = Append(events, [target |-> i, actor |-> u, actorRole |-> role[u],
                               kind |-> "moderation", previous |-> state[i],
                               new |-> new, reason |-> "given"])
  /\ publishedAt' = IF new = "published"
                    THEN [publishedAt EXCEPT ![i] = Len(events) + 1]
                    ELSE publishedAt
  /\ outbox' = outbox \o SearchRequests(i, state[i], new)
  /\ UNCHANGED author

ContentStep ==
  \/ Quiet
  \/ \E i \in Items : Imported(i)
  \/ \E u \in Users, i \in Items : Submitted(u, i)
  \/ \E u \in Users, i \in Items, new \in Decisions : Decided(u, i, new)

-----------------------------------------------------------------------------
LEMMA EditKeepsContent ==
  ASSUME TypeOK, NEW u \in Users, NEW i \in Items, NEW token \in Nat,
         Edit(u, i, token)
  PROVE  /\ Quiet
         /\ version' \in [Items -> Nat]
<1> DEFINE new == IF state[i] = "changes_requested" THEN "pending_review" ELSE state[i]
<1>1. TriggerAccepts(state[i], new, author[i], NoActor, "blank") => state[i] = new
  BY DEF TriggerAccepts
<1>2. CASE UNCHANGED contentVars
  BY <1>2 DEF contentVars, Quiet, TypeOK
<1>3. CASE /\ TriggerAccepts(state[i], new, author[i], NoActor, "blank")
           /\ TriggerEffect(i, state[i], new, NoActor, "blank")
           /\ version' = [version EXCEPT ![i] = @ + 1]
           /\ UNCHANGED author
  <2>1. state[i] = new
    BY <1>1, <1>3
  <2>2. /\ state' = [state EXCEPT ![i] = new]
        /\ UNCHANGED <<publishedAt, events, outbox>>
    BY <1>3, <2>1 DEF TriggerEffect
  <2>3. state' = state
    BY <2>1, <2>2 DEF TypeOK
  <2>4. version' \in [Items -> Nat]
    BY <1>3 DEF TypeOK
  <2> QED
    BY <1>3, <2>2, <2>3, <2>4 DEF Quiet
<1> QED
  BY <1>2, <1>3 DEF Edit

LEMMA SubmitIsSubmitted ==
  ASSUME TypeOK, NEW u \in Users, NEW i \in Items, Submit(u, i)
  PROVE  Submitted(u, i)
<1>1. u \in Users
  OBVIOUS
<1>2. AuditEvent(i, "draft", "pending_review", u, "blank")
        = [target |-> i, actor |-> u, actorRole |-> role[u], kind |-> "lifecycle",
           previous |-> "draft", new |-> "pending_review", reason |-> "none"]
  BY <1>1 DEF AuditEvent, RoleOf, ModeratorTransitions
<1>3. outbox \o SearchRequests(i, "draft", "pending_review") = outbox
  BY DEF SearchRequests, TypeOK
<1>4. TriggerEffect(i, "draft", "pending_review", u, "blank")
  BY DEF Submit
<1>5. /\ state' = [state EXCEPT ![i] = "pending_review"]
      /\ events' = Append(events, AuditEvent(i, "draft", "pending_review", u, "blank"))
      /\ publishedAt' = publishedAt
      /\ outbox' = outbox \o SearchRequests(i, "draft", "pending_review")
  BY <1>4 DEF TriggerEffect
<1> QED
  BY <1>2, <1>3, <1>5 DEF Submit, Submitted, Bounded

LEMMA DecideIsDecided ==
  ASSUME TypeOK, NEW u \in Users, NEW i \in Items, NEW expected \in ContentStates,
         NEW new \in Decisions, NEW reason \in Reasons,
         Decide(u, i, expected, new, reason)
  PROVE  /\ Quiet \/ Decided(u, i, new)
         /\ version' \in [Items -> Nat]
<1>1. u \in Users
  OBVIOUS
<1>2. CASE UNCHANGED contentVars
  BY <1>2 DEF contentVars, Quiet, TypeOK
<1>3. CASE /\ Len(events) < MaxEvents
           /\ author[i] # u
           /\ TriggerAccepts(state[i], new, author[i], u, reason)
           /\ TriggerEffect(i, state[i], new, u, reason)
           /\ version' = [version EXCEPT ![i] = @ + 1]
           /\ UNCHANGED author
  <2>1. version' \in [Items -> Nat]
    BY <1>3 DEF TypeOK
  <2>2. CASE state[i] = new
    BY <1>3, <2>1, <2>2 DEF TriggerEffect, Quiet, TypeOK
  <2>3. CASE state[i] # new
    <3>1. /\ <<state[i], new>> \in ModeratorTransitions
          /\ reason = "given"
          /\ role[u] \in ModeratorRoles
      BY <1>1, <1>3, <2>3 DEF TriggerAccepts, AuthorTransitions, Decisions, RoleOf
    <3>2. AuditEvent(i, state[i], new, u, reason)
            = [target |-> i, actor |-> u, actorRole |-> role[u], kind |-> "moderation",
               previous |-> state[i], new |-> new, reason |-> "given"]
      BY <1>1, <3>1 DEF AuditEvent, RoleOf
    <3> QED
      BY <1>3, <2>1, <2>3, <3>1, <3>2 DEF TriggerEffect, Decided
  <2> QED
    BY <2>2, <2>3
<1> QED
  BY <1>2, <1>3 DEF Decide, Bounded

LEMMA StepsOfContent == TypeOK /\ [Next]_vars => ContentStep
<1> SUFFICES ASSUME TypeOK, [Next]_vars
             PROVE  ContentStep
  OBVIOUS
<1>1. CASE UNCHANGED vars
  BY <1>1 DEF vars, contentVars, ContentStep, Quiet
<1>2. ASSUME NEW u \in Users, Authenticate(u) \/ Authorize(u)
      PROVE  ContentStep
  BY <1>2 DEF Authenticate, Authorize, contentVars, ContentStep, Quiet
<1>3. ASSUME NEW u \in Users, NEW i \in Items, Submit(u, i)
      PROVE  ContentStep
  BY <1>3, SubmitIsSubmitted DEF ContentStep
<1>4. ASSUME NEW u \in Users, NEW i \in Items, NEW token \in 1 .. MaxVersion,
             Edit(u, i, token)
      PROVE  ContentStep
  BY <1>4, EditKeepsContent, LifecycleAssumption DEF ContentStep
<1>5. ASSUME NEW u \in Users, NEW i \in Items, NEW expected \in ContentStates,
             NEW new \in Decisions, NEW reason \in Reasons,
             Decide(u, i, expected, new, reason)
      PROVE  ContentStep
  BY <1>5, DecideIsDecided DEF ContentStep
<1>6. ASSUME NEW i \in Items, ImportDraft(i)
      PROVE  ContentStep
  BY <1>6 DEF ImportDraft, ContentStep, Imported
<1>7. ASSUME NEW u \in Users, NEW r \in AssignedRoles, NEW a \in BOOLEAN,
             ChangeAccount(u, r, a)
      PROVE  ContentStep
  BY <1>7 DEF ChangeAccount, contentVars, ContentStep, Quiet
<1> QED
  BY <1>1, <1>2, <1>3, <1>4, <1>5, <1>6, <1>7 DEF Next
-----------------------------------------------------------------------------
(* Types. *)

LEMMA AppendFacts ==
  ASSUME NEW S, NEW s \in Seq(S), NEW x \in S
  PROVE  /\ Append(s, x) \in Seq(S)
         /\ Len(s) \in Nat
         /\ DOMAIN s = 1 .. Len(s)
         /\ DOMAIN Append(s, x) = 1 .. Len(s) + 1
         /\ \A k \in 1 .. Len(s) : Append(s, x)[k] = s[k]
         /\ Append(s, x)[Len(s) + 1] = x
OBVIOUS

LEMMA SearchRequestsType ==
  ASSUME NEW i \in Items, NEW old \in ContentStates, NEW new \in ContentStates
  PROVE  SearchRequests(i, old, new) \in Seq(Row)
<1>1. /\ [target |-> i, operation |-> "upsert"] \in Row
      /\ [target |-> i, operation |-> "delete"] \in Row
  BY DEF Row
<1> QED
  BY <1>1 DEF SearchRequests

LEMMA ContentTypes ==
  ASSUME TypeOK, ContentStep
  PROVE  /\ state' \in [Items -> ContentStates \cup {"absent"}]
         /\ author' \in [Items -> Accounts \cup {NoActor}]
         /\ publishedAt' \in [Items -> Nat]
         /\ events' \in Seq(Event)
         /\ outbox' \in Seq(Row)
<1>1. CASE Quiet
  BY <1>1 DEF Quiet, TypeOK
<1>2. ASSUME NEW i \in Items, Imported(i)
      PROVE  /\ state' \in [Items -> ContentStates \cup {"absent"}]
             /\ author' \in [Items -> Accounts \cup {NoActor}]
             /\ UNCHANGED <<publishedAt, events, outbox>>
  BY <1>2 DEF Imported, TypeOK, ContentStates, Accounts
<1>3. ASSUME NEW u \in Users, NEW i \in Items, Submitted(u, i)
      PROVE  /\ state' \in [Items -> ContentStates \cup {"absent"}]
             /\ author' \in [Items -> Accounts \cup {NoActor}]
             /\ events' \in Seq(Event)
             /\ UNCHANGED <<publishedAt, outbox>>
  <2>1. [target |-> i, actor |-> u, actorRole |-> role[u], kind |-> "lifecycle",
         previous |-> "draft", new |-> "pending_review", reason |-> "none"] \in Event
    BY DEF Event, TypeOK, ContentStates, Accounts
  <2>2. events' \in Seq(Event)
    BY <1>3, <2>1, AppendFacts DEF Submitted, TypeOK
  <2> QED
    BY <1>3, <2>2 DEF Submitted, TypeOK, ContentStates, Accounts
<1>4. ASSUME NEW u \in Users, NEW i \in Items, NEW new \in Decisions, Decided(u, i, new)
      PROVE  /\ state' \in [Items -> ContentStates \cup {"absent"}]
             /\ author' = author
             /\ publishedAt' \in [Items -> Nat]
             /\ events' \in Seq(Event)
             /\ outbox' \in Seq(Row)
  <2>1. state[i] \in ContentStates /\ new \in ContentStates
    BY <1>4 DEF Decided, ModeratorTransitions, ContentStates, Decisions
  <2>2. [target |-> i, actor |-> u, actorRole |-> role[u], kind |-> "moderation",
         previous |-> state[i], new |-> new, reason |-> "given"] \in Event
    BY <2>1 DEF Event, TypeOK, Accounts, Reasons
  <2>3. events' \in Seq(Event) /\ Len(events) \in Nat
    BY <1>4, <2>2, AppendFacts DEF Decided, TypeOK
  <2>4. outbox' \in Seq(Row)
    BY <1>4, <2>1, SearchRequestsType DEF Decided, TypeOK
  <2>5. publishedAt' \in [Items -> Nat]
    BY <1>4, <2>3 DEF Decided, TypeOK
  <2>6. state' \in [Items -> ContentStates \cup {"absent"}]
    BY <1>4, <2>1 DEF Decided, TypeOK
  <2> QED
    BY <1>4, <2>3, <2>4, <2>5, <2>6 DEF Decided
<1> QED
  BY <1>1, <1>2, <1>3, <1>4 DEF ContentStep, TypeOK

(***************************************************************************)
(* The tables and the requests in flight keep their types: no audit event  *)
(* lacks an actor or a known state, whatever runs concurrently.            *)
(***************************************************************************)
THEOREM TypeCorrect == Spec => []TypeOK
<1>1. Init => TypeOK
  <2> SUFFICES ASSUME Init
               PROVE  TypeOK
    OBVIOUS
  <2>1. /\ state \in [Items -> ContentStates \cup {"absent"}]
        /\ author \in [Items -> Accounts \cup {NoActor}]
        /\ version \in [Items -> Nat]
        /\ publishedAt \in [Items -> Nat]
    BY DEF Init
  <2>2. role \in [Users -> Roles]
    BY LifecycleAssumption DEF Init, Roles
  <2>3. active \in [Users -> BOOLEAN]
    BY DEF Init
  <2>4. events \in Seq(Event) /\ outbox \in Seq(Row)
    BY DEF Init
  <2>5. /\ call \in [Users -> {"idle", "author", "moderator"}]
        /\ answer = "none"
    BY DEF Init
  <2> QED
    BY <2>1, <2>2, <2>3, <2>4, <2>5 DEF TypeOK
<1>2. TypeOK /\ [Next]_vars => TypeOK'
  <2> SUFFICES ASSUME TypeOK, [Next]_vars
               PROVE  TypeOK'
    OBVIOUS
  <2> DEFINE Rest == /\ version \in [Items -> Nat]
                     /\ role \in [Users -> Roles]
                     /\ active \in [Users -> BOOLEAN]
                     /\ call \in [Users -> {"idle", "author", "moderator"}]
                     /\ answer \in {"none", "accepted", "not_found", "stale",
                                    "edit_refused", "decision_refused"}
  <2>1. Rest' => TypeOK'
    BY StepsOfContent, ContentTypes DEF TypeOK
  <2>2. CASE UNCHANGED vars
    BY <2>1, <2>2 DEF TypeOK, vars, contentVars, accountVars
  <2>3. ASSUME NEW u \in Users, Authenticate(u) \/ Authorize(u)
        PROVE  Rest'
    BY <2>3 DEF TypeOK, Authenticate, Authorize, contentVars, accountVars
  <2>4. ASSUME NEW u \in Users, NEW i \in Items, Submit(u, i)
        PROVE  Rest'
    BY <2>4 DEF TypeOK, Submit, Finish, accountVars
  <2>5. ASSUME NEW u \in Users, NEW i \in Items, NEW token \in 1 .. MaxVersion,
               Edit(u, i, token)
        PROVE  Rest'
    <3>1. version' \in [Items -> Nat]
      BY <2>5, EditKeepsContent, LifecycleAssumption
    <3> QED
      BY <2>5, <3>1 DEF TypeOK, Edit, Finish, accountVars
  <2>6. ASSUME NEW u \in Users, NEW i \in Items, NEW expected \in ContentStates,
               NEW new \in Decisions, NEW reason \in Reasons,
               Decide(u, i, expected, new, reason)
        PROVE  Rest'
    <3>1. version' \in [Items -> Nat]
      BY <2>6, DecideIsDecided
    <3> QED
      BY <2>6, <3>1 DEF TypeOK, Decide, Finish, accountVars
  <2>7. ASSUME NEW i \in Items, ImportDraft(i)
        PROVE  Rest'
    BY <2>7 DEF TypeOK, ImportDraft, accountVars
  <2>8. ASSUME NEW u \in Users, NEW r \in AssignedRoles, NEW a \in BOOLEAN,
               ChangeAccount(u, r, a)
        PROVE  Rest'
    BY <2>8, LifecycleAssumption DEF TypeOK, ChangeAccount, contentVars, Roles
  <2> QED
    BY <2>1, <2>2, <2>3, <2>4, <2>5, <2>6, <2>7, <2>8 DEF Next
<1>3. QED
  BY <1>1, <1>2, PTL DEF Spec

-----------------------------------------------------------------------------
(* The audit log. *)

\* No event is about an item that does not exist.
EventsOfCreated == \A k \in DOMAIN events : state[events[k].target] # "absent"

LEMMA EventTargets == TypeOK => \A k \in DOMAIN events : events[k].target \in Items
<1> SUFFICES ASSUME TypeOK, NEW k \in DOMAIN events
             PROVE  events[k].target \in Items
  OBVIOUS
<1>1. events[k] \in Event
  BY DEF TypeOK
<1> QED
  BY <1>1 DEF Event

\* One more event, which continues the path of its item.
LEMMA AuditAppend ==
  ASSUME TypeOK, AuditTrailReplays, EventsOfCreated,
         NEW e \in Event,
         events' = Append(events, e),
         state' = [state EXCEPT ![e.target] = e.new],
         \A k \in DOMAIN events :
            events[k].target = e.target /\ IsLastEvent(k) => events[k].new = e.previous,
         (\A k \in DOMAIN events : events[k].target # e.target) => e.previous = "draft"
  PROVE  (AuditTrailReplays /\ EventsOfCreated)'
<1> DEFINE n == Len(events) + 1
<1>1. /\ n \in Nat /\ n - 1 \in Nat
      /\ DOMAIN events = 1 .. n - 1
      /\ DOMAIN events' = 1 .. n
      /\ \A k \in 1 .. n - 1 : events'[k] = events[k]
      /\ events'[n] = e
  BY AppendFacts DEF TypeOK
<1>2. /\ e.target \in Items
      /\ e.new \in ContentStates
      /\ state'[e.target] = e.new
      /\ \A i \in Items : i # e.target => state'[i] = state[i]
  BY DEF Event, TypeOK
<1>3. \A k \in DOMAIN events : events[k].target \in Items
  BY EventTargets
<1> HIDE DEF n
<1>4. ASSUME NEW k \in DOMAIN events', NEW j \in DOMAIN events', NextEvent(k, j)'
      PROVE  events'[k].new = events'[j].previous
  <2>1. k \in 1 .. n - 1
    BY <1>1, <1>4 DEF NextEvent
  <2>2. CASE j = n
    <3>1. events[k].target = e.target /\ IsLastEvent(k)
      BY <1>1, <1>4, <2>1, <2>2 DEF NextEvent, IsLastEvent
    <3> QED
      BY <1>1, <2>1, <2>2, <3>1
  <2>3. CASE j # n
    <3>1. j \in 1 .. n - 1
      BY <1>1, <2>3
    <3>2. NextEvent(k, j)
      BY <1>1, <1>4, <2>1, <3>1 DEF NextEvent
    <3> QED
      BY <1>1, <2>1, <3>1, <3>2 DEF AuditTrailReplays
  <2> QED
    BY <2>2, <2>3
<1>5. ASSUME NEW j \in DOMAIN events',
             \A k \in DOMAIN events' : k < j => events'[k].target # events'[j].target
      PROVE  events'[j].previous = "draft"
  BY <1>1, <1>5 DEF AuditTrailReplays
<1>6. ASSUME NEW k \in DOMAIN events', IsLastEvent(k)'
      PROVE  state'[events'[k].target] = events'[k].new
  <2>1. CASE k = n
    BY <1>1, <1>2, <2>1
  <2>2. CASE k # n
    <3>1. k \in 1 .. n - 1 /\ events[k].target # e.target
      BY <1>1, <1>6, <2>2 DEF IsLastEvent
    <3>2. IsLastEvent(k)
      BY <1>1, <1>6, <3>1 DEF IsLastEvent
    <3> QED
      BY <1>1, <1>2, <1>3, <3>1, <3>2 DEF AuditTrailReplays
  <2> QED
    BY <2>1, <2>2
<1>7. ASSUME NEW i \in Items, \A k \in DOMAIN events' : events'[k].target # i
      PROVE  state'[i] \in {"absent", "draft"}
  BY <1>1, <1>2, <1>7 DEF AuditTrailReplays
<1>8. ASSUME NEW k \in DOMAIN events'
      PROVE  state'[events'[k].target] # "absent"
  <2>1. \A i \in Items : state[i] # "absent" => state'[i] # "absent"
    BY <1>2 DEF ContentStates
  <2>2. CASE k = n
    BY <1>1, <1>2, <2>2 DEF ContentStates
  <2>3. CASE k # n
    BY <1>1, <1>3, <2>1, <2>3 DEF EventsOfCreated
  <2> QED
    BY <2>2, <2>3
<1> QED
  BY <1>4, <1>5, <1>6, <1>7, <1>8 DEF AuditTrailReplays, EventsOfCreated

(***************************************************************************)
(* The audit log replays every item.                                       *)
(***************************************************************************)
THEOREM AuditCorrect == Spec => []AuditTrailReplays
<1> DEFINE AuditInv == AuditTrailReplays /\ EventsOfCreated
<1>1. Init => AuditInv
  BY DEF Init, AuditTrailReplays, EventsOfCreated, NextEvent, IsLastEvent
<1>2. TypeOK /\ AuditInv /\ [Next]_vars => AuditInv'
  <2> SUFFICES ASSUME TypeOK, AuditInv, ContentStep
               PROVE  AuditInv'
    BY StepsOfContent
  <2>1. CASE Quiet
    BY <2>1 DEF Quiet, AuditTrailReplays, EventsOfCreated, NextEvent, IsLastEvent
  <2>2. ASSUME NEW i \in Items, Imported(i)
        PROVE  AuditInv'
    <3>1. \A k \in DOMAIN events : events[k].target # i /\ events[k].target \in Items
      BY <2>2, EventTargets DEF Imported, EventsOfCreated
    <3>2. state'[i] = "draft" /\ \A j \in Items : j # i => state'[j] = state[j]
      BY <2>2 DEF Imported, TypeOK
    <3> QED
      BY <2>2, <3>1, <3>2
      DEF Imported, AuditTrailReplays, EventsOfCreated, NextEvent, IsLastEvent
  <2>3. ASSUME NEW u \in Users, NEW i \in Items, Submitted(u, i)
        PROVE  AuditInv'
    <3> DEFINE e == [target |-> i, actor |-> u, actorRole |-> role[u],
                     kind |-> "lifecycle", previous |-> "draft",
                     new |-> "pending_review", reason |-> "none"]
    <3>1. e \in Event
      BY DEF Event, TypeOK, ContentStates, Accounts
    <3>2. \A k \in DOMAIN events : events[k].target # i
      BY <2>3 DEF Submitted, EventsOfCreated
    <3>3. /\ e.target = i /\ e.new = "pending_review" /\ e.previous = "draft"
          /\ events' = Append(events, e)
          /\ state' = [state EXCEPT ![i] = "pending_review"]
      BY <2>3 DEF Submitted
    <3> HIDE DEF e
    <3> QED
      BY <3>1, <3>2, <3>3, AuditAppend
  <2>4. ASSUME NEW u \in Users, NEW i \in Items, NEW new \in Decisions, Decided(u, i, new)
        PROVE  AuditInv'
    <3> DEFINE e == [target |-> i, actor |-> u, actorRole |-> role[u],
                     kind |-> "moderation", previous |-> state[i],
                     new |-> new, reason |-> "given"]
    <3>1. state[i] \in ContentStates /\ state[i] # "draft" /\ new \in ContentStates
      BY <2>4 DEF Decided, ModeratorTransitions, ContentStates, Decisions
    <3>2. e \in Event
      BY <3>1 DEF Event, TypeOK, Accounts, Reasons
    <3>3. /\ e.target = i /\ e.new = new /\ e.previous = state[i]
          /\ events' = Append(events, e)
          /\ state' = [state EXCEPT ![i] = new]
      BY <2>4 DEF Decided
    <3> HIDE DEF e
    <3>4. ~ \A k \in DOMAIN events : events[k].target # i
      BY <3>1 DEF AuditTrailReplays, ContentStates
    <3>5. \A k \in DOMAIN events :
             events[k].target = i /\ IsLastEvent(k) => events[k].new = state[i]
      BY DEF AuditTrailReplays
    <3> QED
      BY <3>2, <3>3, <3>4, <3>5, AuditAppend
  <2> QED
    BY <2>1, <2>2, <2>3, <2>4 DEF ContentStep
<1>3. QED
  BY <1>1, <1>2, TypeCorrect, PTL DEF Spec

-----------------------------------------------------------------------------
(* Decisions. *)

\* An item keeps its last decision when an event about another is appended.
LEMMA LastEventKept ==
  ASSUME NEW S, events \in Seq(S), NEW e \in S, events' = Append(events, e),
         NEW k \in DOMAIN events, IsLastEvent(k), e.target # events[k].target
  PROVE  /\ k \in DOMAIN events'
         /\ events'[k] = events[k]
         /\ IsLastEvent(k)'
<1>1. /\ Len(events) \in Nat
      /\ DOMAIN events = 1 .. Len(events)
      /\ DOMAIN events' = 1 .. Len(events) + 1
      /\ \A j \in 1 .. Len(events) : events'[j] = events[j]
      /\ events'[Len(events) + 1] = e
  BY AppendFacts
<1> QED
  BY <1>1 DEF IsLastEvent

(***************************************************************************)
(* Whatever is not its author's to set was set last by another account,    *)
(* which held a moderator's role at that moment and gave a reason.         *)
(***************************************************************************)
THEOREM DecisionsCorrect == Spec => []DecidedByAnotherModerator
<1> DEFINE D == DecidedByAnotherModerator
<1>1. Init => D
  BY DEF Init, DecidedByAnotherModerator, Decisions
<1>2. TypeOK /\ D /\ [Next]_vars => D'
  <2> SUFFICES ASSUME TypeOK, D, ContentStep
               PROVE  D'
    BY StepsOfContent
  <2>1. CASE Quiet
    BY <2>1 DEF Quiet, DecidedByAnotherModerator, IsLastEvent
  <2>2. ASSUME NEW i \in Items, Imported(i)
        PROVE  D'
    <3>1. /\ state'[i] \notin Decisions
          /\ \A j \in Items : j # i => state'[j] = state[j] /\ author'[j] = author[j]
          /\ events' = events
      BY <2>2 DEF Imported, TypeOK, Decisions
    <3> QED
      BY <3>1 DEF DecidedByAnotherModerator, IsLastEvent
  <2>3. ASSUME NEW u \in Users, NEW i \in Items, NEW e \in Event,
               events' = Append(events, e), e.target = i,
               \A j \in Items : j # i => state'[j] = state[j] /\ author'[j] = author[j],
               state'[i] \in Decisions => /\ e.kind = "moderation"
                                          /\ e.actor # author'[i]
                                          /\ e.actorRole \in ModeratorRoles
                                          /\ e.reason = "given"
        PROVE  D'
    <3> SUFFICES ASSUME NEW j \in Items, state'[j] \in Decisions
                 PROVE  \E k \in DOMAIN events' :
                          /\ events'[k].target = j
                          /\ IsLastEvent(k)'
                          /\ events'[k].kind = "moderation"
                          /\ events'[k].actor # author'[j]
                          /\ events'[k].actorRole \in ModeratorRoles
                          /\ events'[k].reason = "given"
      BY DEF DecidedByAnotherModerator
    <3>1. CASE j = i
      <4>0. /\ Len(events) \in Nat
            /\ DOMAIN events' = 1 .. Len(events) + 1
            /\ events'[Len(events) + 1] = e
        <5>1. events \in Seq(Event)
          BY DEF TypeOK
        <5> HIDE DEF Event
        <5> QED
          BY <2>3, <5>1, AppendFacts
      <4>1. PICK n \in Nat : DOMAIN events' = 1 .. n /\ n > 0 /\ events'[n] = e
        <5>1. Len(events) + 1 \in Nat /\ Len(events) + 1 > 0
          BY <4>0
        <5> QED
          BY <4>0, <5>1
      <4>2. n \in DOMAIN events' /\ IsLastEvent(n)'
        BY <4>1 DEF IsLastEvent
      <4> QED
        BY <2>3, <3>1, <4>1, <4>2
    <3>2. CASE j # i
      <4>1. state[j] \in Decisions /\ author'[j] = author[j]
        BY <2>3, <3>2
      <4>2. PICK k \in DOMAIN events :
                 /\ events[k].target = j
                 /\ IsLastEvent(k)
                 /\ events[k].kind = "moderation"
                 /\ events[k].actor # author[j]
                 /\ events[k].actorRole \in ModeratorRoles
                 /\ events[k].reason = "given"
        BY <4>1 DEF DecidedByAnotherModerator
      <4>3. events \in Seq(Event) /\ e.target # events[k].target
        BY <2>3, <3>2, <4>2 DEF TypeOK
      <4>4. /\ k \in DOMAIN events'
            /\ events'[k] = events[k]
            /\ IsLastEvent(k)'
        BY <2>3, <4>2, <4>3, LastEventKept
      <4>5. author'[j] = author[j]
        BY <4>1
      <4> QED
        BY <4>2, <4>4, <4>5
    <3> QED
      BY <3>1, <3>2
  <2>4. ASSUME NEW u \in Users, NEW i \in Items, Submitted(u, i)
        PROVE  D'
    <3> DEFINE e == [target |-> i, actor |-> u, actorRole |-> role[u],
                     kind |-> "lifecycle", previous |-> "draft",
                     new |-> "pending_review", reason |-> "none"]
    <3>1. e \in Event
      BY DEF Event, TypeOK, ContentStates, Accounts
    <3>2. /\ state'[i] \notin Decisions
          /\ \A j \in Items : j # i => state'[j] = state[j] /\ author'[j] = author[j]
          /\ events' = Append(events, e) /\ e.target = i
      BY <2>4 DEF Submitted, TypeOK, Decisions
    <3> HIDE DEF e
    <3> QED
      BY <2>3, <3>1, <3>2
  <2>5. ASSUME NEW u \in Users, NEW i \in Items, NEW new \in Decisions, Decided(u, i, new)
        PROVE  D'
    <3> DEFINE e == [target |-> i, actor |-> u, actorRole |-> role[u],
                     kind |-> "moderation", previous |-> state[i],
                     new |-> new, reason |-> "given"]
    <3>1. state[i] \in ContentStates /\ new \in ContentStates
      BY <2>5 DEF Decided, ModeratorTransitions, ContentStates, Decisions
    <3>2. e \in Event
      BY <3>1 DEF Event, TypeOK, Accounts, Reasons
    <3>3. /\ \A j \in Items : j # i => state'[j] = state[j] /\ author'[j] = author[j]
          /\ events' = Append(events, e) /\ e.target = i /\ e.kind = "moderation"
          /\ e.actor # author'[i] /\ e.actorRole \in ModeratorRoles
          /\ e.reason = "given"
      BY <2>5 DEF Decided, TypeOK
    <3> HIDE DEF e
    <3> QED
      BY <2>3, <3>2, <3>3
  <2> QED
    BY <2>1, <2>2, <2>4, <2>5 DEF ContentStep
<1>3. QED
  BY <1>1, <1>2, TypeCorrect, PTL DEF Spec

(***************************************************************************)
(* published_at is the latest publication of what is or was public.        *)
(***************************************************************************)
THEOREM PublishedAtCorrect == Spec => []PublishedAtIsLatest
<1> DEFINE P == PublishedAtIsLatest
<1>1. Init => P
  BY DEF Init, PublishedAtIsLatest
<1>2. TypeOK /\ P /\ [Next]_vars => P'
  <2> SUFFICES ASSUME TypeOK, P, ContentStep
               PROVE  P'
    BY StepsOfContent
  <2>1. CASE Quiet
    BY <2>1 DEF Quiet, PublishedAtIsLatest
  <2>2. ASSUME NEW i \in Items, Imported(i)
        PROVE  P'
    <3>1. /\ state[i] = "absent" /\ state'[i] = "draft"
          /\ \A j \in Items : j # i => state'[j] = state[j]
          /\ publishedAt' = publishedAt /\ events' = events
      BY <2>2 DEF Imported, TypeOK
    <3> QED
      BY <3>1 DEF PublishedAtIsLatest
  <2>3. ASSUME NEW u \in Users, NEW i \in Items, Submitted(u, i)
        PROVE  P'
    <3> DEFINE e == [target |-> i, actor |-> u, actorRole |-> role[u],
                     kind |-> "lifecycle", previous |-> "draft",
                     new |-> "pending_review", reason |-> "none"]
    <3>1. e \in Event
      BY DEF Event, TypeOK, ContentStates, Accounts
    <3>2. /\ state[i] = "absent" /\ state'[i] = "pending_review"
          /\ \A j \in Items : j # i => state'[j] = state[j]
          /\ publishedAt' = publishedAt
          /\ events' = Append(events, e) /\ e.new # "published"
      BY <2>3 DEF Submitted, TypeOK
    <3> HIDE DEF e
    <3>3. /\ Len(events) \in Nat
          /\ DOMAIN events = 1 .. Len(events)
          /\ DOMAIN events' = 1 .. Len(events) + 1
          /\ \A k \in 1 .. Len(events) : events'[k] = events[k]
          /\ events'[Len(events) + 1] = e
      BY <3>1, <3>2, AppendFacts DEF TypeOK
    <3> QED
      BY <3>2, <3>3 DEF PublishedAtIsLatest
  <2>4. ASSUME NEW u \in Users, NEW i \in Items, NEW new \in Decisions, Decided(u, i, new)
        PROVE  P'
    <3> DEFINE e == [target |-> i, actor |-> u, actorRole |-> role[u],
                     kind |-> "moderation", previous |-> state[i],
                     new |-> new, reason |-> "given"]
    <3>1. state[i] \in ContentStates /\ new \in ContentStates
      BY <2>4 DEF Decided, ModeratorTransitions, ContentStates, Decisions
    <3>2. e \in Event
      BY <3>1 DEF Event, TypeOK, Accounts, Reasons
    <3>3. /\ state'[i] = new
          /\ \A j \in Items : j # i => state'[j] = state[j]
          /\ events' = Append(events, e) /\ e.new = new /\ e.target = i
      BY <2>4 DEF Decided, TypeOK
    <3> HIDE DEF e
    <3>4. /\ Len(events) \in Nat
          /\ DOMAIN events = 1 .. Len(events)
          /\ DOMAIN events' = 1 .. Len(events) + 1
          /\ \A k \in 1 .. Len(events) : events'[k] = events[k]
          /\ events'[Len(events) + 1] = e
      BY <3>2, <3>3, AppendFacts DEF TypeOK
    <3>5. CASE new = "published"
      <4>1. /\ publishedAt'[i] = Len(events) + 1
            /\ \A j \in Items : j # i => publishedAt'[j] = publishedAt[j]
        BY <2>4, <3>5 DEF Decided, TypeOK
      <4> QED
        BY <3>3, <3>4, <3>5, <4>1 DEF PublishedAtIsLatest, TypeOK
    <3>6. CASE new # "published"
      <4>1. publishedAt' = publishedAt
        BY <2>4, <3>6 DEF Decided
      <4>2. state[i] \in {"published", "hidden"} <=> new \in {"published", "hidden"}
        BY <2>4, <3>6 DEF Decided, ModeratorTransitions, Decisions
      <4>3. \A j \in Items : publishedAt[j] \in Nat
        BY DEF TypeOK
      <4> QED
        BY <3>3, <3>4, <3>6, <4>1, <4>2, <4>3 DEF PublishedAtIsLatest
    <3> QED
      BY <3>5, <3>6
  <2> QED
    BY <2>1, <2>2, <2>3, <2>4 DEF ContentStep
<1>3. QED
  BY <1>1, <1>2, TypeCorrect, PTL DEF Spec

-----------------------------------------------------------------------------
(* The outbox.  What Publication promises is proved of the visibility and the *)
(* outbox of the content tables.                                            *)

\* An item is public.
visible == [i \in Items |-> state[i] = "published"]

LEMMA PubTypeCorrect == Public!PubSpec => []Public!PubTypeOK
<1>1. Public!PubInit => Public!PubTypeOK
  BY DEF Public!PubInit, Public!PubTypeOK, Public!Request, visible
<1>2. Public!PubTypeOK /\ [Public!PubNext]_(Public!pubVars) => Public!PubTypeOK'
  <2> SUFFICES ASSUME Public!PubTypeOK, [Public!PubNext]_(Public!pubVars)
               PROVE  Public!PubTypeOK'
    OBVIOUS
  <2>2. CASE UNCHANGED Public!pubVars
    BY <2>2 DEF Public!PubTypeOK, Public!pubVars, visible
  <2>3. ASSUME NEW i \in Items, Public!Publish(i)
        PROVE  Public!PubTypeOK'
    <3>1. [target |-> i, operation |-> "upsert"] \in Public!Request
      BY DEF Public!Request
    <3>2. outbox' \in Seq(Public!Request)
      BY <2>3, <3>1 DEF Public!PubTypeOK, Public!Publish, visible
    <3>3. visible' \in [Items -> BOOLEAN]
      BY <2>3 DEF Public!PubTypeOK, Public!Publish, visible
    <3> QED
      BY <3>2, <3>3 DEF Public!PubTypeOK, visible
  <2>4. ASSUME NEW i \in Items, Public!Hide(i)
        PROVE  Public!PubTypeOK'
    <3>1. [target |-> i, operation |-> "delete"] \in Public!Request
      BY DEF Public!Request
    <3>2. outbox' \in Seq(Public!Request)
      BY <2>4, <3>1 DEF Public!PubTypeOK, Public!Hide, visible
    <3>3. visible' \in [Items -> BOOLEAN]
      BY <2>4 DEF Public!PubTypeOK, Public!Hide, visible
    <3> QED
      BY <3>2, <3>3 DEF Public!PubTypeOK, visible
  <2> QED
    BY <2>2, <2>3, <2>4 DEF Public!PubNext
<1>3. QED
  BY <1>1, <1>2, PTL DEF Public!PubSpec

LEMMA LatestMatches == Public!PubSpec => []Public!LatestRequestMatches
<1>1. Public!PubInit => Public!LatestRequestMatches
  <2> SUFFICES ASSUME Public!PubInit PROVE Public!LatestRequestMatches
    OBVIOUS
  <2>1. outbox = << >> /\ visible = [i \in Items |-> FALSE]
    BY DEF Public!PubInit, visible
  <2>2. DOMAIN outbox = {} /\ \A i \in Items : ~visible[i]
    BY <2>1
  <2> QED
    BY <2>2 DEF Public!LatestRequestMatches, visible
<1>2. Public!PubTypeOK /\ Public!LatestRequestMatches /\ [Public!PubNext]_(Public!pubVars)
        => Public!LatestRequestMatches'
  <2> SUFFICES ASSUME Public!PubTypeOK, Public!LatestRequestMatches, [Public!PubNext]_(Public!pubVars)
               PROVE  Public!LatestRequestMatches'
    OBVIOUS
  <2>1. ASSUME NEW i \in Items, NEW op \in {"upsert", "delete"},
               visible' = [visible EXCEPT ![i] = (op = "upsert")],
               outbox' = Append(outbox, [target |-> i, operation |-> op])
        PROVE  Public!LatestRequestMatches'
    <3>1. /\ Len(outbox') = Len(outbox) + 1
          /\ DOMAIN outbox' = 1 .. Len(outbox) + 1
          /\ \A k \in 1 .. Len(outbox) : outbox'[k] = outbox[k]
          /\ outbox'[Len(outbox) + 1] = [target |-> i, operation |-> op]
          /\ DOMAIN outbox = 1 .. Len(outbox)
          /\ Len(outbox) \in Nat
      BY <2>1 DEF Public!PubTypeOK, Public!Request, visible
    <3>0. /\ visible'[i] = (op = "upsert")
          /\ \A j \in Items : j # i => visible'[j] = visible[j]
      <4>1. visible \in [Items -> BOOLEAN]
        BY DEF Public!PubTypeOK, visible
      <4> HIDE DEF visible
      <4> QED
        BY <2>1, <4>1
    <3>2. ASSUME NEW k \in DOMAIN outbox', Public!IsLatest(k)'
          PROVE  visible'[outbox'[k].target] <=> outbox'[k].operation = "upsert"
      <4>1. CASE k = Len(outbox) + 1
        <5>1. outbox'[k].target = i /\ outbox'[k].operation = op
          BY <3>1, <4>1
        <5> QED
          BY <3>0, <5>1
      <4>2. CASE k \in 1 .. Len(outbox)
        <5>1. outbox'[k].target # i
          BY <3>1, <3>2, <4>2 DEF Public!IsLatest
        <5>2. Public!IsLatest(k)
          BY <3>1, <3>2, <4>2 DEF Public!IsLatest
        <5>3. outbox[k] \in Public!Request
          BY <3>1, <4>2 DEF Public!PubTypeOK, visible
        <5>4. outbox[k].target \in Items
          BY <5>3 DEF Public!Request
        <5>5. visible[outbox[k].target] <=> outbox[k].operation = "upsert"
          BY <3>1, <4>2, <5>2 DEF Public!LatestRequestMatches, visible
        <5> QED
          BY <3>0, <3>1, <4>2, <5>1, <5>4, <5>5
      <4> QED
        BY <3>1, <4>1, <4>2
    <3>3. ASSUME NEW j \in Items, visible'[j]
          PROVE  \E k \in DOMAIN outbox' : outbox'[k].target = j
      <4>1. CASE j = i
        BY <3>1, <4>1
      <4>2. CASE j # i
        <5>1. visible[j]
          BY <3>0, <3>3, <4>2
        <5>2. \E k \in DOMAIN outbox : outbox[k].target = j
          BY <5>1 DEF Public!LatestRequestMatches, visible
        <5> QED
          BY <3>1, <5>2
      <4> QED
        BY <4>1, <4>2
    <3> QED
      BY <3>2, <3>3 DEF Public!LatestRequestMatches, visible
  <2>2. CASE UNCHANGED Public!pubVars
    BY <2>2 DEF Public!LatestRequestMatches, Public!IsLatest, Public!pubVars, visible
  <2>3. ASSUME NEW i \in Items, Public!Publish(i)
        PROVE  Public!LatestRequestMatches'
    BY <2>1, <2>3 DEF Public!Publish, visible
  <2>4. ASSUME NEW i \in Items, Public!Hide(i)
        PROVE  Public!LatestRequestMatches'
    BY <2>1, <2>4 DEF Public!Hide, visible
  <2> QED
    BY <2>2, <2>3, <2>4 DEF Public!PubNext
<1>3. QED
  BY <1>1, <1>2, PubTypeCorrect, PTL DEF Public!PubSpec

\* No more requests than events, so that both logs fit in one bound.
OutboxFits == Len(outbox) <= Len(events)

\* A decision either publishes, hides, or leaves visibility and outbox alone.
LEMMA DecisionIsPublication ==
  ASSUME TypeOK, OutboxFits, NEW u \in Users, NEW i \in Items, NEW new \in Decisions,
         Decided(u, i, new)
  PROVE  /\ Public!Publish(i) \/ Public!Hide(i) \/ UNCHANGED Public!pubVars
         /\ OutboxFits'
<1>1. /\ Len(events) \in Nat /\ Len(outbox) \in Nat
      /\ Len(events') = Len(events) + 1
      /\ Len(outbox) < MaxEvents
  BY LifecycleAssumption DEF OutboxFits, TypeOK, Decided
<1>2. /\ state[i] \in ContentStates /\ new \in ContentStates
      /\ state[i] = "published" => new = "hidden"
      /\ state'[i] = new
      /\ state' = [state EXCEPT ![i] = new]
  BY DEF Decided, ModeratorTransitions, ContentStates, Decisions, TypeOK
<1>3. [j \in Items |-> state'[j] = "published"]
        = [[j \in Items |-> state[j] = "published"] EXCEPT ![i] = (new = "published")]
  BY <1>2 DEF TypeOK
<1>4. CASE new = "published"
  <2>1. outbox' = Append(outbox, [target |-> i, operation |-> "upsert"])
    BY <1>4 DEF Decided, SearchRequests, TypeOK
  <2>2. state[i] # "published"
    BY <1>2, <1>4
  <2>3. Public!Publish(i)
    BY <1>1, <1>3, <1>4, <2>1, <2>2 DEF Public!Publish
  <2>4. Len(outbox') = Len(outbox) + 1
    BY <2>1 DEF TypeOK
  <2> QED
    BY <1>1, <2>3, <2>4 DEF OutboxFits
<1>5. CASE state[i] = "published"
  <2>1. new = "hidden"
    BY <1>2, <1>5
  <2>2. outbox' = Append(outbox, [target |-> i, operation |-> "delete"])
    BY <1>5, <2>1 DEF Decided, SearchRequests, TypeOK
  <2>3. Public!Hide(i)
    BY <1>1, <1>3, <1>5, <2>1, <2>2 DEF Public!Hide
  <2>4. Len(outbox') = Len(outbox) + 1
    BY <2>2 DEF TypeOK
  <2> QED
    BY <1>1, <2>3, <2>4 DEF OutboxFits
<1>6. CASE new # "published" /\ state[i] # "published"
  <2>1. outbox' = outbox
    BY <1>6 DEF Decided, SearchRequests, TypeOK
  <2>2. [j \in Items |-> state'[j] = "published"] = [j \in Items |-> state[j] = "published"]
    BY <1>2, <1>6 DEF TypeOK
  <2>3. UNCHANGED Public!pubVars
    BY <2>1, <2>2 DEF Public!pubVars
  <2> QED
    BY <1>1, <2>1, <2>3 DEF OutboxFits
<1> QED
  BY <1>4, <1>5, <1>6

(***************************************************************************)
(* The content tables implement Publication: visibility changes only       *)
(* together with one outbox row that says how.                             *)
(***************************************************************************)
THEOREM ImplementsPublication == Spec => PublicationSpec
<1>1. Init => Public!PubInit
  <2> SUFFICES ASSUME Init
               PROVE  Public!PubInit
    OBVIOUS
  <2>1. \A i \in Items : (state[i] = "published") = FALSE
    BY DEF Init
  <2> QED
    BY <2>1 DEF Init, Public!PubInit
<1>2. Init => OutboxFits
  BY DEF Init, OutboxFits
<1>3. TypeOK /\ OutboxFits /\ [Next]_vars
        => OutboxFits' /\ [Public!PubNext]_(Public!pubVars)
  <2> SUFFICES ASSUME TypeOK, OutboxFits, ContentStep
               PROVE  OutboxFits' /\ [Public!PubNext]_(Public!pubVars)
    BY StepsOfContent
  <2>1. CASE Quiet
    BY <2>1 DEF Quiet, OutboxFits, Public!pubVars
  <2>2. ASSUME NEW i \in Items, Imported(i)
        PROVE  OutboxFits' /\ UNCHANGED Public!pubVars
    <3>1. [j \in Items |-> state'[j] = "published"] = [j \in Items |-> state[j] = "published"]
      BY <2>2 DEF Imported, TypeOK
    <3> QED
      BY <2>2, <3>1 DEF Imported, OutboxFits, Public!pubVars
  <2>3. ASSUME NEW u \in Users, NEW i \in Items, Submitted(u, i)
        PROVE  OutboxFits' /\ UNCHANGED Public!pubVars
    <3>1. [j \in Items |-> state'[j] = "published"] = [j \in Items |-> state[j] = "published"]
      BY <2>3 DEF Submitted, TypeOK
    <3>2. /\ Len(events') = Len(events) + 1
          /\ Len(events) \in Nat /\ Len(outbox) \in Nat
      BY <2>3 DEF Submitted, TypeOK
    <3> QED
      BY <2>3, <3>1, <3>2 DEF Submitted, OutboxFits, Public!pubVars
  <2>4. ASSUME NEW u \in Users, NEW i \in Items, NEW new \in Decisions, Decided(u, i, new)
        PROVE  OutboxFits' /\ [Public!PubNext]_(Public!pubVars)
    BY <2>4, DecisionIsPublication DEF Public!PubNext
  <2> QED
    BY <2>1, <2>2, <2>3, <2>4 DEF ContentStep
<1>4. QED
  BY <1>1, <1>2, <1>3, TypeCorrect, PTL DEF Spec, PublicationSpec, Public!PubSpec

(***************************************************************************)
(* The newest outbox row of an item says whether the item is public.       *)
(***************************************************************************)
THEOREM OutboxCorrect == Spec => []OutboxEndsInVisibility
<1> QED
  BY LatestMatches, ImplementsPublication, PTL DEF PublicationSpec, OutboxEndsInVisibility
=============================================================================
