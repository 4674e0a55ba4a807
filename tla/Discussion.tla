------------------------------ MODULE Discussion ------------------------------
(***************************************************************************)
(* Comments and reports (social_routes.cc, moderation_routes.cc, migrations *)
(* 005, 013, 015).  A request is authenticated, and acts later, statement   *)
(* by statement; meanwhile others act, items are hidden or restored, roles  *)
(* are taken away and accounts suspended.  The handlers answer before their *)
(* transaction commits; nothing here depends on the answer.                 *)
(***************************************************************************)
EXTENDS Naturals, Sequences, FiniteSets

CONSTANTS People,
          Items,        \* questions and experiences
          Comments, Reports,   \* the rows there may come to be
          Requests,     \* the requests under way at one time
          AuthorOf,     \* the author of each item
          Asked,        \* what people ask for
          Staff,        \* the moderators there are at first
          NoOne,
          MaxDecisions, \* bound: decisions about reports
          MaxChanges    \* bound: changes of items and accounts

Targets == Items \cup Comments \cup People
ReportStates == {"open", "resolved", "dismissed"}
Verdicts == {"resolved", "dismissed"}

\* What a request may ask for; "on" is an item, a comment, a target or a report.
Input ==
  [op : {"comment"}, who : People, on : Items]
    \cup [op : {"delete", "hide", "report comment"}, who : People, on : Comments]
    \cup [op : {"report"}, who : People, on : Targets]
    \cup [op : {"resolve"}, who : People, on : Reports,
          expected : ReportStates, verdict : Verdicts]

ASSUME DiscussionAssumption ==
  /\ Asked \subseteq Input
  /\ AuthorOf \in [Items -> People]
  /\ Staff \subseteq People
  /\ NoOne \notin People \cup Items \cup Comments \cup Reports
  /\ Comments \cap Items = {} /\ Comments \cap People = {} /\ Items \cap People = {}
  /\ MaxDecisions \in Nat /\ MaxChanges \in Nat

VARIABLES shownItems,  \* the items that are published
          moderators,  \* the people with the role
          activePeople, \* the people whose account is active
          comment,     \* the rows of comments
          commentLog,  \* comment_moderation_events
          report,      \* the rows of content_reports that are committed
          reportLog,   \* report_moderation_events
          step,        \* where each request is
          input,       \* who asks for what in it
          changes

discussionVars == <<shownItems, moderators, activePeople, comment, commentLog, report,
                    reportLog, step, input, changes>>
accounts == <<moderators, activePeople, changes>>
content == <<comment, commentLog, report, reportLog>>
requests == <<step, input>>

Row == [state : {"visible", "hidden", "deleted", "absent"},
        author : People \cup {NoOne}, item : Items \cup {NoOne}]
Complaint == [state : ReportStates \cup {"absent"},
              reporter : People \cup {NoOne}, target : Targets \cup {NoOne}]

CommentEvent == [of : Comments, by : People,
                 from : {"visible", "hidden", "deleted"}, to : {"hidden", "deleted"}]
ReportEvent == [of : Reports, by : People, from : ReportStates, to : Verdicts]

DiscussionTypeOK ==
  /\ shownItems \subseteq Items
  /\ moderators \subseteq People /\ activePeople \subseteq People
  /\ comment \in [Comments -> Row] /\ report \in [Reports -> Complaint]
  /\ commentLog \in Seq(CommentEvent) /\ reportLog \in Seq(ReportEvent)
  /\ step \in [Requests -> {"idle", "trusted", "found", "selected", "locked", "inserted"}]
  /\ input \in [Requests -> Input \cup {NoOne}]
  /\ changes \in Nat

DiscussionInit ==
  /\ shownItems = Items /\ moderators = Staff /\ activePeople = People
  /\ comment = [c \in Comments |-> [state |-> "absent", author |-> NoOne, item |-> NoOne]]
  /\ report = [x \in Reports |-> [state |-> "absent", reporter |-> NoOne, target |-> NoOne]]
  /\ commentLog = <<>> /\ reportLog = <<>>
  /\ step = [r \in Requests |-> "idle"]
  /\ input = [r \in Requests |-> NoOne]
  /\ changes = 0
-----------------------------------------------------------------------------
(* Requests.                                                               *)

\* The request asks for op and is at that step.
At(r, op, s) == step[r] = s /\ input[r].op = op

GoTo(r, s) == step' = [step EXCEPT ![r] = s] /\ UNCHANGED input

EndRequest(r) == /\ step' = [step EXCEPT ![r] = "idle"]
                 /\ input' = [input EXCEPT ![r] = NoOne]

\* Sign-in, origin and CSRF token, and the role where one is needed, are
\* looked at first; the request acts on what it found then.
Admit(r) ==
  /\ step[r] = "idle"
  /\ \E in \in Asked :
       /\ in.who \in activePeople
       /\ in.op \in {"hide", "resolve"} => in.who \in moderators
       /\ input' = [input EXCEPT ![r] = in]
  /\ step' = [step EXCEPT ![r] = "trusted"]
  /\ UNCHANGED <<shownItems, accounts, content>>

\* The body is not acceptable, or the limiter refuses.
RefuseRequest(r) ==
  /\ step[r] = "trusted" /\ input[r].op # "delete"
  /\ EndRequest(r)
  /\ UNCHANGED <<shownItems, accounts, content>>
-----------------------------------------------------------------------------
(* Comments.                                                               *)

TargetId(r) ==
  /\ At(r, "comment", "trusted")
  /\ IF input[r].on \in shownItems THEN GoTo(r, "found") ELSE EndRequest(r)
  /\ UNCHANGED <<shownItems, accounts, content>>

\* One statement.  The trigger looks at the item again, without a lock.
CreateComment(r) ==
  /\ At(r, "comment", "found")
  /\ \/ /\ input[r].on \in shownItems
        /\ \E c \in Comments :
             /\ comment[c].state = "absent"
             /\ comment' = [comment EXCEPT ![c] =
                  [state |-> "visible", author |-> input[r].who, item |-> input[r].on]]
     \/ /\ input[r].on \notin shownItems
        /\ UNCHANGED comment
  /\ EndRequest(r)
  /\ UNCHANGED <<shownItems, accounts, commentLog, report, reportLog>>

\* Mutant: FOR SHARE holds nothing.
HeldByNobody(x) == FALSE

\* A row that a report holds FOR SHARE cannot be updated until it commits.
Held(x) == \E r \in Requests : /\ step[r] \in {"locked", "inserted"}
                               /\ input[r].on = x

\* The update of a comment's state and its trigger.
Audited(r, c, to) ==
  /\ comment' = [comment EXCEPT ![c].state = to]
  /\ commentLog' = Append(commentLog, [of |-> c, by |-> input[r].who,
                                       from |-> comment[c].state, to |-> to])

\* Mutant: the author may delete the comment in whatever state it is.
DeleteAnyState(r) ==
  LET c == input[r].on IN
  /\ At(r, "delete", "trusted") /\ ~Held(c)
  /\ \/ /\ comment[c].state # "absent" /\ comment[c].author = input[r].who
        /\ Audited(r, c, "deleted")
     \/ /\ ~(comment[c].state # "absent" /\ comment[c].author = input[r].who)
        /\ UNCHANGED <<comment, commentLog>>
  /\ EndRequest(r)
  /\ UNCHANGED <<shownItems, accounts, report, reportLog>>

DeleteComment(r) ==
  LET c == input[r].on IN
  /\ At(r, "delete", "trusted") /\ ~Held(c)
  /\ \/ /\ comment[c].state = "visible" /\ comment[c].author = input[r].who
        /\ Audited(r, c, "deleted")
     \/ /\ ~(comment[c].state = "visible" /\ comment[c].author = input[r].who)
        /\ UNCHANGED <<comment, commentLog>>
  /\ EndRequest(r)
  /\ UNCHANGED <<shownItems, accounts, report, reportLog>>

\* Mutant: the role that was there when the request came is enough.
HideOnTrust(r) ==
  LET c == input[r].on IN
  /\ At(r, "hide", "trusted") /\ ~Held(c)
  /\ \/ comment[c].state = "visible" /\ Audited(r, c, "hidden")
     \/ comment[c].state # "visible" /\ UNCHANGED <<comment, commentLog>>
  /\ EndRequest(r)
  /\ UNCHANGED <<shownItems, accounts, report, reportLog>>

\* The trigger looks at the role of the moderator as it is now.
HideComment(r) ==
  LET c == input[r].on IN
  /\ At(r, "hide", "trusted") /\ ~Held(c)
  /\ \/ /\ comment[c].state = "visible" /\ input[r].who \in moderators
        /\ Audited(r, c, "hidden")
     \/ /\ ~(comment[c].state = "visible" /\ input[r].who \in moderators)
        /\ UNCHANGED <<comment, commentLog>>
  /\ EndRequest(r)
  /\ UNCHANGED <<shownItems, accounts, report, reportLog>>
-----------------------------------------------------------------------------
(* Reports.                                                                *)

IsOpen(who, x) == \E y \in Reports : report[y] = [state |-> "open", reporter |-> who,
                                                  target |-> x]

\* Mutant: there is no unique index to wait at.
NothingPending(who, x) == FALSE

\* Somebody inserted a report with the same key and has not committed it:
\* the unique index makes the next one wait.
Pending(who, x) == \E r \in Requests : /\ step[r] = "inserted"
                                       /\ input[r].who = who /\ input[r].on = x

\* What may be reported: what others made, or are, and everybody can see.
Reportable(x, who) ==
  \/ x \in Items /\ x \in shownItems /\ AuthorOf[x] # who
  \/ x \in Comments /\ comment[x].state = "visible" /\ comment[x].author # who
  \/ x \in People /\ x \in activePeople /\ x # who

\* SELECT ... FOR SHARE, in the transaction that inserts the report.
LockTarget(r) ==
  /\ At(r, "report", "trusted")
  /\ IF Reportable(input[r].on, input[r].who) THEN GoTo(r, "locked") ELSE EndRequest(r)
  /\ UNCHANGED <<shownItems, accounts, content>>

CreateReport(r) ==
  /\ At(r, "report", "locked")
  /\ ~Pending(input[r].who, input[r].on)
  /\ IF IsOpen(input[r].who, input[r].on) THEN EndRequest(r) ELSE GoTo(r, "inserted")
  /\ UNCHANGED <<shownItems, accounts, content>>

\* A new row of content_reports.
Filed(who, x) == \E y \in Reports :
  /\ report[y].state = "absent"
  /\ report' = [report EXCEPT ![y] = [state |-> "open", reporter |-> who, target |-> x]]

CommitReport(r) ==
  /\ step[r] = "inserted"
  /\ Filed(input[r].who, input[r].on)
  /\ EndRequest(r)
  /\ UNCHANGED <<shownItems, accounts, comment, commentLog, reportLog>>

\* The transaction fails, after the answer perhaps.
RollBackReport(r) ==
  /\ step[r] \in {"locked", "inserted"}
  /\ EndRequest(r)
  /\ UNCHANGED <<shownItems, accounts, content>>

\* The route below a comment has one statement for all of it, which selects
\* the comment without a lock and may have to wait before it inserts.
SelectComment(r) ==
  /\ At(r, "report comment", "trusted")
  /\ IF Reportable(input[r].on, input[r].who) THEN GoTo(r, "selected") ELSE EndRequest(r)
  /\ UNCHANGED <<shownItems, accounts, content>>

ReportComment(r) ==
  LET c == input[r].on  who == input[r].who IN
  /\ At(r, "report comment", "selected")
  /\ ~Pending(who, c)
  /\ \/ ~IsOpen(who, c) /\ Filed(who, c)
     \/ IsOpen(who, c) /\ UNCHANGED report
  /\ EndRequest(r)
  /\ UNCHANGED <<shownItems, accounts, comment, commentLog, reportLog>>

\* Mutant: the UPDATE does not ask for the expected state.
ResolveBlindly(r) ==
  LET in == input[r] IN
  /\ At(r, "resolve", "trusted")
  /\ \/ /\ report[in.on].state # "absent" /\ Len(reportLog) < MaxDecisions
        /\ report' = [report EXCEPT ![in.on].state = in.verdict]
        /\ reportLog' = Append(reportLog, [of |-> in.on, by |-> in.who,
                                           from |-> in.expected, to |-> in.verdict])
     \/ report[in.on].state = "absent" /\ UNCHANGED <<report, reportLog>>
  /\ EndRequest(r)
  /\ UNCHANGED <<shownItems, accounts, comment, commentLog>>

\* The update and the audit row are one statement; the role is not looked at
\* again.  A decided report may be decided again.
ResolveReport(r) ==
  LET in == input[r] IN
  /\ At(r, "resolve", "trusted")
  /\ \/ /\ report[in.on].state = in.expected /\ Len(reportLog) < MaxDecisions
        /\ report' = [report EXCEPT ![in.on].state = in.verdict]
        /\ reportLog' = Append(reportLog, [of |-> in.on, by |-> in.who,
                                           from |-> in.expected, to |-> in.verdict])
     \/ report[in.on].state # in.expected /\ UNCHANGED <<report, reportLog>>
  /\ EndRequest(r)
  /\ UNCHANGED <<shownItems, accounts, comment, commentLog>>
-----------------------------------------------------------------------------
(* Others: decisions about items (ContentLifecycle) and the operator.       *)

ChangeItem(i) ==
  /\ changes < MaxChanges /\ ~Held(i)
  /\ shownItems' = IF i \in shownItems THEN shownItems \ {i} ELSE shownItems \cup {i}
  /\ changes' = changes + 1
  /\ UNCHANGED <<moderators, activePeople, content, requests>>

ChangeAccount(p) ==
  /\ changes < MaxChanges /\ ~Held(p)
  /\ \/ /\ moderators' = IF p \in moderators THEN moderators \ {p} ELSE moderators \cup {p}
        /\ UNCHANGED activePeople
     \/ /\ activePeople' = IF p \in activePeople THEN activePeople \ {p} ELSE activePeople \cup {p}
        /\ UNCHANGED moderators
  /\ changes' = changes + 1
  /\ UNCHANGED <<shownItems, content, requests>>

DiscussionNext ==
  \/ \E r \in Requests :
       \/ Admit(r) \/ RefuseRequest(r)
       \/ TargetId(r) \/ CreateComment(r) \/ DeleteComment(r) \/ HideComment(r)
       \/ LockTarget(r) \/ CreateReport(r) \/ CommitReport(r) \/ RollBackReport(r)
       \/ SelectComment(r) \/ ReportComment(r) \/ ResolveReport(r)
  \/ \E i \in Items : ChangeItem(i)
  \/ \E p \in People : ChangeAccount(p)

DiscussionSpec == DiscussionInit /\ [][DiscussionNext]_discussionVars
-----------------------------------------------------------------------------
(* Properties.                                                             *)

CommentTrail == INSTANCE AuditedStates WITH
  Things <- Comments, Actors <- People, First <- "visible", Absent <- "absent",
  States <- {"visible", "hidden", "deleted"},
  Moves <- {<<"visible", "hidden">>, <<"visible", "deleted">>},
  state <- [c \in Comments |-> comment[c].state], log <- commentLog

ReportTrail == INSTANCE AuditedStates WITH
  Things <- Reports, Actors <- People, First <- "open", Absent <- "absent",
  States <- ReportStates, Moves <- ReportStates \X Verdicts,
  state <- [y \in Reports |-> report[y].state], log <- reportLog

(* A comment is hidden or deleted once and never comes back, and the trigger *)
(* of migration 013 writes down every change there was: the table and its    *)
(* log behave as AuditedStates, whoever races with whom.                     *)
CommentsAreAudited == CommentTrail!Spec

(* Every decision about a report is written down with the state it was       *)
(* taken from, though the row and the log are written from what the          *)
(* moderator's page said (ResolveReport's expected state).                   *)
ReportsAreAudited == ReportTrail!Spec

(* Nobody has two open reports of the same thing, neither by two requests at *)
(* once, nor by the two routes there are for comments, nor because a decided *)
(* report comes back.                                                        *)
OneOpenReport ==
  \A y, z \in Reports :
    report[y].state = "open" /\ report[z] = report[y] => y = z

(* When CreateReport's transaction commits, what it reports is published,    *)
(* visible or active, and not the reporter's own, whoever hid, deleted or    *)
(* suspended it since the request came: what FOR SHARE is for.  The route    *)
(* below a comment does not promise it.                                      *)
ReportedIsThere ==
  [][\A r \in Requests : step[r] = "inserted" /\ step'[r] # "inserted" /\ report' # report
       => Reportable(input[r].on, input[r].who)]_discussionVars

(* A comment is deleted by its author and hidden by somebody who is a        *)
(* moderator at that time, also when the role went after HideComment had     *)
(* looked at it.                                                             *)
CommentsEndRightly ==
  [][\A c \in Comments :
       /\ comment[c].state # "deleted" /\ comment'[c].state = "deleted"
            => commentLog'[Len(commentLog')].by = comment[c].author
       /\ comment[c].state # "hidden" /\ comment'[c].state = "hidden"
            => commentLog'[Len(commentLog')].by \in moderators]_discussionVars
=============================================================================
