# Verification of PlacementDB

TLA+ models of PlacementDB's API server, its database rules and its search
worker, the TLC configurations that check them on small instances, and proofs
of their main properties that TLAPS checks for all values of the constants.
`PROJECT.json` maps every definition to the lines it models.

    tlc -workers 2 -config MCSessions.cfg MCSessions     # one run
    tlapm SessionsProofs.tla                             # one module's proofs

## The system

PlacementDB is a question bank. A browser talks to a SvelteKit server, which
calls a C++ API (Drogon) with the browser's cookies; the API keeps its data in
PostgreSQL, where triggers enforce part of its rules, and a worker thread of
the API keeps a Meilisearch index up to date.

    browser --cookies--> SvelteKit --HTTP--> event loops --RequestExecutor--> handlers
                                                          handlers --PasswordExecutor--> argon2
                                                          handlers --PublicResponseCache
                                                          handlers --SQL--> PostgreSQL (triggers)
                                             search thread --SQL--> search_outbox --> Meilisearch

| Component | State | Operations | What makes it correct |
| --- | --- | --- | --- |
| Content lifecycle (`006_moderation.sql`, `submission_routes.cc`, `moderation_routes.cc`) | `questions`, `experiences`, `moderation_events`, `search_outbox` | submit, edit, approve, reject, request changes, hide, restore, import | decisions only by other people who are moderators; the audit log and the outbox tell the whole story |
| Search outbox and worker (`outbox.cc`, `search_worker.cc`, `runtime.cc`) | leases, attempts and back-offs of rows, the index | recover, claim, look up, write, finish | whatever fails, the index ends up showing what is published, and nothing else |
| Sessions, CSRF, registration (`auth_routes.cc`, `current_user.cc`, `repository.cc`, SvelteKit's `api.ts`) | `users`, `sessions`, the cookie jar, rendered forms | log in, register, log out, load a form, post it | a form acts for whoever it was made for, and only while his session and account stand |
| Difficulty votes (`question_routes.cc`, `014_*.sql`) | `difficulty_votes`, `question_difficulty_scores` | vote | the score counts every vote; votes only on published questions of others |
| Public response caches (`public_response_cache.cc`, `question_routes.cc`, `content_routes.cc`) | entries with a deadline | get, put, clear | what they serve was true not long ago |
| Comments and reports (`social_routes.cc`, `moderation_routes.cc`, `013_*.sql`, `015_*.sql`) | `comments`, `content_reports`, their logs | comment, delete, hide, report by two routes, resolve | each end and each decision is written down once; one open report each; what is reported is there |
| Profiles and avatars (`social_routes.cc`, `avatar_store.cc`) | `profiles.avatar_key`, a directory | upload, remove | the file a profile names exists; none is orphaned |
| Lists, search and cursors (`social_routes.cc`, `moderation_routes.cc`, the read models, `content_routes.cc`) | none: a reader's cursor or page number | the next page | a reader comes to all that stayed, once; of numbered pages, up to the last number and while nothing changes |
| Bulk import (`tools/import/load_archive.py` and `.sql`, `import.cc`, `010_*.sql`) | batches, sources, provenance | resolve, cite, trace, commit | a workbook is there whole, from one archive |
| Addresses (`ip_address.cc`) | where the walk of a text is, the groups it has taken | parse, truncate | one client, one prefix, however it is written |
| Rate limiter (`rate_limiter.cc`) | a bucket for each client | consume | it keeps to the limit and to its own `Retry-After` |
| Request executor (`request_executor.cc`) | queue, workers | submit, work, stop | accepted requests are served; stopping ends, and is quiet |
| Password executor (`password_executor.cc`) | queue, workers, jobs on callers' stacks | run, work, drain | a caller's answer is what became of his job; nobody waits for ever |
| Ranking, cryptography, validation, pages, fixtures, deployment | | | not modelled: see the end |

What is hard about it: handlers run on several threads and consist of several
statements with no common transaction; a transaction commits when its handle
is destroyed, after the answer has been handed over; rules are split between a
statement's `WHERE` and a trigger; the search worker may crash anywhere and a
lease may outlive or underlive its worker; condition variables are notified
outside their mutex; the cache is cleared before a commit, and by some writers
not at all; browsers have several tabs with one cookie jar. `PROJECT.json`
lists these as hazards at their lines, each with the properties that would
catch it going wrong.

## The modules

| Module | Models |
| --- | --- |
| `Publication` | abstract: items become visible and invisible, each time with a row of a log |
| `ContentLifecycle` | the tables and the trigger; implements `Publication` |
| `DerivedIndex` | abstract: an index that never settles an item at a wrong visibility, and may be anything about the unsettled |
| `SearchOutbox` | the outbox and its workers on top of `Publication`; with one process implements `DerivedIndex` |
| `QuestionCache` | the two caches of responses, their readers, voters and moderators |
| `DifficultyVotes` | the vote's transaction, statement by statement, with PostgreSQL's row lock and snapshots |
| `Sessions` | a browser's requests, SvelteKit's calls and the API's statements about sessions |
| `PasswordExecutor`, `RequestExecutor` | the two pools, at the grain of critical sections |
| `VoteRequests` | composition: the request executor, whose jobs are the votes of `DifficultyVotes` |
| `AuthRequests` | composition: the request executor, whose workers are the callers of `PasswordExecutor` |
| `AuditedStates` | abstract: things that move between states, and a log of every move |
| `Discussion` | comments and reports, statement by statement; implements `AuditedStates` twice |
| `Avatars` | files and the rows that name them, without a common transaction |
| `Listings` | ten lists read page by page while their rows change, by cursors or by page numbers that are clamped |
| `Imports` | imports of one workbook, by the loader and by `ImportRepository`, side by side and repeated |
| `Addresses` | the parser of addresses, turn by turn, and a definition of what a text means |
| `RateLimiter` | one bucket for each client, with the units of its clock |
| `*Proofs` | the theorems about the module they extend; `PartsProofs` those about `Avatars`, `Imports`, `Listings`, `QuestionCache`, `Discussion` and `RateLimiter`, `RequestsProofs` those about `VoteRequests`, `AuthRequests` and `DifficultyVotes` |
| `MC*` | symmetry and configured constants for TLC; `MCParts` and `MCWorkers` put modules that share no state into one run |

`Publication` ties the first two halves together: the lifecycle is shown to
produce exactly its behaviours, and the outbox model is built on it, so what
the worker is checked against is what the trigger writes.

**ContentLifecycle.** `state`, `author`, `version` (`updated_at` as a counter),
`publishedAt`, `role` and `active` are columns; `events` and `outbox` the two
append-only tables. A mutation takes two steps, as in the code: `Authenticate`
(session, role, CSRF), then one action per statement: `Submit`, `Edit`,
`Decide`, `ImportDraft`, each with the trigger applied to its row
(`TriggerAccepts`, `TriggerEffect`). `ChangeAccount` is the operator, who may
act between the two. Answers are outside the model: a transaction is one step,
as PostgreSQL makes it for a row that is locked by its UPDATE, and rows of one
item are numbered in the order of those updates.

**SearchOutbox.** One step per statement and per call to Meilisearch. `Recover`,
`ClaimEntries`, `NextEntry`, `Load`, `Write`, `Finish` are `RunOnce` and
`ProcessClaimed`. While `healthy` is false any of them may fail, with or
without effect (a lost reply); `Crash` loses a worker's memory; `ExpireLease`
and `BackoffEnds` are the database's clock. A batch is a set, since `UPDATE ...
RETURNING` promises no order. Meilisearch is taken to apply the tasks it accepts
in the order it accepted them; that a task fails later is left out, as the code
never asks. `ClaimEntries` takes its batch when the UPDATE is answered, before the
transaction commits: the worker may go on with rows whose claim was rolled back.
`ExpireLease` on a live worker's row needs `~healthy`: a lease is 60 s for a batch
of 25 rows, so it is outlived only when calls hang.

**Sessions.** A request is what the browser asks of SvelteKit, and it goes
through the API's statements: `FindByTokenHash` and `FindById` are
`Authenticate`; `SetCsrfTokenHash`, `Mutate`, `DeleteByTokenHash` what follows.
`Insert`, `Commit` and `ReplyBeforeCommit` are registration, whose 201 may reach
the browser before its rows are committed, or although they never will be.
`Reply` delivers cookies and forms in any order, or loses them. `Lapse` is the
14 days without a `Touch`, which has no caller. A token stands for the random
string and its hash; two draws never give the same one. Left out: the login
form's stateless token, roles, rate limits and the `Origin` header. SvelteKit's
one retry of a GET is one more load of the form.

**DifficultyVotes.** `Authenticate`, `Select ... FOR UPDATE`, `Vote`, `Refresh`
(the trigger), `Answer`, `Commit`, with `RollBack` for whatever fails, after the
answer too. A score is modelled as the votes it was computed from, so that it
counts a vote or does not; weights are left out.

**QuestionCache.** A GET is a lookup, a read and a `Put`, a vote is a lock,
`Clear`, an answer and a commit, a moderation only a commit. One item stands for
all, a question or an experience: the second cache is `content_routes`', which
nobody clears and whose `Put`s carry the instant of the lookup. A version of the
item is what a response could show. `MaxRead` is the assumption that a handler's
read of the database and its `Put` are at most so far apart: the code has no
bound of its own.

**The executors.** Every section under the mutex is a step; notifications are
steps of their own where the code sends them after unlocking; sleepers wake
spuriously as well. One thread drains or stops: `main` runs the event loops,
then stops the pool, then the runtime, and destructors come last. In
`VoteRequests` a job is a vote and ends when its handler does; in `AuthRequests`
it is a login, a registration or something else, and a handler that hashes is
inside `Run` until `Run` returns. A job ends by returning or by throwing, at any
place, which the worker's loop survives: `EndJob` is both. `Drain` of the password
pool follows `Stop`: it is the destructor of the pool, in `AuthState`.

**Discussion.** `Admit` is what a handler finds of session and role, and the
request acts on it later. `LockTarget`, `CreateReport`, `CommitReport` are the
transaction of `POST /reports` with its `FOR SHARE`; `SelectComment` and
`ReportComment` are the one statement of the route below a comment, which may
wait at the unique index between its two halves. Deleting, hiding and resolving
are one statement each, with the trigger or the audit row. `ChangeItem` and
`ChangeAccount` are everybody else; they wait for rows that are held. An uncommitted
report is not a row yet, but is in everybody's way (`Pending`). The commit is the
end of the handler, after its answer.

**Avatars.** `OpenTemporary`, `Rename`, `SelectPrevious`, `UpsertProfile` and
`RemovePrevious` are an upload; `RemoveNew` is the catch-all, which is also reached
after the upsert. A statement may fail after it took effect; a file may not let
itself be removed, which the code ignores (`RemoveFails`); the process may die
anywhere. **Listings.** A page is one
query, two for comments (the anchor is looked up only if the page is empty) and
two for a search (the index, then PostgreSQL). The pages of `questions`,
`experiences` and `search` are counted by `Offset`; the number asked for is clamped to
`LastPage`, while `total_pages` counts on, so a reader who goes on is given the last
page again. With it the index is never asked for an offset it would refuse
(`MaxOffset`); that it stops counting hits at a limit of its own is left out. `Enter`,
`Leave`, `Touch` and `ChangePublished` are the rows' own life. `upset` records what
takes away a promise: the row a cursor names moved, or a row of a numbered list
entered, left or moved.
**Imports.** One transaction: `ResolveBatch`, `EnsureSource`, `CommitImport`, with
`LoadBatch` and `LoadRow` of the loader, which passes over what is there, or
`CreateBatch` and `AddProvenance` of `ImportRepository`, which refuses it; an insert
waits for a rival's key. No C++ code calls `ImportRepository`: its caller is taken to
keep the order and the one transaction that `import.h` asks for. **Addresses.** A
text is a sequence of signs and runs of characters. `Receive` cuts the host out of
one of its spellings, `BeginParse` and `EndParse` are what `ParseIpv6` does before
and after its loop, and each way a turn of the loop can go is an action:
`DottedTail`, `LastGroup`, `NextGroup`, `Compress`, and the refusals `NoGroup`,
`SecondCompression` and `BadGroupEnd`. `Meaning` is a definition without a walk.
**RateLimiter.** Ticks per millisecond are a
constant, so that the division of one by the other shows.

## What is checked

| Run | Instance | Shows |
| --- | --- | --- |
| `lifecycle` | 3 people, 1 item, 5 events, 5 versions | types; the audit log replays each item's history; every decision was by somebody else who was a moderator then; `published_at` is the latest publication's; the last outbox row asks for the present visibility; `Publication` is implemented |
| `resubmission` (violated) | 2 people, 1 item | an owner's edit of what a moderator sent back, with the current version, is refused |
| `workers`, search | 1 process, 1 item, 3 changes, batches of 2, 2 attempts, 1 crash | when an item's latest row is done the index shows what is published; `DerivedIndex` is implemented; once things stay healthy the index catches up, or a row is dead |
| `outbox_two_workers` | 2 processes with owners of their own | a row ends once, and every row ends |
| `outbox_rivals` (violated) | 2 processes | `SettledIsIndexed` fails: a hidden item can stay in the index |
| `sessions` | 2 accounts, 2 sessions, 2 CSRF tokens, 1 tab, 2 requests | forms act for their reader, logged-out sessions stay out, suspension and logout take effect, one registration per name |
| `vote_requests` | 3 people, 1 question, 2 workers, 3 votes, queue of 1, 2 decisions of others | the score counts every committed vote, the answer counts the voter's own, votes only go to published questions; accepted requests are served; after `Stop` no handler is at any statement |
| `workers`, hashing | 2 callers, 2 workers, queue of 1 | answers, places, no lost wakeup; every `Run` and `Drain` returns |
| `password_job_lifetime` (violated) | 1 caller, 1 worker | a worker may notify a condition variable whose job the caller has dropped |
| `auth_requests` | a login, a registration, another request; 2 request workers, 1 hashing worker, queues of 1 | every accepted request ends and `Stop` returns, although the workers wait for each other's hashing; nothing is hashed for a request that is over |
| `parts` | six parts, below | see below |
| `page_boundaries` (violated) | 3 rows, pages of 1, 1 change | a reader of `GET /questions` is given each question that stays, once |
| `limiter` (violated) | 1 client, capacity 2, 10 ticks to a millisecond | a client is served before the `Retry-After` he was told |

`workers` checks two modules that share no state, `parts` six. A behaviour is one of one
of them, so each run is a union. The parts of `parts`:

| Part | Instance | Shows |
| --- | --- | --- |
| avatars | 2 owners, 2 requests, 3 keys, 1 fault | the file a profile names exists, unless its update was reported as failed; nothing is left behind while nothing fails and no two uploads of an owner meet |
| imports | 1 workbook, 2 archives with other rows, 2 sources, 2 imports, each by the loader or by `ImportRepository` | sources and rows are of the archive the batch names; a workbook is there whole or not at all |
| listings | ten lists, 4 rows, pages of 1, 3 numbered pages, 2 changes | who came to the end was given all that stayed, and nothing that stayed twice; of a numbered list, up to its last page and while it does not change |
| addresses | texts of up to 5 pieces, 4 groups | what means an address is stored as its prefix, the same for every spelling; nothing is stored of a text that means none, but for the quad of what reads as one with a port |
| cache | 2 readers, 1 voter, room for 1 entry, 3 s, keys of a page, an item and a lookup | what is served was overtaken less than a time to live and a read ago; an item's page shows what was public |
| discussion | 2 people, 1 item, 1 comment, 2 reports, 2 requests, 1 change, 2 decisions | comments and reports implement `AuditedStates`; one open report each; what is reported is there; comments end rightly |

### The bounds, and why they do

*Lifecycle.* Three people are an author, a moderator and a second moderator or
a demoted one. Five events go from submission through publication and hiding to
a second publication. The trigger looks at one row, so one item has every
interleaving about it; the theorems hold for any number of everything.
*Outbox.* Three changes make show, hide, show with three rows at once in the
outbox; batches of two leave one behind. Two attempts are the least with a retry
and a death (the code has ten); the counter stops at the bound, after which the
code only compares it. `MaxCrashes` bounds crashes, not faults.
*Sessions.* Two requests are a race of anything with anything; two tokens of each
kind are two sessions or two forms of one.
*Votes.* Two workers race; two accounts vote and one changes its vote, over a queue
of one; the author may not vote. `MaxOthers` lets a question be hidden and come
back.
*Pools.* One caller queued behind one that runs, both workers idle or busy; with a
queue of 1 the third is refused. In `auth_requests` both request workers can be
inside `Run`, one running and one queued, while the third request waits. The
proofs of the password pool cover every size.
*Avatars.* Two requests race, for one owner or two; a third key is drawn after one
was dropped; one fault is a crash or a lost answer at any place.
*Listings.* Four rows in pages of one are four pages, one more than a number can
name (`LastPage` is 3, the code's is 200), with two changes between any two of them; a search begins with at most one row that PostgreSQL does not
publish, and two more may become so.
*Addresses.* The parser compares the number of groups with `GroupCount` only, so
four stand for eight: two fit an IPv4 part, two more fit around `::`. `Pieces`
has a whole dotted part as one piece, so that five pieces reach it behind groups.
The proof is for any text and number of groups.
*Cache.* Room for one entry evicts at every second key; times to live of 1 and 2
with a clock of 3 let an entry outlive one change and expire after another.
*Discussion.* Two requests of two people meet in every pair of operations, and one
change of an item, a role or an account comes between. Two reports are one that
is decided and one that follows it.
*Limiter.* Two ticks would do to see the unit; ten leave the counterexample short.

Deadlock is off where the system may come to rest: nothing left to ask for
within a bound, a pool that has stopped.

### Fairness

*Outbox*: a worker thread keeps taking steps (`RunSearch` loops until stopped),
and leases and back-offs run out, since clocks advance. Nothing makes the
system healthy: `IndexCatchesUp` speaks of behaviours in which it stays so.
*Password pool*: a caller goes on when it can run, or when its wait can time out
(it waits with a deadline); workers and the draining thread take their steps,
so hashing terminates. No fairness for spurious wakeups, and none that makes
anyone call `Run` or `Drain`. *Auth requests*: loops finish their `Submit`,
request and hashing workers and the stopping thread go on; statements end,
because database calls time out, and a wait in `Run` has its deadline. Requests
and `Stop` need not come.

### What the violated runs found

* `submission_routes.cc` offers an edit of content for which changes were
  requested, but `ReplaceDraft` (`repository.cc:291`, and `:466` for experiences)
  runs without `placedb.actor_id`, which the trigger demands: such content can
  never be resubmitted.
* `password_executor.cc:73`: see `password_job_lifetime`; the notification
  belongs inside the lock.
* With two search processes, the lookup and the write of one enclose those of
  the other (`search_worker.cc:69`).
* `question_read_model.cc:176` says that the tie-breaker keeps page boundaries from
  repeating or skipping a row. The pages are cut by `OFFSET` (`:207`), each by a query of
  its own: a question that is published, hidden or moved between two of them shifts
  those behind it over a boundary. (Page 201 and later ones are page 200.)
* `rate_limiter.cc:19` divides nanoseconds by milliseconds: a bucket is full again
  after a millionth of its period.

A disagreement that is not a run: `question_routes.h:32` wants the cache cleared
after every change of a question; votes and submissions do so, before they commit,
and moderation does not (`moderation_routes.cc:246`). What holds in spite of it is
`ServedIsRecent`: a hidden question is served until its entry expires.

## What is proved

For every value of the constants that the `ASSUME`s allow. Each proof is by an
inductive invariant; every step of it names the action it is about. Type
invariants are proved and not listed in the runs. `PROJECT.json` lists the
theorems.

The assumptions say what the code has: depths, capacities and page lengths are
positive, the threads that hash and the rows of a list are finitely many, a marker
such as `NoJob` is not one of the things it stands beside. The rate limiter's theorems
state theirs: its constructor makes capacity and period positive (`LimitIsPositive`).

**Lifecycle** (`ContentLifecycleProofs`): type correctness,
`AuditTrailReplays`, `DecidedByAnotherModerator`, `PublishedAtIsLatest`,
`OutboxEndsInVisibility`, and that `Publication` is implemented. A lemma reduces
every action to a `ContentStep`: nothing that matters changes, or one item
moves and one event, and perhaps one row, is appended. The audit invariant is
carried over an append by facts about the last event of each item.
`OutboxEndsInVisibility` is not inductive on the tables alone; it is proved of
`Publication` and carried down the refinement.

**Outbox** (`SearchOutboxProofs`): for any number of workers, type correctness and
`RowsEndOnce`. `EndsRight` says what a statement may do to one row: only a pending
or claimed row changes, and it dies only at `MaxAttempts`; that a worker whose claim
was taken over cannot end a row rests on the guard `HeldBy`. For one process,
`SettledIsIndexed` and the implementation of `DerivedIndex`: an item is settled only
when the index shows its visibility, and nothing is written about a settled one. What
is written about the others is open there: any visibility, since a document may be old
when it arrives. The
invariant `IndexInv` adds what the worker holds between its steps: a document
that was looked up is current unless a later row exists (`DocCurrent`), and what
was written is in the index (`WrittenIsIndexed`). That a single process is
needed is not an artefact: `outbox_rivals`.

**Sessions** (`SessionsProofs`): all four properties. The heart is `Issued`: a
CSRF token, in a row, a page or a request, is with the session it was minted
for; fresh tokens keep it so. `Registering` says that a registration that has
not committed is the only one of its name, and that its account and session do
not exist yet. `Observed`, beside the invariant, carries what a form found on
its way.

**Password pool** (`PasswordExecutorProofs`): types, including that the counter
`active` is the number of busy workers, `AnswerTellsWhatRan`,
`EveryJobHasOnePlace` and `NoLostWakeup`. `PoolInv` says where a job is for each
place of its caller and of the workers: in the queue once, with one worker, or
done. `NoLostWakeup` compares numbers: each step that lets the queue grow by one lets
the set of callers about to notify grow by one, and a notification turns such a
caller into a worker that looks, or finds nobody asleep. For that `WakeupInv` adds
that those callers are finitely many, since the model has any number of callers.

**Request executor** (`RequestExecutorProofs`): types and `AcceptedIsServed`.
`OnePlaceEach` says that a job is accepted and not ended exactly while the queue
has it once or one worker has it. `StopsInOrder` says that a worker has left only
when the queue is empty and stopping keeps it so, and that `Stop` has returned only
when all have left.

**The two compositions** (`RequestsProofs`). `VoteRequests` implements both `RequestExecutor` and
`DifficultyVotes` (`RequestsImplementExecutor`, `RequestsImplementVotes`), so what
is proved of each holds of both together (`RequestsCorrect`).
`QuietWhenStopped` needs what neither has: a handler that is at a statement is a job
that its worker runs (`HandlerIsAJob`). `AuthRequests` implements `PasswordExecutor`
(`AuthImplementsPool`), so the pool's three promises hold when its callers are the
executor's threads (`AuthAnswersCorrect`), and `AcceptedIsServed` holds although
they wait in `Run`. `HashingIsForARequest` follows from `HandlersInRun`: a thread is
inside `Run` only while it runs a request that came to its hashing; when `Stop` has
returned nobody is and nobody can enter.

**Votes** (`RequestsProofs`): all three properties. `VotesInv` adds that a
draft score counts what its transaction will commit, and that a locked question
is published; the exclusion that the row lock gives is what makes the sum right.

**Addresses** (`AddressesProofs`): types and `OnePrefix`, for any text, any number of
groups from four on, and any reading of the runs. `WalkIsFaithful` is the
invariant of the loop: between two groups, what was taken since the start or
since the `::` are the groups listed there (`Alternate`, `HexGroups`), no `::` has
been passed unseen, and what was taken before it is the whole list up to it. A
list may end at several places from there, so a turn that refuses needs that
none of them gives a list (`RefusedMeansNothing`), which rests on what any list
looks like at the place where the walk is (`ListedHere`); and a turn that goes on
needs that what it takes is what a list has there. The lists are said without
recursion, so no induction over texts is needed: the steps of the walk are the
induction. `AddressesInv` adds that the host is `Bare` of a spelling of the text.
`OnePrefix` then follows from lemmas about spellings: `Bare` undoes each of them
(`BareOfBracketed`, `BareOfPlain`, `BareOfQuad`), unless the address is mapped, and
then it means zeros, `ffff` and the quad's two groups, so that `Prefix` gives the
quad's own (`MappedMeans`, `PrefixOfMapped`). Of a text that means none, the parser
refuses what `Bare` makes of it, unless that is the quad before a colon (`QuadAndPort`).

**Discussion** (`PartsProofs`, like all that follows): all five properties, two of
them as implementations of `AuditedStates`. `DiscussionInv` adds `HeldIsThere` (what
a transaction holds `FOR SHARE` stays reportable, since whoever would change it
waits) and `KeysDiffer` (keys that are inserted and not committed differ from
each other and from every open report), which is what makes `OneOpenReport`
inductive. `CommentMoves` and `ReportMoves` map each step to one of
`AuditedStates`. What `AuditedStates` promises of its log, `LogReplays`, is proved
for both logs (`CommentsAreRetold`, `ReportsAreRetold`) from its moves alone, by
lemmas about appending to a log; `Trail` adds that only what came into being has
entries.

**Cache**: types, with the capacity, and
`ServedIsRecent`. `EntriesAreTimely` bounds each entry's expiry twice: by now and
its time to live, and, once it is overtaken, by the time it was overtaken, a read
and its time to live. `ReadsAreRecent` says the same of what is read and not yet
stored. Neither mentions `Clear`: the property holds whatever is cleared.

**Avatars**: types, `NamedFileExists` and `NoFileIsLeftBehind`. `AvatarsInv` says
whom a key belongs to: until a profile names it, to one upload, which has renamed
its file by then (`UnnamedIsNew`); and what a request will remove is named by
nobody, or by its owner until he names another (`RemovedIsUnnamed`). `TidyInv` says
of an undisturbed behaviour that what a request read is still so (`Tidy`).

**Imports**: types, `OriginIsStated` and `WholeOrNothing`, for the loader, the
repository and any mixture. `BatchIsOurs`: an import
that has inserted its batch is the only one of its workbook and none is committed,
and one that went on without inserting found its own archive. `SourcesAreKnown`: rows
are traced when all sources are in the transaction or committed.

**Lists**: types, `NothingIsSkipped` and `NothingIsRepeated`, for any finite set of
rows, any page length and any last page. `WalksByCursor` says that a reader has every steady row up
to his cursor's and, unless rows moved, none behind it; `WalksByOffset` that, if
the list did not change, he has the steady rows of the pages he asked for, which needs
ranks: how many rows come before one (`Rank`), and that a page holds the next ranks.

**Rate limiter**: types and `ServedFlowedIn`, which no run checks: who is served
spends tokens that were in his bucket at first or have flowed in (`FlowsIn`), whatever
the clock counts in. `RetryAfterKeptInOneUnit` locates what the run `limiter` found:
if a millisecond had one tick, `RetryAfterIsKept` would hold, so nothing but the unit
is wrong. It says nothing of the code as it is. Doubles are taken as exact.

**Only model-checked.** Liveness (`IndexCatchesUp`, `EveryRowEnds`, `RunReturns`,
`DrainReturns`, `EveryJobEnds`, `StopReturns`): TLAPS has no liveness under fairness
and no `ENABLED`. What the violated runs refute is not proved, of course.

## What is not modelled, and the plan

Every invariant and action property that a passing run checks is proved. What
could come next is the difficulty mathematics, which needs arithmetic that TLC does
not have.

Left out of modelled parts:

* the profile's text (one upsert of other columns), `under_review` (a state of
  reports that nothing writes), the login form's stateless token, `Prune`, `Touch`
  and other repository operations without a caller;
* filters of lists, the relevance of hits, how Meilisearch parses a query, and
  what becomes of a task that it accepts and then fails;
* what the route below a comment reports need not be there any more when its row is
  inserted, since it takes no lock: `ReportedIsThere` does not speak of it;
* answers before commits: the models let a commit fail afterwards (`RollBack`,
  `RollBackReport`, in `Sessions` the second disjunct of `Commit`, after which a cookie
  names nothing), but no property is about the answer, as nothing promises it;
* logging out may be refused when another tab draws a form token between its two
  calls; the page accepts that (`routes/logout/+page.server.ts`).

Left out altogether: floating-point difficulty and ranking formulas
(`RankingService` has no caller), cryptography, text validation and
serialization, rendering, configuration, health checks, deployment. A `PATCH`'s
texts, topics and rounds are one version number. `last_seen_at` is said to be
refreshed and is not (`session.h:49`): a session ends 14 days after its login,
which `Lapse` is.
