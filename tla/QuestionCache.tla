---------------------------- MODULE QuestionCache ----------------------------
(***************************************************************************)
(* The process-local caches of public responses, among the request workers *)
(* that fill them, the votes and submissions that clear the one of         *)
(* questions and the moderators that do not.  It is about one question or  *)
(* one experience: content_routes has a cache of its own, which nothing    *)
(* clears.  The versions of the item are what a response can show: the     *)
(* votes counted so far and whether it is published.                       *)
(*                                                                         *)
(* A step of a request lies between two of its calls: the lookup, the read *)
(* of the database, the lock, Clear, the commit.  Drogon commits when the  *)
(* handler destroys its transaction, after it has answered.  The clock     *)
(* counts seconds; a lookup reads it when it runs, a Put of a question too, *)
(* but a Put of content_routes is given the instant of its lookup.         *)
(***************************************************************************)
EXTENDS Naturals, Sequences, FiniteSets, SequencesExt, Functions

CONSTANTS ListKeys,     \* keys of pages of the list
          ItemKeys,     \* keys of the item itself, by slug and by id
          LookupKeys,   \* keys of the lists of topics and of companies
          Readers,      \* request workers that answer GETs
          Voters,       \* request workers that answer PUTs of a vote
          Capacity,     \* capacity_
          ListTtl,      \* seconds a page is kept
          ItemTtl,      \* seconds the item is kept
          LookupTtl,    \* seconds lookups and filter options are kept
          MaxRead,      \* bound on the seconds between a read and its Put
          MaxClock,     \* bound on the clock
          MaxVersions   \* bound on the changes of the item

ASSUME CacheAssumption ==
  /\ Capacity \in Nat \ {0}
  /\ ListTtl \in Nat \ {0}
  /\ ItemTtl \in Nat \ {0}
  /\ LookupTtl \in Nat \ {0}
  /\ MaxRead \in Nat
  /\ ListKeys \cap ItemKeys = {}
  /\ (LookupKeys \cup {"filter-options"}) \cap (ListKeys \cup ItemKeys) = {}

VARIABLES
  about,    \* whether the item is a question or an experience
  clock,    \* steady_clock::now()
  entries,  \* entries_: what each cached key shows, until when, since when
  history,  \* the committed versions of the item, oldest first
  rpc,      \* rpc[r]: where r is in its GET
  read,     \* read[r]: the key r asked for (and when, where its Put needs that),
            \* the version it read, and when
  vpc       \* vpc[v]: where v is in its PUT

cacheVars == <<about, clock, entries, history, rpc, read, vpc>>

Keys == ListKeys \cup ItemKeys \cup LookupKeys \cup {"filter-options"}
Ttl(k) == IF k \in ListKeys THEN ListTtl ELSE IF k \in ItemKeys THEN ItemTtl ELSE LookupTtl
Now == Len(history)
Published == history[Now].published
Locked == \E v \in Voters : vpc[v] \in {"locked", "cleared"}

NoRead == [key |-> "none", asked |-> 0, version |-> 0, at |-> 0]
Entry == [version : Nat \ {0}, expires : Nat, inserted : Nat]

CacheTypeOK ==
  /\ about \in {"question", "experience"}
  /\ clock \in Nat
  /\ DOMAIN entries \subseteq Keys
  /\ \A k \in DOMAIN entries : entries[k] \in Entry /\ entries[k].version <= Now
  /\ IsFiniteSet(DOMAIN entries) /\ Cardinality(DOMAIN entries) <= Capacity
  /\ history \in Seq([published : BOOLEAN, since : Nat]) /\ history # << >>
  /\ rpc \in [Readers -> {"idle", "submitted", "read"}]
  /\ read \in [Readers -> {NoRead} \cup [key : Keys, asked : Nat, version : 0 .. Now, at : Nat]]
  /\ vpc \in [Voters -> {"idle", "locked", "cleared"}]

-----------------------------------------------------------------------------
(* PublicResponseCache *)

Without(keys) == Restrict(entries, DOMAIN entries \ keys)

Expired(now) == {k \in DOMAIN entries : now >= entries[k].expires}

\* Get finds a key that has not expired; it erases one that has.
Hit(k) == k \in DOMAIN entries \ Expired(clock)

\* What Put of key k may evict to make room: one of the oldest entries, unless
\* there is room, or k has an entry, once expired entries are gone.
Victims(k, now) ==
  LET kept == DOMAIN entries \ Expired(now)
  IN  IF k \in kept \/ Cardinality(kept) < Capacity THEN {{}}
      ELSE {{old} : old \in {o \in kept : \A p \in kept :
                               entries[o].inserted <= entries[p].inserted}}

Put(k, version, now) ==
  \E victims \in Victims(k, now) :
    LET kept  == Without(Expired(now) \cup victims)
        fresh == [version |-> version, expires |-> now + Ttl(k), inserted |-> now]
    IN  entries' = [x \in DOMAIN kept \cup {k} |-> IF x = k THEN fresh ELSE kept[x]]

-----------------------------------------------------------------------------
(* The GET handlers: on the event loop they look into the cache, and hand    *)
(* the request to a worker, with the key and the time of the lookup, when    *)
(* there is nothing.                                                         *)

Get(r, k, asked) ==
  /\ rpc[r] = "idle"
  /\ IF Hit(k)
     THEN UNCHANGED <<entries, rpc, read>>
     ELSE /\ entries' = Without({k})
          /\ rpc' = [rpc EXCEPT ![r] = "submitted"]
          /\ read' = [read EXCEPT ![r] = [key |-> k, asked |-> asked, version |-> 0, at |-> 0]]
  /\ UNCHANGED <<about, clock, history, vpc>>

\* /questions; /questions/by-slug/{slug}, /questions/{id}.  They read the
\* clock again for their Put.
GetQuestions(r) == about = "question" /\ \E k \in ListKeys : Get(r, k, 0)
GetQuestion(r) == about = "question" /\ \E k \in ItemKeys : Get(r, k, 0)

\* /experiences; /experiences/by-slug/{slug}; /topics, /companies;
\* /meta/filter-options.
GetExperiences(r) == about = "experience" /\ \E k \in ListKeys : Get(r, k, clock)
GetExperience(r) == about = "experience" /\ \E k \in ItemKeys : Get(r, k, clock)
GetLookups(r) == about = "experience" /\ \E k \in LookupKeys : Get(r, k, clock)
GetFilterOptions(r) == about = "experience" /\ Get(r, "filter-options", clock)

\* The worker's query sees the last commit.
Sees(r) ==
  /\ rpc' = [rpc EXCEPT ![r] = "read"]
  /\ read' = [read EXCEPT ![r].version = Now, ![r].at = clock]
  /\ UNCHANGED <<about, clock, entries, history, vpc>>

\* Browse, or the lookups: they show what is published.
ReadPage(r) == rpc[r] = "submitted" /\ read[r].key \notin ItemKeys /\ Sees(r)

\* Mutant: the read model forgets that the item must be published.
FindAny(r) == /\ rpc[r] = "submitted" /\ read[r].key \in ItemKeys
              /\ about = "question" /\ Sees(r)

\* The item is not found unless it is published.
FindPublished(r) == /\ rpc[r] = "submitted" /\ read[r].key \in ItemKeys
                    /\ about = "question" /\ Published /\ Sees(r)

FindPublishedExperience(r) == /\ rpc[r] = "submitted" /\ read[r].key \in ItemKeys
                              /\ about = "experience" /\ Published /\ Sees(r)

\* An error is the answer: the item is not found, or the read fails.  It is
\* not stored.
ReadFails(r) ==
  /\ rpc[r] = "submitted"
  /\ rpc' = [rpc EXCEPT ![r] = "idle"]
  /\ read' = [read EXCEPT ![r] = NoRead]
  /\ UNCHANGED <<about, clock, entries, history, vpc>>

Stored(r, now) ==
  /\ rpc[r] = "read"
  /\ Put(read[r].key, read[r].version, now)
  /\ rpc' = [rpc EXCEPT ![r] = "idle"]
  /\ read' = [read EXCEPT ![r] = NoRead]
  /\ UNCHANGED <<about, clock, history, vpc>>

Store(r) == about = "question" /\ Stored(r, clock)

StoreContent(r) == about = "experience" /\ Stored(r, read[r].asked)

-----------------------------------------------------------------------------
(* PUT /questions/{id}/difficulty, moderation, time *)

CommitVersion(published) ==
  /\ Now < MaxVersions
  /\ history' = Append(history, [published |-> published, since |-> clock])

\* SELECT ... WHERE state = 'published' FOR UPDATE finds the question.
VoteLocks(v) ==
  /\ vpc[v] = "idle" /\ about = "question"
  /\ Published /\ ~Locked
  /\ vpc' = [vpc EXCEPT ![v] = "locked"]
  /\ UNCHANGED <<about, clock, entries, history, rpc, read>>

\* The vote and the score are written; then Clear, and the answer.
VoteClears(v) ==
  /\ vpc[v] = "locked"
  /\ entries' = Without(Keys)
  /\ vpc' = [vpc EXCEPT ![v] = "cleared"]
  /\ UNCHANGED <<about, clock, history, rpc, read>>

\* The vote or the score cannot be written: an error, and nothing is cleared.
VoteFails(v) ==
  /\ vpc[v] = "locked"
  /\ vpc' = [vpc EXCEPT ![v] = "idle"]
  /\ UNCHANGED <<about, clock, entries, history, rpc, read>>

\* The transaction ends with the handler; the commit may fail.
VoteEnds(v) ==
  /\ vpc[v] = "cleared"
  /\ CommitVersion(TRUE) \/ UNCHANGED history
  /\ vpc' = [vpc EXCEPT ![v] = "idle"]
  /\ UNCHANGED <<about, clock, entries, rpc, read>>

\* A submission or an edit of some other question clears the cache too, before
\* it answers and commits.
SubmissionClears ==
  /\ about = "question"
  /\ entries' = Without(Keys)
  /\ UNCHANGED <<about, clock, history, rpc, read, vpc>>

\* A moderator hides, restores or approves the question; its row lock waits for
\* a vote's.
DecideItem ==
  /\ ~Locked
  /\ CommitVersion(~Published)
  /\ UNCHANGED <<about, clock, entries, rpc, read, vpc>>

\* Seconds pass, but no read takes longer than MaxRead.
Tick ==
  /\ clock < MaxClock
  /\ \A r \in Readers : rpc[r] = "read" => clock < read[r].at + MaxRead
  /\ clock' = clock + 1
  /\ UNCHANGED <<about, entries, history, rpc, read, vpc>>

CacheInit ==
  /\ about \in {"question", "experience"}
  /\ clock = 0
  /\ entries = << >>
  /\ history = << [published |-> TRUE, since |-> 0] >>
  /\ rpc = [r \in Readers |-> "idle"]
  /\ read = [r \in Readers |-> NoRead]
  /\ vpc = [v \in Voters |-> "idle"]

CacheNext ==
  \/ \E r \in Readers : \/ GetQuestions(r) \/ GetQuestion(r)
                        \/ GetExperiences(r) \/ GetExperience(r)
                        \/ GetLookups(r) \/ GetFilterOptions(r)
                        \/ ReadPage(r) \/ FindPublished(r) \/ FindPublishedExperience(r)
                        \/ ReadFails(r) \/ Store(r) \/ StoreContent(r)
  \/ \E v \in Voters : VoteLocks(v) \/ VoteClears(v) \/ VoteFails(v) \/ VoteEnds(v)
  \/ SubmissionClears
  \/ DecideItem
  \/ Tick

CacheSpec == CacheInit /\ [][CacheNext]_cacheVars

-----------------------------------------------------------------------------
(* Properties. *)

\* However reads, votes and moderation interleave, what a cache serves was
\* the item's committed state less than its time to live, plus the time a
\* read takes, ago: this is how soon a hide is observable
\* (public_response_cache.h, "Entries expire quickly so a moderation
\* visibility change becomes observable"), although a hide clears nothing and
\* a read from before it may be stored after it.  A page of the item itself
\* never shows what was not public.
ServedIsRecent ==
  \A k \in Keys : Hit(k) =>
    LET shown == entries[k].version
    IN  /\ shown < Now => clock < history[shown + 1].since + MaxRead + Ttl(k)
        /\ k \in ItemKeys => history[shown].published
=============================================================================
