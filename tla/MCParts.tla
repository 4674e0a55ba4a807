-------------------------------- MODULE MCParts --------------------------------
(***************************************************************************)
(* Instances of the parts that share no state: each behaviour is one of one *)
(* part, and the others rest where they begin.                              *)
(***************************************************************************)
EXTENDS Avatars, Imports, Listings, Addresses, QuestionCache, Discussion, TLC

CONSTANTS run0, run7, runFFFF, runZZ, ann, mod, a1, n3

VARIABLE part

Parts == {"avatars", "imports", "listings", "addresses", "cache", "discussion"}

HexOfRun == run0 :> 0 @@ run7 :> 7 @@ runFFFF :> 65535 @@ runZZ :> NoAddress
OctetOfRun == run0 :> 0 @@ run7 :> 7 @@ runFFFF :> NoAddress @@ runZZ :> NoAddress
PiecesHere == {<<x>> : x \in Runs \cup {":", "."}}
                \cup {<<":", ":">>, <<run7, ".", run0, ".", run7, ".", run7>>}

\* The second archive exports a row under another id.
RowsOfArchives == [a \in Archives |-> IF a = a1 THEN WorkbookRows \ {n3} ELSE {n3}]

\* Rows are interchangeable: they begin in the order of their names, and where
\* they stay in their places these are as good as any.  The index begins with one
\* row at most that is not published.
InOrder == /\ \A x, y \in ListRows : x < y => order[x] < order[y]
           /\ list \in Reordered \/ \A x \in ListRows : order[x] = x
           /\ Cardinality(unlisted) <= 1

\* A list like any other, when the behaviour is about something else.
ListRests == list = "audit" /\ listed = {} /\ unlisted = {} /\ order = [x \in ListRows |-> x]

\* ann comments on her item; mod reports what is ann's, by both
\* routes, and decides; reports are decided twice, from either state.
AuthorOfItems == [i \in Items |-> ann]
AskedHere ==
  [op : {"comment"}, who : {ann}, on : Items]
    \cup [op : {"delete"}, who : {ann, mod}, on : Comments]
    \cup [op : {"hide", "report comment"}, who : {mod}, on : Comments]
    \cup [op : {"report"}, who : {mod}, on : Items \cup {ann} \cup Comments]
    \cup [op : {"resolve"}, who : {mod}, on : Reports,
          expected : {"open", "resolved"}, verdict : {"resolved"}]

partsVars == <<part, avatarVars, importVars, listingVars, addressVars, cacheVars,
               discussionVars>>

PartsInit ==
  /\ part \in Parts
  /\ AvatarsInit /\ ImportsInit /\ AddressesInit /\ DiscussionInit
  /\ ListingsInit /\ IF part = "listings" THEN InOrder ELSE ListRests
  /\ CacheInit /\ (part = "cache" \/ about = "question")

PartsNext ==
  /\ \/ part = "avatars" /\ AvatarsNext
     \/ part # "avatars" /\ UNCHANGED avatarVars
  /\ \/ part = "imports" /\ ImportsNext
     \/ part # "imports" /\ UNCHANGED importVars
  /\ \/ part = "listings" /\ ListingsNext
     \/ part # "listings" /\ UNCHANGED listingVars
  /\ \/ part = "addresses" /\ AddressesNext
     \/ part # "addresses" /\ UNCHANGED addressVars
  /\ \/ part = "cache" /\ CacheNext
     \/ part # "cache" /\ UNCHANGED cacheVars
  /\ \/ part = "discussion" /\ DiscussionNext
     \/ part # "discussion" /\ UNCHANGED discussionVars
  /\ UNCHANGED part

PartsSpec == PartsInit /\ [][PartsNext]_partsVars

Symmetry == Permutations(Readers) \cup Permutations(Requests)
=============================================================================
