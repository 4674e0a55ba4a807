------------------------------ MODULE PartsProofs ------------------------------
(***************************************************************************)
(* The properties of the parts that share no state with one another: the    *)
(* files of avatars, the bulk import, the lists that are read page by page,  *)
(* the caches of public responses, comments and reports, and buckets of      *)
(* tokens.  Each is proved for any number of owners, imports, rows, people   *)
(* and requests, and for any bound.                                          *)
(***************************************************************************)
EXTENDS Avatars, Imports, Listings, QuestionCache, Discussion, RateLimiter,
        FiniteSetTheorems, WellFoundedInduction, TLAPS

-----------------------------------------------------------------------------
(* Avatars: profiles name files that are there.                             *)

\* An upload whose key no profile names yet.
Unnamed(u) == place[u] \in {"writing", "stored", "read"}

\* A key was drawn before it is used, and no two profiles share one.
KeysAreDrawn ==
  /\ files \subseteq drawn /\ temporary \subseteq drawn
  /\ \A a \in Owners : avatarKey[a] \in drawn \cup {Nothing}
  /\ \A u \in Uploads : fresh[u] \in drawn \cup {Nothing} /\ previous[u] \in drawn \cup {Nothing}
  /\ \A a, b \in Owners : avatarKey[a] = avatarKey[b] /\ avatarKey[a] # Nothing => a = b

\* What a request knows at each place.
RequestsHold ==
  \A u \in Uploads :
    /\ place[u] = "none" <=> owner[u] = Nothing
    /\ place[u] \in {"none", "cleared"} <=> fresh[u] = Nothing
    /\ place[u] \in {"none", "writing", "stored"} => previous[u] = Nothing

\* A key that is not named yet belongs to one upload, and its file is renamed
\* before the key goes to a profile.
UnnamedIsNew ==
  \A u \in Uploads : Unnamed(u) =>
    /\ \A a \in Owners : avatarKey[a] # fresh[u]
    /\ \A v \in Uploads : previous[v] # fresh[u] /\ (fresh[v] = fresh[u] => v = u)
    /\ IF place[u] = "writing" THEN fresh[u] \notin files ELSE fresh[u] \in files

\* What a request will remove is named by no profile, or only by its owner's
\* until he names another.
RemovedIsUnnamed ==
  \A u \in Uploads :
    /\ place[u] = "failing" =>
         fresh[u] \in unsure \/ \A a \in Owners : avatarKey[a] # fresh[u]
    /\ previous[u] # Nothing =>
         \A a \in Owners : avatarKey[a] = previous[u] =>
           a = owner[u] /\ place[u] \in {"read", "failing"}

\* While nothing fails and nobody has two requests at once, what a request has
\* read is still so, and every temporary file has its writer.
Tidy ==
  /\ \A u \in Uploads :
       /\ \A v \in Uploads : owner[u] = owner[v] /\ owner[u] # Nothing => u = v
       /\ place[u] # "failing"
       /\ place[u] = "read" => previous[u] = avatarKey[owner[u]]
       /\ place[u] = "named" => fresh[u] = avatarKey[owner[u]]
  /\ \A k \in temporary : \E u \in Uploads : place[u] = "writing" /\ fresh[u] = k

AvatarsInv ==
  /\ AvatarsTypeOK
  /\ KeysAreDrawn /\ RequestsHold /\ UnnamedIsNew /\ RemovedIsUnnamed
  /\ NamedFileExists

TidyInv == (~disturbed => Tidy) /\ NoFileIsLeftBehind

LEMMA OpenTemporaryKeeps ==
  ASSUME AvatarsInv, NEW u \in Uploads, OpenTemporary(u)
  PROVE  AvatarsInv'
<1> USE AvatarsAssumption DEF AvatarsInv, AvatarsTypeOK
<1>1. AvatarsTypeOK'
  BY DEF OpenTemporary, Begin, GoOn, UploadPlaces
<1>2. KeysAreDrawn'
  BY DEF OpenTemporary, Begin, GoOn, KeysAreDrawn, RequestsHold, UnnamedIsNew
<1>3. RequestsHold'
  BY DEF OpenTemporary, Begin, GoOn, RequestsHold, UploadPlaces
<1>4. UnnamedIsNew'
  BY DEF OpenTemporary, Begin, GoOn, KeysAreDrawn, RequestsHold, UnnamedIsNew, Unnamed
<1>5. RemovedIsUnnamed'
  BY DEF OpenTemporary, Begin, GoOn, KeysAreDrawn, RequestsHold, UnnamedIsNew, Unnamed,
         RemovedIsUnnamed
<1>6. NamedFileExists'
  BY DEF OpenTemporary, Begin, GoOn, NamedFileExists, UnnamedIsNew, Unnamed,
         RemovedIsUnnamed
<1> QED
  BY <1>1, <1>2, <1>3, <1>4, <1>5, <1>6

LEMMA RenameKeeps ==
  ASSUME AvatarsInv, NEW u \in Uploads, Rename(u)
  PROVE  AvatarsInv'
<1> USE AvatarsAssumption DEF AvatarsInv, AvatarsTypeOK
<1>1. AvatarsTypeOK'
  BY DEF Rename, NoFault, GoOn, UploadPlaces, RequestsHold
<1>2. KeysAreDrawn'
  BY DEF Rename, NoFault, GoOn, KeysAreDrawn, RequestsHold, UnnamedIsNew
<1>3. RequestsHold'
  BY DEF Rename, NoFault, GoOn, RequestsHold, UploadPlaces
<1>4. UnnamedIsNew'
  BY DEF Rename, NoFault, GoOn, KeysAreDrawn, RequestsHold, UnnamedIsNew, Unnamed
<1>5. RemovedIsUnnamed'
  BY DEF Rename, NoFault, GoOn, KeysAreDrawn, RequestsHold, UnnamedIsNew, Unnamed,
         RemovedIsUnnamed
<1>6. NamedFileExists'
  BY DEF Rename, NoFault, GoOn, NamedFileExists, UnnamedIsNew, Unnamed, RemovedIsUnnamed
<1> QED
  BY <1>1, <1>2, <1>3, <1>4, <1>5, <1>6

LEMMA PutFailsKeeps ==
  ASSUME AvatarsInv, NEW u \in Uploads, PutFails(u)
  PROVE  AvatarsInv'
<1> USE AvatarsAssumption DEF AvatarsInv, AvatarsTypeOK
<1>1. AvatarsTypeOK'
  <2>1. CASE NoFault
    BY <2>1 DEF PutFails, Finished, NoFault, GoOn, UploadPlaces
  <2>2. CASE Fault
    BY <2>2 DEF PutFails, Finished, Fault, GoOn, UploadPlaces
  <2> QED
    BY <2>1, <2>2 DEF PutFails
<1>2. KeysAreDrawn'
  BY DEF PutFails, Finished, NoFault, Fault, GoOn, KeysAreDrawn, RequestsHold, UnnamedIsNew
<1>3. RequestsHold'
  BY DEF PutFails, Finished, NoFault, Fault, GoOn, RequestsHold, UploadPlaces
<1>4. UnnamedIsNew'
  BY DEF PutFails, Finished, NoFault, Fault, GoOn, KeysAreDrawn, RequestsHold, UnnamedIsNew,
         Unnamed
<1>5. RemovedIsUnnamed'
  BY DEF PutFails, Finished, NoFault, Fault, GoOn, KeysAreDrawn, RequestsHold, UnnamedIsNew,
         Unnamed, RemovedIsUnnamed
<1>6. NamedFileExists'
  BY DEF PutFails, Finished, NoFault, Fault, GoOn, NamedFileExists, UnnamedIsNew, Unnamed,
         RemovedIsUnnamed
<1> QED
  BY <1>1, <1>2, <1>3, <1>4, <1>5, <1>6

LEMMA SelectPreviousKeeps ==
  ASSUME AvatarsInv, NEW u \in Uploads, SelectPrevious(u)
  PROVE  AvatarsInv'
<1> USE AvatarsAssumption DEF AvatarsInv, AvatarsTypeOK
<1>1. AvatarsTypeOK'
  BY DEF SelectPrevious, NoFault, GoOn, UploadPlaces, RequestsHold
<1>2. KeysAreDrawn'
  BY DEF SelectPrevious, NoFault, GoOn, KeysAreDrawn, RequestsHold, UnnamedIsNew
<1>3. RequestsHold'
  BY DEF SelectPrevious, NoFault, GoOn, RequestsHold, UploadPlaces
<1>4. UnnamedIsNew'
  BY DEF SelectPrevious, NoFault, GoOn, KeysAreDrawn, RequestsHold, UnnamedIsNew, Unnamed
<1>5. RemovedIsUnnamed'
  BY DEF SelectPrevious, NoFault, GoOn, KeysAreDrawn, RequestsHold, UnnamedIsNew,
         Unnamed, RemovedIsUnnamed
<1>6. NamedFileExists'
  BY DEF SelectPrevious, NoFault, GoOn, NamedFileExists, UnnamedIsNew, Unnamed,
         RemovedIsUnnamed
<1> QED
  BY <1>1, <1>2, <1>3, <1>4, <1>5, <1>6

LEMMA UpsertProfileKeeps ==
  ASSUME AvatarsInv, NEW u \in Uploads, UpsertProfile(u)
  PROVE  AvatarsInv'
<1> USE AvatarsAssumption DEF AvatarsInv, AvatarsTypeOK
<1>1. AvatarsTypeOK'
  BY DEF UpsertProfile, NoFault, GoOn, UploadPlaces, RequestsHold
<1>2. KeysAreDrawn'
  BY DEF UpsertProfile, NoFault, GoOn, KeysAreDrawn, RequestsHold, UnnamedIsNew, Unnamed,
         UploadPlaces
<1>3. RequestsHold'
  BY DEF UpsertProfile, NoFault, GoOn, RequestsHold, UploadPlaces
<1>4. UnnamedIsNew'
  BY DEF UpsertProfile, NoFault, GoOn, KeysAreDrawn, RequestsHold, UnnamedIsNew, Unnamed
<1>5. RemovedIsUnnamed'
  BY DEF UpsertProfile, NoFault, GoOn, KeysAreDrawn, RequestsHold, UnnamedIsNew, Unnamed,
         RemovedIsUnnamed
<1>6. NamedFileExists'
  BY DEF UpsertProfile, NoFault, GoOn, NamedFileExists, UnnamedIsNew, Unnamed,
         RemovedIsUnnamed
<1> QED
  BY <1>1, <1>2, <1>3, <1>4, <1>5, <1>6

LEMMA StatementFailsKeeps ==
  ASSUME AvatarsInv, NEW u \in Uploads, StatementFails(u)
  PROVE  AvatarsInv'
<1> USE AvatarsAssumption DEF AvatarsInv, AvatarsTypeOK
<1>1. AvatarsTypeOK'
  BY DEF StatementFails, Fault, GoOn, UploadPlaces, RequestsHold
<1>2. KeysAreDrawn'
  BY DEF StatementFails, Fault, GoOn, KeysAreDrawn, RequestsHold, UnnamedIsNew, Unnamed,
         UploadPlaces
<1>3. RequestsHold'
  BY DEF StatementFails, Fault, GoOn, RequestsHold, UploadPlaces
<1>4. UnnamedIsNew'
  BY DEF StatementFails, Fault, GoOn, KeysAreDrawn, RequestsHold, UnnamedIsNew, Unnamed
<1>5. RemovedIsUnnamed'
  BY DEF StatementFails, Fault, GoOn, KeysAreDrawn, RequestsHold, UnnamedIsNew, Unnamed,
         RemovedIsUnnamed
<1>6. NamedFileExists'
  BY DEF StatementFails, Fault, GoOn, NamedFileExists, UnnamedIsNew, Unnamed,
         RemovedIsUnnamed
<1> QED
  BY <1>1, <1>2, <1>3, <1>4, <1>5, <1>6

LEMMA RemovePreviousKeeps ==
  ASSUME AvatarsInv, NEW u \in Uploads, RemovePrevious(u)
  PROVE  AvatarsInv'
<1> USE AvatarsAssumption DEF AvatarsInv, AvatarsTypeOK
<1>1. AvatarsTypeOK'
  BY DEF RemovePrevious, Finished, NoFault, GoOn, UploadPlaces
<1>2. KeysAreDrawn'
  BY DEF RemovePrevious, Finished, NoFault, GoOn, KeysAreDrawn, RequestsHold, UnnamedIsNew
<1>3. RequestsHold'
  BY DEF RemovePrevious, Finished, NoFault, GoOn, RequestsHold, UploadPlaces
<1>4. UnnamedIsNew'
  BY DEF RemovePrevious, Finished, NoFault, GoOn, KeysAreDrawn, RequestsHold,
         UnnamedIsNew, Unnamed
<1>5. RemovedIsUnnamed'
  BY DEF RemovePrevious, Finished, NoFault, GoOn, KeysAreDrawn, RequestsHold,
         UnnamedIsNew, Unnamed, RemovedIsUnnamed
<1>6. NamedFileExists'
  BY DEF RemovePrevious, Finished, NoFault, GoOn, NamedFileExists, UnnamedIsNew, Unnamed,
         RemovedIsUnnamed
<1> QED
  BY <1>1, <1>2, <1>3, <1>4, <1>5, <1>6

LEMMA RemoveNewKeeps ==
  ASSUME AvatarsInv, NEW u \in Uploads, RemoveNew(u)
  PROVE  AvatarsInv'
<1> USE AvatarsAssumption DEF AvatarsInv, AvatarsTypeOK
<1>1. AvatarsTypeOK'
  BY DEF RemoveNew, Finished, NoFault, GoOn, UploadPlaces
<1>2. KeysAreDrawn'
  BY DEF RemoveNew, Finished, NoFault, GoOn, KeysAreDrawn, RequestsHold, UnnamedIsNew
<1>3. RequestsHold'
  BY DEF RemoveNew, Finished, NoFault, GoOn, RequestsHold, UploadPlaces
<1>4. UnnamedIsNew'
  BY DEF RemoveNew, Finished, NoFault, GoOn, KeysAreDrawn, RequestsHold, UnnamedIsNew,
         Unnamed
<1>5. RemovedIsUnnamed'
  BY DEF RemoveNew, Finished, NoFault, GoOn, KeysAreDrawn, RequestsHold, UnnamedIsNew,
         Unnamed, RemovedIsUnnamed
<1>6. NamedFileExists'
  BY DEF RemoveNew, Finished, NoFault, GoOn, NamedFileExists, UnnamedIsNew, Unnamed,
         RemovedIsUnnamed
<1> QED
  BY <1>1, <1>2, <1>3, <1>4, <1>5, <1>6

LEMMA RemoveFailsKeeps ==
  ASSUME AvatarsInv, NEW u \in Uploads, RemoveFails(u)
  PROVE  AvatarsInv'
<1> USE AvatarsAssumption DEF AvatarsInv, AvatarsTypeOK
<1>1. AvatarsTypeOK'
  BY DEF RemoveFails, Finished, Fault, GoOn, UploadPlaces
<1>2. KeysAreDrawn'
  BY DEF RemoveFails, Finished, Fault, GoOn, KeysAreDrawn, RequestsHold, UnnamedIsNew
<1>3. RequestsHold'
  BY DEF RemoveFails, Finished, Fault, GoOn, RequestsHold, UploadPlaces
<1>4. UnnamedIsNew'
  BY DEF RemoveFails, Finished, Fault, GoOn, KeysAreDrawn, RequestsHold, UnnamedIsNew,
         Unnamed
<1>5. RemovedIsUnnamed'
  BY DEF RemoveFails, Finished, Fault, GoOn, KeysAreDrawn, RequestsHold, UnnamedIsNew,
         Unnamed, RemovedIsUnnamed
<1>6. NamedFileExists'
  BY DEF RemoveFails, Finished, Fault, GoOn, NamedFileExists, UnnamedIsNew, Unnamed,
         RemovedIsUnnamed
<1> QED
  BY <1>1, <1>2, <1>3, <1>4, <1>5, <1>6

LEMMA ClearProfileKeeps ==
  ASSUME AvatarsInv, NEW u \in Uploads, ClearProfile(u)
  PROVE  AvatarsInv'
<1> USE AvatarsAssumption DEF AvatarsInv, AvatarsTypeOK
<1>1. AvatarsTypeOK'
  BY DEF ClearProfile, Begin, GoOn, UploadPlaces
<1>2. KeysAreDrawn'
  BY DEF ClearProfile, Begin, GoOn, KeysAreDrawn, RequestsHold, UnnamedIsNew
<1>3. RequestsHold'
  BY DEF ClearProfile, Begin, GoOn, RequestsHold, UploadPlaces
<1>4. UnnamedIsNew'
  BY DEF ClearProfile, Begin, GoOn, KeysAreDrawn, RequestsHold, UnnamedIsNew, Unnamed
<1>5. RemovedIsUnnamed'
  BY DEF ClearProfile, Begin, GoOn, KeysAreDrawn, RequestsHold, UnnamedIsNew, Unnamed,
         RemovedIsUnnamed
<1>6. NamedFileExists'
  BY DEF ClearProfile, Begin, GoOn, NamedFileExists, UnnamedIsNew, Unnamed, RemovedIsUnnamed
<1> QED
  BY <1>1, <1>2, <1>3, <1>4, <1>5, <1>6

LEMMA ClearFailsKeeps ==
  ASSUME AvatarsInv, NEW u \in Uploads, ClearFails(u)
  PROVE  AvatarsInv'
<1> USE AvatarsAssumption DEF AvatarsInv, AvatarsTypeOK
<1>1. AvatarsTypeOK'
  BY DEF ClearFails, Fault, UploadPlaces
<1>2. KeysAreDrawn'
  BY DEF ClearFails, Fault, KeysAreDrawn, RequestsHold, UnnamedIsNew
<1>3. RequestsHold'
  BY DEF ClearFails, Fault, RequestsHold, UploadPlaces
<1>4. UnnamedIsNew'
  BY DEF ClearFails, Fault, KeysAreDrawn, RequestsHold, UnnamedIsNew, Unnamed
<1>5. RemovedIsUnnamed'
  BY DEF ClearFails, Fault, KeysAreDrawn, RequestsHold, UnnamedIsNew, Unnamed,
         RemovedIsUnnamed
<1>6. NamedFileExists'
  BY DEF ClearFails, Fault, NamedFileExists, UnnamedIsNew, Unnamed, RemovedIsUnnamed
<1> QED
  BY <1>1, <1>2, <1>3, <1>4, <1>5, <1>6

LEMMA CrashKeeps ==
  ASSUME AvatarsInv, Crash
  PROVE  AvatarsInv'
<1> USE AvatarsAssumption DEF AvatarsInv, AvatarsTypeOK
<1>1. AvatarsTypeOK'
  BY DEF Crash, Fault, UploadPlaces
<1>2. KeysAreDrawn'
  BY DEF Crash, Fault, KeysAreDrawn, RequestsHold, UnnamedIsNew
<1>3. RequestsHold'
  BY DEF Crash, Fault, RequestsHold, UploadPlaces
<1>4. UnnamedIsNew'
  BY DEF Crash, Fault, KeysAreDrawn, RequestsHold, UnnamedIsNew, Unnamed
<1>5. RemovedIsUnnamed'
  BY DEF Crash, Fault, KeysAreDrawn, RequestsHold, UnnamedIsNew, Unnamed, RemovedIsUnnamed
<1>6. NamedFileExists'
  BY DEF Crash, Fault, NamedFileExists, UnnamedIsNew, Unnamed, RemovedIsUnnamed
<1> QED
  BY <1>1, <1>2, <1>3, <1>4, <1>5, <1>6

LEMMA OpenTemporaryIsTidy ==
  ASSUME AvatarsInv, TidyInv, NEW u \in Uploads, OpenTemporary(u)
  PROVE  TidyInv'
<1> USE AvatarsAssumption DEF AvatarsInv, AvatarsTypeOK, TidyInv
<1>1. ASSUME ~disturbed' PROVE Tidy'
  <2>1. PICK a \in Owners, k \in AvatarKeys \ drawn :
          /\ place[u] = "none" /\ owner' = [owner EXCEPT ![u] = a]
          /\ temporary' = temporary \cup {k} /\ fresh' = [fresh EXCEPT ![u] = k]
          /\ place' = [place EXCEPT ![u] = "writing"]
          /\ ~disturbed /\ \A v \in Uploads : owner[v] # a
          /\ UNCHANGED <<avatarKey, previous>>
    BY <1>1 DEF OpenTemporary, Begin, Overlaps, GoOn
  <2>2. /\ owner'[u] = a /\ place'[u] = "writing" /\ fresh'[u] = k
        /\ \A v \in Uploads : v # u =>
             owner'[v] = owner[v] /\ place'[v] = place[v] /\ fresh'[v] = fresh[v]
    BY <2>1
  <2>3. \A x \in temporary' : \E v \in Uploads : place'[v] = "writing" /\ fresh'[v] = x
    BY <2>1, <2>2 DEF Tidy
  <2> QED
    BY <2>1, <2>2, <2>3 DEF Tidy
<1>2. NoFileIsLeftBehind'
  BY <1>1 DEF OpenTemporary, Begin, GoOn, Tidy, RequestsHold, NoFileIsLeftBehind,
         UnnamedIsNew, Unnamed
<1> QED
  BY <1>1, <1>2

LEMMA RenameIsTidy ==
  ASSUME AvatarsInv, TidyInv, NEW u \in Uploads, Rename(u)
  PROVE  TidyInv'
<1> USE AvatarsAssumption DEF AvatarsInv, AvatarsTypeOK, TidyInv
<1>1. ASSUME ~disturbed' PROVE Tidy'
  BY <1>1 DEF Rename, NoFault, GoOn, Tidy, RequestsHold, Overlaps, UnnamedIsNew, Unnamed
<1>2. NoFileIsLeftBehind'
  BY <1>1 DEF Rename, NoFault, GoOn, Tidy, RequestsHold, NoFileIsLeftBehind,
         UnnamedIsNew, Unnamed
<1> QED
  BY <1>1, <1>2

LEMMA PutFailsIsTidy ==
  ASSUME AvatarsInv, TidyInv, NEW u \in Uploads, PutFails(u)
  PROVE  TidyInv'
<1> USE AvatarsAssumption DEF AvatarsInv, AvatarsTypeOK, TidyInv
<1>1. ASSUME ~disturbed' PROVE Tidy'
  BY <1>1 DEF PutFails, Finished, NoFault, Fault, GoOn, Tidy, RequestsHold, Overlaps,
         UnnamedIsNew, Unnamed
<1>2. NoFileIsLeftBehind'
  BY <1>1 DEF PutFails, Finished, NoFault, Fault, GoOn, Tidy, RequestsHold, NoFileIsLeftBehind,
         UnnamedIsNew, Unnamed
<1> QED
  BY <1>1, <1>2

LEMMA SelectPreviousIsTidy ==
  ASSUME AvatarsInv, TidyInv, NEW u \in Uploads, SelectPrevious(u)
  PROVE  TidyInv'
<1> USE AvatarsAssumption DEF AvatarsInv, AvatarsTypeOK, TidyInv
<1>1. ASSUME ~disturbed' PROVE Tidy'
  BY <1>1 DEF SelectPrevious, NoFault, GoOn, Tidy, RequestsHold, Overlaps, UnnamedIsNew,
         Unnamed
<1>2. NoFileIsLeftBehind'
  BY <1>1 DEF SelectPrevious, NoFault, GoOn, Tidy, RequestsHold, NoFileIsLeftBehind,
         UnnamedIsNew, Unnamed
<1> QED
  BY <1>1, <1>2

LEMMA UpsertProfileIsTidy ==
  ASSUME AvatarsInv, TidyInv, NEW u \in Uploads, UpsertProfile(u)
  PROVE  TidyInv'
<1> USE AvatarsAssumption DEF AvatarsInv, AvatarsTypeOK, TidyInv
<1>1. ASSUME ~disturbed' PROVE Tidy'
  BY <1>1 DEF UpsertProfile, NoFault, GoOn, Tidy, RequestsHold, Overlaps, UnnamedIsNew,
         Unnamed
<1>2. NoFileIsLeftBehind'
  BY <1>1 DEF UpsertProfile, NoFault, GoOn, Tidy, RequestsHold, NoFileIsLeftBehind,
         UnnamedIsNew, Unnamed
<1> QED
  BY <1>1, <1>2

LEMMA StatementFailsIsTidy ==
  ASSUME AvatarsInv, TidyInv, NEW u \in Uploads, StatementFails(u)
  PROVE  TidyInv'
<1> USE AvatarsAssumption DEF AvatarsInv, AvatarsTypeOK, TidyInv
<1>1. ASSUME ~disturbed' PROVE Tidy'
  BY <1>1 DEF StatementFails, Fault, GoOn, Tidy, RequestsHold, Overlaps, UnnamedIsNew,
         Unnamed
<1>2. NoFileIsLeftBehind'
  BY <1>1 DEF StatementFails, Fault, GoOn, Tidy, RequestsHold, NoFileIsLeftBehind,
         UnnamedIsNew, Unnamed
<1> QED
  BY <1>1, <1>2

LEMMA RemovePreviousIsTidy ==
  ASSUME AvatarsInv, TidyInv, NEW u \in Uploads, RemovePrevious(u)
  PROVE  TidyInv'
<1> USE AvatarsAssumption DEF AvatarsInv, AvatarsTypeOK, TidyInv
<1>1. ASSUME ~disturbed' PROVE Tidy'
  BY <1>1 DEF RemovePrevious, Finished, NoFault, GoOn, Tidy, RequestsHold, Overlaps,
         UnnamedIsNew, Unnamed
<1>2. NoFileIsLeftBehind'
  BY <1>1 DEF RemovePrevious, Finished, NoFault, GoOn, Tidy, RequestsHold,
         NoFileIsLeftBehind, UnnamedIsNew, Unnamed
<1> QED
  BY <1>1, <1>2

LEMMA RemoveNewIsTidy ==
  ASSUME AvatarsInv, TidyInv, NEW u \in Uploads, RemoveNew(u)
  PROVE  TidyInv'
<1> USE AvatarsAssumption DEF AvatarsInv, AvatarsTypeOK, TidyInv
<1>1. ASSUME ~disturbed' PROVE Tidy'
  BY <1>1 DEF RemoveNew, Finished, NoFault, GoOn, Tidy, RequestsHold, Overlaps,
         UnnamedIsNew, Unnamed
<1>2. NoFileIsLeftBehind'
  BY <1>1 DEF RemoveNew, Finished, NoFault, GoOn, Tidy, RequestsHold, NoFileIsLeftBehind,
         UnnamedIsNew, Unnamed
<1> QED
  BY <1>1, <1>2

LEMMA RemoveFailsIsTidy ==
  ASSUME AvatarsInv, TidyInv, NEW u \in Uploads, RemoveFails(u)
  PROVE  TidyInv'
<1> USE AvatarsAssumption DEF AvatarsInv, AvatarsTypeOK, TidyInv
<1>1. ASSUME ~disturbed' PROVE Tidy'
  BY <1>1 DEF RemoveFails, Finished, Fault, GoOn, Tidy, RequestsHold, Overlaps,
         UnnamedIsNew, Unnamed
<1>2. NoFileIsLeftBehind'
  BY <1>1 DEF RemoveFails, Finished, Fault, GoOn, Tidy, RequestsHold, NoFileIsLeftBehind,
         UnnamedIsNew, Unnamed
<1> QED
  BY <1>1, <1>2

LEMMA ClearProfileIsTidy ==
  ASSUME AvatarsInv, TidyInv, NEW u \in Uploads, ClearProfile(u)
  PROVE  TidyInv'
<1> USE AvatarsAssumption DEF AvatarsInv, AvatarsTypeOK, TidyInv
<1>1. ASSUME ~disturbed' PROVE Tidy'
  <2>1. PICK a \in Owners :
          /\ place[u] = "none" /\ owner' = [owner EXCEPT ![u] = a]
          /\ avatarKey' = [avatarKey EXCEPT ![a] = Nothing]
          /\ previous' = [previous EXCEPT ![u] = avatarKey[a]]
          /\ place' = [place EXCEPT ![u] = "cleared"]
          /\ ~disturbed /\ \A v \in Uploads : owner[v] # a
          /\ UNCHANGED <<temporary, fresh>>
    BY <1>1 DEF ClearProfile, Begin, Overlaps, GoOn
  <2>2. /\ owner'[u] = a /\ place'[u] = "cleared"
        /\ \A v \in Uploads : v # u =>
             /\ owner'[v] = owner[v] /\ place'[v] = place[v] /\ previous'[v] = previous[v]
             /\ avatarKey'[owner[v]] = avatarKey[owner[v]] \/ owner[v] \notin Owners
    BY <2>1
  <2>3. \A x \in temporary' : \E v \in Uploads : place'[v] = "writing" /\ fresh'[v] = x
    BY <2>1, <2>2 DEF Tidy
  <2>4. \A v \in Uploads : place[v] # "none" => owner[v] \in Owners
    BY DEF RequestsHold
  <2> QED
    BY <2>1, <2>2, <2>3, <2>4 DEF Tidy
<1>2. NoFileIsLeftBehind'
  BY <1>1 DEF ClearProfile, Begin, GoOn, Tidy, RequestsHold, NoFileIsLeftBehind,
         UnnamedIsNew, Unnamed
<1> QED
  BY <1>1, <1>2

LEMMA ClearFailsIsTidy ==
  ASSUME AvatarsInv, TidyInv, NEW u \in Uploads, ClearFails(u)
  PROVE  TidyInv'
<1> USE AvatarsAssumption DEF AvatarsInv, AvatarsTypeOK, TidyInv
<1>1. ASSUME ~disturbed' PROVE Tidy'
  BY <1>1 DEF ClearFails, Fault, Tidy, RequestsHold, Overlaps, UnnamedIsNew, Unnamed
<1>2. NoFileIsLeftBehind'
  BY <1>1 DEF ClearFails, Fault, Tidy, RequestsHold, NoFileIsLeftBehind, UnnamedIsNew,
         Unnamed
<1> QED
  BY <1>1, <1>2

LEMMA CrashIsTidy ==
  ASSUME AvatarsInv, TidyInv, Crash
  PROVE  TidyInv'
<1> USE AvatarsAssumption DEF AvatarsInv, AvatarsTypeOK, TidyInv
<1>1. ASSUME ~disturbed' PROVE Tidy'
  BY <1>1 DEF Crash, Fault, Tidy, RequestsHold, Overlaps, UnnamedIsNew, Unnamed
<1>2. NoFileIsLeftBehind'
  BY <1>1 DEF Crash, Fault, Tidy, RequestsHold, NoFileIsLeftBehind, UnnamedIsNew, Unnamed
<1> QED
  BY <1>1, <1>2

LEMMA AvatarsInitInv == AvatarsInit => AvatarsInv /\ TidyInv
<1> USE AvatarsAssumption
<1>1. AvatarsInit => AvatarsInv
  <2> SUFFICES ASSUME AvatarsInit PROVE AvatarsInv
    OBVIOUS
  <2>1. AvatarsTypeOK
    <3>1. faults \in 0 .. MaxFaults
      BY AvatarsAssumption DEF AvatarsInit
    <3>0. disturbed \in BOOLEAN
      BY DEF AvatarsInit
    <3>2. avatarKey \in [Owners -> AvatarKeys \cup {Nothing}]
      BY DEF AvatarsInit
    <3>3. /\ place \in [Uploads -> UploadPlaces]
          /\ owner \in [Uploads -> Owners \cup {Nothing}]
          /\ fresh \in [Uploads -> AvatarKeys \cup {Nothing}]
          /\ previous \in [Uploads -> AvatarKeys \cup {Nothing}]
      BY DEF AvatarsInit, UploadPlaces
    <3> QED
      BY <3>0, <3>1, <3>2, <3>3 DEF AvatarsInit, AvatarsTypeOK
  <2>2. KeysAreDrawn /\ RequestsHold /\ UnnamedIsNew /\ RemovedIsUnnamed
    BY DEF AvatarsInit, KeysAreDrawn, RequestsHold, UnnamedIsNew, Unnamed, RemovedIsUnnamed
  <2>3. NamedFileExists
    BY DEF AvatarsInit, NamedFileExists
  <2> QED
    BY <2>1, <2>2, <2>3 DEF AvatarsInv
<1>2. AvatarsInit => TidyInv
  BY DEF AvatarsInit, TidyInv, Tidy, NoFileIsLeftBehind
<1> QED
  BY <1>1, <1>2

LEMMA AvatarsNextInv ==
  AvatarsInv /\ TidyInv /\ [AvatarsNext]_avatarVars => AvatarsInv' /\ TidyInv'
<1> SUFFICES ASSUME AvatarsInv, TidyInv, [AvatarsNext]_avatarVars
             PROVE  AvatarsInv' /\ TidyInv'
  OBVIOUS
<1>1. CASE UNCHANGED avatarVars
  BY <1>1 DEF avatarVars, AvatarsInv, AvatarsTypeOK, KeysAreDrawn, RequestsHold,
              UnnamedIsNew, Unnamed, RemovedIsUnnamed, NamedFileExists, TidyInv, Tidy,
              NoFileIsLeftBehind
<1>2. ASSUME NEW u \in Uploads,
             \/ OpenTemporary(u) \/ Rename(u) \/ PutFails(u)
             \/ SelectPrevious(u) \/ UpsertProfile(u) \/ StatementFails(u)
      PROVE  AvatarsInv' /\ TidyInv'
  BY <1>2, OpenTemporaryKeeps, RenameKeeps, PutFailsKeeps, SelectPreviousKeeps,
     UpsertProfileKeeps, StatementFailsKeeps, OpenTemporaryIsTidy, RenameIsTidy,
     PutFailsIsTidy, SelectPreviousIsTidy, UpsertProfileIsTidy, StatementFailsIsTidy
<1>3. ASSUME NEW u \in Uploads,
             \/ RemovePrevious(u) \/ RemoveNew(u) \/ RemoveFails(u)
             \/ ClearProfile(u) \/ ClearFails(u)
      PROVE  AvatarsInv' /\ TidyInv'
  BY <1>3, RemovePreviousKeeps, RemoveNewKeeps, RemoveFailsKeeps, ClearProfileKeeps,
     ClearFailsKeeps, RemovePreviousIsTidy, RemoveNewIsTidy, RemoveFailsIsTidy,
     ClearProfileIsTidy, ClearFailsIsTidy
<1>4. CASE Crash
  BY <1>4, CrashKeeps, CrashIsTidy
<1> QED
  BY <1>1, <1>2, <1>3, <1>4 DEF AvatarsNext

LEMMA AvatarsInvariant == AvatarsSpec => [](AvatarsInv /\ TidyInv)
<1> QED
  BY AvatarsInitInv, AvatarsNextInv, PTL DEF AvatarsSpec

\* Profiles, files and requests have their types.
THEOREM AvatarsTypeCorrect == AvatarsSpec => []AvatarsTypeOK
<1>1. AvatarsInv => AvatarsTypeOK
  BY DEF AvatarsInv
<1> QED
  BY <1>1, AvatarsInvariant, PTL

\* However many uploads and removals race, and wherever the process dies, the
\* file that a profile names is there.
THEOREM NamedFilesExist == AvatarsSpec => []NamedFileExists
<1>1. AvatarsInv => NamedFileExists
  BY DEF AvatarsInv
<1> QED
  BY <1>1, AvatarsInvariant, PTL

\* Without faults and overlapping requests no file outlives its use.
THEOREM NoFilesAreLeft == AvatarsSpec => []NoFileIsLeftBehind
<1>1. TidyInv => NoFileIsLeftBehind
  BY DEF TidyInv
<1> QED
  BY <1>1, AvatarsInvariant, PTL

-----------------------------------------------------------------------------
(* Imports: a workbook is imported whole, and its rows have an origin.      *)

\* An import that is under way knows what it imports, and accepts it only when
\* nothing else is accepted for the workbook.
BatchIsOurs ==
  \A i \in Imports :
    /\ phase[i] # "none" => artifact[i] \in Artifact
    /\ created[i] =>
         /\ phase[i] \in {"sources", "rows"} /\ batch[artifact[i].workbook] = NoArchive
         /\ \A j \in Imports :
              created[j] /\ artifact[j].workbook = artifact[i].workbook => i = j
    /\ phase[i] \in {"sources", "rows"} /\ ~created[i] =>
         batch[artifact[i].workbook] = artifact[i].archive

\* Rows are traced only to sources that will be there.
SourcesAreKnown == \A i \in Imports : phase[i] = "rows" => Sources \subseteq Known(i)

ImportsInv ==
  ImportsTypeOK /\ BatchIsOurs /\ SourcesAreKnown /\ OriginIsStated /\ WholeOrNothing

LEMMA ImportsInitInv == ImportsInit => ImportsInv
<1> SUFFICES ASSUME ImportsInit PROVE ImportsInv
  OBVIOUS
<1>1. ImportsTypeOK
  BY DEF ImportsInit, ImportsTypeOK
<1>2. BatchIsOurs /\ SourcesAreKnown
  BY DEF ImportsInit, BatchIsOurs, SourcesAreKnown
<1>3. OriginIsStated /\ WholeOrNothing
  BY DEF ImportsInit, OriginIsStated, WholeOrNothing
<1> QED
  BY <1>1, <1>2, <1>3 DEF ImportsInv

\* What is committed stays as it is, and the import goes on or ends.
LEMMA NothingCommitted ==
  ASSUME ImportsInv, UNCHANGED committed
  PROVE  OriginIsStated' /\ WholeOrNothing'
  BY DEF ImportsInv, committed, OriginIsStated, WholeOrNothing

\* An import that ends leaves the others as they are.
LEMMA EndedKeeps ==
  ASSUME ImportsInv, NEW i \in Imports, Ended(i), UNCHANGED committed
  PROVE  ImportsInv'
<1>1. ImportsTypeOK'
  BY DEF ImportsInv, ImportsTypeOK, Ended, Advance, committed
<1>2. BatchIsOurs'
  BY DEF ImportsInv, ImportsTypeOK, BatchIsOurs, Ended, Advance, committed
<1>3. SourcesAreKnown'
  BY DEF ImportsInv, ImportsTypeOK, SourcesAreKnown, Known, Ended, Advance, committed
<1> QED
  BY <1>1, <1>2, <1>3, NothingCommitted DEF ImportsInv

LEMMA BeginImportKeeps ==
  ASSUME ImportsInv, NEW i \in Imports, BeginImport(i)
  PROVE  ImportsInv'
<1>1. ImportsTypeOK'
  BY DEF ImportsInv, ImportsTypeOK, BeginImport, Advance, committed, written
<1>2. BatchIsOurs'
  BY DEF ImportsInv, ImportsTypeOK, BatchIsOurs, BeginImport, Advance, committed, written
<1>3. SourcesAreKnown'
  BY DEF ImportsInv, ImportsTypeOK, SourcesAreKnown, Known, BeginImport, Advance,
         committed, written
<1> QED
  BY <1>1, <1>2, <1>3, NothingCommitted DEF ImportsInv, BeginImport

LEMMA ResolveBatchKeeps ==
  ASSUME ImportsInv, NEW i \in Imports, ResolveBatch(i)
  PROVE  ImportsInv'
<1>1. CASE Ended(i)
  BY <1>1, EndedKeeps DEF ResolveBatch
<1>2. CASE ~Ended(i)
  <2>1. ImportsTypeOK'
    BY <1>2 DEF ImportsInv, ImportsTypeOK, ResolveBatch, Advance, committed, written
  <2>2. BatchIsOurs'
    BY <1>2 DEF ImportsInv, ImportsTypeOK, BatchIsOurs, ResolveBatch, Advance, committed,
           written
  <2>3. SourcesAreKnown'
    BY <1>2 DEF ImportsInv, ImportsTypeOK, SourcesAreKnown, Known, ResolveBatch, Advance,
                committed, written
  <2> QED
    BY <2>1, <2>2, <2>3, NothingCommitted DEF ImportsInv, ResolveBatch
<1> QED
  BY <1>1, <1>2

LEMMA CreateBatchKeeps ==
  ASSUME ImportsInv, NEW i \in Imports, CreateBatch(i)
  PROVE  ImportsInv'
<1>1. CASE Ended(i)
  BY <1>1, EndedKeeps DEF CreateBatch
<1>2. CASE ~Ended(i)
  <2>1. ImportsTypeOK'
    BY <1>2 DEF ImportsInv, ImportsTypeOK, CreateBatch, Advance, committed
  <2>2. BatchIsOurs'
    <3>1. \A j \in Imports : j # i /\ created[j] => artifact[j].workbook # artifact[i].workbook
      BY DEF ImportsInv, BatchIsOurs, CreateBatch, Rivals
    <3> QED
      BY <1>2, <3>1 DEF ImportsInv, ImportsTypeOK, BatchIsOurs, CreateBatch, Advance,
             committed
  <2>3. SourcesAreKnown'
    BY <1>2 DEF ImportsInv, ImportsTypeOK, SourcesAreKnown, Known, CreateBatch, Advance,
                committed
  <2> QED
    BY <2>1, <2>2, <2>3, NothingCommitted DEF ImportsInv, CreateBatch
<1> QED
  BY <1>1, <1>2

LEMMA LoadBatchKeeps ==
  ASSUME ImportsInv, NEW i \in Imports, LoadBatch(i)
  PROVE  ImportsInv'
<1>1. CASE Ended(i)
  BY <1>1, EndedKeeps DEF LoadBatch
<1>2. CASE ~Ended(i)
  <2>1. ImportsTypeOK'
    BY <1>2 DEF ImportsInv, ImportsTypeOK, LoadBatch, Advance, committed
  <2>2. BatchIsOurs'
    <3>1. \A j \in Imports : j # i /\ created[j] => artifact[j].workbook # artifact[i].workbook
      BY DEF ImportsInv, BatchIsOurs, LoadBatch, Rivals
    <3>2. CASE batch[artifact[i].workbook] = NoArchive
      <4>1. /\ created' = [created EXCEPT ![i] = TRUE]
            /\ phase' = [phase EXCEPT ![i] = "sources"] /\ phase[i] = "resolve"
            /\ artifact' = artifact /\ batch' = batch
        BY <1>2, <3>2 DEF LoadBatch, Advance, committed
      <4> QED
        BY <3>1, <3>2, <4>1 DEF ImportsInv, ImportsTypeOK, BatchIsOurs
    <3>3. CASE batch[artifact[i].workbook] # NoArchive
      BY <1>2, <3>3 DEF ImportsInv, ImportsTypeOK, BatchIsOurs, LoadBatch, Advance,
             committed
    <3> QED
      BY <3>2, <3>3
  <2>3. SourcesAreKnown'
    BY <1>2 DEF ImportsInv, ImportsTypeOK, SourcesAreKnown, Known, LoadBatch, Advance,
                committed
  <2> QED
    BY <2>1, <2>2, <2>3, NothingCommitted DEF ImportsInv, LoadBatch
<1> QED
  BY <1>1, <1>2

LEMMA EnsureSourceKeeps ==
  ASSUME ImportsInv, NEW i \in Imports, NEW s \in Sources, EnsureSource(i, s)
  PROVE  ImportsInv'
<1>1. ImportsTypeOK'
  BY DEF ImportsInv, ImportsTypeOK, EnsureSource, Advance, committed
<1>2. BatchIsOurs'
  BY DEF ImportsInv, ImportsTypeOK, BatchIsOurs, EnsureSource, Advance, committed
<1>3. SourcesAreKnown'
  BY DEF ImportsInv, ImportsTypeOK, SourcesAreKnown, Known, EnsureSource, Advance, committed
<1> QED
  BY <1>1, <1>2, <1>3, NothingCommitted DEF ImportsInv, EnsureSource

LEMMA AddProvenanceKeeps ==
  ASSUME ImportsInv, NEW i \in Imports, NEW row \in WorkbookRows, AddProvenance(i, row)
  PROVE  ImportsInv'
<1>1. CASE Ended(i)
  BY <1>1, EndedKeeps DEF AddProvenance
<1>2. CASE ~Ended(i)
  <2>1. ImportsTypeOK'
    BY <1>2 DEF ImportsInv, ImportsTypeOK, AddProvenance, Advance, committed
  <2>2. BatchIsOurs'
    BY <1>2 DEF ImportsInv, ImportsTypeOK, BatchIsOurs, AddProvenance, Advance, committed
  <2>3. SourcesAreKnown'
    BY <1>2 DEF ImportsInv, ImportsTypeOK, SourcesAreKnown, Known, AddProvenance, Advance,
                committed
  <2> QED
    BY <2>1, <2>2, <2>3, NothingCommitted DEF ImportsInv, AddProvenance
<1> QED
  BY <1>1, <1>2

LEMMA LoadRowKeeps ==
  ASSUME ImportsInv, NEW i \in Imports, NEW row \in WorkbookRows, LoadRow(i, row)
  PROVE  ImportsInv'
<1>1. ImportsTypeOK'
  BY DEF ImportsInv, ImportsTypeOK, LoadRow, Advance, committed
<1>2. BatchIsOurs'
  BY DEF ImportsInv, ImportsTypeOK, BatchIsOurs, LoadRow, Advance, committed
<1>3. SourcesAreKnown'
  BY DEF ImportsInv, ImportsTypeOK, SourcesAreKnown, Known, LoadRow, Advance, committed
<1> QED
  BY <1>1, <1>2, <1>3, NothingCommitted DEF ImportsInv, LoadRow

\* The one step that commits: either nothing was accepted for the workbook, and
\* then nothing of it is there and nobody else has accepted anything for it, or
\* the same archive was.
LEMMA CommitImportKeeps ==
  ASSUME ImportsInv, NEW i \in Imports, CommitImport(i)
  PROVE  ImportsInv'
<1> DEFINE w == artifact[i].workbook
           a == artifact[i].archive
<1>1. /\ phase[i] = "rows" /\ traced[i] = RowsOf[a]
      /\ batch' = IF created[i] THEN [batch EXCEPT ![w] = a] ELSE batch
      /\ source' = [ws \in DOMAIN source |-> IF ws \in {w} \X cited[i] THEN a ELSE source[ws]]
      /\ provenance' = provenance \cup [workbook : {w}, row : Brought(i), from : {a}]
      /\ Ended(i)
  BY DEF CommitImport
<1>2. w \in Workbooks /\ a \in Archives /\ a # NoArchive
  BY <1>1, ImportsAssumption DEF ImportsInv, BatchIsOurs, Artifact
<1> HIDE DEF w, a
<1>3. /\ batch' \in [Workbooks -> Archives \cup {NoArchive}]
      /\ batch'[w] = a /\ \A v \in Workbooks : v # w => batch'[v] = batch[v]
      /\ batch[w] \in {NoArchive, a}
  BY <1>1, <1>2 DEF ImportsInv, ImportsTypeOK, BatchIsOurs, w, a
<1>4. /\ source' \in [Workbooks \X Sources -> Archives \cup {NoArchive}]
      /\ DOMAIN source = Workbooks \X Sources /\ DOMAIN source' = Workbooks \X Sources
      /\ \A v \in Workbooks, s \in Sources :
           source'[<<v, s>>] = IF v = w /\ s \in cited[i] THEN a ELSE source[<<v, s>>]
  BY <1>1, <1>2 DEF ImportsInv, ImportsTypeOK
<1>5. [workbook : {w}, row : Brought(i), from : {a}]
        \subseteq [workbook : Workbooks, row : WorkbookRows, from : Archives]
  BY <1>2 DEF ImportsInv, ImportsTypeOK, Brought
<1>6. ImportsTypeOK'
  BY <1>1, <1>3, <1>4, <1>5 DEF ImportsInv, ImportsTypeOK, Ended, Advance
<1>7. BatchIsOurs'
  <2> SUFFICES ASSUME NEW j \in Imports, j # i, phase[j] # "none",
                      artifact[j].workbook = w, created[i]
               PROVE  phase[j] \notin {"sources", "rows"}
    BY <1>1, <1>3 DEF ImportsInv, ImportsTypeOK, BatchIsOurs, Ended, Advance, Artifact, w, a
  <2>1. batch[w] = NoArchive /\ ~created[j]
    BY DEF ImportsInv, BatchIsOurs, w
  <2>2. artifact[j].archive # NoArchive
    BY ImportsAssumption DEF ImportsInv, BatchIsOurs, Artifact
  <2> QED
    BY <2>1, <2>2 DEF ImportsInv, BatchIsOurs
<1>8. SourcesAreKnown'
  BY <1>1, <1>2, <1>4 DEF ImportsInv, ImportsTypeOK, SourcesAreKnown, Known, BatchIsOurs,
                          Ended, Advance, Artifact
<1>9. OriginIsStated'
  <2>1. \A p \in provenance' : p.from = batch'[p.workbook]
    <3>1. ASSUME NEW p \in provenance PROVE p.from = batch'[p.workbook]
      <4>1. p.from = batch[p.workbook] /\ p.from \in Archives /\ p.workbook \in Workbooks
        BY DEF ImportsInv, ImportsTypeOK, OriginIsStated
      <4> QED
        BY <1>3, <4>1, ImportsAssumption
    <3> QED
      BY <1>1, <1>3, <3>1
  <2>2. \A v \in Workbooks, s \in Sources : source'[<<v, s>>] \in {NoArchive, batch'[v]}
    <3> TAKE v \in Workbooks, s \in Sources
    <3>1. source[<<v, s>>] \in {NoArchive, batch[v]}
      <4>1. <<v, s>> \in DOMAIN source /\ <<v, s>>[1] = v
        BY <1>4
      <4> QED
        BY <4>1 DEF ImportsInv, OriginIsStated
    <3> QED
      BY <1>3, <1>4, <3>1
  <2>3. \A ws \in DOMAIN source' :
          ws[1] \in Workbooks /\ ws[2] \in Sources /\ ws = <<ws[1], ws[2]>>
    BY <1>4
  <2> QED
    BY <2>1, <2>2, <2>3 DEF OriginIsStated
<1>10. WholeOrNothing'
  <2> SUFFICES ASSUME NEW v \in Workbooks, batch'[v] # NoArchive
               PROVE  /\ \A row \in RowsOf[batch'[v]] :
                           \E p \in provenance' : p.workbook = v /\ p.row = row
                      /\ \A s \in Sources : source'[<<v, s>>] # NoArchive
    BY DEF WholeOrNothing
  <2>1. \A s \in Sources : source'[<<v, s>>] # NoArchive
    <3>1. CASE v = w
      <4>1. Sources \subseteq cited[i] \cup {s \in Sources : source[<<w, s>>] # NoArchive}
        BY <1>1 DEF ImportsInv, SourcesAreKnown, Known, w
      <4> QED
        BY <1>2, <1>4, <3>1, <4>1
    <3>2. CASE v # w
      BY <1>3, <1>4, <3>2 DEF ImportsInv, WholeOrNothing
    <3> QED
      BY <3>1, <3>2
  <2>2. ASSUME NEW row \in RowsOf[batch'[v]]
        PROVE  \E p \in provenance' : p.workbook = v /\ p.row = row
    <3>1. CASE v = w
      <4>1. CASE IsTraced(i, row)
        BY <1>1, <3>1, <4>1 DEF IsTraced, w
      <4>2. CASE ~IsTraced(i, row)
        <5>1. [workbook |-> w, row |-> row, from |-> a] \in provenance'
          BY <1>1, <1>3, <2>2, <3>1, <4>2 DEF Brought
        <5> QED
          BY <3>1, <5>1
      <4> QED
        BY <4>1, <4>2
    <3>2. CASE v # w
      BY <1>1, <1>3, <2>2, <3>2 DEF ImportsInv, WholeOrNothing
    <3> QED
      BY <3>1, <3>2
  <2> QED
    BY <2>1, <2>2
<1> QED
  BY <1>6, <1>7, <1>8, <1>9, <1>10 DEF ImportsInv

LEMMA ImportsNextInv == ImportsInv /\ [ImportsNext]_importVars => ImportsInv'
<1> SUFFICES ASSUME ImportsInv, [ImportsNext]_importVars PROVE ImportsInv'
  OBVIOUS
<1>1. CASE UNCHANGED importVars
  BY <1>1 DEF importVars, ImportsInv, ImportsTypeOK, BatchIsOurs, SourcesAreKnown, Known,
              OriginIsStated, WholeOrNothing
<1>2. ASSUME NEW i \in Imports, RollBackImport(i) PROVE ImportsInv'
  BY <1>2, EndedKeeps DEF RollBackImport
<1> QED
  BY <1>1, <1>2, BeginImportKeeps, ResolveBatchKeeps, CreateBatchKeeps, EnsureSourceKeeps,
     LoadBatchKeeps, AddProvenanceKeeps, LoadRowKeeps, CommitImportKeeps DEF ImportsNext

LEMMA ImportsInvariant == ImportsSpec => []ImportsInv
<1> QED
  BY ImportsInitInv, ImportsNextInv, PTL DEF ImportsSpec

\* What is committed, and what each import has written, has its type.
THEOREM ImportsTypeCorrect == ImportsSpec => []ImportsTypeOK
<1>1. ImportsInv => ImportsTypeOK
  BY DEF ImportsInv
<1> QED
  BY <1>1, ImportsInvariant, PTL

\* However many imports of however many archives race for a workbook, all that
\* is accepted for it comes from the one archive its batch names.
THEOREM OriginsAreStated == ImportsSpec => []OriginIsStated
<1>1. ImportsInv => OriginIsStated
  BY DEF ImportsInv
<1> QED
  BY <1>1, ImportsInvariant, PTL

\* An accepted workbook is there with all its rows and sources.
THEOREM ImportsAreWhole == ImportsSpec => []WholeOrNothing
<1>1. ImportsInv => WholeOrNothing
  BY DEF ImportsInv
<1> QED
  BY <1>1, ImportsInvariant, PTL

-----------------------------------------------------------------------------
(* Listings: pages of a list that changes.                                  *)

\* A set of numbers that is not empty has a least one.
LEMMA LeastNumber ==
  ASSUME NEW S, S \subseteq Nat, S # {}
  PROVE  \E m \in S : \A n \in S : m <= n
<1>1. \E m \in S : \A n \in S : ~(<<n, m>> \in OpToRel(<, Nat))
  BY WFMin, NatLessThanWellFounded
<1>2. ASSUME NEW m \in S, NEW n \in S, n < m
      PROVE  <<n, m>> \in OpToRel(<, Nat)
  <2>1. <<n, m>> \in Nat \X Nat /\ <<n, m>>[1] < <<n, m>>[2]
    BY <1>2
  <2> QED
    BY <2>1 DEF OpToRel
<1>3. \E m \in S : \A n \in S : ~(n < m)
  BY <1>1, <1>2, Zenon
<1> QED
  BY <1>3

\* How many rows are before x.
Rank(x) == Cardinality(Before(x))

\* So many rows are on the pages he has asked for.
Reach == (IF pages < LastPage THEN pages ELSE LastPage) * PageLimit

RowsInOrder ==
  /\ \A x, y \in ListRows : order[x] = order[y] => x = y
  /\ list # "search" => unlisted = {}
  /\ steady \cap unlisted = {}
  /\ list \in Browsed => upset \in {{}, Harms}
  /\ walk = "none" => cursor = NoRow /\ given = {} /\ pages = 0 /\ steady = {}

\* The reader of a list with a cursor has every steady row up to the cursor's,
\* unless the cursor's moved back, and no steady row after it, unless it came
\* forward.
WalksByCursor ==
  list \notin Browsed =>
    /\ cursor = NoRow <=> given = {}
    /\ cursor # NoRow => cursor \in given
    /\ list \notin Shrinking => cursor \in listed \cup {NoRow}
    /\ walk \notin {"found", "found last"}
    /\ walk = "looking" =>
         /\ list = "comments" /\ cursor # NoRow
         /\ cursor \in listed /\ "skips" \notin upset => steady \subseteq given
    /\ cursor # NoRow /\ "skips" \notin upset =>
         \A x \in steady : x \in given \/ order[x] > order[cursor]
    /\ "repeats" \notin upset => \A x \in given \cap steady : order[x] <= order[cursor]
    /\ walk = "ended" /\ "skips" \notin upset => steady \subseteq given

\* The reader of pages that do not change was given rows of the pages he has
\* asked for, and all of them that are steady.
WalksByOffset ==
  list \in Browsed /\ upset = {} =>
    /\ walk # "looking"
    /\ \A x \in given : x \in listed /\ Rank(x) < Reach
    /\ walk # "none" => \A x \in steady : Rank(x) < Reach => x \in given
    /\ walk \in {"found", "found last"} => list = "search" /\ hits = FirstOf(AfterOffset)
    /\ walk = "found last" => ~MorePages
    /\ walk = "ended" => steady \subseteq given \cup Beyond

ListingsInv ==
  /\ ListingsTypeOK /\ RowsInOrder /\ WalksByCursor /\ WalksByOffset /\ NothingIsRepeated

LEMMA PlacesAreNumbers ==
  ASSUME ListingsTypeOK
  PROVE  \A x \in ListRows : order[x] \in Nat /\ MaxPlace - order[x] \in Nat
<1>1. order \in [ListRows -> 1 .. MaxPlace]
  BY DEF ListingsTypeOK
<1> QED
  BY <1>1, ListingsAssumption

\* The page he asks for begins behind those he has, as long as its number is not
\* clamped.
LEMMA PagesAreNumbers ==
  ASSUME ListingsTypeOK
  PROVE  /\ pages \in Nat /\ PageLimit \in Nat /\ LastPage \in Nat
         /\ Reach \in Nat /\ Offset \in Nat /\ Offset <= Reach
         /\ pages < LastPage => Offset = Reach /\ Offset + PageLimit = (pages + 1) * PageLimit
         /\ ~(pages < LastPage) => Offset + PageLimit = LastPage * PageLimit
         /\ pages' = pages + 1 => Reach' = Offset + PageLimit
<1>1. pages \in Nat /\ PageLimit \in Nat \ {0} /\ LastPage \in Nat \ {0}
  BY ListingsAssumption DEF ListingsTypeOK
<1>2. \A m, n \in Nat : m * n \in Nat /\ (m + 1) * n = m * n + n
  OBVIOUS
<1>3. CASE pages < LastPage
  <2>1. /\ PageNumber = pages + 1 /\ PageNumber - 1 = pages
        /\ Offset = pages * PageLimit /\ Reach = pages * PageLimit
    BY <1>1, <1>3 DEF PageNumber, Offset, Reach
  <2>2. Offset \in Nat /\ Offset + PageLimit = (pages + 1) * PageLimit
    BY <1>1, <1>2, <2>1
  <2>3. pages' = pages + 1 => Reach' = (pages + 1) * PageLimit
    <3> SUFFICES ASSUME pages' = pages + 1 PROVE Reach' = (pages + 1) * PageLimit
      OBVIOUS
    <3>1. (IF pages' < LastPage THEN pages' ELSE LastPage) = pages + 1
      BY <1>1, <1>3
    <3> QED
      BY <3>1, Zenon DEF Reach
  <2> QED
    BY <1>1, <1>3, <2>1, <2>2, <2>3
<1>4. CASE ~(pages < LastPage)
  <2> DEFINE k == LastPage - 1
  <2>1. k \in Nat /\ k + 1 = LastPage /\ PageNumber = LastPage
    BY <1>1, <1>4 DEF PageNumber
  <2>2. Offset = k * PageLimit /\ Reach = LastPage * PageLimit
    BY <1>4, <2>1, Zenon DEF Offset, Reach
  <2> HIDE DEF k
  <2>3. k * PageLimit \in Nat /\ (k + 1) * PageLimit = k * PageLimit + PageLimit
    BY <1>1, <1>2, <2>1
  <2>4. Offset \in Nat /\ Offset + PageLimit = LastPage * PageLimit
    BY <2>1, <2>2, <2>3
  <2>5. pages' = pages + 1 => Reach' = LastPage * PageLimit
    <3> SUFFICES ASSUME pages' = pages + 1 PROVE Reach' = LastPage * PageLimit
      OBVIOUS
    <3>1. (IF pages' < LastPage THEN pages' ELSE LastPage) = LastPage
      BY <1>1, <1>4
    <3> QED
      BY <3>1, Zenon DEF Reach
  <2> QED
    BY <1>1, <1>4, <2>2, <2>4, <2>5
<1> QED
  BY <1>3, <1>4

\* Some row of a selection is the first of it, and some row the last.
LEMMA FirstAndLast ==
  ASSUME ListingsTypeOK, NEW T, T \subseteq ListRows, T # {}
  PROVE  /\ \E x \in T : \A y \in T : order[x] <= order[y]
         /\ \E x \in T : \A y \in T : order[y] <= order[x]
<1> DEFINE up == {order[x] : x \in T}
           down == {MaxPlace - order[x] : x \in T}
<1>1. \A x \in ListRows : order[x] \in Nat /\ MaxPlace - order[x] \in Nat
  BY PlacesAreNumbers
<1>2. up \subseteq Nat /\ up # {} /\ down \subseteq Nat /\ down # {}
  BY <1>1
<1>3. \E x \in T : \A y \in T : order[x] <= order[y]
  <2>1. PICK m \in up : \A n \in up : m <= n
    <3> HIDE DEF up
    <3> QED
      BY <1>2, LeastNumber
  <2> QED
    BY <2>1
<1>4. \E x \in T : \A y \in T : order[y] <= order[x]
  <2>1. PICK m \in down : \A n \in down : m <= n
    <3> HIDE DEF down
    <3> QED
      BY <1>2, LeastNumber
  <2>2. PICK x \in T : m = MaxPlace - order[x]
    OBVIOUS
  <2>3. \A y \in T : MaxPlace - order[x] <= MaxPlace - order[y]
    BY <2>1, <2>2
  <2>4. \A y \in T : order[y] <= order[x]
    <3> SUFFICES ASSUME NEW y \in T PROVE order[y] <= order[x]
      OBVIOUS
    <3>1. order[x] \in Nat /\ order[y] \in Nat /\ MaxPlace \in Nat
      BY <1>1, ListingsAssumption
    <3> QED
      BY <2>3, <3>1
  <2> QED
    BY <2>4
<1> QED
  BY <1>3, <1>4

LEMMA RowsAreFinite ==
  ASSUME NEW T, T \subseteq ListRows
  PROVE  IsFiniteSet(T) /\ Cardinality(T) \in Nat
<1>1. IsFiniteSet(T)
  BY ListingsAssumption, FS_Subset
<1> QED
  BY <1>1, FS_CardinalityType

\* A page is the first rows of what is selected, and it is empty only when
\* nothing is.
LEMMA PageIsFirst ==
  ASSUME ListingsTypeOK, RowsInOrder, NEW T, T \subseteq listed
  PROVE  /\ FirstOf(T) \subseteq T
         /\ \A x \in FirstOf(T), y \in T \ FirstOf(T) : order[x] < order[y]
         /\ T # {} => FirstOf(T) # {}
<1>1. T \subseteq ListRows
  BY DEF ListingsTypeOK
<1>2. \A x \in ListRows : order[x] \in Nat
  BY PlacesAreNumbers
<1>3. ASSUME NEW x \in FirstOf(T), NEW y \in T \ FirstOf(T), ~(order[x] < order[y])
      PROVE  FALSE
  <2>1. x \in T /\ y \in T /\ x # y
    BY <1>3 DEF FirstOf
  <2>2. order[y] < order[x]
    BY <1>1, <1>2, <1>3, <2>1 DEF RowsInOrder
  <2>3. Before(y) \cap T \subseteq Before(x) \cap T
    BY <1>1, <1>2, <2>1, <2>2 DEF Before, ListingsTypeOK
  <2>4. /\ IsFiniteSet(Before(x) \cap T)
        /\ Cardinality(Before(x) \cap T) \in Nat /\ Cardinality(Before(y) \cap T) \in Nat
    <3>1. Before(x) \cap T \subseteq ListRows /\ Before(y) \cap T \subseteq ListRows
      BY <1>1
    <3> QED
      BY <3>1, RowsAreFinite
  <2>5. Cardinality(Before(y) \cap T) <= Cardinality(Before(x) \cap T)
    BY <2>3, <2>4, FS_Subset
  <2>6. Cardinality(Before(x) \cap T) < PageLimit /\ ~(Cardinality(Before(y) \cap T) < PageLimit)
    BY <1>3, <2>1 DEF FirstOf
  <2> QED
    BY <2>4, <2>5, <2>6, ListingsAssumption
<1>4. ASSUME T # {} PROVE FirstOf(T) # {}
  <2>1. PICK x \in T : \A y \in T : order[x] <= order[y]
    BY <1>1, <1>4, FirstAndLast
  <2>2. Before(x) \cap T = {}
    BY <1>1, <1>2, <2>1 DEF Before
  <2>3. Cardinality(Before(x) \cap T) < PageLimit
    BY <2>2, FS_EmptySet, ListingsAssumption
  <2> QED
    BY <2>3 DEF FirstOf
<1> QED
  BY <1>3, <1>4 DEF FirstOf

\* OFFSET leaves out as many rows as it says before any row that it does not
\* leave out.
LEMMA OffsetLeavesOut ==
  ASSUME ListingsTypeOK, RowsInOrder, NEW x \in AfterOffset
  PROVE  Cardinality(Before(x) \ AfterOffset) = Offset
<1> DEFINE out == Before(x) \ AfterOffset
           n == Offset
<1>1. /\ listed \subseteq ListRows /\ x \in listed
      /\ \A y \in ListRows : order[y] \in Nat
      /\ n \in Nat
  BY PlacesAreNumbers, PagesAreNumbers DEF ListingsTypeOK, AfterOffset
<1>2. \A y \in listed : Before(y) \subseteq listed /\ Cardinality(Before(y)) \in Nat
  <2>1. \A y \in listed : Before(y) \subseteq ListRows
    BY <1>1 DEF Before
  <2> QED
    BY <2>1, RowsAreFinite DEF Before
<1>3. \A y \in listed : y \in AfterOffset <=> Cardinality(Before(y)) >= n
  BY DEF AfterOffset
<1>4. ASSUME NEW y \in listed, NEW z \in listed, order[y] <= order[z]
      PROVE  Cardinality(Before(y)) <= Cardinality(Before(z))
  <2>1. Before(y) \subseteq Before(z)
    BY <1>1, <1>4 DEF Before
  <2>2. IsFiniteSet(Before(z))
    BY <1>1, <1>2, RowsAreFinite
  <2> QED
    BY <2>1, <2>2, FS_Subset
<1> HIDE DEF n
<1>5. Cardinality(out) >= n
  <2> DEFINE kept == {y \in listed : order[y] <= order[x]} \cap AfterOffset
  <2>1. x \in kept /\ kept \subseteq ListRows
    BY <1>1
  <2>2. PICK z \in kept : \A y \in kept : order[z] <= order[y]
    <3> HIDE DEF kept
    <3> QED
      BY <2>1, FirstAndLast
  <2>3. z \in listed /\ order[z] <= order[x] /\ Cardinality(Before(z)) >= n
    BY <1>3, <2>2
  <2>4. Before(z) \subseteq out
    <3> SUFFICES ASSUME NEW y \in Before(z) PROVE y \in out
      OBVIOUS
    <3>1. y \in listed /\ order[y] < order[z]
      BY DEF Before
    <3>2. y \notin kept
      BY <1>1, <2>2, <2>3, <3>1
    <3>3. order[y] < order[x]
      BY <1>1, <2>3, <3>1
    <3> QED
      BY <1>1, <3>1, <3>2, <3>3 DEF Before
  <2>5. IsFiniteSet(out) /\ Cardinality(out) \in Nat
    <3>1. out \subseteq ListRows
      BY <1>1, <1>2
    <3> QED
      BY <3>1, RowsAreFinite
  <2>6. Cardinality(Before(z)) <= Cardinality(out)
    BY <2>4, <2>5, FS_Subset
  <2> QED
    BY <1>1, <1>2, <2>3, <2>5, <2>6
<1>6. Cardinality(out) <= n
  <2>1. CASE out = {}
    BY <1>1, <2>1, FS_EmptySet
  <2>2. CASE out # {}
    <3>1. out \subseteq ListRows
      BY <1>1, <1>2
    <3>2. PICK m \in out : \A y \in out : order[y] <= order[m]
      <4> HIDE DEF out
      <4> QED
        BY <2>2, <3>1, FirstAndLast
    <3>3. m \in listed /\ Cardinality(Before(m)) < n
      BY <1>1, <1>2, <1>3
    <3>4. out \subseteq Before(m) \cup {m}
      <4> SUFFICES ASSUME NEW y \in out, y # m PROVE y \in Before(m)
        OBVIOUS
      <4>1. y \in listed /\ order[y] <= order[m] /\ order[y] # order[m]
        BY <1>1, <1>2, <3>2, <3>3 DEF RowsInOrder
      <4> QED
        BY <1>1, <3>3, <4>1 DEF Before
    <3>5. IsFiniteSet(Before(m)) /\ m \notin Before(m)
      BY <1>1, <1>2, <3>3, RowsAreFinite DEF Before
    <3>6. /\ IsFiniteSet(Before(m) \cup {m})
          /\ Cardinality(Before(m) \cup {m}) = Cardinality(Before(m)) + 1
      BY <3>5, FS_AddElement
    <3>7. Cardinality(out) <= Cardinality(Before(m) \cup {m}) /\ Cardinality(out) \in Nat
      BY <3>1, <3>4, <3>6, FS_Subset, RowsAreFinite
    <3> QED
      BY <1>1, <1>2, <3>3, <3>6, <3>7
  <2> QED
    BY <2>1, <2>2
<1>7. Cardinality(out) \in Nat
  BY <1>1, <1>2, RowsAreFinite
<1> QED
  BY <1>1, <1>5, <1>6, <1>7 DEF n

\* A page that is counted from the start holds the rows of these ranks.
LEMMA OffsetPage ==
  ASSUME ListingsTypeOK, RowsInOrder
  PROVE  /\ Cardinality(listed) \in Nat
         /\ \A x \in listed : Rank(x) \in Nat /\ Rank(x) < Cardinality(listed)
         /\ AfterOffset = {x \in listed : Rank(x) >= Offset}
         /\ FirstOf(AfterOffset) = {x \in AfterOffset : Rank(x) < Offset + PageLimit}
<1>1. /\ PageLimit \in Nat /\ listed \subseteq ListRows /\ Offset \in Nat
      /\ \A x \in ListRows : order[x] \in Nat
  BY PagesAreNumbers, PlacesAreNumbers DEF ListingsTypeOK
<1>2. /\ IsFiniteSet(listed) /\ Cardinality(listed) \in Nat
      /\ \A x \in listed : Rank(x) \in Nat /\ IsFiniteSet(Before(x))
  <2>1. \A x \in listed : Before(x) \subseteq ListRows
    BY <1>1 DEF Before
  <2> QED
    BY <1>1, <2>1, RowsAreFinite DEF Rank
<1>3. ASSUME NEW x \in listed PROVE Rank(x) < Cardinality(listed)
  <2>1. Before(x) \cup {x} \subseteq listed /\ x \notin Before(x)
    BY <1>1 DEF Before
  <2>2. /\ IsFiniteSet(Before(x) \cup {x})
        /\ Cardinality(Before(x) \cup {x}) = Rank(x) + 1
    BY <1>2, <2>1, FS_AddElement DEF Rank
  <2>3. Cardinality(Before(x) \cup {x}) <= Cardinality(listed)
    BY <1>2, <2>1, FS_Subset
  <2> QED
    BY <1>2, <2>2, <2>3
<1>4. ASSUME NEW x \in AfterOffset
      PROVE  Cardinality(Before(x) \cap AfterOffset) + Offset = Rank(x)
  <2>1. x \in listed
    BY DEF AfterOffset
  <2>2. /\ Cardinality(Before(x) \ AfterOffset)
             = Cardinality(Before(x)) - Cardinality(Before(x) \cap AfterOffset)
    BY <1>2, <2>1, FS_Difference
  <2>3. Cardinality(Before(x) \ AfterOffset) = Offset
    BY OffsetLeavesOut
  <2>4. Cardinality(Before(x) \cap AfterOffset) \in Nat
    <3>1. Before(x) \cap AfterOffset \subseteq ListRows
      BY <1>1 DEF AfterOffset
    <3> QED
      BY <3>1, RowsAreFinite
  <2> QED
    BY <1>1, <1>2, <2>1, <2>2, <2>3, <2>4 DEF Rank
<1>5. ASSUME NEW x \in AfterOffset
      PROVE  Cardinality(Before(x) \cap AfterOffset) < PageLimit
               <=> Rank(x) < Offset + PageLimit
  <2>1. Cardinality(Before(x) \cap AfterOffset) \in Nat
    <3>1. Before(x) \cap AfterOffset \subseteq ListRows
      BY <1>1 DEF AfterOffset
    <3> QED
      BY <3>1, RowsAreFinite
  <2> QED
    BY <1>1, <1>4, <2>1
<1>6. AfterOffset = {x \in listed : Rank(x) >= Offset}
  BY DEF AfterOffset, Rank
<1> QED
  BY <1>2, <1>3, <1>5, <1>6 DEF FirstOf

-----------------------------------------------------------------------------
(* The readers.                                                              *)

LEMMA ListingsInitInv == ListingsInit => ListingsInv
<1> SUFFICES ASSUME ListingsInit PROVE ListingsInv
  OBVIOUS
<1>1. ListingsTypeOK
  <2>1. /\ order \in [ListRows -> 1 .. MaxPlace]
        /\ pages \in Nat /\ listChanges \in 0 .. MaxListed
    BY ListingsAssumption DEF ListingsInit
  <2> QED
    BY <2>1 DEF ListingsInit, ListingsTypeOK
<1>2. RowsInOrder
  BY DEF ListingsInit, RowsInOrder
<1>3. WalksByCursor /\ WalksByOffset
  BY DEF ListingsInit, WalksByCursor, WalksByOffset
<1>4. NothingIsRepeated
  BY DEF ListingsInit, NothingIsRepeated
<1> QED
  BY <1>1, <1>2, <1>3, <1>4 DEF ListingsInv

LEMMA StartWalkKeeps ==
  ASSUME ListingsInv, StartWalk
  PROVE  ListingsInv'
<1>1. /\ walk = "none" /\ walk' = "walking" /\ steady' = listed \ unlisted
      /\ UNCHANGED <<list, listed, unlisted, order, cursor, hits, pages, given, repeated,
                     upset, listChanges>>
      /\ cursor = NoRow /\ given = {} /\ pages = 0 /\ repeated = {}
  BY DEF StartWalk, rowVars, ListingsInv, RowsInOrder, ListingsTypeOK
<1>2. ListingsTypeOK'
  BY <1>1 DEF ListingsInv, ListingsTypeOK
<1>3. RowsInOrder'
  BY <1>1 DEF ListingsInv, RowsInOrder
<1>4. WalksByCursor'
  BY <1>1 DEF ListingsInv, WalksByCursor
<1>5. WalksByOffset'
  <2>1. \A x \in steady' : Rank(x)' \in Nat /\ x \in listed
    BY <1>1, <1>2, <1>3, OffsetPage DEF ListingsInv, Rank, Before
  <2>2. Reach' = 0
    BY <1>1, ListingsAssumption DEF Reach
  <2> QED
    BY <1>1, <2>1, <2>2 DEF ListingsInv, WalksByOffset
<1>6. NothingIsRepeated'
  BY <1>1 DEF NothingIsRepeated
<1> QED
  BY <1>2, <1>3, <1>4, <1>5, <1>6 DEF ListingsInv

\* The reader of a list with a cursor is given a page, or learns that there is
\* none.
LEMMA CursorPageKeeps ==
  ASSUME ListingsInv, list \notin Browsed,
         NEW whenEmpty \in {"ended", "looking", "refused"}, PageOf(whenEmpty),
         whenEmpty = "ended" => cursor \in listed \cup {NoRow},
         whenEmpty = "looking" => list = "comments" /\ cursor # NoRow
  PROVE  ListingsInv'
<1> DEFINE page == FirstOf(AfterCursor)
<1>1. /\ walk = "walking"
      /\ UNCHANGED <<list, listed, unlisted, order, hits, steady, upset, listChanges>>
  BY DEF PageOf, rowVars
<1>2. /\ ListingsTypeOK /\ RowsInOrder /\ WalksByCursor
      /\ \A x \in ListRows : order[x] \in Nat
      /\ listed \subseteq ListRows /\ steady \subseteq listed /\ NoRow \notin ListRows
      /\ AfterCursor \subseteq listed
  BY PlacesAreNumbers, ListingsAssumption DEF ListingsInv, ListingsTypeOK, AfterCursor
<1>3. \A x \in steady :
        "skips" \notin upset =>
          x \in given \/ x \in AfterCursor \/ (cursor # NoRow /\ cursor \notin listed)
  BY <1>2 DEF WalksByCursor, AfterCursor
<1>4. CASE AfterCursor = {}
  <2>1. walk' = whenEmpty /\ UNCHANGED <<cursor, pages, given, repeated>>
    BY <1>4 DEF PageOf
  <2>2. ListingsTypeOK'
    BY <1>1, <1>2, <2>1 DEF ListingsTypeOK
  <2>3. RowsInOrder'
    BY <1>1, <1>2, <2>1 DEF RowsInOrder
  <2>4. WalksByCursor'
    BY <1>1, <1>2, <1>3, <1>4, <2>1 DEF WalksByCursor
  <2>5. WalksByOffset' /\ NothingIsRepeated'
    BY <1>1, <2>1 DEF ListingsInv, WalksByOffset, NothingIsRepeated
  <2> QED
    BY <2>2, <2>3, <2>4, <2>5 DEF ListingsInv
<1>5. CASE AfterCursor # {}
  <2>1. /\ given' = given \cup page
        /\ repeated' = repeated \cup (given \cap page)
        /\ pages' = pages + 1
        /\ cursor' = CHOOSE x \in page : \A y \in page : order[y] <= order[x]
        /\ walk' = IF page # AfterCursor THEN "walking" ELSE "ended"
    BY <1>5 DEF PageOf, Give
  <2>2. /\ page \subseteq AfterCursor /\ page # {} /\ page \subseteq ListRows
        /\ \A x \in page, y \in AfterCursor \ page : order[x] < order[y]
    BY <1>2, <1>5, PageIsFirst
  <2> HIDE DEF page
  <2>3. cursor' \in page /\ \A y \in page : order[y] <= order[cursor']
    <3>1. \E x \in page : \A y \in page : order[y] <= order[x]
      BY <1>2, <2>2, FirstAndLast
    <3> QED
      BY <2>1, <3>1
  <2>4. \A x \in page : order[x] \in Nat /\ (cursor # NoRow => order[cursor] < order[x])
    BY <1>2, <2>2 DEF AfterCursor
  <2>5. cursor # NoRow => cursor \in listed
    BY <1>5 DEF AfterCursor
  <2>6. ListingsTypeOK'
    <3>1. pages \in Nat /\ given \subseteq ListRows /\ repeated \subseteq given
      BY <1>2 DEF ListingsTypeOK
    <3>2. pages' \in Nat
      BY <2>1, <3>1
    <3>3. given' \subseteq ListRows /\ repeated' \subseteq given'
      BY <2>1, <2>2, <3>1
    <3>4. cursor' \in ListRows \cup {NoRow} /\ walk' \in {"walking", "ended"}
      BY <2>1, <2>2, <2>3
    <3> QED
      BY <1>1, <1>2, <3>2, <3>3, <3>4 DEF ListingsTypeOK
  <2>7. RowsInOrder'
    BY <1>1, <1>2, <2>1 DEF RowsInOrder
  <2>8. WalksByCursor'
    <3>1. /\ cursor' # NoRow /\ cursor' \in given' /\ given' # {} /\ cursor' \in listed
          /\ walk' \in {"walking", "ended"}
      BY <1>2, <2>1, <2>2, <2>3
    <3>2. "skips" \notin upset => \A x \in steady : x \in given' \/ order[x] > order[cursor']
      <4> SUFFICES ASSUME "skips" \notin upset, NEW x \in steady, x \notin given'
                   PROVE  order[x] > order[cursor']
        OBVIOUS
      <4>1. x \in AfterCursor \ page
        BY <1>3, <2>1, <2>5
      <4> QED
        BY <1>2, <2>2, <2>3, <4>1
    <3>3. "repeats" \notin upset => \A x \in given' \cap steady : order[x] <= order[cursor']
      <4> SUFFICES ASSUME "repeats" \notin upset, NEW x \in given, x \in steady
                   PROVE  order[x] <= order[cursor']
        BY <2>1, <2>3
      <4>1. cursor # NoRow /\ order[x] <= order[cursor] /\ cursor \in ListRows
        BY <1>2, <2>5 DEF WalksByCursor
      <4>2. order[cursor] < order[cursor'] /\ cursor' \in ListRows /\ x \in ListRows
        BY <1>2, <2>2, <2>3, <2>4, <4>1
      <4> QED
        BY <1>2, <4>1, <4>2
    <3>4. walk' = "ended" /\ "skips" \notin upset => steady \subseteq given'
      <4> SUFFICES ASSUME page = AfterCursor, "skips" \notin upset, NEW x \in steady
                   PROVE  x \in given'
        BY <2>1
      <4> QED
        BY <1>3, <2>1, <2>5
    <3> QED
      BY <1>1, <3>1, <3>2, <3>3, <3>4 DEF WalksByCursor
  <2>9. WalksByOffset'
    BY <1>1 DEF WalksByOffset
  <2>10. NothingIsRepeated'
    <3> SUFFICES ASSUME "repeats" \notin upset, NEW x \in given, x \in page, x \in steady PROVE FALSE
      BY <1>1, <2>1 DEF ListingsInv, NothingIsRepeated
    <3>1. cursor # NoRow /\ order[x] <= order[cursor] /\ cursor \in ListRows /\ x \in ListRows
      BY <1>2, <2>5 DEF WalksByCursor
    <3> QED
      BY <1>2, <2>4, <3>1
  <2> QED
    BY <2>6, <2>7, <2>8, <2>9, <2>10 DEF ListingsInv
<1> QED
  BY <1>4, <1>5

\* A reader of pages is given the rows of the next one, all of them or those that
\* are published.
LEMMA OffsetGiveKeeps ==
  ASSUME ListingsInv, list \in Browsed, walk # "none",
         NEW page, FirstOf(AfterOffset) \ unlisted \subseteq page \/ upset # {},
         page \subseteq FirstOf(AfterOffset) \/ upset # {},
         page \subseteq ListRows,
         Give(page),
         UNCHANGED <<list, listed, unlisted, order, steady, upset>>,
         walk' \in {"walking", "ended"},
         walk' = "ended" => ~MorePages \/ upset # {}
  PROVE  /\ given' \subseteq ListRows /\ repeated' \subseteq given' /\ pages' \in Nat
         /\ WalksByOffset' /\ NothingIsRepeated'
<1>1. /\ given' = given \cup page /\ repeated' = repeated \cup (given \cap page)
      /\ pages' = pages + 1
  BY DEF Give
<1>2. /\ ListingsTypeOK /\ RowsInOrder /\ steady \subseteq listed /\ steady \cap unlisted = {}
      /\ given \subseteq ListRows /\ repeated \subseteq given /\ listed \subseteq ListRows
      /\ upset \in {{}, Harms} /\ pages \in Nat
  BY DEF ListingsInv, ListingsTypeOK, RowsInOrder
<1>3. /\ pages \in Nat /\ PageLimit \in Nat /\ LastPage \in Nat
      /\ Reach \in Nat /\ Offset \in Nat /\ Offset <= Reach
      /\ pages < LastPage => Offset = Reach /\ Offset + PageLimit = (pages + 1) * PageLimit
      /\ ~(pages < LastPage) => Offset + PageLimit = LastPage * PageLimit
      /\ Reach' = Offset + PageLimit
  BY <1>1, <1>2, PagesAreNumbers
<1>4. /\ Cardinality(listed) \in Nat
      /\ \A x \in listed : Rank(x) \in Nat /\ Rank(x) < Cardinality(listed)
      /\ FirstOf(AfterOffset)
           = {x \in listed : Rank(x) >= Offset /\ Rank(x) < Offset + PageLimit}
  <2>1. /\ AfterOffset = {x \in listed : Rank(x) >= Offset}
        /\ FirstOf(AfterOffset) = {x \in AfterOffset : Rank(x) < Offset + PageLimit}
    BY <1>2, OffsetPage
  <2> QED
    BY <1>2, <2>1, OffsetPage
<1>5. /\ \A x \in ListRows : Rank(x)' = Rank(x)
      /\ Beyond' = {x \in listed : Rank(x) >= LastPage * PageLimit}
  <2>1. \A x \in ListRows : Before(x)' = Before(x)
    BY DEF Before
  <2>2. Beyond' = {x \in listed : Cardinality(Before(x)') >= LastPage * PageLimit}
    BY DEF Beyond
  <2> QED
    BY <1>2, <2>1, <2>2 DEF Rank
<1>6. ASSUME upset = {}
      PROVE  /\ \A x \in given' : x \in listed /\ Rank(x) < Reach'
             /\ \A x \in steady : Rank(x) < Reach' => x \in given'
             /\ pages < LastPage => given \cap page = {}
             /\ walk' = "ended" => steady \subseteq given' \cup Beyond'
  <2>1. /\ \A x \in given : x \in listed /\ Rank(x) < Reach
        /\ \A x \in steady : Rank(x) < Reach => x \in given
    BY <1>6 DEF ListingsInv, WalksByOffset
  <2>2. \A x \in page : x \in listed /\ Rank(x) >= Offset /\ Rank(x) < Offset + PageLimit
    BY <1>4, <1>6
  <2>3. Reach <= Reach'
    <3>1. CASE pages < LastPage
      BY <1>3, <3>1
    <3>2. CASE ~(pages < LastPage)
      BY <1>3, <3>2 DEF Reach
    <3> QED
      BY <3>1, <3>2
  <2>4. \A x \in given' : x \in listed /\ Rank(x) < Reach'
    <3>1. \A x \in given : x \in listed /\ Rank(x) < Reach'
      BY <1>3, <1>4, <2>1, <2>3
    <3> QED
      BY <1>1, <1>3, <2>2, <3>1
  <2>5. \A x \in steady : Rank(x) < Reach' => x \in given'
    <3> SUFFICES ASSUME NEW x \in steady, Rank(x) < Reach', x \notin given PROVE x \in page
      BY <1>1
    <3>1. x \in listed /\ x \notin unlisted /\ Rank(x) \in Nat
      BY <1>2, <1>4
    <3>2. Rank(x) >= Offset /\ Rank(x) < Offset + PageLimit
      BY <1>3, <2>1, <3>1
    <3> QED
      BY <1>4, <1>6, <3>1, <3>2
  <2>6. pages < LastPage => given \cap page = {}
    <3> SUFFICES ASSUME pages < LastPage, NEW x \in given, x \in page PROVE FALSE
      OBVIOUS
    <3>1. x \in listed /\ Rank(x) < Offset /\ Rank(x) >= Offset
      BY <1>3, <2>1, <2>2
    <3> QED
      BY <1>3, <1>4, <3>1
  <2>7. walk' = "ended" => steady \subseteq given' \cup Beyond'
    <3> SUFFICES ASSUME walk' = "ended", NEW x \in steady, x \notin given' PROVE x \in Beyond'
      OBVIOUS
    <3>1. x \in listed /\ Rank(x) \in Nat /\ ~(Rank(x) < Offset + PageLimit)
      BY <1>2, <1>3, <1>4, <2>5
    <3>2. ~((pages + 1) * PageLimit < Cardinality(listed))
      BY <1>6 DEF MorePages
    <3>3. (pages + 1) * PageLimit \in Nat
      <4>1. \A m, n \in Nat : m * n \in Nat
        OBVIOUS
      <4> QED
        BY <1>3, <4>1
    <3>4. ~(pages < LastPage)
      <4> SUFFICES ASSUME pages < LastPage PROVE FALSE
        OBVIOUS
      <4>1. ~(Rank(x) < (pages + 1) * PageLimit) /\ Rank(x) < Cardinality(listed)
        BY <1>3, <1>4, <3>1
      <4> QED
        BY <1>4, <3>1, <3>2, <3>3, <4>1
    <3>5. Rank(x) >= LastPage * PageLimit
      <4>1. Offset + PageLimit = LastPage * PageLimit /\ Offset + PageLimit \in Nat
        BY <1>3, <3>4
      <4> QED
        BY <3>1, <4>1
    <3> QED
      BY <1>5, <3>1, <3>5
  <2> QED
    BY <2>4, <2>5, <2>6, <2>7
<1>7. WalksByOffset'
  BY <1>2, <1>5, <1>6 DEF WalksByOffset
<1>8. NothingIsRepeated'
  <2> SUFFICES ASSUME "repeats" \notin upset, pages' <= LastPage PROVE repeated' \cap steady = {}
    BY DEF NothingIsRepeated
  <2>1. upset = {} /\ pages < LastPage /\ pages <= LastPage
    BY <1>1, <1>2, <1>3 DEF Harms
  <2>2. repeated \cap steady = {}
    BY <2>1 DEF ListingsInv, NothingIsRepeated
  <2> QED
    BY <1>1, <1>6, <2>1, <2>2
<1> QED
  BY <1>1, <1>2, <1>3, <1>7, <1>8

LEMMA BrowseKeeps ==
  ASSUME ListingsInv, BrowseQuestions \/ BrowseExperiences
  PROVE  ListingsInv'
<1>1. /\ list \in {"questions", "experiences"} /\ walk = "walking"
      /\ Give(FirstOf(AfterOffset))
      /\ walk' = IF MorePages THEN "walking" ELSE "ended"
      /\ UNCHANGED <<list, listed, unlisted, order, cursor, hits, steady, upset, listChanges>>
  BY DEF BrowseQuestions, BrowseExperiences, NumberedPage, rowVars
<1>2. list \in Browsed /\ ListingsTypeOK /\ RowsInOrder /\ listed \subseteq ListRows
  BY <1>1 DEF Browsed, ListingsInv, ListingsTypeOK
<1>3. FirstOf(AfterOffset) \subseteq ListRows
  BY <1>2 DEF FirstOf, AfterOffset
<1>4. /\ given' \subseteq ListRows /\ repeated' \subseteq given' /\ pages' \in Nat
      /\ WalksByOffset' /\ NothingIsRepeated'
  BY <1>1, <1>2, <1>3, OffsetGiveKeeps
<1>5. ListingsTypeOK'
  BY <1>1, <1>2, <1>4 DEF ListingsTypeOK
<1>6. RowsInOrder' /\ WalksByCursor'
  BY <1>1, <1>2 DEF RowsInOrder, WalksByCursor
<1> QED
  BY <1>4, <1>5, <1>6 DEF ListingsInv

\* A step that leaves the rows and the pages as they are leaves what is computed
\* from them.
LEMMA PagesStay ==
  ASSUME UNCHANGED <<list, listed, order, pages>>
  PROVE  /\ AfterOffset' = AfterOffset /\ FirstOf(AfterOffset)' = FirstOf(AfterOffset)
         /\ \A x : Rank(x)' = Rank(x)
         /\ Reach' = Reach /\ MorePages' = MorePages /\ Beyond' = Beyond
<1>1. \A x : Before(x)' = Before(x)
  BY DEF Before
<1>2. Offset' = Offset
  BY DEF Offset, PageNumber
<1>3. AfterOffset' = AfterOffset
  BY <1>1, <1>2 DEF AfterOffset
<1>4. FirstOf(AfterOffset)' = FirstOf(AfterOffset)
  BY <1>1, <1>3 DEF FirstOf
<1>5. Reach' = Reach /\ MorePages' = MorePages
  BY DEF Reach, MorePages
<1>6. Beyond' = Beyond
  BY <1>1 DEF Beyond
<1> QED
  BY <1>1, <1>3, <1>4, <1>5, <1>6 DEF Rank

LEMMA QueryKeeps ==
  ASSUME ListingsInv, Query
  PROVE  ListingsInv'
<1>1. /\ list = "search" /\ walk = "walking"
      /\ hits' = FirstOf(AfterOffset)
      /\ walk' = IF MorePages THEN "found" ELSE "found last"
      /\ UNCHANGED <<list, listed, unlisted, order, cursor, pages, given, repeated, steady,
                     upset, listChanges>>
  BY DEF Query, rowVars
<1>2. ListingsTypeOK /\ RowsInOrder /\ list \in Browsed
  BY <1>1 DEF ListingsInv, Browsed
<1>3. hits' \subseteq ListRows
  BY <1>1, <1>2 DEF FirstOf, AfterOffset, ListingsTypeOK
<1>4. ListingsTypeOK'
  BY <1>1, <1>2, <1>3 DEF ListingsTypeOK
<1>5. RowsInOrder' /\ WalksByCursor' /\ NothingIsRepeated'
  BY <1>1, <1>2 DEF ListingsInv, RowsInOrder, WalksByCursor, NothingIsRepeated
<1>6. WalksByOffset'
  BY <1>1, <1>2, PagesStay DEF ListingsInv, WalksByOffset
<1> QED
  BY <1>4, <1>5, <1>6 DEF ListingsInv

LEMMA ShowHitsKeeps ==
  ASSUME ListingsInv, ShowHits
  PROVE  ListingsInv'
<1>1. /\ walk \in {"found", "found last"}
      /\ Give(hits \ unlisted) /\ hits' = {}
      /\ walk' = IF walk = "found" THEN "walking" ELSE "ended"
      /\ UNCHANGED <<list, listed, unlisted, order, cursor, steady, upset, listChanges>>
  BY DEF ShowHits, rowVars
<1>2. ListingsTypeOK /\ RowsInOrder /\ list \in Browsed
  BY <1>1 DEF ListingsInv, WalksByCursor
<1>3. hits \subseteq ListRows
  BY <1>2 DEF ListingsTypeOK
<1>4. upset = {} => hits = FirstOf(AfterOffset) /\ (walk = "found last" => ~MorePages)
  BY <1>1, <1>2 DEF ListingsInv, WalksByOffset
<1>5. /\ given' \subseteq ListRows /\ repeated' \subseteq given' /\ pages' \in Nat
      /\ WalksByOffset' /\ NothingIsRepeated'
  <2>1. /\ FirstOf(AfterOffset) \ unlisted \subseteq hits \ unlisted \/ upset # {}
        /\ hits \ unlisted \subseteq FirstOf(AfterOffset) \/ upset # {}
        /\ walk' = "ended" => ~MorePages \/ upset # {}
    BY <1>1, <1>4
  <2> QED
    BY <1>1, <1>2, <1>3, <2>1, OffsetGiveKeeps
<1>6. ListingsTypeOK'
  BY <1>1, <1>2, <1>5 DEF ListingsTypeOK
<1>7. RowsInOrder' /\ WalksByCursor'
  BY <1>1, <1>2 DEF RowsInOrder, WalksByCursor
<1> QED
  BY <1>5, <1>6, <1>7 DEF ListingsInv

\* The reader is sent away, or learns whether his cursor's row is there.
LEMMA ReaderGoesKeeps ==
  ASSUME ListingsInv, LookForAnchor \/ TurnReaderAway
  PROVE  ListingsInv'
<1>1. /\ walk' \in {"ended", "refused"} /\ hits' \subseteq hits
      /\ walk # "none"
      /\ walk' = "ended" => walk = "looking" /\ cursor \in listed
      /\ UNCHANGED <<list, listed, unlisted, order, cursor, pages, given, repeated, steady,
                     upset, listChanges>>
  BY DEF LookForAnchor, TurnReaderAway, rowVars
<1>2. ListingsTypeOK'
  BY <1>1 DEF ListingsInv, ListingsTypeOK
<1>3. RowsInOrder' /\ NothingIsRepeated'
  BY <1>1 DEF ListingsInv, RowsInOrder, NothingIsRepeated
<1>4. WalksByCursor'
  BY <1>1 DEF ListingsInv, WalksByCursor
<1>5. WalksByOffset'
  BY <1>1, PagesStay DEF ListingsInv, WalksByOffset
<1> QED
  BY <1>2, <1>3, <1>4, <1>5 DEF ListingsInv

-----------------------------------------------------------------------------
(* What happens to the lists meanwhile.                                      *)

\* A row enters or leaves.  Where pages are counted they are upset by that.
LEMMA EnterOrLeaveKeeps ==
  ASSUME ListingsInv, NEW x \in ListRows, Enter(x) \/ Leave(x)
  PROVE  ListingsInv'
<1>1. /\ UNCHANGED <<list, order, walk, cursor, hits, pages, given, repeated>>
      /\ listChanges < MaxListed /\ listChanges' = listChanges + 1
      /\ upset' = IF list \in Browsed THEN Harms ELSE upset
      /\ unlisted' \subseteq unlisted /\ steady' \subseteq steady
      /\ steady' \subseteq listed' /\ listed' \subseteq listed \cup {x}
      /\ Enter(x) => listed' = listed \cup {x} /\ (list = "comments" => x \notin given)
      /\ Leave(x) => listed' = listed \ {x} /\ list \in Shrinking
  BY DEF Enter, Leave, Changed, reading, ListingsInv, ListingsTypeOK
<1>2. ListingsTypeOK /\ RowsInOrder /\ upset \subseteq Harms
  BY DEF ListingsInv, ListingsTypeOK
<1>3. ListingsTypeOK'
  <2>1. listChanges' \in 0 .. MaxListed
    <3>1. listChanges \in 0 .. MaxListed
      BY <1>2 DEF ListingsTypeOK
    <3> QED
      BY <1>1, <3>1, ListingsAssumption
  <2>2. upset' \subseteq Harms
    BY <1>1, <1>2
  <2> QED
    BY <1>1, <1>2, <2>1, <2>2 DEF ListingsTypeOK
<1>4. RowsInOrder'
  BY <1>1, <1>2 DEF RowsInOrder
<1>5. upset \subseteq upset'
  BY <1>1, <1>2
<1>6. WalksByCursor'
  <2> SUFFICES ASSUME list \notin Browsed PROVE WalksByCursor'
    BY <1>1 DEF WalksByCursor
  <2>1. /\ cursor = NoRow <=> given = {}
        /\ cursor # NoRow => cursor \in given
        /\ list \notin Shrinking => cursor \in listed \cup {NoRow}
        /\ walk \notin {"found", "found last"}
        /\ walk = "looking" =>
             /\ list = "comments" /\ cursor # NoRow
             /\ cursor \in listed /\ "skips" \notin upset => steady \subseteq given
        /\ cursor # NoRow /\ "skips" \notin upset =>
             \A y \in steady : y \in given \/ order[y] > order[cursor]
        /\ "repeats" \notin upset => \A y \in given \cap steady : order[y] <= order[cursor]
        /\ walk = "ended" /\ "skips" \notin upset => steady \subseteq given
    BY DEF ListingsInv, WalksByCursor
  <2>2. list \notin Shrinking => cursor \in listed' \cup {NoRow}
    BY <1>1, <2>1
  <2>3. walk = "looking" =>
          (cursor \in listed' /\ "skips" \notin upset => steady' \subseteq given)
    BY <1>1, <2>1
  <2>4. upset' = upset
    BY <1>1
  <2> QED
    BY <1>1, <2>1, <2>2, <2>3, <2>4 DEF WalksByCursor
<1>7. WalksByOffset'
  BY <1>1 DEF WalksByOffset, Harms
<1>8. NothingIsRepeated'
  BY <1>1, <1>5 DEF ListingsInv, NothingIsRepeated
<1> QED
  BY <1>3, <1>4, <1>6, <1>7, <1>8 DEF ListingsInv

LEMMA ChangePublishedKeeps ==
  ASSUME ListingsInv, NEW x \in ListRows, ChangePublished(x)
  PROVE  ListingsInv'
<1>1. /\ UNCHANGED <<list, listed, order, walk, cursor, hits, pages, given, repeated, upset>>
      /\ listChanges < MaxListed /\ listChanges' = listChanges + 1
      /\ list = "search" /\ x \in listed
      /\ unlisted' \subseteq unlisted \cup {x} /\ steady' = steady \ {x}
  BY DEF ChangePublished, reading
<1>2. ListingsTypeOK'
  <2>1. listChanges' \in 0 .. MaxListed
    <3>1. listChanges \in 0 .. MaxListed
      BY DEF ListingsInv, ListingsTypeOK
    <3> QED
      BY <1>1, <3>1, ListingsAssumption
  <2> QED
    BY <1>1, <2>1 DEF ListingsInv, ListingsTypeOK
<1>3. RowsInOrder'
  BY <1>1 DEF ListingsInv, RowsInOrder
<1>4. WalksByCursor' /\ NothingIsRepeated'
  BY <1>1 DEF ListingsInv, WalksByCursor, NothingIsRepeated, Browsed
<1>5. WalksByOffset'
  BY <1>1, PagesStay DEF ListingsInv, WalksByOffset
<1> QED
  BY <1>2, <1>3, <1>4, <1>5 DEF ListingsInv

\* A row moves, and is not steady any more.  Those that are stay where they are:
\* of the cursor's row they learn that it is not before them any more, or not
\* behind them.
LEMMA TouchKeeps ==
  ASSUME ListingsInv, NEW x \in ListRows, Touch(x)
  PROVE  ListingsInv'
<1>1. PICK p \in 1 .. MaxPlace :
        /\ \A y \in ListRows : order[y] # p
        /\ order' = [order EXCEPT ![x] = p]
        /\ upset' = upset \cup (IF list \in Browsed THEN Harms
                               ELSE IF x # cursor THEN {}
                               ELSE IF p < order[x] THEN {"repeats"} ELSE {"skips"})
  BY DEF Touch
<1>2. /\ UNCHANGED <<list, listed, unlisted, walk, cursor, hits, pages, given, repeated>>
      /\ listChanges < MaxListed /\ listChanges' = listChanges + 1
      /\ steady' = steady \ {x} /\ x \in listed
      /\ list \in Reordered
  BY DEF Touch, reading
<1>3. /\ order \in [ListRows -> 1 .. MaxPlace] /\ p \in Nat
      /\ \A y \in ListRows : order[y] \in Nat
      /\ RowsInOrder /\ steady \subseteq ListRows /\ upset \subseteq Harms
  <2>1. order \in [ListRows -> 1 .. MaxPlace] /\ steady \subseteq ListRows /\ upset \subseteq Harms
    BY DEF ListingsInv, ListingsTypeOK
  <2>2. p \in Nat
    BY ListingsAssumption
  <2>3. \A y \in ListRows : order[y] \in Nat
    BY PlacesAreNumbers DEF ListingsInv
  <2> QED
    BY <2>1, <2>2, <2>3 DEF ListingsInv
<1>4. /\ order' \in [ListRows -> 1 .. MaxPlace] /\ order'[x] = p
      /\ \A y \in ListRows : y # x => order'[y] = order[y]
  BY <1>1, <1>3
<1>5. upset \subseteq upset' /\ upset' \subseteq Harms /\ (list \in Browsed => upset' = Harms)
  <2>1. CASE list \in Browsed
    BY <1>1, <1>3, <2>1
  <2>2. CASE list \notin Browsed
    BY <1>1, <1>3, <2>2 DEF Harms
  <2> QED
    BY <2>1, <2>2
<1>6. ListingsTypeOK'
  <2>1. listChanges' \in 0 .. MaxListed
    <3>1. listChanges \in 0 .. MaxListed
      BY DEF ListingsInv, ListingsTypeOK
    <3> QED
      BY <1>2, <3>1, ListingsAssumption
  <2> QED
    BY <1>2, <1>4, <1>5, <2>1 DEF ListingsInv, ListingsTypeOK
<1>7. RowsInOrder'
  BY <1>1, <1>2, <1>3, <1>4, <1>5 DEF RowsInOrder
<1>8. WalksByCursor'
  <2> SUFFICES ASSUME list \notin Browsed PROVE WalksByCursor'
    BY <1>2 DEF WalksByCursor
  <2>1. /\ cursor = NoRow <=> given = {}
        /\ cursor # NoRow => cursor \in given
        /\ list \notin Shrinking => cursor \in listed \cup {NoRow}
        /\ walk \notin {"found", "found last"}
        /\ walk = "looking" => list = "comments"
        /\ cursor # NoRow /\ "skips" \notin upset =>
             \A y \in steady : y \in given \/ order[y] > order[cursor]
        /\ "repeats" \notin upset => \A y \in given \cap steady : order[y] <= order[cursor]
        /\ walk = "ended" /\ "skips" \notin upset => steady \subseteq given
    BY DEF ListingsInv, WalksByCursor
  <2>2. cursor \in ListRows \cup {NoRow} /\ given \subseteq ListRows
    BY DEF ListingsInv, ListingsTypeOK
  <2>3. list # "comments"
    BY <1>2, <2>1 DEF Reordered, Browsed
  <2>4. "skips" \notin upset => steady' \subseteq steady
    BY <1>2
  <2>5. ASSUME cursor = x
        PROVE  /\ "skips" \notin upset' => p < order[x]
               /\ "repeats" \notin upset' => ~(p < order[x])
    BY <1>1, <2>5
  <2>6. cursor # NoRow /\ "skips" \notin upset' =>
          \A y \in steady' : y \in given \/ order'[y] > order'[cursor]
    <3> SUFFICES ASSUME cursor # NoRow, "skips" \notin upset', NEW y \in steady', y \notin given
                 PROVE  order'[y] > order'[cursor]
      OBVIOUS
    <3>1. y \in ListRows /\ y # x /\ order'[y] = order[y] /\ order[y] > order[cursor]
      BY <1>2, <1>3, <1>4, <1>5, <2>1
    <3>2. CASE cursor = x
      <4>1. order'[cursor] = p /\ p < order[cursor]
        BY <1>4, <2>5, <3>2
      <4> QED
        BY <1>3, <3>1, <3>2, <4>1
    <3>3. CASE cursor # x
      <4>1. order'[cursor] = order[cursor]
        BY <1>4, <2>2, <3>3
      <4> QED
        BY <3>1, <4>1
    <3> QED
      BY <3>2, <3>3
  <2>7. "repeats" \notin upset' => \A y \in given \cap steady' : order'[y] <= order'[cursor]
    <3> SUFFICES ASSUME "repeats" \notin upset', NEW y \in given, y \in steady'
                 PROVE  order'[y] <= order'[cursor]
      OBVIOUS
    <3>1. /\ y # x /\ y \in steady /\ cursor \in ListRows /\ y \in ListRows
          /\ order'[y] = order[y] /\ order[y] <= order[cursor]
      BY <1>2, <1>3, <1>4, <1>5, <2>1, <2>2
    <3>2. CASE cursor = x
      <4>1. order'[cursor] = p /\ ~(p < order[cursor])
        BY <1>4, <2>5, <3>2
      <4> QED
        BY <1>3, <3>1, <4>1
    <3>3. CASE cursor # x
      BY <1>4, <3>1, <3>3
    <3> QED
      BY <3>2, <3>3
  <2> QED
    BY <1>2, <1>5, <2>1, <2>3, <2>4, <2>6, <2>7 DEF WalksByCursor
<1>9. WalksByOffset'
  BY <1>2, <1>5 DEF WalksByOffset, Harms
<1>10. NothingIsRepeated'
  BY <1>2, <1>5 DEF ListingsInv, NothingIsRepeated
<1> QED
  BY <1>6, <1>7, <1>8, <1>9, <1>10 DEF ListingsInv

LEMMA ListingsNextInv == ListingsInv /\ [ListingsNext]_listingVars => ListingsInv'
<1> SUFFICES ASSUME ListingsInv, [ListingsNext]_listingVars PROVE ListingsInv'
  OBVIOUS
<1>1. CASE UNCHANGED listingVars
  <2>1. UNCHANGED <<list, listed, unlisted, order, walk, cursor, hits, pages, given, repeated,
                    steady, upset, listChanges>>
    BY <1>1 DEF listingVars, rowVars, reading
  <2>2. /\ ListingsTypeOK' /\ RowsInOrder' /\ WalksByCursor' /\ NothingIsRepeated'
    BY <2>1 DEF ListingsInv, ListingsTypeOK, RowsInOrder, WalksByCursor, NothingIsRepeated
  <2>3. WalksByOffset'
    BY <2>1, PagesStay DEF ListingsInv, WalksByOffset
  <2> QED
    BY <2>2, <2>3 DEF ListingsInv
<1>2. CASE ListComments
  BY <1>2, CursorPageKeeps DEF ListComments, Browsed
<1>3. CASE Queue \/ ReportsOfState \/ Audit
  BY <1>3, CursorPageKeeps DEF Queue, ReportsOfState, Audit, Browsed, EmptyRefuses
<1>4. CASE ListMySubmissions \/ ListMyVotes \/ ListMyReports
  <2>1. cursor \in listed \cup {NoRow}
    BY <1>4 DEF ListMySubmissions, ListMyVotes, ListMyReports, Browsed, Shrinking,
                ListingsInv, WalksByCursor
  <2> QED
    BY <1>4, <2>1, CursorPageKeeps
    DEF ListMySubmissions, ListMyVotes, ListMyReports, Browsed
<1> QED
  BY <1>1, <1>2, <1>3, <1>4, StartWalkKeeps, BrowseKeeps, QueryKeeps, ShowHitsKeeps,
     ReaderGoesKeeps, EnterOrLeaveKeeps, ChangePublishedKeeps, TouchKeeps
  DEF ListingsNext

LEMMA ListingsInvariant == ListingsSpec => []ListingsInv
<1> QED
  BY ListingsInitInv, ListingsNextInv, PTL DEF ListingsSpec

\* Lists, readers and what they were given have their types.
THEOREM ListingsTypeCorrect == ListingsSpec => []ListingsTypeOK
<1>1. ListingsInv => ListingsTypeOK
  BY DEF ListingsInv
<1> QED
  BY <1>1, ListingsInvariant, PTL

\* For any number of rows and any size of a page, a reader who comes to the end
\* of a list with a cursor has missed no row that was there all the while, unless
\* the row his cursor named moved back.  At the end of pages that are counted he
\* has those that are not behind the last page there is, if no row of the list
\* changed.
THEOREM NothingSkipped == ListingsSpec => []NothingIsSkipped
<1>1. ASSUME ListingsInv, walk = "ended", "skips" \notin upset
      PROVE  steady \subseteq given \cup Beyond
  <2>1. CASE list \in Browsed
    <3>1. upset = {}
      BY <1>1, <2>1 DEF ListingsInv, RowsInOrder, Harms
    <3> QED
      BY <1>1, <2>1, <3>1 DEF ListingsInv, WalksByOffset
  <2>2. CASE list \notin Browsed
    BY <1>1, <2>2 DEF ListingsInv, WalksByCursor
  <2> QED
    BY <2>1, <2>2
<1>2. ListingsInv => NothingIsSkipped
  BY <1>1 DEF NothingIsSkipped
<1> QED
  BY <1>2, ListingsInvariant, PTL

\* And no such row was given to him twice, unless his cursor's came forward, the
\* rows of a list whose pages are counted changed, or he asked for a page behind
\* the last one.
THEOREM NothingRepeated == ListingsSpec => []NothingIsRepeated
<1>1. ListingsInv => NothingIsRepeated
  BY DEF ListingsInv
<1> QED
  BY <1>1, ListingsInvariant, PTL

-----------------------------------------------------------------------------
(* QuestionCache: what is served was so a short while ago.                  *)

\* Versions follow one another in time.
HistoryIsOrdered ==
  /\ \A n \in 1 .. Now : history[n].since <= clock
  /\ \A m, n \in 1 .. Now : m <= n => history[m].since <= history[n].since

\* What a request has read was the item when it read it, and it has not had the
\* time to grow old.
ReadsAreRecent ==
  \A r \in Readers :
    /\ rpc[r] # "idle" => read[r].key \in Keys /\ read[r].asked <= clock
    /\ rpc[r] = "read" =>
         /\ read[r].version \in 1 .. Now
         /\ read[r].asked <= read[r].at /\ read[r].at <= clock
         /\ clock <= read[r].at + MaxRead
         /\ read[r].version < Now => read[r].at <= history[read[r].version + 1].since
         /\ read[r].key \in ItemKeys => history[read[r].version].published

\* An entry that was overtaken ends within its time to live and one read.
Timely(k, e) ==
  /\ e \in Entry /\ e.version <= Now
  /\ e.expires <= clock + Ttl(k)
  /\ e.version < Now => e.expires <= history[e.version + 1].since + MaxRead + Ttl(k)
  /\ k \in ItemKeys => history[e.version].published

EntriesAreTimely ==
  /\ DOMAIN entries \subseteq Keys
  /\ IsFiniteSet(DOMAIN entries) /\ Cardinality(DOMAIN entries) <= Capacity
  /\ \A k \in DOMAIN entries : Timely(k, entries[k])

CacheInv ==
  /\ CacheTypeOK
  /\ HistoryIsOrdered
  /\ ReadsAreRecent
  /\ EntriesAreTimely

LEMMA TtlType == ASSUME NEW k PROVE Ttl(k) \in Nat
  BY CacheAssumption DEF Ttl

LEMMA ElementsOf == ASSUME NEW S, NEW q \in Seq(S) PROVE \A n \in 1 .. Len(q) : q[n] \in S
  OBVIOUS

LEMMA HistoryType ==
  ASSUME CacheTypeOK
  PROVE  /\ Now \in Nat /\ Now >= 1
         /\ \A n \in 1 .. Now : history[n].since \in Nat
<1>1. history \in Seq([published : BOOLEAN, since : Nat]) /\ history # << >>
  BY DEF CacheTypeOK
<1>2. Now \in Nat /\ Now >= 1
  BY <1>1 DEF Now
<1>3. \A n \in 1 .. Now : history[n] \in [published : BOOLEAN, since : Nat]
  BY <1>1, ElementsOf DEF Now
<1> QED
  BY <1>2, <1>3

LEMMA CacheInitInv == CacheInit => CacheInv
  BY CacheAssumption, FS_EmptySet
  DEF CacheInit, CacheInv, CacheTypeOK, HistoryIsOrdered, ReadsAreRecent, EntriesAreTimely, Now,
      NoRead

(* The cache itself.                                                       *)

LEMMA WithoutKeepsEntries ==
  ASSUME CacheInv, NEW keys, entries' = Without(keys), UNCHANGED <<clock, history>>
  PROVE  EntriesAreTimely'
<1>1. /\ DOMAIN entries' \subseteq DOMAIN entries
      /\ \A k \in DOMAIN entries' : entries'[k] = entries[k]
  BY DEF Without, Restrict
<1>2. IsFiniteSet(DOMAIN entries') /\ Cardinality(DOMAIN entries') <= Capacity
  BY <1>1, FS_Subset, FS_CardinalityType, CacheAssumption DEF CacheInv, EntriesAreTimely
<1> QED
  BY <1>1, <1>2 DEF CacheInv, EntriesAreTimely, Timely, Now

LEMMA RoomForOne ==
  ASSUME NEW S, IsFiniteSet(S), NEW x, NEW n \in Nat, Cardinality(S) < n
  PROVE  IsFiniteSet(S \cup {x}) /\ Cardinality(S \cup {x}) <= n
<1>1. Cardinality(S) \in Nat
  BY FS_CardinalityType
<1>2. /\ IsFiniteSet(S \cup {x})
      /\ Cardinality(S \cup {x}) = IF x \in S THEN Cardinality(S) ELSE Cardinality(S) + 1
  BY FS_AddElement
<1> QED
  BY <1>1, <1>2

\* There is always room for what is put.
LEMMA PutKeepsEntries ==
  ASSUME CacheInv, NEW k \in Keys, NEW version \in 1 .. Now, NEW at \in Nat,
         Timely(k, [version |-> version, expires |-> at + Ttl(k), inserted |-> at]),
         Put(k, version, at), UNCHANGED <<clock, history>>
  PROVE  EntriesAreTimely'
<1> DEFINE kept == DOMAIN entries \ Expired(at)
           stored == [version |-> version, expires |-> at + Ttl(k), inserted |-> at]
<1>1. PICK victims \in Victims(k, at) :
        entries' = [x \in DOMAIN Without(Expired(at) \cup victims) \cup {k} |->
                      IF x = k THEN stored ELSE Without(Expired(at) \cup victims)[x]]
  BY DEF Put
<1>2. DOMAIN entries' = (kept \ victims) \cup {k}
  BY <1>1 DEF Without, Restrict
<1>3. \A x \in DOMAIN entries' : x # k => x \in DOMAIN entries /\ entries'[x] = entries[x]
  BY <1>1, <1>2 DEF Without, Restrict
<1>4. entries'[k] = stored
  BY <1>1
<1>5. IsFiniteSet(kept) /\ Cardinality(kept) <= Capacity /\ Cardinality(kept) \in Nat
  BY FS_Subset, FS_CardinalityType, CacheAssumption DEF CacheInv, EntriesAreTimely
<1>6. IsFiniteSet(DOMAIN entries') /\ Cardinality(DOMAIN entries') <= Capacity
  <2>1. CASE k \in kept /\ victims = {}
    <3>1. DOMAIN entries' = kept
      BY <1>2, <2>1
    <3> QED
      BY <1>5, <3>1
  <2>2. CASE Cardinality(kept) < Capacity /\ victims = {}
    <3>1. DOMAIN entries' = kept \cup {k}
      BY <1>2, <2>2
    <3>2. IsFiniteSet(kept \cup {k}) /\ Cardinality(kept \cup {k}) <= Capacity
      BY <1>5, <2>2, RoomForOne, CacheAssumption
    <3> QED
      BY <3>1, <3>2
  <2>3. ASSUME NEW old \in kept, victims = {old}
        PROVE  IsFiniteSet(DOMAIN entries') /\ Cardinality(DOMAIN entries') <= Capacity
    <3>1. IsFiniteSet(kept \ {old}) /\ Cardinality(kept \ {old}) = Cardinality(kept) - 1
      BY <1>5, FS_RemoveElement
    <3>2. DOMAIN entries' = (kept \ {old}) \cup {k}
      BY <1>2, <2>3
    <3>3. Cardinality(kept \ {old}) < Capacity
      BY <1>5, <3>1, CacheAssumption
    <3>4. /\ IsFiniteSet((kept \ {old}) \cup {k})
          /\ Cardinality((kept \ {old}) \cup {k}) <= Capacity
      BY <3>1, <3>3, RoomForOne, CacheAssumption
    <3> QED
      BY <3>2, <3>4
  <2> QED
    BY <1>1, <2>1, <2>2, <2>3 DEF Victims
<1> QED
  BY <1>3, <1>4, <1>6 DEF CacheInv, EntriesAreTimely, Timely, Now

(* Requests.                                                               *)

LEMMA GetPreserves ==
  ASSUME CacheInv, NEW r \in Readers, NEW k \in Keys, NEW asked \in Nat, asked <= clock,
         Get(r, k, asked)
  PROVE  CacheInv'
<1>1. CASE UNCHANGED <<entries, rpc, read>>
  BY <1>1 DEF Get, CacheInv, CacheTypeOK, HistoryIsOrdered, ReadsAreRecent,
         EntriesAreTimely,
     Timely, Now
<1>2. CASE /\ entries' = Without({k})
           /\ rpc' = [rpc EXCEPT ![r] = "submitted"]
           /\ read' = [read EXCEPT ![r] = [key |-> k, asked |-> asked, version |-> 0, at |-> 0]]
  <2>1. UNCHANGED <<about, clock, history, vpc>>
    BY DEF Get
  <2>2. EntriesAreTimely'
    BY <1>2, <2>1, WithoutKeepsEntries
  <2>4. Now \in Nat /\ Now' = Now
    BY <2>1 DEF Now, CacheInv, CacheTypeOK
  <2>5. [key |-> k, asked |-> asked, version |-> 0, at |-> 0]
          \in [key : Keys, asked : Nat, version : 0 .. Now, at : Nat]
    BY <2>4
  <2>6. /\ rpc' \in [Readers -> {"idle", "submitted", "read"}]
        /\ read' \in [Readers -> {NoRead} \cup [key : Keys, asked : Nat, version : 0 .. Now', at : Nat]]
    BY <1>2, <2>4, <2>5 DEF CacheInv, CacheTypeOK
  <2>7. CacheTypeOK'
    BY <2>1, <2>2, <2>6 DEF CacheInv, CacheTypeOK, EntriesAreTimely, Timely
  <2>8. HistoryIsOrdered'
    BY <2>1 DEF CacheInv, HistoryIsOrdered, Now
  <2>9. ReadsAreRecent'
    BY <1>2, <2>1 DEF CacheInv, CacheTypeOK, ReadsAreRecent, Now
  <2> QED
    BY <2>2, <2>7, <2>8, <2>9 DEF CacheInv
<1> QED
  BY <1>1, <1>2 DEF Get

LEMMA SeesPreserves ==
  ASSUME CacheInv, NEW r \in Readers, rpc[r] = "submitted",
         read[r].key \in ItemKeys => Published, Sees(r)
  PROVE  CacheInv'
<1>1. UNCHANGED <<about, clock, entries, history, vpc>> /\ Now' = Now
  BY DEF Sees, Now
<1>2. Now \in Nat /\ Now >= 1 /\ clock \in Nat
  BY DEF CacheInv, CacheTypeOK, Now
<1>3. read[r] \in [key : Keys, asked : Nat, version : 0 .. Now, at : Nat]
  <2>1. read[r].key \in Keys
    BY DEF CacheInv, ReadsAreRecent
  <2>2. read[r] \in {NoRead} \cup [key : Keys, asked : Nat, version : 0 .. Now, at : Nat]
    BY DEF CacheInv, CacheTypeOK
  <2> QED
    BY <1>2, <2>1, <2>2 DEF NoRead
<1>4. /\ rpc' = [rpc EXCEPT ![r] = "read"]
      /\ read'[r] = [key |-> read[r].key, asked |-> read[r].asked, version |-> Now, at |-> clock]
      /\ read' = [read EXCEPT ![r] = read'[r]]
  BY <1>3 DEF Sees, CacheInv, CacheTypeOK
<1>5. CacheTypeOK'
  <2>1. read'[r] \in [key : Keys, asked : Nat, version : 0 .. Now, at : Nat]
    BY <1>2, <1>3, <1>4
  <2>2. read' \in [Readers -> {NoRead} \cup [key : Keys, asked : Nat, version : 0 .. Now', at : Nat]]
    BY <1>1, <1>4, <2>1 DEF CacheInv, CacheTypeOK
  <2> QED
    BY <1>1, <1>4, <2>2 DEF CacheInv, CacheTypeOK
<1>6. ReadsAreRecent'
  <2> SUFFICES ASSUME NEW q \in Readers
               PROVE  /\ rpc'[q] # "idle" => read'[q].key \in Keys /\ read'[q].asked <= clock
                      /\ rpc'[q] = "read" =>
                           /\ read'[q].version \in 1 .. Now
                           /\ read'[q].asked <= read'[q].at /\ read'[q].at <= clock
                           /\ clock <= read'[q].at + MaxRead
                           /\ read'[q].version < Now =>
                                read'[q].at <= history[read'[q].version + 1].since
                           /\ read'[q].key \in ItemKeys => history[read'[q].version].published
    BY <1>1 DEF ReadsAreRecent
  <2>1. CASE q # r
    BY <2>1, <1>4 DEF CacheInv, CacheTypeOK, ReadsAreRecent
  <2>2. CASE q = r
    BY <2>2, <1>2, <1>4, CacheAssumption DEF CacheInv, ReadsAreRecent, Published
  <2> QED
    BY <2>1, <2>2
<1> QED
  BY <1>1, <1>5, <1>6 DEF CacheInv, HistoryIsOrdered, EntriesAreTimely, Timely

\* A Put whose instant is no later than the clock, and as early as the read if it can be.
LEMMA StoredPreserves ==
  ASSUME CacheInv, NEW r \in Readers, NEW at \in Nat, at <= clock, Stored(r, at)
  PROVE  CacheInv'
<1> DEFINE k == read[r].key
           v == read[r].version
<1>1. UNCHANGED <<about, clock, history, vpc>> /\ Now' = Now
  BY DEF Stored, Now
<1>2. Now \in Nat /\ clock \in Nat /\ Ttl(k) \in Nat
  BY TtlType DEF CacheInv, CacheTypeOK, Now
<1>3. /\ k \in Keys /\ v \in 1 .. Now
      /\ read[r].at <= clock /\ clock <= read[r].at + MaxRead
      /\ v < Now => read[r].at <= history[v + 1].since
      /\ k \in ItemKeys => history[v].published
  BY DEF Stored, CacheInv, ReadsAreRecent
<1>4. read[r].at \in Nat
  BY DEF CacheInv, CacheTypeOK, NoRead
<1>5. v < Now => history[v + 1].since \in Nat
  BY <1>2, <1>3, HistoryType DEF CacheInv
<1>6. Timely(k, [version |-> v, expires |-> at + Ttl(k), inserted |-> at])
  BY <1>2, <1>3, <1>4, <1>5, CacheAssumption DEF Timely, Entry
<1>7. EntriesAreTimely'
  BY <1>1, <1>3, <1>6, PutKeepsEntries DEF Stored
<1>8. CacheTypeOK'
  BY <1>1, <1>7 DEF Stored, CacheInv, CacheTypeOK, EntriesAreTimely, Timely
<1>9. ReadsAreRecent'
  BY <1>1 DEF Stored, CacheInv, CacheTypeOK, ReadsAreRecent
<1> QED
  BY <1>1, <1>7, <1>8, <1>9 DEF CacheInv, HistoryIsOrdered

\* Steps that leave entries and the item's history alone.
LEMMA QuietPreserves ==
  ASSUME CacheInv, UNCHANGED <<about, clock, entries, history>>,
         \/ UNCHANGED <<rpc, read>>
         \/ \E r \in Readers : /\ rpc' = [rpc EXCEPT ![r] = "idle"]
                               /\ read' = [read EXCEPT ![r] = NoRead],
         vpc' \in [Voters -> {"idle", "locked", "cleared"}]
  PROVE  CacheInv'
<1>1. Now' = Now
  BY DEF Now
<1>2. ReadsAreRecent'
  BY <1>1 DEF CacheInv, CacheTypeOK, ReadsAreRecent
<1>3. /\ rpc' \in [Readers -> {"idle", "submitted", "read"}]
      /\ read' \in [Readers -> {NoRead} \cup [key : Keys, asked : Nat, version : 0 .. Now', at : Nat]]
  BY <1>1 DEF CacheInv, CacheTypeOK
<1> QED
  BY <1>1, <1>2, <1>3 DEF CacheInv, CacheTypeOK, HistoryIsOrdered, EntriesAreTimely, Timely

\* Clear empties the cache, whatever else its caller does.
LEMMA ClearPreserves ==
  ASSUME CacheInv, entries' = Without(Keys), UNCHANGED <<about, clock, history, rpc, read>>,
         vpc' \in [Voters -> {"idle", "locked", "cleared"}]
  PROVE  CacheInv'
<1>1. EntriesAreTimely'
  BY WithoutKeepsEntries
<1> QED
  BY <1>1 DEF CacheInv, CacheTypeOK, HistoryIsOrdered, ReadsAreRecent, EntriesAreTimely,
         Timely, Now

(* The item changes: what was read or stored is overtaken now, not earlier. *)
LEMMA CommitPreserves ==
  ASSUME CacheInv, NEW published \in BOOLEAN, CommitVersion(published),
         UNCHANGED <<about, clock, entries, rpc, read>>,
         vpc' \in [Voters -> {"idle", "locked", "cleared"}]
  PROVE  CacheInv'
<1> DEFINE new == [published |-> published, since |-> clock]
<1>1. /\ history \in Seq([published : BOOLEAN, since : Nat]) /\ clock \in Nat
      /\ Now \in Nat /\ Now >= 1
  BY DEF CacheInv, CacheTypeOK, Now
<1>2. /\ history' = Append(history, new)
      /\ new \in [published : BOOLEAN, since : Nat]
  BY <1>1 DEF CommitVersion
<1>3. /\ history' \in Seq([published : BOOLEAN, since : Nat]) /\ history' # << >>
      /\ Now' = Now + 1
      /\ \A n \in 1 .. Now : history'[n] = history[n]
      /\ history'[Now + 1] = new
  BY <1>1, <1>2 DEF Now
<1>4. \A n \in 1 .. Now : history[n].since \in Nat /\ history[n].since <= clock
  BY HistoryType DEF CacheInv, HistoryIsOrdered
<1>5. HistoryIsOrdered'
  <2>1. \A n \in 1 .. Now + 1 : n \in 1 .. Now \/ n = Now + 1
    BY <1>1
  <2>2. \A n \in 1 .. Now + 1 : history'[n].since <= clock
    <3> SUFFICES ASSUME NEW n \in 1 .. Now + 1 PROVE history'[n].since <= clock
      OBVIOUS
    <3>1. CASE n \in 1 .. Now
      BY <1>3, <1>4, <3>1
    <3>2. CASE n = Now + 1
      BY <1>1, <1>3, <3>2
    <3> QED
      BY <2>1, <3>1, <3>2
  <2>3. \A m, n \in 1 .. Now + 1 : m <= n => history'[m].since <= history'[n].since
    <3> SUFFICES ASSUME NEW m \in 1 .. Now + 1, NEW n \in 1 .. Now + 1, m <= n
                 PROVE  history'[m].since <= history'[n].since
      OBVIOUS
    <3>1. CASE n \in 1 .. Now
      <4>1. m \in 1 .. Now
        BY <1>1, <3>1
      <4>2. history'[m] = history[m] /\ history'[n] = history[n]
        BY <1>3, <3>1, <4>1
      <4>3. history[m].since <= history[n].since
        BY <3>1, <4>1 DEF CacheInv, HistoryIsOrdered
      <4> QED
        BY <4>2, <4>3
    <3>2. CASE n = Now + 1
      BY <1>1, <1>3, <2>2, <3>2
    <3> QED
      BY <2>1, <3>1, <3>2
  <2> QED
    BY <1>3, <2>2, <2>3 DEF HistoryIsOrdered
<1>6. ReadsAreRecent'
  <2> SUFFICES ASSUME NEW r \in Readers, rpc[r] = "read"
               PROVE  /\ read[r].version \in 1 .. Now'
                      /\ read[r].version < Now' =>
                           read[r].at <= history'[read[r].version + 1].since
                      /\ read[r].key \in ItemKeys => history'[read[r].version].published
    BY <1>1 DEF CacheInv, ReadsAreRecent
  <2>1. read[r].version \in 1 .. Now /\ read[r].at <= clock
    BY DEF CacheInv, ReadsAreRecent
  <2>2. read[r].key \in ItemKeys => history'[read[r].version].published
    BY <1>3, <2>1 DEF CacheInv, ReadsAreRecent
  <2>3. CASE read[r].version < Now
    <3>1. read[r].version + 1 \in 1 .. Now
      BY <1>1, <2>1, <2>3
    <3>2. read[r].at <= history'[read[r].version + 1].since
      BY <1>3, <2>3, <3>1 DEF CacheInv, ReadsAreRecent
    <3> QED
      BY <1>1, <1>3, <2>1, <2>2, <3>2
  <2>4. CASE read[r].version = Now
    <3>1. history'[read[r].version + 1].since = clock
      BY <1>3, <2>4
    <3> QED
      BY <1>1, <1>3, <2>1, <2>2, <3>1
  <2> QED
    BY <1>1, <2>1, <2>3, <2>4
<1>7. ASSUME NEW k \in DOMAIN entries PROVE Timely(k, entries[k])'
  <2> DEFINE e == entries[k]
  <2>1. e \in Entry /\ e.version \in 1 .. Now /\ e.expires \in Nat /\ Ttl(k) \in Nat
    BY <1>1, TtlType DEF CacheInv, EntriesAreTimely, Timely, Entry
  <2>2. e.version < Now' => e.expires <= history'[e.version + 1].since + MaxRead + Ttl(k)
    <3>1. CASE e.version < Now
      <4>1. e.version + 1 \in 1 .. Now
        BY <1>1, <2>1, <3>1
      <4>2. history'[e.version + 1] = history[e.version + 1]
        BY <1>3, <4>1
      <4> QED
        BY <3>1, <4>2 DEF CacheInv, EntriesAreTimely, Timely
    <3>2. CASE e.version = Now
      <4>1. e.expires <= clock + Ttl(k) /\ history'[e.version + 1].since = clock
        BY <1>3, <3>2 DEF CacheInv, EntriesAreTimely, Timely
      <4> QED
        BY <1>1, <2>1, <4>1, CacheAssumption
    <3> QED
      BY <1>1, <2>1, <3>1, <3>2
  <2>3. k \in ItemKeys => history'[e.version].published
    BY <1>3, <2>1 DEF CacheInv, EntriesAreTimely, Timely
  <2> QED
    BY <1>1, <1>3, <2>1, <2>2, <2>3 DEF CacheInv, EntriesAreTimely, Timely, Ttl
<1>8. EntriesAreTimely'
  BY <1>7 DEF CacheInv, EntriesAreTimely
<1>9. read' \in [Readers -> {NoRead} \cup [key : Keys, asked : Nat, version : 0 .. Now', at : Nat]]
  <2>1. \A n \in 0 .. Now : n \in 0 .. Now'
    BY <1>1, <1>3
  <2>2. [key : Keys, asked : Nat, version : 0 .. Now, at : Nat]
          \subseteq [key : Keys, asked : Nat, version : 0 .. Now', at : Nat]
    BY <2>1
  <2> QED
    BY <2>2 DEF CacheInv, CacheTypeOK
<1> QED
  BY <1>3, <1>5, <1>6, <1>8, <1>9 DEF CacheInv, CacheTypeOK, EntriesAreTimely, Timely

LEMMA TickPreserves == ASSUME CacheInv, Tick PROVE CacheInv'
<1>1. /\ clock \in Nat /\ clock' = clock + 1 /\ UNCHANGED <<about, entries, history, rpc, read, vpc>>
      /\ Now' = Now /\ Now \in Nat
  BY DEF Tick, CacheInv, CacheTypeOK, Now
<1>2. CacheTypeOK'
  BY <1>1 DEF CacheInv, CacheTypeOK
<1>3. HistoryIsOrdered'
  <2>1. \A n \in 1 .. Now : history[n].since \in Nat
    BY HistoryType DEF CacheInv
  <2> QED
    BY <1>1, <2>1 DEF CacheInv, HistoryIsOrdered
<1>4. ReadsAreRecent'
  <2> SUFFICES ASSUME NEW r \in Readers
               PROVE  /\ rpc[r] # "idle" => read[r].key \in Keys /\ read[r].asked <= clock'
                      /\ rpc[r] = "read" => /\ read[r].at <= clock'
                                            /\ clock' <= read[r].at + MaxRead
    BY <1>1 DEF CacheInv, ReadsAreRecent
  <2>1. read[r].asked \in Nat /\ read[r].at \in Nat
    BY DEF CacheInv, CacheTypeOK, NoRead
  <2> QED
    BY <1>1, <2>1, CacheAssumption DEF CacheInv, ReadsAreRecent, Tick
<1>5. EntriesAreTimely'
  <2>1. ASSUME NEW k \in DOMAIN entries PROVE entries[k].expires <= clock + 1 + Ttl(k)
    <3>1. entries[k].expires \in Nat /\ entries[k].expires <= clock + Ttl(k) /\ Ttl(k) \in Nat
      BY TtlType DEF CacheInv, EntriesAreTimely, Timely, Entry
    <3> QED
      BY <1>1, <3>1
  <2> QED
    BY <1>1, <2>1 DEF CacheInv, EntriesAreTimely, Timely, Ttl
<1> QED
  BY <1>2, <1>3, <1>4, <1>5 DEF CacheInv

LEMMA CacheNextInv == CacheInv /\ [CacheNext]_cacheVars => CacheInv'
<1> SUFFICES ASSUME CacheInv, [CacheNext]_cacheVars PROVE CacheInv'
  OBVIOUS
<1>1. ASSUME NEW r \in Readers,
             \/ GetQuestions(r) \/ GetQuestion(r) \/ GetExperiences(r) \/ GetExperience(r)
             \/ GetLookups(r) \/ GetFilterOptions(r)
      PROVE  CacheInv'
  <2>1. clock \in Nat
    BY DEF CacheInv, CacheTypeOK
  <2>2. \E k \in Keys, asked \in {0, clock} : Get(r, k, asked)
    BY <1>1 DEF GetQuestions, GetQuestion, GetExperiences, GetExperience, GetLookups,
       GetFilterOptions, Keys
  <2> QED
    BY <2>1, <2>2, GetPreserves
<1>2. ASSUME NEW r \in Readers, ReadPage(r) \/ FindPublished(r) \/ FindPublishedExperience(r)
      PROVE  CacheInv'
  BY <1>2, SeesPreserves DEF ReadPage, FindPublished, FindPublishedExperience
<1>3. ASSUME NEW r \in Readers, ReadFails(r) PROVE CacheInv'
  BY <1>3, QuietPreserves DEF ReadFails, CacheInv, CacheTypeOK
<1>4. ASSUME NEW r \in Readers, Store(r) \/ StoreContent(r) PROVE CacheInv'
  <2>1. clock \in Nat
    BY DEF CacheInv, CacheTypeOK
  <2>2. CASE Stored(r, clock)
    BY <2>1, <2>2, StoredPreserves
  <2>3. CASE Stored(r, read[r].asked)
    <3>1. read[r].asked \in Nat /\ read[r].asked <= clock
      BY <2>3 DEF Stored, CacheInv, CacheTypeOK, ReadsAreRecent, NoRead
    <3> QED
      BY <2>3, <3>1, StoredPreserves
  <2> QED
    BY <1>4, <2>2, <2>3 DEF Store, StoreContent
<1>5. ASSUME NEW v \in Voters, VoteLocks(v) \/ VoteFails(v) PROVE CacheInv'
  <2>1. vpc' \in [Voters -> {"idle", "locked", "cleared"}]
    BY <1>5 DEF VoteLocks, VoteFails, CacheInv, CacheTypeOK
  <2> QED
    BY <1>5, <2>1, QuietPreserves DEF VoteLocks, VoteFails
<1>6. ASSUME NEW v \in Voters, VoteClears(v) PROVE CacheInv'
  <2>1. vpc' \in [Voters -> {"idle", "locked", "cleared"}]
    BY <1>6 DEF VoteClears, CacheInv, CacheTypeOK
  <2> QED
    BY <1>6, <2>1, ClearPreserves DEF VoteClears
<1>7. ASSUME NEW v \in Voters, VoteEnds(v) PROVE CacheInv'
  <2>1. vpc' \in [Voters -> {"idle", "locked", "cleared"}]
    BY <1>7 DEF VoteEnds, CacheInv, CacheTypeOK
  <2>2. CASE UNCHANGED history
    BY <1>7, <2>1, <2>2, QuietPreserves DEF VoteEnds
  <2>3. CASE CommitVersion(TRUE)
    BY <1>7, <2>1, <2>3, CommitPreserves DEF VoteEnds
  <2> QED
    BY <1>7, <2>2, <2>3 DEF VoteEnds
<1>8. CASE SubmissionClears
  BY <1>8, ClearPreserves DEF SubmissionClears, CacheInv, CacheTypeOK
<1>9. CASE DecideItem
  BY <1>9, CommitPreserves DEF DecideItem, CacheInv, CacheTypeOK, Published
<1>10. CASE UNCHANGED cacheVars
  BY <1>10, QuietPreserves DEF cacheVars, CacheInv, CacheTypeOK
<1> QED
  BY <1>1, <1>2, <1>3, <1>4, <1>5, <1>6, <1>7, <1>8, <1>9, <1>10,
         TickPreserves DEF CacheNext

\* The cache has its types, and never more than its capacity of entries.
THEOREM CacheTypeCorrect == CacheSpec => []CacheTypeOK
<1>1. CacheInv => CacheTypeOK
  BY DEF CacheInv
<1> QED
  BY CacheInitInv, CacheNextInv, <1>1, PTL DEF CacheSpec

\* ServedIsRecent: an entry that is served was overtaken less than its time to
\* live and the length of one read ago, and an item's page shows what was public,
\* whatever is cleared, and whatever is stored after it was cleared.
THEOREM CacheIsRecent == CacheSpec => []ServedIsRecent
<1>1. ASSUME CacheInv PROVE ServedIsRecent
  <2> SUFFICES ASSUME NEW k \in Keys, Hit(k)
               PROVE  LET shown == entries[k].version
                      IN  /\ shown < Now => clock < history[shown + 1].since + MaxRead + Ttl(k)
                          /\ k \in ItemKeys => history[shown].published
    BY DEF ServedIsRecent
  <2>1. k \in DOMAIN entries /\ ~(clock >= entries[k].expires)
    BY DEF Hit, Expired
  <2>2. Timely(k, entries[k])
    BY <1>1, <2>1 DEF CacheInv, EntriesAreTimely
  <2>3. clock \in Nat /\ Now \in Nat /\ Ttl(k) \in Nat
    BY <1>1, TtlType DEF CacheInv, CacheTypeOK, Now
  <2>4. entries[k].version < Now => history[entries[k].version + 1].since \in Nat
    BY <1>1, <2>2, <2>3, HistoryType DEF CacheInv, Timely, Entry
  <2> QED
    BY <2>1, <2>2, <2>3, <2>4, CacheAssumption DEF Timely, Entry
<1> QED
  BY CacheInitInv, CacheNextInv, <1>1, PTL DEF CacheSpec

-----------------------------------------------------------------------------
(* Discussion: comments are ended and audited, open reports are single.     *)

\* What a request asks for, at the steps after Admit.
InputsFit ==
  \A r \in Requests :
    /\ step[r] # "idle" => input[r] \in Input
    /\ step[r] \in {"locked", "inserted"} => input[r].op = "report"
    /\ step[r] = "selected" => input[r].op = "report comment"

\* What a transaction holds FOR SHARE stays as it found it.
HeldIsThere ==
  \A r \in Requests : step[r] \in {"locked", "inserted"} =>
    Reportable(input[r].on, input[r].who)

\* The keys of the unique index, committed or not.
KeysDiffer ==
  /\ \A r \in Requests : step[r] = "inserted" => ~IsOpen(input[r].who, input[r].on)
  /\ \A r, s \in Requests :
       /\ step[r] = "inserted" /\ step[s] = "inserted"
       /\ input[r].who = input[s].who /\ input[r].on = input[s].on
       => r = s

DiscussionInv ==
  /\ DiscussionTypeOK
  /\ InputsFit
  /\ HeldIsThere
  /\ KeysDiffer
  /\ OneOpenReport

LEMMA InputFacts ==
  ASSUME NEW in \in Input
  PROVE  /\ in.who \in People
         /\ in.op \in {"comment", "delete", "hide", "report", "report comment", "resolve"}
         /\ in.op = "comment" => in.on \in Items
         /\ in.op \in {"delete", "hide", "report comment"} => in.on \in Comments
         /\ in.op = "report" => in.on \in Targets
         /\ in.op = "resolve" => /\ in.on \in Reports
                                 /\ in.expected \in ReportStates
                                 /\ in.verdict \in Verdicts
  BY DEF Input

LEMMA DiscussionInitInv == DiscussionInit => DiscussionInv
  BY DiscussionAssumption DEF DiscussionInit, DiscussionInv, DiscussionTypeOK, InputsFit,
     HeldIsThere, KeysDiffer, OneOpenReport, Row, Complaint

USE DiscussionAssumption DEF accounts, content, requests, GoTo, EndRequest, At

(* Steps that only move a request.                                         *)
LEMMA MovePreserves ==
  ASSUME DiscussionInv, UNCHANGED <<shownItems, accounts, content>>,
         NEW r \in Requests,
         NEW s \in {"idle", "trusted", "found", "selected", "locked"},
         step' = [step EXCEPT ![r] = s],
         NEW in \in Input \cup {NoOne},
         input' = [input EXCEPT ![r] = in],
         s # "idle" => in \in Input,
         s = "locked" => in.op = "report" /\ Reportable(in.on, in.who),
         s = "selected" => in.op = "report comment"
  PROVE  DiscussionInv'
<1>1. DiscussionTypeOK'
  BY DEF DiscussionInv, DiscussionTypeOK
<1>2. InputsFit'
  BY DEF DiscussionInv, DiscussionTypeOK, InputsFit
<1>3. HeldIsThere'
  <2> SUFFICES ASSUME NEW q \in Requests, step'[q] \in {"locked", "inserted"}
               PROVE  Reportable(input'[q].on, input'[q].who)
    BY DEF HeldIsThere, Reportable
  <2>1. CASE q = r
    BY <2>1 DEF DiscussionInv, DiscussionTypeOK
  <2>2. CASE q # r
    BY <2>2 DEF DiscussionInv, DiscussionTypeOK, HeldIsThere
  <2> QED
    BY <2>1, <2>2
<1>4. KeysDiffer'
  BY DEF DiscussionInv, DiscussionTypeOK, KeysDiffer, IsOpen
<1>5. OneOpenReport'
  BY DEF DiscussionInv, OneOpenReport
<1> QED
  BY <1>1, <1>2, <1>3, <1>4, <1>5 DEF DiscussionInv

LEMMA EndPreserves ==
  ASSUME DiscussionInv, NEW r \in Requests, EndRequest(r),
         UNCHANGED <<shownItems, accounts, content>>
  PROVE  DiscussionInv'
  BY MovePreserves

(* Steps that end a request and change comments or what is shown.          *)
LEMMA CreateCommentPreserves ==
  ASSUME DiscussionInv, NEW r \in Requests, CreateComment(r)
  PROVE  DiscussionInv'
<1>1. input[r] \in Input /\ input[r].who \in People /\ input[r].on \in Items
  BY InputFacts DEF DiscussionInv, InputsFit, CreateComment
<1>2. DiscussionTypeOK'
  <2>1. [state |-> "visible", author |-> input[r].who, item |-> input[r].on] \in Row
    BY <1>1 DEF Row
  <2>2. comment' \in [Comments -> Row]
    BY <2>1 DEF DiscussionInv, DiscussionTypeOK, CreateComment
  <2> QED
    BY <2>2 DEF DiscussionInv, DiscussionTypeOK, CreateComment
<1>3. InputsFit'
  BY DEF DiscussionInv, DiscussionTypeOK, InputsFit, CreateComment
<1>4. HeldIsThere'
  BY DEF DiscussionInv, DiscussionTypeOK, HeldIsThere, Reportable, CreateComment
<1>5. KeysDiffer' /\ OneOpenReport'
  BY DEF DiscussionInv, DiscussionTypeOK, KeysDiffer, IsOpen, OneOpenReport, CreateComment
<1> QED
  BY <1>2, <1>3, <1>4, <1>5 DEF DiscussionInv

\* The update of a comment that nobody holds, and its trigger.
LEMMA AuditedPreserves ==
  ASSUME DiscussionInv, NEW r \in Requests, NEW to \in {"hidden", "deleted"},
         input[r].who \in People, input[r].on \in Comments,
         comment[input[r].on].state = "visible",
         ~Held(input[r].on), Audited(r, input[r].on, to), EndRequest(r),
         UNCHANGED <<shownItems, accounts, report, reportLog>>
  PROVE  DiscussionInv'
<1> DEFINE c == input[r].on
           e == [of |-> c, by |-> input[r].who, from |-> comment[c].state, to |-> to]
<1>1. e \in CommentEvent
  BY DEF CommentEvent
<1>2. DiscussionTypeOK'
  <2>1. commentLog' \in Seq(CommentEvent)
    BY <1>1 DEF DiscussionInv, DiscussionTypeOK, Audited
  <2>2. comment' \in [Comments -> Row]
    <3>1. comment[c] \in Row
      BY DEF DiscussionInv, DiscussionTypeOK
    <3>2. [comment[c] EXCEPT !.state = to] \in Row
      BY <3>1 DEF Row
    <3>3. comment' = [comment EXCEPT ![c] = [comment[c] EXCEPT !.state = to]]
      BY DEF Audited
    <3> QED
      BY <3>2, <3>3 DEF DiscussionInv, DiscussionTypeOK
  <2> QED
    BY <2>1, <2>2 DEF DiscussionInv, DiscussionTypeOK
<1>3. InputsFit'
  BY DEF DiscussionInv, DiscussionTypeOK, InputsFit
<1>4. HeldIsThere'
  BY DEF DiscussionInv, DiscussionTypeOK, HeldIsThere, Reportable, Held, Audited, Row
<1>5. KeysDiffer' /\ OneOpenReport'
  BY DEF DiscussionInv, DiscussionTypeOK, KeysDiffer, IsOpen, OneOpenReport
<1> QED
  BY <1>2, <1>3, <1>4, <1>5 DEF DiscussionInv

LEMMA DeleteCommentPreserves ==
  ASSUME DiscussionInv, NEW r \in Requests, DeleteComment(r)
  PROVE  DiscussionInv'
<1>1. input[r].who \in People /\ input[r].on \in Comments
  BY InputFacts DEF DiscussionInv, InputsFit, DeleteComment
<1>2. CASE UNCHANGED <<comment, commentLog>>
  BY <1>2, EndPreserves DEF DeleteComment
<1>3. CASE comment[input[r].on].state = "visible" /\ Audited(r, input[r].on, "deleted")
  BY <1>1, <1>3, AuditedPreserves DEF DeleteComment
<1> QED
  BY <1>2, <1>3 DEF DeleteComment

LEMMA HideCommentPreserves ==
  ASSUME DiscussionInv, NEW r \in Requests, HideComment(r)
  PROVE  DiscussionInv'
<1>1. input[r].who \in People /\ input[r].on \in Comments
  BY InputFacts DEF DiscussionInv, InputsFit, HideComment
<1>2. CASE UNCHANGED <<comment, commentLog>>
  BY <1>2, EndPreserves DEF HideComment
<1>3. CASE comment[input[r].on].state = "visible" /\ Audited(r, input[r].on, "hidden")
  BY <1>1, <1>3, AuditedPreserves DEF HideComment
<1> QED
  BY <1>2, <1>3 DEF HideComment

(* Steps that change reports.                                              *)
LEMMA InsertPreserves ==
  ASSUME DiscussionInv, NEW r \in Requests, CreateReport(r)
  PROVE  DiscussionInv'
<1>1. CASE EndRequest(r)
  BY <1>1, EndPreserves DEF CreateReport
<1>2. CASE ~IsOpen(input[r].who, input[r].on) /\ GoTo(r, "inserted")
  <2>1. DiscussionTypeOK' /\ InputsFit'
    BY <1>2 DEF DiscussionInv, DiscussionTypeOK, InputsFit, CreateReport
  <2>2. HeldIsThere'
    BY <1>2 DEF DiscussionInv, DiscussionTypeOK, HeldIsThere, Reportable, CreateReport
  <2>3. KeysDiffer' /\ OneOpenReport'
    BY <1>2 DEF DiscussionInv, DiscussionTypeOK, KeysDiffer, IsOpen, Pending, OneOpenReport,
       CreateReport
  <2> QED
    BY <2>1, <2>2, <2>3 DEF DiscussionInv
<1> QED
  BY <1>1, <1>2 DEF CreateReport

\* A report is filed of what nobody else is about to report in the same name.
LEMMA FiledPreserves ==
  ASSUME DiscussionInv, NEW r \in Requests, NEW who \in People, NEW x \in Targets,
         ~IsOpen(who, x), Filed(who, x), EndRequest(r),
         \A s \in Requests \ {r} :
           step[s] = "inserted" => input[s].who # who \/ input[s].on # x,
         UNCHANGED <<shownItems, accounts, comment, commentLog, reportLog>>
  PROVE  DiscussionInv'
<1> DEFINE new == [state |-> "open", reporter |-> who, target |-> x]
<1>1. PICK y \in Reports : report[y].state = "absent" /\ report' = [report EXCEPT ![y] = new]
  BY DEF Filed
<1>2. new \in Complaint /\ new.state = "open" /\ new.reporter = who /\ new.target = x
  BY DEF Complaint, ReportStates
<1>3. DiscussionTypeOK'
  BY <1>1, <1>2 DEF DiscussionInv, DiscussionTypeOK
<1>4. InputsFit'
  BY DEF DiscussionInv, DiscussionTypeOK, InputsFit
<1>5. HeldIsThere'
  BY DEF DiscussionInv, DiscussionTypeOK, HeldIsThere, Reportable
<1>6. ASSUME NEW z \in Reports, z # y PROVE report'[z] = report[z] /\ report[z] # new
  BY <1>1, <1>6 DEF DiscussionInv, DiscussionTypeOK, IsOpen
<1>7. report'[y] = new
  BY <1>1 DEF DiscussionInv, DiscussionTypeOK
<1>8. OneOpenReport'
  BY <1>6, <1>7 DEF DiscussionInv, OneOpenReport
<1>9. KeysDiffer'
  <2>1. ASSUME NEW s \in Requests, step'[s] = "inserted"
        PROVE  ~IsOpen(input[s].who, input[s].on)' /\ s # r /\ input'[s] = input[s]
    <3>1. s # r /\ step[s] = "inserted" /\ input'[s] = input[s]
      BY <2>1 DEF DiscussionInv, DiscussionTypeOK
    <3>2. ~IsOpen(input[s].who, input[s].on)
      BY <3>1 DEF DiscussionInv, KeysDiffer
    <3>3. input[s].who # who \/ input[s].on # x
      BY <3>1
    <3>4. new # [state |-> "open", reporter |-> input[s].who, target |-> input[s].on]
      BY <1>2, <3>3
    <3> QED
      BY <1>6, <1>7, <3>1, <3>2, <3>4 DEF IsOpen
  <2> QED
    BY <2>1 DEF DiscussionInv, DiscussionTypeOK, KeysDiffer
<1> QED
  BY <1>3, <1>4, <1>5, <1>8, <1>9 DEF DiscussionInv

LEMMA CommitReportPreserves ==
  ASSUME DiscussionInv, NEW r \in Requests, CommitReport(r)
  PROVE  DiscussionInv'
<1>1. input[r].who \in People /\ input[r].on \in Targets
  BY InputFacts DEF DiscussionInv, InputsFit, CommitReport
<1>2. ~IsOpen(input[r].who, input[r].on)
  BY DEF DiscussionInv, KeysDiffer, CommitReport
<1>3. \A s \in Requests \ {r} :
        step[s] = "inserted" => input[s].who # input[r].who \/ input[s].on # input[r].on
  BY DEF DiscussionInv, KeysDiffer, CommitReport
<1> QED
  <2>1. Filed(input[r].who, input[r].on) /\ EndRequest(r)
    BY DEF CommitReport
  <2>2. UNCHANGED <<shownItems, accounts, comment, commentLog, reportLog>>
    BY DEF CommitReport
  <2> HIDE DEF EndRequest, accounts
  <2> QED
    BY <1>1, <1>2, <1>3, <2>1, <2>2, FiledPreserves

LEMMA ReportCommentPreserves ==
  ASSUME DiscussionInv, NEW r \in Requests, ReportComment(r)
  PROVE  DiscussionInv'
<1>1. input[r].who \in People /\ input[r].on \in Targets
  BY InputFacts DEF DiscussionInv, InputsFit, ReportComment, Targets
<1>2. CASE UNCHANGED report
  BY <1>2, EndPreserves DEF ReportComment
<1>3. CASE ~IsOpen(input[r].who, input[r].on) /\ Filed(input[r].who, input[r].on)
  <2>1. \A s \in Requests \ {r} :
          step[s] = "inserted" => input[s].who # input[r].who \/ input[s].on # input[r].on
    BY DEF ReportComment, Pending
  <2>2. EndRequest(r) /\ UNCHANGED <<shownItems, accounts, comment, commentLog, reportLog>>
    BY DEF ReportComment
  <2> HIDE DEF EndRequest, accounts
  <2> QED
    BY <1>1, <1>3, <2>1, <2>2, FiledPreserves
<1> QED
  BY <1>2, <1>3 DEF ReportComment

LEMMA ResolveReportPreserves ==
  ASSUME DiscussionInv, NEW r \in Requests, ResolveReport(r)
  PROVE  DiscussionInv'
<1> DEFINE y == input[r].on
           v == input[r].verdict
<1>1. /\ input[r].who \in People /\ y \in Reports
      /\ input[r].expected \in ReportStates /\ v \in Verdicts
  BY InputFacts DEF DiscussionInv, InputsFit, ResolveReport
<1>2. CASE UNCHANGED <<report, reportLog>>
  BY <1>2, EndPreserves DEF ResolveReport
<1>3. CASE /\ report' = [report EXCEPT ![y].state = v]
           /\ reportLog' = Append(reportLog, [of |-> y, by |-> input[r].who,
                                              from |-> input[r].expected, to |-> v])
  <2>1. reportLog' \in Seq(ReportEvent)
    <3>1. [of |-> y, by |-> input[r].who, from |-> input[r].expected, to |-> v] \in ReportEvent
      BY <1>1 DEF ReportEvent
    <3> QED
      BY <1>3, <3>1 DEF DiscussionInv, DiscussionTypeOK
  <2>2. report' \in [Reports -> Complaint]
    <3>1. [report[y] EXCEPT !.state = v] \in Complaint
      <4>1. report[y] \in Complaint /\ v \in ReportStates
        BY <1>1 DEF DiscussionInv, DiscussionTypeOK, Verdicts, ReportStates
      <4> QED
        BY <4>1 DEF Complaint
    <3>2. report' = [report EXCEPT ![y] = [report[y] EXCEPT !.state = v]]
      BY <1>3
    <3> QED
      BY <1>1, <3>1, <3>2 DEF DiscussionInv, DiscussionTypeOK
  <2>3. DiscussionTypeOK'
    BY <2>1, <2>2 DEF DiscussionInv, DiscussionTypeOK, ResolveReport
  <2>4. InputsFit'
    BY DEF DiscussionInv, DiscussionTypeOK, InputsFit, ResolveReport
  <2>5. HeldIsThere'
    BY DEF DiscussionInv, DiscussionTypeOK, HeldIsThere, Reportable, ResolveReport
  <2>6. report'[y].state # "open" /\ \A z \in Reports : z # y => report'[z] = report[z]
    BY <1>1, <1>3 DEF DiscussionInv, DiscussionTypeOK, Complaint, Verdicts
  <2>7. OneOpenReport'
    BY <2>6 DEF DiscussionInv, OneOpenReport
  <2>8. \A who, x : IsOpen(who, x)' => IsOpen(who, x)
    BY <2>6 DEF IsOpen
  <2>9. KeysDiffer'
    BY <2>8 DEF DiscussionInv, DiscussionTypeOK, KeysDiffer, ResolveReport
  <2> QED
    BY <2>3, <2>4, <2>5, <2>7, <2>9 DEF DiscussionInv
<1> QED
  BY <1>2, <1>3 DEF ResolveReport

LEMMA ChangesPreserve ==
  ASSUME DiscussionInv,
         (\E i \in Items : ChangeItem(i)) \/ (\E p \in People : ChangeAccount(p))
  PROVE  DiscussionInv'
<1>1. DiscussionTypeOK' /\ InputsFit'
  <2>1. UNCHANGED <<content, requests>>
    BY DEF ChangeItem, ChangeAccount
  <2>2. /\ shownItems' \subseteq Items /\ moderators' \subseteq People
        /\ activePeople' \subseteq People /\ changes' \in Nat
    BY DEF DiscussionInv, DiscussionTypeOK, ChangeItem, ChangeAccount
  <2> QED
    BY <2>1, <2>2 DEF DiscussionInv, DiscussionTypeOK, InputsFit
<1>2. KeysDiffer' /\ OneOpenReport'
  BY DEF DiscussionInv, KeysDiffer, OneOpenReport, IsOpen, ChangeItem, ChangeAccount
<1>3. HeldIsThere'
  <2>1. CASE \E i \in Items : ChangeItem(i)
    BY <2>1 DEF DiscussionInv, DiscussionTypeOK, HeldIsThere, Held, Reportable, ChangeItem
  <2>2. CASE \E p \in People : ChangeAccount(p)
    BY <2>2 DEF DiscussionInv, DiscussionTypeOK, HeldIsThere, Held, Reportable,
           ChangeAccount
  <2> QED
    BY <2>1, <2>2
<1> QED
  BY <1>1, <1>2, <1>3 DEF DiscussionInv

LEMMA DiscussionNextInv == DiscussionInv /\ [DiscussionNext]_discussionVars => DiscussionInv'
<1> SUFFICES ASSUME DiscussionInv, [DiscussionNext]_discussionVars PROVE DiscussionInv'
  OBVIOUS
<1>1. ASSUME NEW r \in Requests, Admit(r) PROVE DiscussionInv'
  <2>1. PICK in \in Asked : input' = [input EXCEPT ![r] = in]
    BY <1>1 DEF Admit
  <2> QED
    BY <1>1, <2>1, MovePreserves DEF Admit
<1>2. ASSUME NEW r \in Requests,
             RefuseRequest(r) \/ TargetId(r) \/ LockTarget(r) \/ SelectComment(r)
                \/ RollBackReport(r)
      PROVE  DiscussionInv'
  <2>1. CASE EndRequest(r)
    BY <1>2, <2>1, EndPreserves DEF RefuseRequest, TargetId, LockTarget, SelectComment,
       RollBackReport
  <2>2. CASE ~EndRequest(r)
    <3>1. input' = [input EXCEPT ![r] = input[r]] /\ input[r] \in Input
      BY <1>2, <2>2 DEF DiscussionInv, DiscussionTypeOK, InputsFit, RefuseRequest, TargetId,
         LockTarget, SelectComment, RollBackReport
    <3> QED
      BY <1>2, <2>2, <3>1, MovePreserves DEF RefuseRequest, TargetId, LockTarget,
         SelectComment, RollBackReport
  <2> QED
    BY <2>1, <2>2
<1>3. CASE UNCHANGED discussionVars
  BY <1>3 DEF discussionVars, DiscussionInv, DiscussionTypeOK, InputsFit, HeldIsThere,
     KeysDiffer, OneOpenReport, Reportable, IsOpen
<1> QED
  BY <1>1, <1>2, <1>3, CreateCommentPreserves, DeleteCommentPreserves, HideCommentPreserves,
     InsertPreserves, CommitReportPreserves, ReportCommentPreserves, ResolveReportPreserves,
     ChangesPreserve DEF DiscussionNext

(* What a step does to comments.                                           *)
LEMMA CommentSteps ==
  ASSUME DiscussionInv, [DiscussionNext]_discussionVars
  PROVE  \/ UNCHANGED <<comment, commentLog>>
         \/ /\ UNCHANGED commentLog
            /\ \E r \in Requests, c \in Comments :
                 /\ comment[c].state = "absent"
                 /\ comment' = [comment EXCEPT ![c] =
                      [state |-> "visible", author |-> input[r].who, item |-> input[r].on]]
         \/ \E r \in Requests, c \in Comments, to \in {"deleted", "hidden"} :
              /\ input[r].who \in People /\ comment[c].state = "visible"
              /\ Audited(r, c, to)
              /\ to = "deleted" => comment[c].author = input[r].who
              /\ to = "hidden" => input[r].who \in moderators
<1>1. ASSUME NEW r \in Requests, DeleteComment(r) \/ HideComment(r),
             ~UNCHANGED <<comment, commentLog>>
      PROVE  \E c \in Comments, to \in {"deleted", "hidden"} :
              /\ input[r].who \in People /\ comment[c].state = "visible"
              /\ Audited(r, c, to)
              /\ to = "deleted" => comment[c].author = input[r].who
              /\ to = "hidden" => input[r].who \in moderators
  <2>1. input[r].who \in People /\ input[r].on \in Comments
    BY <1>1, InputFacts DEF DiscussionInv, InputsFit, DeleteComment, HideComment
  <2> QED
    BY <1>1, <2>1 DEF DeleteComment, HideComment
<1>2. ASSUME NEW r \in Requests, CreateComment(r), ~UNCHANGED <<comment, commentLog>>
      PROVE  /\ UNCHANGED commentLog
             /\ \E c \in Comments :
                 /\ comment[c].state = "absent"
                 /\ comment' = [comment EXCEPT ![c] =
                      [state |-> "visible", author |-> input[r].who, item |-> input[r].on]]
  BY <1>2 DEF CreateComment
<1>3. ASSUME NEW r \in Requests,
             \/ Admit(r) \/ RefuseRequest(r) \/ TargetId(r) \/ LockTarget(r)
             \/ CreateReport(r) \/ CommitReport(r) \/ RollBackReport(r)
             \/ SelectComment(r) \/ ReportComment(r) \/ ResolveReport(r)
      PROVE  UNCHANGED <<comment, commentLog>>
  BY <1>3 DEF Admit, RefuseRequest, TargetId, LockTarget, CreateReport, CommitReport,
     RollBackReport, SelectComment, ReportComment, ResolveReport
<1>4. CASE UNCHANGED discussionVars \/ (\E i \in Items : ChangeItem(i))
             \/ (\E p \in People : ChangeAccount(p))
  BY <1>4 DEF discussionVars, ChangeItem, ChangeAccount
<1> QED
  BY <1>1, <1>2, <1>3, <1>4 DEF DiscussionNext

(* What a step does to reports.                                            *)
LEMMA ReportSteps ==
  ASSUME DiscussionInv, [DiscussionNext]_discussionVars
  PROVE  \/ UNCHANGED <<report, reportLog>>
         \/ UNCHANGED reportLog /\ \E who \in People, x \in Targets : Filed(who, x)
         \/ \E y \in Reports, who \in People, v \in Verdicts :
              /\ report[y].state \in ReportStates
              /\ report' = [report EXCEPT ![y].state = v]
              /\ reportLog' = Append(reportLog, [of |-> y, by |-> who,
                                                 from |-> report[y].state, to |-> v])
<1>1. ASSUME NEW r \in Requests, CommitReport(r) \/ ReportComment(r),
             ~UNCHANGED <<report, reportLog>>
      PROVE  UNCHANGED reportLog /\ \E who \in People, x \in Targets : Filed(who, x)
  <2>1. input[r].who \in People /\ input[r].on \in Targets
    BY <1>1, InputFacts DEF DiscussionInv, InputsFit, CommitReport, ReportComment, Targets
  <2>2. UNCHANGED reportLog /\ Filed(input[r].who, input[r].on)
    BY <1>1 DEF CommitReport, ReportComment
  <2> QED
    BY <2>1, <2>2
<1>2. ASSUME NEW r \in Requests, ResolveReport(r), ~UNCHANGED <<report, reportLog>>
      PROVE  \E y \in Reports, who \in People, v \in Verdicts :
              /\ report[y].state \in ReportStates
              /\ report' = [report EXCEPT ![y].state = v]
              /\ reportLog' = Append(reportLog, [of |-> y, by |-> who,
                                                 from |-> report[y].state, to |-> v])
  <2>1. /\ input[r].who \in People /\ input[r].on \in Reports
        /\ input[r].expected \in ReportStates /\ input[r].verdict \in Verdicts
    BY <1>2, InputFacts DEF DiscussionInv, InputsFit, ResolveReport
  <2> QED
    BY <1>2, <2>1 DEF ResolveReport
<1>3. ASSUME NEW r \in Requests,
             \/ Admit(r) \/ RefuseRequest(r) \/ TargetId(r) \/ CreateComment(r)
             \/ DeleteComment(r) \/ HideComment(r) \/ LockTarget(r)
             \/ CreateReport(r) \/ RollBackReport(r) \/ SelectComment(r)
      PROVE  UNCHANGED <<report, reportLog>>
  BY <1>3 DEF Admit, RefuseRequest, TargetId, CreateComment, DeleteComment, HideComment,
     LockTarget, CreateReport, RollBackReport, SelectComment
<1>4. CASE UNCHANGED discussionVars \/ (\E i \in Items : ChangeItem(i))
             \/ (\E p \in People : ChangeAccount(p))
  BY <1>4 DEF discussionVars, ChangeItem, ChangeAccount
<1> QED
  BY <1>1, <1>2, <1>3, <1>4 DEF DiscussionNext

\* Rows, logs and requests have their types, whatever people ask for.
THEOREM DiscussionTypeCorrect == DiscussionSpec => []DiscussionTypeOK
<1>1. DiscussionInv => DiscussionTypeOK
  BY DEF DiscussionInv
<1> QED
  BY DiscussionInitInv, DiscussionNextInv, <1>1, PTL DEF DiscussionSpec

\* OneOpenReport: nobody has two open reports of the same thing, however many
\* requests insert reports by either route at once.
THEOREM ReportsAreSingle == DiscussionSpec => []OneOpenReport
<1>1. DiscussionInv => OneOpenReport
  BY DEF DiscussionInv
<1> QED
  BY DiscussionInitInv, DiscussionNextInv, <1>1, PTL DEF DiscussionSpec

\* ReportedIsThere: what CreateReport commits a report of is still there, because
\* nobody can change what the transaction holds FOR SHARE.
THEOREM ReportsAreOfWhatIsThere == DiscussionSpec => ReportedIsThere
<1>1. DiscussionInv => (\A r \in Requests :
        step[r] = "inserted" => Reportable(input[r].on, input[r].who))
  BY DEF DiscussionInv, HeldIsThere
<1>2. DiscussionInv /\ [DiscussionNext]_discussionVars =>
        [\A r \in Requests : step[r] = "inserted" /\ step'[r] # "inserted" /\ report' # report
           => Reportable(input[r].on, input[r].who)]_discussionVars
  BY <1>1
<1> QED
  BY DiscussionInitInv, DiscussionNextInv, <1>2, PTL DEF DiscussionSpec, ReportedIsThere

\* CommentsEndRightly: only its author deletes a comment, and who hides it is a
\* moderator when he does.
THEOREM CommentsAreEndedRightly == DiscussionSpec => CommentsEndRightly
<1> DEFINE A == \A c \in Comments :
       /\ comment[c].state # "deleted" /\ comment'[c].state = "deleted"
            => commentLog'[Len(commentLog')].by = comment[c].author
       /\ comment[c].state # "hidden" /\ comment'[c].state = "hidden"
            => commentLog'[Len(commentLog')].by \in moderators
<1>1. ASSUME DiscussionInv, [DiscussionNext]_discussionVars PROVE [A]_discussionVars
  <2> USE <1>1
  <2>1. CASE UNCHANGED comment
    BY <2>1
  <2>2. ASSUME NEW r \in Requests, NEW d \in Comments,
               comment' = [comment EXCEPT ![d] =
                 [state |-> "visible", author |-> input[r].who, item |-> input[r].on]]
        PROVE  A
    BY <2>2 DEF DiscussionInv, DiscussionTypeOK
  <2>3. ASSUME NEW r \in Requests, NEW d \in Comments, NEW to \in {"deleted", "hidden"},
               Audited(r, d, to),
               to = "deleted" => comment[d].author = input[r].who,
               to = "hidden" => input[r].who \in moderators
        PROVE  A
    <3>1. commentLog'[Len(commentLog')].by = input[r].who
      <4>1. commentLog \in Seq(CommentEvent)
        BY DEF DiscussionInv, DiscussionTypeOK
      <4> QED
        BY <2>3, <4>1 DEF Audited
    <3>2. /\ \A c \in Comments : c # d => comment'[c] = comment[c]
          /\ comment'[d].state = to
      BY <2>3 DEF Audited, DiscussionInv, DiscussionTypeOK, Row
    <3> QED
      BY <2>3, <3>1, <3>2
  <2> QED
    BY <2>1, <2>2, <2>3, CommentSteps
<1> QED
  BY DiscussionInitInv, DiscussionNextInv, <1>1, PTL DEF DiscussionSpec, CommentsEndRightly

(* The tables and their logs implement AuditedStates.                      *)

\* Every step moves one comment along, and writes it down, or none.
LEMMA CommentMoves ==
  DiscussionInv /\ [DiscussionNext]_discussionVars
    => [CommentTrail!Next]_<<[c \in Comments |-> comment[c].state], commentLog>>
<1> SUFFICES ASSUME DiscussionInv, [DiscussionNext]_discussionVars
             PROVE  [CommentTrail!Next]_<<[c \in Comments |-> comment[c].state], commentLog>>
  OBVIOUS
<1> DEFINE st == [c \in Comments |-> comment[c].state]
<1>1. CASE UNCHANGED <<comment, commentLog>>
  BY <1>1
<1>2. ASSUME UNCHANGED commentLog,
             NEW r \in Requests, NEW d \in Comments, comment[d].state = "absent",
             comment' = [comment EXCEPT ![d] =
               [state |-> "visible", author |-> input[r].who, item |-> input[r].on]]
      PROVE  CommentTrail!Create(d)
  <2>1. st' = [st EXCEPT ![d] = "visible"]
    BY <1>2 DEF DiscussionInv, DiscussionTypeOK
  <2> QED
    BY <1>2, <2>1 DEF CommentTrail!Create
<1>3. ASSUME NEW r \in Requests, NEW d \in Comments, NEW to \in {"deleted", "hidden"},
             comment[d].state = "visible", Audited(r, d, to)
      PROVE  CommentTrail!Move(d, input[r].who, to)
  <2>1. st' = [st EXCEPT ![d] = to]
    <3>1. /\ \A c \in Comments : c # d => comment'[c] = comment[c]
          /\ comment'[d].state = to
      BY <1>3 DEF Audited, DiscussionInv, DiscussionTypeOK, Row
    <3> QED
      BY <3>1
  <2>2. commentLog' = Append(commentLog, [of |-> d, by |-> input[r].who,
                                          from |-> st[d], to |-> to])
    BY <1>3 DEF Audited
  <2>3. <<st[d], to>> \in {<<"visible", "hidden">>, <<"visible", "deleted">>}
    BY <1>3
  <2> QED
    BY <2>1, <2>2, <2>3 DEF CommentTrail!Move
<1> QED
  BY <1>1, <1>2, <1>3, CommentSteps DEF CommentTrail!Next

\* CommentsAreAudited: every end of a comment is written down once, with the
\* state it left, and no comment comes back.
THEOREM CommentsImplement == DiscussionSpec => CommentsAreAudited
<1>1. DiscussionInit => CommentTrail!Init
  BY DEF DiscussionInit, CommentTrail!Init
<1> QED
  BY DiscussionInitInv, DiscussionNextInv, <1>1, CommentMoves, PTL
  DEF DiscussionSpec, CommentsAreAudited, CommentTrail!Spec

\* Every step moves one report along, and writes it down, or none.
LEMMA ReportMoves ==
  DiscussionInv /\ [DiscussionNext]_discussionVars
    => [ReportTrail!Next]_<<[y \in Reports |-> report[y].state], reportLog>>
<1> SUFFICES ASSUME DiscussionInv, [DiscussionNext]_discussionVars
             PROVE  [ReportTrail!Next]_<<[y \in Reports |-> report[y].state], reportLog>>
  OBVIOUS
<1> DEFINE st == [y \in Reports |-> report[y].state]
<1>1. CASE UNCHANGED <<report, reportLog>>
  BY <1>1
<1>2. ASSUME UNCHANGED reportLog, NEW who, NEW x, Filed(who, x)
      PROVE  \E y \in Reports : ReportTrail!Create(y)
  <2>1. PICK y \in Reports :
          /\ report[y].state = "absent"
          /\ report' = [report EXCEPT ![y] = [state |-> "open", reporter |-> who,
                                              target |-> x]]
    BY <1>2 DEF Filed
  <2>2. st' = [st EXCEPT ![y] = "open"]
    BY <2>1 DEF DiscussionInv, DiscussionTypeOK
  <2> QED
    BY <1>2, <2>1, <2>2 DEF ReportTrail!Create
<1>3. ASSUME NEW y \in Reports, NEW who \in People, NEW v \in Verdicts,
             report[y].state \in ReportStates,
             report' = [report EXCEPT ![y].state = v],
             reportLog' = Append(reportLog, [of |-> y, by |-> who,
                                             from |-> report[y].state, to |-> v])
      PROVE  ReportTrail!Move(y, who, v)
  <2>1. st' = [st EXCEPT ![y] = v]
    <3>1. /\ \A z \in Reports : z # y => report'[z] = report[z]
          /\ report'[y].state = v
      BY <1>3 DEF DiscussionInv, DiscussionTypeOK, Complaint
    <3> QED
      BY <3>1
  <2>2. reportLog' = Append(reportLog, [of |-> y, by |-> who, from |-> st[y], to |-> v])
    BY <1>3
  <2>3. <<st[y], v>> \in ReportStates \X Verdicts
    BY <1>3
  <2> QED
    BY <2>1, <2>2, <2>3 DEF ReportTrail!Move
<1> QED
  BY <1>1, <1>2, <1>3, ReportSteps DEF ReportTrail!Next, ReportStates, Verdicts

\* ReportsAreAudited: every decision about a report is written down once, with
\* the state the report had.
THEOREM ReportsImplement == DiscussionSpec => ReportsAreAudited
<1>1. DiscussionInit => ReportTrail!Init
  BY DEF DiscussionInit, ReportTrail!Init
<1> QED
  BY DiscussionInitInv, DiscussionNextInv, <1>1, ReportMoves, PTL
  DEF DiscussionSpec, ReportsAreAudited, ReportTrail!Spec

(* What AuditedStates promises of the log follows from its moves alone, for  *)
(* any things st is the states of and any log lg of their moves.             *)

EntriesOf(lg, t) == {n \in DOMAIN lg : lg[n].of = t}

\* Each entry leaves where the one before it led; first and last are as states are.
Retold(Things, First, Absent, st, lg) ==
  /\ \A t \in Things : EntriesOf(lg, t) = {} => st[t] \in {Absent, First}
  /\ \A n \in DOMAIN lg :
       /\ (\A m \in EntriesOf(lg, lg[n].of) : m >= n) => lg[n].from = First
       /\ \A m \in DOMAIN lg :
            /\ m < n /\ lg[m].of = lg[n].of
            /\ \A k \in EntriesOf(lg, lg[n].of) : k <= m \/ k >= n
            => lg[m].to = lg[n].from
       /\ (\A m \in EntriesOf(lg, lg[n].of) : m <= n) => lg[n].to = st[lg[n].of]

\* What makes it inductive: only things that came into being have entries.
Trail(Things, Absent, st, lg) ==
  /\ DOMAIN lg = 1 .. Len(lg) /\ Len(lg) \in Nat
  /\ DOMAIN st = Things
  /\ \A n \in DOMAIN lg : lg[n].of \in Things
  /\ \A t \in Things : st[t] = Absent => EntriesOf(lg, t) = {}

\* A thing that comes into being has no history.
LEMMA CreationIsRetold ==
  ASSUME NEW Things, NEW First, NEW Absent, NEW st, NEW lg,
         Retold(Things, First, Absent, st, lg), Trail(Things, Absent, st, lg),
         NEW t \in Things, st[t] = Absent, First # Absent,
         NEW st2, st2 = [st EXCEPT ![t] = First]
  PROVE  Retold(Things, First, Absent, st2, lg) /\ Trail(Things, Absent, st2, lg)
<1>1. \A u \in Things : st2[u] = IF u = t THEN First ELSE st[u]
  BY DEF Trail
<1>2. \A n \in DOMAIN lg : lg[n].of # t
  BY DEF Trail, EntriesOf
<1>3. Trail(Things, Absent, st2, lg)
  BY <1>1 DEF Trail
<1>4. Retold(Things, First, Absent, st2, lg)
  BY <1>1, <1>2 DEF Trail, Retold
<1> QED
  BY <1>3, <1>4

\* A move is written below everything there is.
LEMMA MoveIsRetold ==
  ASSUME NEW Things, NEW First, NEW Absent, NEW st, NEW lg, NEW S, lg \in Seq(S),
         Retold(Things, First, Absent, st, lg), Trail(Things, Absent, st, lg),
         NEW t \in Things, st[t] # Absent, NEW to, to # Absent,
         NEW entry, entry.of = t, entry.from = st[t], entry.to = to,
         NEW st2, st2 = [st EXCEPT ![t] = to],
         NEW lg2, lg2 = Append(lg, entry)
  PROVE  Retold(Things, First, Absent, st2, lg2) /\ Trail(Things, Absent, st2, lg2)
<1> DEFINE new == Len(lg) + 1
<1>1. /\ Len(lg) \in Nat /\ DOMAIN lg = 1 .. Len(lg)
      /\ DOMAIN lg2 = 1 .. new /\ Len(lg2) = new
      /\ \A n \in DOMAIN lg : lg2[n] = lg[n]
      /\ lg2[new] = entry
  OBVIOUS
<1>2. \A u \in Things : st2[u] = IF u = t THEN to ELSE st[u]
  BY DEF Trail
<1>3. \A u : EntriesOf(lg2, u) = EntriesOf(lg, u) \cup (IF u = t THEN {new} ELSE {})
  <2> TAKE u
  <2>1. \A n : n \in EntriesOf(lg2, u) <=> n \in EntriesOf(lg, u) \/ (n = new /\ u = t)
    BY <1>1 DEF EntriesOf
  <2> QED
    BY <2>1
<1>4. Trail(Things, Absent, st2, lg2)
  <2>1. DOMAIN st2 = Things /\ \A n \in DOMAIN lg2 : lg2[n].of \in Things
    BY <1>1 DEF Trail
  <2>2. \A u \in Things : st2[u] = Absent => EntriesOf(lg2, u) = {}
    BY <1>2, <1>3 DEF Trail
  <2> QED
    BY <1>1, <2>1, <2>2 DEF Trail
<1> HIDE DEF new
<1>5. \A u \in Things : EntriesOf(lg2, u) = {} => st2[u] \in {Absent, First}
  BY <1>2, <1>3 DEF Retold
<1>6. ASSUME NEW n \in DOMAIN lg
      PROVE  /\ (\A m \in EntriesOf(lg2, lg2[n].of) : m >= n) => lg2[n].from = First
             /\ \A m \in DOMAIN lg2 :
                  /\ m < n /\ lg2[m].of = lg2[n].of
                  /\ \A k \in EntriesOf(lg2, lg2[n].of) : k <= m \/ k >= n
                  => lg2[m].to = lg2[n].from
             /\ (\A m \in EntriesOf(lg2, lg2[n].of) : m <= n) => lg2[n].to = st2[lg2[n].of]
  <2>1. /\ lg2[n] = lg[n] /\ n < new /\ lg[n].of \in Things
        /\ EntriesOf(lg, lg[n].of) \subseteq EntriesOf(lg2, lg[n].of)
    BY <1>1, <1>3 DEF Trail, new
  <2>2. (\A m \in EntriesOf(lg2, lg2[n].of) : m >= n) => lg2[n].from = First
    BY <2>1 DEF Retold
  <2>3. ASSUME NEW m \in DOMAIN lg2, m < n, lg2[m].of = lg2[n].of,
               \A k \in EntriesOf(lg2, lg2[n].of) : k <= m \/ k >= n
        PROVE  lg2[m].to = lg2[n].from
    <3>1. m \in DOMAIN lg /\ lg2[m] = lg[m]
      BY <1>1, <2>3 DEF new
    <3> QED
      BY <2>1, <2>3, <3>1 DEF Retold
  <2>4. ASSUME \A m \in EntriesOf(lg2, lg2[n].of) : m <= n
        PROVE  lg2[n].to = st2[lg2[n].of]
    <3>1. lg[n].of # t
      <4>1. lg[n].of = t => new \in EntriesOf(lg2, lg2[n].of)
        BY <1>3, <2>1
      <4>2. ~(new <= n) /\ n \in Nat
        BY <1>1, <2>1 DEF new
      <4> QED
        BY <2>4, <4>1, <4>2
    <3>2. lg[n].to = st[lg[n].of]
      BY <2>1, <2>4 DEF Retold
    <3> QED
      BY <1>2, <2>1, <3>1, <3>2
  <2> QED
    BY <2>2, <2>3, <2>4
<1>7. /\ (\A m \in EntriesOf(lg2, t) : m >= new) => entry.from = First
      /\ \A m \in DOMAIN lg2 :
           /\ m < new /\ lg2[m].of = t
           /\ \A k \in EntriesOf(lg2, t) : k <= m \/ k >= new
           => lg2[m].to = entry.from
  <2>1. ASSUME \A m \in EntriesOf(lg2, t) : m >= new
        PROVE  entry.from = First
    <3>1. \A m \in DOMAIN lg : ~(m >= new)
      BY <1>1 DEF new
    <3>2. EntriesOf(lg, t) = {}
      <4>1. EntriesOf(lg, t) \subseteq DOMAIN lg
        BY DEF EntriesOf
      <4> QED
        BY <1>3, <2>1, <3>1, <4>1
    <3> QED
      BY <3>2 DEF Retold
  <2>2. ASSUME NEW m \in DOMAIN lg2, m < new, lg2[m].of = t,
               \A k \in EntriesOf(lg2, t) : k <= m \/ k >= new
        PROVE  lg2[m].to = entry.from
    <3>1. m \in DOMAIN lg /\ lg2[m] = lg[m]
      BY <1>1, <2>2 DEF new
    <3>2. \A k \in EntriesOf(lg, t) : k <= m
      <4>1. \A k \in EntriesOf(lg, t) : k \in DOMAIN lg
        BY DEF EntriesOf
      <4>2. \A k \in DOMAIN lg : ~(k >= new)
        BY <1>1 DEF new
      <4> QED
        BY <1>3, <2>2, <4>1, <4>2
    <3> QED
      BY <2>2, <3>1, <3>2 DEF Retold
  <2> QED
    BY <2>1, <2>2
<1>8. entry.to = st2[t]
  BY <1>2
<1>9. \A n \in DOMAIN lg2 : n \in DOMAIN lg \/ (n = new /\ lg2[n] = entry)
  BY <1>1 DEF new
<1>10. ASSUME NEW n \in DOMAIN lg2
       PROVE  /\ (\A m \in EntriesOf(lg2, lg2[n].of) : m >= n) => lg2[n].from = First
              /\ \A m \in DOMAIN lg2 :
                   /\ m < n /\ lg2[m].of = lg2[n].of
                   /\ \A k \in EntriesOf(lg2, lg2[n].of) : k <= m \/ k >= n
                   => lg2[m].to = lg2[n].from
              /\ (\A m \in EntriesOf(lg2, lg2[n].of) : m <= n) => lg2[n].to = st2[lg2[n].of]
  <2>1. CASE n \in DOMAIN lg
    BY <1>6, <2>1
  <2>2. CASE n = new /\ lg2[n] = entry
    BY <1>7, <1>8, <2>2
  <2> QED
    BY <1>9, <2>1, <2>2
<1>11. Retold(Things, First, Absent, st2, lg2)
  BY <1>5, <1>10 DEF Retold
<1> QED
  BY <1>4, <1>11

\* What follows for comments: the log of a comment's moderation retells its
\* history, whatever requests race.
THEOREM CommentsAreRetold == DiscussionSpec => []CommentTrail!LogReplays
<1> DEFINE st == [c \in Comments |-> comment[c].state]
           Told == /\ Retold(Comments, "visible", "absent", st, commentLog)
                   /\ Trail(Comments, "absent", st, commentLog)
<1>1. DiscussionInit => Told
  BY DEF DiscussionInit, Retold, Trail, EntriesOf
<1>2. DiscussionInv /\ Told /\ [DiscussionNext]_discussionVars => Told'
  <2> SUFFICES ASSUME DiscussionInv, Told, [DiscussionNext]_discussionVars PROVE Told'
    OBVIOUS
  <2>0. commentLog \in Seq(CommentEvent)
    BY DEF DiscussionInv, DiscussionTypeOK
  <2>1. CASE UNCHANGED <<st, commentLog>>
    BY <2>1
  <2>2. ASSUME NEW d \in Comments, CommentTrail!Create(d)
        PROVE  Told'
    <3>1. st[d] = "absent" /\ st' = [st EXCEPT ![d] = "visible"] /\ commentLog' = commentLog
      BY <2>2 DEF CommentTrail!Create
    <3> HIDE DEF st
    <3> QED
      BY <3>1, CreationIsRetold
  <2>3. ASSUME NEW d \in Comments, NEW who \in People, NEW to \in {"visible", "hidden", "deleted"},
               CommentTrail!Move(d, who, to)
        PROVE  Told'
    <3>1. /\ st[d] = "visible" /\ to # "absent"
          /\ st' = [st EXCEPT ![d] = to]
          /\ commentLog' = Append(commentLog, [of |-> d, by |-> who, from |-> st[d], to |-> to])
      BY <2>3 DEF CommentTrail!Move
    <3> HIDE DEF st
    <3> QED
      BY <2>0, <3>1, MoveIsRetold
  <2> QED
    BY <2>1, <2>2, <2>3, CommentMoves DEF CommentTrail!Next
<1>3. Told => CommentTrail!LogReplays
  BY DEF Retold, EntriesOf, CommentTrail!LogReplays, CommentTrail!Of, CommentTrail!IsLast,
     CommentTrail!Follows
<1> QED
  BY DiscussionInitInv, DiscussionNextInv, <1>1, <1>2, <1>3, PTL DEF DiscussionSpec

\* What follows for reports: each decision left the state that the one before it
\* led to, so the log retells what became of every report.
THEOREM ReportsAreRetold == DiscussionSpec => []ReportTrail!LogReplays
<1> DEFINE st == [y \in Reports |-> report[y].state]
           Told == /\ Retold(Reports, "open", "absent", st, reportLog)
                   /\ Trail(Reports, "absent", st, reportLog)
<1>1. DiscussionInit => Told
  BY DEF DiscussionInit, Retold, Trail, EntriesOf
<1>2. DiscussionInv /\ Told /\ [DiscussionNext]_discussionVars => Told'
  <2> SUFFICES ASSUME DiscussionInv, Told, [DiscussionNext]_discussionVars PROVE Told'
    OBVIOUS
  <2>0. reportLog \in Seq(ReportEvent)
    BY DEF DiscussionInv, DiscussionTypeOK
  <2>1. CASE UNCHANGED <<st, reportLog>>
    BY <2>1
  <2>2. ASSUME NEW y \in Reports, ReportTrail!Create(y)
        PROVE  Told'
    <3>1. st[y] = "absent" /\ st' = [st EXCEPT ![y] = "open"] /\ reportLog' = reportLog
      BY <2>2 DEF ReportTrail!Create
    <3> HIDE DEF st
    <3> QED
      BY <3>1, CreationIsRetold
  <2>3. ASSUME NEW y \in Reports, NEW who \in People, NEW to \in ReportStates,
               ReportTrail!Move(y, who, to)
        PROVE  Told'
    <3>1. /\ st[y] # "absent" /\ to # "absent"
          /\ st' = [st EXCEPT ![y] = to]
          /\ reportLog' = Append(reportLog, [of |-> y, by |-> who, from |-> st[y], to |-> to])
      BY <2>3 DEF ReportTrail!Move, ReportStates, Verdicts
    <3> HIDE DEF st
    <3> QED
      BY <2>0, <3>1, MoveIsRetold
  <2> QED
    BY <2>1, <2>2, <2>3, ReportMoves DEF ReportTrail!Next
<1>3. Told => ReportTrail!LogReplays
  BY DEF Retold, EntriesOf, ReportTrail!LogReplays, ReportTrail!Of, ReportTrail!IsLast,
     ReportTrail!Follows
<1> QED
  BY DiscussionInitInv, DiscussionNextInv, <1>1, <1>2, <1>3, PTL DEF DiscussionSpec

-----------------------------------------------------------------------------
(* The rate limiter: what flows into a bucket is what can be served.        *)

\* A bucket was last looked at in the past, and what it holds and has given is
\* no more than what it began with and what has flowed in by then.
FlowsIn ==
  \A c \in Clients :
    /\ bucket[c].updated <= now
    /\ served[c] * Period + bucket[c].tokens <= Full + bucket[c].updated * BucketCapacity

\* Until the time he was told, a client's bucket does not come to hold a token.
RefusedUntilThen ==
  \A c \in Clients : now < retryAt[c] =>
    bucket[c].tokens + (retryAt[c] - 1 - bucket[c].updated) * BucketCapacity < Period

LimiterInv == LimiterTypeOK /\ FlowsIn

\* The smaller of two numbers.
LEMMA MinOfTwo ==
  ASSUME NEW a \in Nat, NEW b \in Nat
  PROVE  Min({a, b}) = IF a <= b THEN a ELSE b
BY DEF Min

LEMMA ProductOfNats == ASSUME NEW a \in Nat, NEW b \in Nat PROVE a * b \in Nat
OBVIOUS

LEMMA ProductsGrow ==
  ASSUME NEW a \in Nat, NEW b \in Nat, NEW c \in Nat, a <= b
  PROVE  a * c <= b * c
OBVIOUS

LEMMA ProductOfSum ==
  ASSUME NEW a \in Int, NEW b \in Int, NEW c \in Int
  PROVE  (a + b) * c = a * c + b * c
OBVIOUS

\* The quotient that is rounded up is the least that is enough.
LEMMA RoundedUp ==
  ASSUME NEW a \in Nat \ {0}, NEW c \in Nat \ {0}
  PROVE  /\ (a + c - 1) \div c \in Nat \ {0}
         /\ ((a + c - 1) \div c - 1) * c < a
<1> DEFINE q == (a + c - 1) \div c
<1>1. q \in Nat /\ q * c <= a + c - 1 /\ a + c - 1 < (q + 1) * c
  OBVIOUS
<1> HIDE DEF q
<1>2. (q + 1) * c = q * c + c /\ (q - 1) * c = q * c - c /\ q * c \in Nat
  BY <1>1
<1>3. q # 0
  <2>1. CASE q = 0
    <3>1. q * c = 0
      BY <2>1
    <3> QED
      BY <1>1, <1>2, <3>1
  <2> QED
    BY <2>1
<1> QED
  BY <1>1, <1>2, <1>3 DEF q

\* What a bucket holds when a client is looked at.
LEMMA RefilledFacts ==
  ASSUME LimitIsPositive, LimiterInv, NEW c \in Clients
  PROVE  /\ Full \in Nat /\ bucket[c].tokens \in 0 .. Full
         /\ now \in Nat /\ bucket[c].updated \in Nat /\ now - bucket[c].updated \in Nat
         /\ (now - bucket[c].updated) * BucketCapacity \in Nat
         /\ Refilled(c) \in 0 .. Full
         /\ Refilled(c) <= bucket[c].tokens + (now - bucket[c].updated) * BucketCapacity
<1>1. Full \in Nat
  BY ProductOfNats DEF LimitIsPositive, Full
<1>2. bucket[c] \in [tokens : 0 .. Full, updated : 0 .. MaxNow] /\ now \in 0 .. MaxNow
  BY DEF LimiterInv, LimiterTypeOK
<1>3. /\ bucket[c].tokens \in 0 .. Full /\ now \in Nat /\ bucket[c].updated \in Nat
  BY <1>2
<1>4. now - bucket[c].updated \in Nat
  BY <1>3 DEF LimiterInv, FlowsIn
<1> DEFINE gained == (now - bucket[c].updated) * BucketCapacity
<1>5. gained \in Nat
  BY <1>4, ProductOfNats DEF LimitIsPositive
<1>6. Refilled(c) = Min({Full, bucket[c].tokens + gained})
  BY DEF Refilled
<1> HIDE DEF gained
<1>7. bucket[c].tokens + gained \in Nat
  BY <1>1, <1>3, <1>5
<1>8. Refilled(c) = IF Full <= bucket[c].tokens + gained THEN Full
                    ELSE bucket[c].tokens + gained
  BY <1>1, <1>6, <1>7, MinOfTwo
<1> QED
  BY <1>1, <1>3, <1>4, <1>5, <1>7, <1>8 DEF gained

LEMMA ConsumeKeeps ==
  ASSUME LimitIsPositive, ClockIsInTicks, LimiterInv, NEW c \in Clients, Consume(c)
  PROVE  LimiterInv'
<1> DEFINE tokens == Refilled(c)
           old == bucket[c]
<1>0. /\ Full \in Nat /\ Period \in Nat \ {0} /\ BucketCapacity \in Nat \ {0}
      /\ tokens \in 0 .. Full /\ now \in Nat /\ now' = now
      /\ served[c] \in Nat /\ old.tokens \in 0 .. Full
      /\ old.updated \in Nat /\ now - old.updated \in Nat
  BY RefilledFacts DEF Consume, LimiterInv, LimiterTypeOK, LimitIsPositive
<1> DEFINE left == IF tokens >= Period THEN tokens - Period ELSE tokens
<1>1. left \in 0 .. Full
  BY <1>0
<1>2. bucket' = [bucket EXCEPT ![c] = [tokens |-> left, updated |-> now]]
  BY DEF Consume
<1>3. LimiterTypeOK'
  <2>1. bucket' \in [Clients -> [tokens : 0 .. Full, updated : 0 .. MaxNow]]
    BY <1>1, <1>2 DEF LimiterInv, LimiterTypeOK
  <2>2. tokens < Period => NsPerMs * RetryAfter(tokens) \in Nat
    <3> SUFFICES ASSUME tokens < Period PROVE NsPerMs * RetryAfter(tokens) \in Nat
      OBVIOUS
    <3>1. Period - tokens \in Nat \ {0}
      BY <1>0
    <3> HIDE DEF tokens
    <3>2. RetryAfter(tokens) \in Nat
      BY <1>0, <3>1, RoundedUp DEF RetryAfter
    <3> QED
      BY <3>2, ProductOfNats DEF ClockIsInTicks
  <2>3. retryAt' \in [Clients -> Nat]
    BY <1>0, <2>2 DEF Consume, LimiterInv, LimiterTypeOK
  <2> QED
    BY <2>1, <2>3 DEF Consume, LimiterInv, LimiterTypeOK
<1>4. FlowsIn'
  <2>1. ASSUME NEW d \in Clients, d # c
        PROVE  bucket'[d] = bucket[d] /\ served'[d] = served[d]
    BY <2>1, <1>2 DEF Consume, LimiterInv, LimiterTypeOK
  <2>2. served'[c] * Period + left <= served[c] * Period + tokens
    <3>1. CASE tokens >= Period
      <4>1. served'[c] = served[c] + 1
        BY <1>0, <3>1 DEF Consume, LimiterInv, LimiterTypeOK
      <4>2. (served[c] + 1) * Period = served[c] * Period + Period
        BY <1>0, ProductOfSum
      <4>3. served[c] * Period \in Nat
        BY <1>0, ProductOfNats
      <4> HIDE DEF tokens
      <4>4. left = tokens - Period
        BY <3>1
      <4> HIDE DEF left
      <4> QED
        BY <1>0, <4>1, <4>2, <4>3, <4>4
    <3>2. CASE ~(tokens >= Period)
      <4>1. served'[c] = served[c] /\ left = tokens
        BY <3>2 DEF Consume
      <4>2. served[c] * Period \in Nat
        BY <1>0, ProductOfNats
      <4> HIDE DEF tokens, left
      <4> QED
        BY <1>0, <4>1, <4>2
    <3> QED
      BY <3>1, <3>2
  <2>3. now * BucketCapacity = old.updated * BucketCapacity
                                 + (now - old.updated) * BucketCapacity
    <3>1. now = old.updated + (now - old.updated)
      BY <1>0
    <3> QED
      BY <1>0, <3>1, ProductOfSum
  <2>4. served[c] * Period + tokens <= Full + now * BucketCapacity
    <3>1. /\ served[c] * Period \in Nat /\ old.updated * BucketCapacity \in Nat
          /\ (now - old.updated) * BucketCapacity \in Nat
      BY <1>0, ProductOfNats
    <3>2. tokens <= old.tokens + (now - old.updated) * BucketCapacity
      BY RefilledFacts
    <3>3. served[c] * Period + old.tokens <= Full + old.updated * BucketCapacity
      BY DEF LimiterInv, FlowsIn
    <3> DEFINE s == served[c] * Period
               o == old.updated * BucketCapacity
               g == (now - old.updated) * BucketCapacity
               n == now * BucketCapacity
    <3>4. /\ s \in Nat /\ o \in Nat /\ g \in Nat /\ n = o + g
          /\ tokens <= old.tokens + g /\ s + old.tokens <= Full + o
      BY <2>3, <3>1, <3>2, <3>3
    <3> HIDE DEF s, o, g, n, tokens, old
    <3>5. s + tokens <= Full + n
      BY <1>0, <3>4
    <3> QED
      BY <3>5 DEF s, n, old
  <2>5. /\ bucket'[c].updated = now /\ bucket'[c].tokens = left
        /\ served'[c] * Period + left <= Full + now * BucketCapacity
    <3>1. bucket'[c] = [tokens |-> left, updated |-> now]
      BY <1>2 DEF LimiterInv, LimiterTypeOK
    <3>2. served'[c] * Period \in Nat /\ served[c] * Period \in Nat
          /\ now * BucketCapacity \in Nat
      BY <1>0, <1>3, ProductOfNats DEF LimiterTypeOK
    <3> DEFINE s1 == served'[c] * Period
               s0 == served[c] * Period
               n == now * BucketCapacity
    <3>3. /\ s1 \in Nat /\ s0 \in Nat /\ n \in Nat
          /\ s1 + left <= s0 + tokens /\ s0 + tokens <= Full + n
      BY <2>2, <2>4, <3>2
    <3>4. left \in Nat /\ tokens \in Nat
      BY <1>0, <1>1
    <3> HIDE DEF s1, s0, n, tokens, left
    <3>5. s1 + left <= Full + n
      BY <1>0, <3>3, <3>4
    <3> QED
      BY <3>1, <3>5 DEF s1, n
  <2> SUFFICES ASSUME NEW d \in Clients
               PROVE  /\ bucket'[d].updated <= now'
                      /\ served'[d] * Period + bucket'[d].tokens
                           <= Full + bucket'[d].updated * BucketCapacity
    BY DEF FlowsIn, Full
  <2> HIDE DEF tokens, left, old
  <2>6. CASE d = c
    BY <1>0, <2>5, <2>6
  <2>7. CASE d # c
    BY <1>0, <2>1, <2>7 DEF LimiterInv, FlowsIn
  <2> QED
    BY <2>6, <2>7
<1> QED
  BY <1>3, <1>4 DEF LimiterInv

LEMMA LimiterNextInv ==
  ASSUME LimitIsPositive, ClockIsInTicks, LimiterInv, [LimiterNext]_limiterVars
  PROVE  LimiterInv'
<1>1. CASE UNCHANGED limiterVars
  BY <1>1 DEF limiterVars, LimiterInv, LimiterTypeOK, FlowsIn
<1>2. ASSUME NEW d \in Steps, TimePasses(d) PROVE LimiterInv'
  <2>1. now' \in 0 .. MaxNow /\ now \in 0 .. MaxNow /\ now <= now'
    BY <1>2 DEF TimePasses, ClockIsInTicks, LimiterInv, LimiterTypeOK
  <2>2. LimiterTypeOK'
    BY <1>2, <2>1 DEF TimePasses, LimiterInv, LimiterTypeOK
  <2>3. \A c \in Clients : bucket[c].updated \in Nat
    BY DEF ClockIsInTicks, LimiterInv, LimiterTypeOK
  <2>4. \A c \in Clients : bucket[c].updated <= now'
    BY <2>1, <2>3 DEF ClockIsInTicks, LimiterInv, FlowsIn
  <2>5. FlowsIn'
    BY <1>2, <2>4 DEF TimePasses, LimiterInv, FlowsIn
  <2> QED
    BY <2>2, <2>5 DEF LimiterInv
<1> QED
  BY <1>1, <1>2, ConsumeKeeps DEF LimiterNext

LEMMA LimiterInitInv ==
  ASSUME LimitIsPositive, ClockIsInTicks, LimiterInit
  PROVE  LimiterInv
<1>1. Full \in Nat
  BY ProductOfNats DEF LimitIsPositive, Full
<1>2. LimiterTypeOK
  BY <1>1 DEF LimiterInit, LimiterTypeOK, ClockIsInTicks
<1>3. FlowsIn
  <2>1. 0 * Period = 0 /\ 0 * BucketCapacity = 0
    BY DEF LimitIsPositive
  <2> QED
    BY <1>1, <2>1 DEF LimiterInit, FlowsIn
<1> QED
  BY <1>2, <1>3 DEF LimiterInv

LEMMA LimiterInvariant ==
  ASSUME LimitIsPositive, ClockIsInTicks
  PROVE  LimiterSpec => []LimiterInv
<1>1. LimiterInit => LimiterInv
  BY LimiterInitInv
<1>2. LimiterInv /\ [LimiterNext]_limiterVars => LimiterInv'
  BY LimiterNextInv
<1> QED
  BY <1>1, <1>2, PTL DEF LimiterSpec

\* Buckets hold at most RateLimit::capacity tokens, whatever the clock counts in.
THEOREM LimiterTypeCorrect ==
  ASSUME LimitIsPositive, ClockIsInTicks
  PROVE  LimiterSpec => []LimiterTypeOK
<1>1. LimiterInv => LimiterTypeOK
  BY DEF LimiterInv
<1> QED
  BY <1>1, LimiterInvariant, PTL

\* ServedFlowedIn: no client is served more than a full bucket and what has
\* flowed in since the limiter was made, at Capacity / Period of a token per
\* tick of the clock.
THEOREM ServedIsBounded ==
  ASSUME LimitIsPositive, ClockIsInTicks
  PROVE  LimiterSpec => []ServedFlowedIn
<1>1. ASSUME LimiterInv PROVE ServedFlowedIn
  <2> SUFFICES ASSUME NEW c \in Clients
               PROVE  served[c] * Period <= Full + now * BucketCapacity
    BY DEF ServedFlowedIn
  <2>1. /\ served[c] \in Nat /\ now \in Nat /\ bucket[c].updated \in Nat
        /\ bucket[c].tokens \in 0 .. Full /\ Full \in Nat
    BY <1>1, RefilledFacts DEF LimiterInv, LimiterTypeOK
  <2>2. bucket[c].updated * BucketCapacity <= now * BucketCapacity
    BY <1>1, <2>1, ProductsGrow DEF LimiterInv, FlowsIn, LimitIsPositive
  <2>3. /\ served[c] * Period \in Nat /\ now * BucketCapacity \in Nat
        /\ bucket[c].updated * BucketCapacity \in Nat
    BY <2>1, ProductOfNats DEF LimitIsPositive
  <2>4. served[c] * Period + bucket[c].tokens <= Full + bucket[c].updated * BucketCapacity
    BY <1>1 DEF LimiterInv, FlowsIn
  <2> DEFINE s == served[c] * Period
             u == bucket[c].updated * BucketCapacity
             n == now * BucketCapacity
  <2>5. s \in Nat /\ u \in Nat /\ n \in Nat /\ u <= n /\ s + bucket[c].tokens <= Full + u
    BY <2>2, <2>3, <2>4
  <2> HIDE DEF s, u, n
  <2>6. s <= Full + n
    BY <2>1, <2>5
  <2> QED
    BY <2>6 DEF s, n
<1> QED
  BY <1>1, LimiterInvariant, PTL

(* The answer of a refusal.  RetryAfterIsKept fails in the code, where a      *)
(* millisecond has many ticks (finding of run limiter); with one tick it     *)
(* holds, so the unit is all that is wrong.                                   *)

LEMMA ConsumeRefuses ==
  ASSUME LimitIsPositive, ClockIsInTicks, NsPerMs = 1, LimiterInv, RefusedUntilThen,
         NEW c \in Clients, Consume(c)
  PROVE  /\ Refilled(c) >= Period => ~(now < retryAt[c])
         /\ RefusedUntilThen'
<1> DEFINE tokens == Refilled(c)
           old == bucket[c]
           q == RetryAfter(tokens)
<1>0. /\ Full \in Nat /\ Period \in Nat \ {0} /\ BucketCapacity \in Nat \ {0}
      /\ tokens \in 0 .. Full /\ now \in Nat /\ now' = now
      /\ retryAt[c] \in Nat /\ old.tokens \in 0 .. Full
      /\ old.updated \in Nat /\ now - old.updated \in Nat
      /\ (now - old.updated) * BucketCapacity \in Nat
      /\ tokens <= old.tokens + (now - old.updated) * BucketCapacity
  BY RefilledFacts DEF Consume, LimiterInv, LimiterTypeOK, LimitIsPositive
<1>1. now < retryAt[c] => tokens < Period
  <2> SUFFICES ASSUME now < retryAt[c] PROVE tokens < Period
    OBVIOUS
  <2> DEFINE m == retryAt[c] - 1 - old.updated
             n == now - old.updated
  <2>1. m \in Nat /\ n \in Nat /\ n <= m
    BY <1>0
  <2>2. n * BucketCapacity <= m * BucketCapacity /\ m * BucketCapacity \in Nat
    BY <1>0, <2>1, ProductsGrow, ProductOfNats
  <2>3. old.tokens + m * BucketCapacity < Period
    BY DEF RefusedUntilThen
  <2>4. n * BucketCapacity \in Nat /\ tokens <= old.tokens + n * BucketCapacity
    BY <1>0
  <2> HIDE DEF m, n, tokens, old
  <2> QED
    BY <1>0, <2>2, <2>3, <2>4
<1>2. ASSUME NEW d \in Clients, now' < retryAt'[d]
      PROVE  bucket'[d].tokens + (retryAt'[d] - 1 - bucket'[d].updated) * BucketCapacity < Period
  <2>1. CASE d # c
    <3>1. bucket'[d] = bucket[d] /\ retryAt'[d] = retryAt[d]
      BY <2>1 DEF Consume, LimiterInv, LimiterTypeOK
    <3> QED
      BY <1>0, <1>2, <3>1 DEF RefusedUntilThen
  <2>2. CASE d = c /\ tokens >= Period
    <3>1. retryAt'[c] = retryAt[c]
      BY <2>2 DEF Consume
    <3> QED
      BY <1>0, <1>1, <1>2, <2>2, <3>1
  <2>3. CASE d = c /\ ~(tokens >= Period)
    <3>1. bucket'[c] = [tokens |-> tokens, updated |-> now]
      BY <2>3 DEF Consume, LimiterInv, LimiterTypeOK
    <3>2. retryAt'[c] = now + NsPerMs * q
      BY <2>3 DEF Consume, LimiterInv, LimiterTypeOK
    <3>3. Period - tokens \in Nat \ {0}
      BY <1>0, <2>3
    <3>4. q \in Nat \ {0} /\ (q - 1) * BucketCapacity < Period - tokens
      <4> HIDE DEF tokens
      <4> QED
        BY <1>0, <3>3, RoundedUp DEF RetryAfter
    <3> HIDE DEF q, tokens
    <3>5. retryAt'[c] - 1 - now = q - 1
      BY <1>0, <3>2, <3>4
    <3>6. tokens + (q - 1) * BucketCapacity < Period
      <4>1. (q - 1) * BucketCapacity \in Nat
        BY <1>0, <3>4, ProductOfNats
      <4> QED
        BY <1>0, <3>4, <4>1
    <3> QED
      BY <2>3, <3>1, <3>5, <3>6
  <2> QED
    BY <2>1, <2>2, <2>3
<1> QED
  BY <1>0, <1>1, <1>2 DEF RefusedUntilThen

\* If the clock and the limit counted in the same unit, nobody would be served
\* before the time his refusal told him.
THEOREM RetryAfterKeptInOneUnit ==
  ASSUME LimitIsPositive, ClockIsInTicks, NsPerMs = 1
  PROVE  LimiterSpec => []RetryAfterIsKept
<1>1. LimiterInit => RefusedUntilThen /\ RetryAfterIsKept
  BY DEF LimiterInit, RefusedUntilThen, RetryAfterIsKept
<1>2. ASSUME LimiterInv, RefusedUntilThen, RetryAfterIsKept, [LimiterNext]_limiterVars
      PROVE  RefusedUntilThen' /\ RetryAfterIsKept'
  <2>1. CASE UNCHANGED limiterVars
    BY <1>2, <2>1 DEF limiterVars, RefusedUntilThen, RetryAfterIsKept
  <2>2. ASSUME NEW d \in Steps, TimePasses(d)
        PROVE  RefusedUntilThen' /\ RetryAfterIsKept'
    <3>1. now' \in Nat /\ now \in Nat /\ now <= now'
      BY <1>2, <2>2 DEF TimePasses, ClockIsInTicks, LimiterInv, LimiterTypeOK
    <3>2. \A c \in Clients : retryAt[c] \in Nat
      BY <1>2 DEF LimiterInv, LimiterTypeOK
    <3>3. \A c \in Clients : now' < retryAt[c] => now < retryAt[c]
      BY <3>1, <3>2
    <3> QED
      BY <1>2, <2>2, <3>3 DEF TimePasses, RefusedUntilThen, RetryAfterIsKept
  <2>3. ASSUME NEW c \in Clients, Consume(c)
        PROVE  RefusedUntilThen' /\ RetryAfterIsKept'
    BY <1>2, <2>3, ConsumeRefuses DEF Consume, RetryAfterIsKept
  <2> QED
    BY <1>2, <2>1, <2>2, <2>3 DEF LimiterNext
<1> QED
  BY <1>1, <1>2, LimiterInvariant, PTL DEF LimiterSpec
================================================================================
