-------------------------------- MODULE Avatars --------------------------------
(***************************************************************************)
(* Profile pictures: a file in a directory (avatar_store.cc) and its name   *)
(* in the account's row of profiles (social_routes.cc).  The two are        *)
(* written one after the other, by several requests, without a common       *)
(* transaction; the process may die between any two steps, and the          *)
(* database's answer may be lost although the statement took effect.        *)
(***************************************************************************)
EXTENDS Naturals, FiniteSets

CONSTANTS Owners,     \* accounts
          Uploads,    \* the requests under way at one time
          AvatarKeys,       \* the names of files; a new one is drawn at random
          Nothing,    \* no key, no owner
          MaxFaults   \* bound: crashes, and failures of the database

ASSUME AvatarsAssumption == Nothing \notin AvatarKeys \cup Owners /\ MaxFaults \in Nat

VARIABLES avatarKey,  \* profiles.avatar_key of each account
          files,      \* the files that are complete
          temporary,  \* the files named ...tmp
          place,      \* where each request is
          owner,      \* whose it is
          fresh,      \* the key of the file it stores
          previous,   \* the key it found in the profile
          drawn,      \* the keys ever drawn
          unsure,     \* those whose update was reported as failed
          disturbed,  \* a fault, or two requests of one account at once
          faults

avatarVars == <<avatarKey, files, temporary, place, owner, fresh, previous, drawn,
                unsure, disturbed, faults>>

UploadPlaces == {"none", "writing", "stored", "read", "named", "failing", "cleared"}

AvatarsTypeOK ==
  /\ avatarKey \in [Owners -> AvatarKeys \cup {Nothing}]
  /\ files \subseteq AvatarKeys /\ temporary \subseteq AvatarKeys
  /\ place \in [Uploads -> UploadPlaces]
  /\ owner \in [Uploads -> Owners \cup {Nothing}]
  /\ fresh \in [Uploads -> AvatarKeys \cup {Nothing}]
  /\ previous \in [Uploads -> AvatarKeys \cup {Nothing}]
  /\ drawn \subseteq AvatarKeys /\ unsure \subseteq AvatarKeys
  /\ disturbed \in BOOLEAN /\ faults \in 0..MaxFaults

AvatarsInit ==
  /\ avatarKey = [a \in Owners |-> Nothing]
  /\ files = {} /\ temporary = {} /\ drawn = {} /\ unsure = {}
  /\ place = [u \in Uploads |-> "none"]
  /\ owner = [u \in Uploads |-> Nothing]
  /\ fresh = [u \in Uploads |-> Nothing] /\ previous = [u \in Uploads |-> Nothing]
  /\ disturbed = FALSE /\ faults = 0

GoOn(u, p) == place' = [place EXCEPT ![u] = p]

Finished(u) ==
  /\ GoOn(u, "none")
  /\ owner' = [owner EXCEPT ![u] = Nothing]
  /\ fresh' = [fresh EXCEPT ![u] = Nothing]
  /\ previous' = [previous EXCEPT ![u] = Nothing]

\* The account has another request under way.
Overlaps(a) == \E v \in Uploads : owner[v] = a

Begin(u, a) == /\ place[u] = "none"
               /\ owner' = [owner EXCEPT ![u] = a]
               /\ disturbed' = (disturbed \/ Overlaps(a))

Fault == /\ faults < MaxFaults
         /\ faults' = faults + 1
         /\ disturbed' = TRUE

NoFault == UNCHANGED <<faults, disturbed>>
-----------------------------------------------------------------------------
(* Put: the bytes go to a file of another name, which is then renamed.      *)
OpenTemporary(u) ==
  \E a \in Owners, k \in AvatarKeys \ drawn :
    /\ Begin(u, a)
    /\ temporary' = temporary \cup {k}
    /\ drawn' = drawn \cup {k}
    /\ fresh' = [fresh EXCEPT ![u] = k]
    /\ GoOn(u, "writing")
    /\ UNCHANGED <<avatarKey, files, previous, unsure, faults>>

Rename(u) ==
  /\ place[u] = "writing"
  /\ temporary' = temporary \ {fresh[u]}
  /\ files' = files \cup {fresh[u]}
  /\ GoOn(u, "stored")
  /\ NoFault
  /\ UNCHANGED <<avatarKey, owner, fresh, previous, drawn, unsure>>

\* Mutant: Put leaves the temporary file behind.
PutFailsUnclean(u) ==
  /\ place[u] = "writing"
  /\ Finished(u)
  /\ NoFault
  /\ UNCHANGED <<avatarKey, files, temporary, drawn, unsure>>

\* The disk is full, or the file cannot be renamed: Put cleans up, 415, and does
\* not look whether it could.
PutFails(u) ==
  /\ place[u] = "writing"
  /\ \/ temporary' = temporary \ {fresh[u]} /\ NoFault
     \/ UNCHANGED temporary /\ Fault
  /\ Finished(u)
  /\ UNCHANGED <<avatarKey, files, drawn, unsure>>
-----------------------------------------------------------------------------
(* The upload: the previous key is read, the new one written, and then the  *)
(* file of the previous one removed.                                        *)
\* Mutant: the previous file is removed before the profile has the new key.
RemoveEarly(u) ==
  /\ place[u] = "stored"
  /\ previous' = [previous EXCEPT ![u] = avatarKey[owner[u]]]
  /\ files' = files \ {avatarKey[owner[u]]}
  /\ GoOn(u, "read")
  /\ NoFault
  /\ UNCHANGED <<avatarKey, temporary, owner, fresh, drawn, unsure>>

SelectPrevious(u) ==
  /\ place[u] = "stored"
  /\ previous' = [previous EXCEPT ![u] = avatarKey[owner[u]]]
  /\ GoOn(u, "read")
  /\ NoFault
  /\ UNCHANGED <<avatarKey, files, temporary, owner, fresh, drawn, unsure>>

UpsertProfile(u) ==
  /\ place[u] = "read"
  /\ avatarKey' = [avatarKey EXCEPT ![owner[u]] = fresh[u]]
  /\ GoOn(u, "named")
  /\ NoFault
  /\ UNCHANGED <<files, temporary, owner, fresh, previous, drawn, unsure>>

\* Either statement throws, the second one perhaps after it took effect; or
\* what follows the second one throws, before or after the previous file went.
StatementFails(u) ==
  /\ place[u] \in {"stored", "read", "named"}
  /\ Fault
  /\ GoOn(u, "failing")
  /\ \/ place[u] # "named" /\ UNCHANGED <<avatarKey, files, unsure>>
     \/ /\ place[u] = "read"
        /\ avatarKey' = [avatarKey EXCEPT ![owner[u]] = fresh[u]]
        /\ unsure' = unsure \cup {fresh[u]}
        /\ UNCHANGED files
     \/ /\ place[u] = "named"
        /\ unsure' = unsure \cup {fresh[u]}
        /\ files' \in {files, files \ {previous[u]}}
        /\ UNCHANGED avatarKey
  /\ UNCHANGED <<temporary, owner, fresh, previous, drawn>>

RemovePrevious(u) ==
  /\ place[u] \in {"named", "cleared"}
  /\ files' = files \ {previous[u]}
  /\ Finished(u)
  /\ NoFault
  /\ UNCHANGED <<avatarKey, temporary, drawn, unsure>>

\* The catch-all removes the new file, whatever it was that failed.
RemoveNew(u) ==
  /\ place[u] = "failing"
  /\ files' = files \ {fresh[u]}
  /\ Finished(u)
  /\ NoFault
  /\ UNCHANGED <<avatarKey, temporary, drawn, unsure>>

\* Remove reports that it could not remove the file, and nobody looks.
RemoveFails(u) ==
  /\ place[u] \in {"named", "cleared", "failing"}
  /\ Fault
  /\ Finished(u)
  /\ UNCHANGED <<avatarKey, files, temporary, drawn, unsure>>

\* DELETE /me/avatar: one statement takes the key out and returns it.
ClearProfile(u) ==
  \E a \in Owners :
    /\ Begin(u, a)
    /\ avatarKey' = [avatarKey EXCEPT ![a] = Nothing]
    /\ previous' = [previous EXCEPT ![u] = avatarKey[a]]
    /\ GoOn(u, "cleared")
    /\ UNCHANGED <<files, temporary, fresh, drawn, unsure, faults>>

\* It throws after it took effect: nobody knows the key any more.
ClearFails(u) ==
  \E a \in Owners :
    /\ place[u] = "none"
    /\ Fault
    /\ avatarKey' = [avatarKey EXCEPT ![a] = Nothing]
    /\ UNCHANGED <<files, temporary, place, owner, fresh, previous, drawn, unsure>>

Crash ==
  /\ \E u \in Uploads : place[u] # "none"
  /\ Fault
  /\ place' = [u \in Uploads |-> "none"] /\ owner' = [u \in Uploads |-> Nothing]
  /\ fresh' = [u \in Uploads |-> Nothing] /\ previous' = [u \in Uploads |-> Nothing]
  /\ UNCHANGED <<avatarKey, files, temporary, drawn, unsure>>

AvatarsNext ==
  \/ \E u \in Uploads :
       \/ OpenTemporary(u) \/ Rename(u) \/ PutFails(u)
       \/ SelectPrevious(u) \/ UpsertProfile(u) \/ StatementFails(u)
       \/ RemovePrevious(u) \/ RemoveNew(u) \/ RemoveFails(u)
       \/ ClearProfile(u) \/ ClearFails(u)
  \/ Crash

AvatarsSpec == AvatarsInit /\ [][AvatarsNext]_avatarVars
-----------------------------------------------------------------------------
(* The file that a profile names exists, whatever uploads and removals of    *)
(* the account race and wherever the process dies, unless the profile's      *)
(* update was reported as failed, or what followed it (then the catch-all     *)
(* removes the file, though the row may name it).                            *)
NamedFileExists ==
  \A a \in Owners : avatarKey[a] \notin {Nothing} \cup unsure => avatarKey[a] \in files

(* While nothing fails and nobody uploads twice at once, every file is the   *)
(* one its profile names or belongs to a request that will use or remove it: *)
(* nothing is left behind, and nothing else would ever remove it.            *)
NoFileIsLeftBehind ==
  ~disturbed => \A k \in files \cup temporary :
    \/ \E a \in Owners : avatarKey[a] = k
    \/ \E u \in Uploads : place[u] # "none" /\ k \in {fresh[u], previous[u]}
=============================================================================
