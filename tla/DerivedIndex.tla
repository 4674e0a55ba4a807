---------------------------- MODULE DerivedIndex ----------------------------
(***************************************************************************)
(* What the search worker promises: an index derived from PostgreSQL may   *)
(* be wrong about an item only between a change of the item's visibility   *)
(* and the moment the outbox declares the item settled.  SearchOutbox      *)
(* implements this specification when one process runs the worker.         *)
(***************************************************************************)
CONSTANT Items

VARIABLES visible,   \* visible[i]: PostgreSQL says i is published
          index,     \* index[i]: a search can find i
          unsettled  \* the items the index may be wrong about

indexVars == <<visible, index, unsettled>>

IndexInit ==
  /\ visible = [i \in Items |-> FALSE]
  /\ index = [i \in Items |-> FALSE]
  /\ unsettled = {}

\* PostgreSQL changes its mind about an item.
ChangeVisibility(i) ==
  /\ visible' = [visible EXCEPT ![i] = ~@]
  /\ unsettled' = unsettled \cup {i}
  /\ UNCHANGED index

\* The worker writes something, right or wrong, about an unsettled item.
WriteIndex(i, found) ==
  /\ i \in unsettled
  /\ index' = [index EXCEPT ![i] = found]
  /\ UNCHANGED <<visible, unsettled>>

\* An item is settled only when the index is right about it.
Settle(i) ==
  /\ i \in unsettled
  /\ index[i] = visible[i]
  /\ unsettled' = unsettled \ {i}
  /\ UNCHANGED <<visible, index>>

IndexNext ==
  \E i \in Items :
    \/ ChangeVisibility(i)
    \/ \E found \in BOOLEAN : WriteIndex(i, found)
    \/ Settle(i)

IndexSpec == IndexInit /\ [][IndexNext]_indexVars

\* Nothing settled is wrong.
SettledIsRight == \A i \in Items \ unsettled : index[i] = visible[i]
=============================================================================
