---------------------------- MODULE AuditedStates ----------------------------
(***************************************************************************)
(* What PlacementDB promises of the decisions it audits: a thing comes     *)
(* into being in a first state, moves only along the moves there are, and  *)
(* every move is written down once, by whom, from what and to what, in a   *)
(* log that is only appended to.                                           *)
(***************************************************************************)
EXTENDS Naturals, Sequences

CONSTANTS Things,   \* what has a state
          Actors,   \* who may move it
          States,
          First,    \* the state in which a thing begins
          Absent,   \* the state of a thing that does not exist yet
          Moves     \* the pairs of states a thing may move along

VARIABLES state,    \* of each thing
          log       \* the moves there were

Event == [of : Things, by : Actors, from : States, to : States]

TypeOK == /\ state \in [Things -> States \cup {Absent}]
          /\ log \in Seq(Event)

Init == /\ state = [t \in Things |-> Absent]
        /\ log = <<>>

Create(t) == /\ state[t] = Absent
             /\ state' = [state EXCEPT ![t] = First]
             /\ UNCHANGED log

Move(t, who, to) ==
  /\ <<state[t], to>> \in Moves
  /\ state' = [state EXCEPT ![t] = to]
  /\ log' = Append(log, [of |-> t, by |-> who, from |-> state[t], to |-> to])

Next == \E t \in Things : \/ Create(t)
                          \/ \E who \in Actors, to \in States : Move(t, who, to)

Spec == Init /\ [][Next]_<<state, log>>
-----------------------------------------------------------------------------
Of(t) == {n \in DOMAIN log : log[n].of = t}

IsLast(n) == \A m \in Of(log[n].of) : m <= n

Follows(m, n) == /\ m < n
                 /\ log[m].of = log[n].of
                 /\ \A k \in Of(log[n].of) : k <= m \/ k >= n

(* The log retells the history of every thing: the first of its entries     *)
(* leaves the first state, each next one leaves where the one before led,   *)
(* and the last one leads to the state the thing has.                       *)
LogReplays ==
  /\ \A t \in Things : Of(t) = {} => state[t] \in {Absent, First}
  /\ \A n \in DOMAIN log :
       /\ (\A m \in Of(log[n].of) : m >= n) => log[n].from = First
       /\ \A m \in DOMAIN log : Follows(m, n) => log[m].to = log[n].from
       /\ IsLast(n) => log[n].to = state[log[n].of]
=============================================================================
