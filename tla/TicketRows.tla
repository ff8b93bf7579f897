------------------------------ MODULE TicketRows ------------------------------
(***************************************************************************)
(* What the ticket table promises its readers, whatever the number of      *)
(* gateway replicas and requests that write it: a row appears in state     *)
(* "new" and from then on only ever moves along an edge of the state       *)
(* machine.  One step may move several rows (a bulk UPDATE does).          *)
(* TicketRepo implements this specification; TicketIngress shows where the *)
(* inbound consumer does not.                                              *)
(***************************************************************************)
EXTENDS TicketState

CONSTANT Tickets
VARIABLE state

\* The row is inserted, is left alone, or moves along a legal edge.
Edge(from, to) ==
  \/ to = from
  \/ from = Absent /\ to = "new"
  \/ from \in States /\ Transition(from, to)

Init == state = [t \in Tickets |-> Absent]

Next ==
  /\ state' \in [Tickets -> States \cup {Absent}]
  /\ \A t \in Tickets : Edge(state[t], state'[t])

Spec == Init /\ [][Next]_state
=============================================================================
