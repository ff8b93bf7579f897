----------------------------- MODULE TicketState -----------------------------
(***************************************************************************)
(* The ticket state machine of internal/ticket/state.go: the states of the *)
(* ticket_state enum, the table of legal edges and the check every caller  *)
(* of Repo.ChangeState goes through.                                       *)
(***************************************************************************)

States == {"new", "open", "pending", "on_hold", "resolved", "closed", "reopened"}

\* The map "transitions": the states a ticket in state s may move to.
transitions ==
  [new      |-> {"open"},
   open     |-> {"pending", "on_hold", "resolved"},
   pending  |-> {"open", "resolved"},
   on_hold  |-> {"open", "resolved"},
   resolved |-> {"closed", "reopened"},
   closed   |-> {"reopened"},
   reopened |-> {"open"}]

\* State.Validate: s is one of the enum's values.
Validate(s) == s \in States

CanTransition(from, to) == to \in transitions[from]

\* Transition returns nil, i.e. both states are known and the edge is legal.
Transition(from, to) == Validate(from) /\ Validate(to) /\ CanTransition(from, to)

\* The value of the row of a ticket that has not been inserted yet.
Absent == "absent"
=============================================================================
