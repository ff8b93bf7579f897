----------------------------- MODULE MCTicketRepo -----------------------------
(***************************************************************************)
(* Small instances of TicketRepo.  In Shared all goroutines use the Repo   *)
(* of one replica; in Isolated each has a replica of its own, so that only *)
(* the database is shared.                                                 *)
(***************************************************************************)
EXTENDS TicketRepo, TLC

CONSTANTS p1, p2, p3, r1, r2

Shared == [p \in Procs |-> r1]
Isolated == (p1 :> r1) @@ (p2 :> r2)

Symmetry == Permutations(Tickets)
=============================================================================
