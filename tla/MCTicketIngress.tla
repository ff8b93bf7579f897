--------------------------- MODULE MCTicketIngress ---------------------------
(***************************************************************************)
(* Small instances of TicketIngress.  m1 and m2 are one platform message   *)
(* published twice (the provider retried outside the stream's duplicate    *)
(* window), m3 is a widget message without a platform id on a second       *)
(* thread of the same customer, m4 a read receipt, m5 bad JSON.            *)
(***************************************************************************)
EXTENDS TicketIngress, TLC

CONSTANTS m1, m2, m3, m4, m5, th1, th2, c1, mid1, w1, w2

MCThread == [m \in Msgs |-> IF m = m3 THEN th2 ELSE th1]
MCOneThread == [m \in Msgs |-> th1]
MCCustomer == [m \in Msgs |-> c1]
MCPid == [m \in Msgs |-> IF m \in {m1, m2} THEN mid1 ELSE NoPid]
MCKind == [m \in Msgs |-> CASE m = m4 -> "signal"
                            [] m = m5 -> "malformed"
                            [] OTHER  -> "message"]

\* m1 and m2 differ in nothing.
Symmetry == Permutations(Workers) \cup Permutations({m1, m2})
=============================================================================
