------------------------------ MODULE MCRouting ------------------------------
(***************************************************************************)
(* Small instances of Routing: an agent a1 and a senior agent s1 (and a    *)
(* supervisor), one slot each; both tickets want no skill, or t2 wants one *)
(* that only s1 has.                                                       *)
(***************************************************************************)
EXTENDS Routing, TLC

CONSTANTS t1, t2, a1, s1, u1, r1, r2, r3

MCRole == [a \in Agents |-> CASE a = a1 -> "agent" [] a = s1 -> "senior_agent" [] OTHER -> "supervisor"]
MCMax == [a \in Agents |-> 1]
MCMax2 == [a \in Agents |-> 2]
MCSkilled == [t \in Tickets |-> IF t = t1 THEN Agents ELSE Agents \ {a1}]
MCRank == [t \in Tickets |-> IF t = t1 THEN 1 ELSE 2]
=============================================================================
