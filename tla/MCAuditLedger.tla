----------------------------- MODULE MCAuditLedger -----------------------------
(***************************************************************************)
(* Small instances of AuditLedger.  e1 and e2 are two tickets' rows of one *)
(* bulk request (one Msg-Id), e3 another event, e4 a bulk_unassign, which  *)
(* is published without a payload.                                         *)
(***************************************************************************)
EXTENDS AuditLedger, TLC

CONSTANTS e1, e2, e3, e4, w1, w2, id1, id3, id4

MCMsgId == [e \in Events |-> CASE e = e3 -> id3 [] e = e4 -> id4 [] OTHER -> id1]

Symmetry == Permutations(Writers)
=============================================================================
