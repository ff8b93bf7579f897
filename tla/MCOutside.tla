------------------------------- MODULE MCOutside -------------------------------
(***************************************************************************)
(* Instances of Edges.  "outbound" is two replies on one ticket of any     *)
(* channel; "inbound" two events of any one platform; "mail" two           *)
(* mailboxes, with three mails of which two carry one Message-ID and one   *)
(* has none; "hooks" one subscription that two events match and one that   *)
(* neither does.                                                           *)
(***************************************************************************)
EXTENDS Edges, TLC

CONSTANTS r1, r2, t1, e1, e2, i1, i2, a1, a2, m1, m2, m3, b1, b2, s1, s2, w1, w2

MCTicketOf == [r \in Replies |-> t1]
MCOrder == <<b1, b2>>
MCBoxOf == m1 :> b1 @@ m2 :> b1 @@ m3 :> b2
MCMid == m1 :> i1 @@ m2 :> None @@ m3 :> i1
MCPatterns == s1 :> {<<"ticket", ">">>, <<"message", "*">>} @@ s2 :> {<<"message">>, <<"sla", "breached">>}
MCSubjectOf == e1 :> <<"ticket", "assigned">> @@ e2 :> <<"message", "created">>

ASSUME InAssumption == In!BoundAssumption /\ In!NoneAssumption
ASSUME MailAssumption == Mail!BoxAssumption /\ Mail!MidAssumption /\ Mail!BoundAssumption
ASSUME HooksAssumption == Hooks!BoundAssumption

\* Both events come from one platform, and ids and accounts are interchangeable.
OutsideInit ==
  /\ side \in {"outbound", "inbound", "mail", "hooks"} /\ In!Init
  /\ cShape[e1].src = cShape[e2].src /\ cShape[e1].id = i1 /\ cShape[e1].to = a1
  /\ side # "inbound" => cShape[e2].id = i1 /\ cShape[e2].to = a1
  /\ EdgesInit

OutsideSpec == OutsideInit /\ [][EdgesNext]_EdgesVars /\ WF_EdgesVars(Fair)
=============================================================================
