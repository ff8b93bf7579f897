------------------------------ MODULE MCServices ------------------------------
(***************************************************************************)
(* Instances of Services.  "csat" is one ticket resolved twice and         *)
(* reopened; "sla" one ticket whose policy breaches within the clock's     *)
(* bound; "hub" an agent and a supervisor, who listens to the agent's      *)
(* channel too; "dsr" two officers and one of Meta's callbacks; "document" *)
(* a clean and an infected upload; "connect" two tenants who connect the   *)
(* same page, one of them a second page, and the same WhatsApp number;     *)
(* "library" an admin's and an agent's requests on a shared, a personal    *)
(* and a new canned reply.                                                 *)
(***************************************************************************)
EXTENDS Services, TLC

CONSTANTS g1, k, r1, r2, x1, x2, x3, c1, c2, p1, p2, i1, n1, wa,
          t1, t2, w1, w2, b1, b2, s1, s2, ag, sup, o1, o2, k1, u1, u2

MCEventOf == <<[ticket |-> t1, to |-> "resolved"], [ticket |-> t1, to |-> "reopened"],
               [ticket |-> t1, to |-> "resolved"]>>
MCScoreOf == b1 :> 1 @@ b2 :> 5
MCDefaultPolicies == <<[firstResponse |-> 1, resolution |-> 2, warn |-> 1],
                       [firstResponse |-> 1, resolution |-> 3, warn |-> 1],
                       [firstResponse |-> 2, resolution |-> 3, warn |-> 1]>>
MCChannelsOf == s1 :> <<ag>> @@ s2 :> <<ag, sup>>
MCTenantOf == c1 :> t1 @@ c2 :> t2
MCPagesOf == c1 :> <<p1, p2>> @@ c2 :> <<p1>>
MCIgOf == p1 :> i1 @@ p2 :> None
MCBusinessesOf == c1 :> << <<wa>> >> @@ c2 :> << <<>>, <<wa>> >>
MCPhonesOf == wa :> <<n1>>
MCActorOf == r1 :> sup @@ r2 :> ag
MCExisting ==
  x1 :> [owner |-> None, shortcut |-> "thanks", channel |-> "fb", tag |-> None] @@
  x2 :> [owner |-> ag, shortcut |-> "hello", channel |-> None, tag |-> None]
MCRows == {[shortcut |-> "thanks", channel |-> "fb", tag |-> "vip"]}
MCPatches == {[shortcut |-> "hello"], [channel |-> None], [channel |-> "wa", tag |-> "vip"]}
MCSlugOf == g1 :> "vip"

ASSUME LibraryAssumption == Library!BodyAssumption
ASSUME ConnectAssumption == Connect!AssetAssumption /\ Connect!BoundAssumption
ASSUME SlaAssumption == Sla!PolicyAssumption /\ Sla!FiniteAssumption /\ Sla!BoundAssumption
ASSUME HubAssumption == Hub!NoneAssumption /\ Hub!ChannelAssumption /\ Hub!BoundAssumption
ASSUME DsrAssumption == Dsr!CallbackAssumption /\ Dsr!BoundAssumption
ASSUME DocumentAssumption == Document!InfectedAssumption /\ Document!BoundAssumption

\* The ticket is created with the lowest priority, and may be raised to any.
MCInit == ServicesInit /\ sPriority[t1] = 3
MCSpec == MCInit /\ [][ServicesNext]_ServicesVars /\ WF_ServicesVars(Fair)
=============================================================================
