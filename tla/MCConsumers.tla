------------------------------ MODULE MCConsumers ------------------------------
(***************************************************************************)
(* The gateway's two consumers, on instances that share no state; an       *)
(* initial state chooses the one that runs.  "audit" is two processes of   *)
(* the ledger with three recordable events and one without a payload;      *)
(* "ingress" two replicas of the ticket consumer with a message, a read    *)
(* receipt and bad JSON.                                                   *)
(***************************************************************************)
EXTENDS MCAuditLedger

CONSTANTS th1, c1, m1, m4, m5, mid1, NoPid
Sent == {m1, m4, m5}

VARIABLES side, iPublished, iReady, iAcked, iTermed, iDeliveries, iCustomers, iTicket,
          iMade, iStored, iConvLock, iRowLock, iPc, iMsg, iNewCust, iRead, iDup, iFaults, iMoves

iVars == <<iPublished, iReady, iAcked, iTermed, iDeliveries, iCustomers, iTicket, iMade,
           iStored, iConvLock, iRowLock, iPc, iMsg, iNewCust, iRead, iDup, iFaults, iMoves>>

Ingress == INSTANCE TicketIngress WITH
  Msgs <- Sent, Threads <- {th1}, Customers <- {c1},
  Thread <- [m \in Sent |-> th1], CustomerOf <- [m \in Sent |-> c1],
  Pid <- (m1 :> mid1 @@ m4 :> NoPid @@ m5 :> NoPid),
  Kind <- (m1 :> "message" @@ m4 :> "signal" @@ m5 :> "malformed"),
  Workers <- {w1, w2}, AgentTargets <- {"open", "resolved"},
  MaxDeliver <- 2, MaxFaults <- 1, MaxMoves <- 0,
  published <- iPublished, ready <- iReady, acked <- iAcked, termed <- iTermed,
  deliveries <- iDeliveries, customers <- iCustomers, ticket <- iTicket, made <- iMade,
  stored <- iStored, convLock <- iConvLock, rowLock <- iRowLock, pc <- iPc, msg <- iMsg,
  newCust <- iNewCust, read <- iRead, dup <- iDup, faults <- iFaults, moves <- iMoves

Audited(A)  == side = "audit" /\ A /\ UNCHANGED <<side, iVars>>
Ingested(A) == side = "ingress" /\ A /\ UNCHANGED <<side, vars>>

SidesVars == <<side, vars, iVars>>
SidesInit == side \in {"audit", "ingress"} /\ Init /\ Ingress!Init
SidesNext == Audited(Next) \/ Ingested(Ingress!Next)

\* Less than FairSpec of either module: of the steps that are fair there, some
\* step is taken.  It is enough, because the bounds let none recur for ever.
Fair ==
  \/ Audited(\/ \E w \in Writers : Step(w)
             \/ \E e \in Events : AckWaitExpires(e))
  \/ Ingested(\/ \E w \in {w1, w2} : Ingress!Step(w)
              \/ \E m \in Sent : Ingress!AckWaitExpires(m) \/ \E w \in {w1, w2} : Ingress!Deliver(w, m))

SidesSpec == SidesInit /\ [][SidesNext]_SidesVars /\ WF_SidesVars(Fair)
-----------------------------------------------------------------------------
\* An event that the stream accepted is in the ledger in the end, if fewer
\* things go wrong than MaxDeliver allows for; and every message is settled,
\* or the consumer gave up on it.
EventsSettle == EventsAreRecorded /\ Ingress!EveryMessageSettles
=============================================================================
