-------------------------------- MODULE Services --------------------------------
(***************************************************************************)
(* What the platform does around a ticket, side by side: surveys (Csat),   *)
(* SLA ticks (Sla), live sockets (RealtimeHub), data subject requests      *)
(* (Dsr), documents (Document), channels being connected (Connect), canned *)
(* replies and tags (Library).  They meet in the ticket row and in the     *)
(* database, each in tables and columns of its own, and share no state     *)
(* here; "side" is the one that moves, and an initial state chooses it.    *)
(***************************************************************************)
EXTENDS Csat

CONSTANTS
  SlaTickets, Schedulers, DefaultPolicies, Fallback, MaxTime,           \* Sla
  Sockets, ChannelsOf, BufferSize, OutSize, MaxFrames,                  \* RealtimeHub
  Officers, Tenants, Erasures, MaxRows,                                 \* Dsr
  Uploads, Infected, UploadFaults,                                      \* Document
  Consents, TenantOf, Pages, PagesOf, IgAccounts, IgOf,                 \* Connect
  Numbers, BusinessesOf, PhonesOf,
  Requests, ActorOf, Admins, Replies, Existing, Rows, Patches,          \* Library
  TagIds, SlugOf, TaggedTickets

VARIABLES
  side,
  sNow, sDue, sPriority, sOpen, sMet, sTodo, sPc, sEmitted, sLate, sFaults,
  hSubs, hPubsubs, hChan, hFrames, hForwarding, hPump, hSocket, hGone, hClosed, hStuck, hPanicked,
  hPublished,
  dRequests, dLock, dWork, dRead, dHeld, dCall, dSkipped, dFaults,
  uPc, uScanned, uStatus, uStored, uLeft, uDangling, uFlipped, uSigned, uFaults,
  cPc, cTodo, cPage, cIg, cPhone, cSubscribed, cRefused, cTorn, cFaults,
  lReplies, lUsed, lTags, lLinks, lReq, lAsked, lOverlap, lDeleted

sVars == <<sNow, sDue, sPriority, sOpen, sMet, sTodo, sPc, sEmitted, sLate, sFaults>>
hVars == <<hSubs, hPubsubs, hChan, hFrames, hForwarding, hPump, hSocket, hGone, hClosed, hStuck,
           hPanicked, hPublished>>
dVars == <<dRequests, dLock, dWork, dRead, dHeld, dCall, dSkipped, dFaults>>
uVars == <<uPc, uScanned, uStatus, uStored, uLeft, uDangling, uFlipped, uSigned, uFaults>>
cVars == <<cPc, cTodo, cPage, cIg, cPhone, cSubscribed, cRefused, cTorn, cFaults>>
lVars == <<lReplies, lUsed, lTags, lLinks, lReq, lAsked, lOverlap, lDeleted>>

Sla == INSTANCE Sla WITH
  Tickets <- SlaTickets,
  now <- sNow, due <- sDue, priority <- sPriority, open <- sOpen, met <- sMet, todo <- sTodo,
  pc <- sPc, emitted <- sEmitted, late <- sLate, faults <- sFaults

Hub == INSTANCE RealtimeHub WITH
  subs <- hSubs, pubsubs <- hPubsubs, chan <- hChan, frames <- hFrames, forwarding <- hForwarding,
  pump <- hPump, socket <- hSocket, gone <- hGone, closed <- hClosed, stuck <- hStuck,
  panicked <- hPanicked, published <- hPublished

Dsr == INSTANCE Dsr WITH
  Callbacks <- Erasures,
  requests <- dRequests, lock <- dLock, work <- dWork, read <- dRead, held <- dHeld, call <- dCall,
  skipped <- dSkipped, faults <- dFaults

Document == INSTANCE Document WITH
  MaxFaults <- UploadFaults,
  pc <- uPc, scanned <- uScanned, status <- uStatus, stored <- uStored, left <- uLeft,
  dangling <- uDangling, flipped <- uFlipped, signed <- uSigned, faults <- uFaults

Connect == INSTANCE Connect WITH
  Callbacks <- Consents, Accounts <- IgAccounts,
  pc <- cPc, todo <- cTodo, pageRow <- cPage, igRow <- cIg, phoneRow <- cPhone,
  subscribed <- cSubscribed, refused <- cRefused, torn <- cTorn, faults <- cFaults

Library == INSTANCE Library WITH
  Tickets <- TaggedTickets,
  replies <- lReplies, used <- lUsed, tags <- lTags, links <- lLinks, req <- lReq,
  asked <- lAsked, overlap <- lOverlap, deleted <- lDeleted

ServicesInit ==
  /\ side \in {"csat", "sla", "hub", "dsr", "document", "connect", "library"}
  /\ Init /\ Sla!Init /\ Hub!Init /\ Dsr!Init /\ Document!Init /\ Connect!Init /\ Library!Init

Surveyed(A) == side = "csat" /\ A /\ UNCHANGED <<side, sVars, hVars, dVars, uVars, cVars, lVars>>
Timed(A)    == side = "sla" /\ A /\ UNCHANGED <<side, vars, hVars, dVars, uVars, cVars, lVars>>
Streamed(A) == side = "hub" /\ A /\ UNCHANGED <<side, vars, sVars, dVars, uVars, cVars, lVars>>
Asked(A)    == side = "dsr" /\ A /\ UNCHANGED <<side, vars, sVars, hVars, uVars, cVars, lVars>>
Uploaded(A) == side = "document" /\ A /\ UNCHANGED <<side, vars, sVars, hVars, dVars, cVars, lVars>>

Connected(A) == side = "connect" /\ A /\ UNCHANGED <<side, vars, sVars, hVars, dVars, uVars, lVars>>

Written(A) == side = "library" /\ A /\ UNCHANGED <<side, vars, sVars, hVars, dVars, uVars, cVars>>

ServicesVars == <<side, vars, sVars, hVars, dVars, uVars, cVars, lVars>>
ServicesNext ==
  \/ Surveyed(Next) \/ Timed(Sla!Next) \/ Streamed(Hub!Next) \/ Asked(Dsr!Next) 
  \/ Uploaded(Document!Next) \/ Connected(Connect!Next) \/ Written(Library!Next)

\* Less than FairSpec of each module: of the steps that are fair there, some
\* step is taken.
Fair ==
  \/ Surveyed(\E w \in Replicas : Step(w) \/ \E e \in Events : Deliver(w, e))
  \/ Timed(\E s \in Schedulers : Sla!Tick(s))
  \/ Streamed(\/ \E s \in Sockets : Hub!Serve(s)
           \/ \E sc \in Hub!Subscriptions : Hub!Run(sc) \/ Hub!Forward(sc) \/ Hub!unsubscribe(sc[1], sc[2]))

ServicesSpec == ServicesInit /\ [][ServicesNext]_ServicesVars /\ WF_ServicesVars(Fair)
-----------------------------------------------------------------------------
\* The type invariants of the modules.
ServicesTypeOK ==
  /\ TypeOK /\ Sla!TypeOK /\ Hub!TypeOK /\ Dsr!TypeOK
  /\ Document!TypeOK /\ Connect!TypeOK /\ Library!TypeOK

\* A ticket whose deadline was met keeps its priority (see Sla).
CalmStaysCalm == Sla!CalmStaysCalm

\* The hub closes no channel twice and serves its subscribers with one pump
\* (see RealtimeHub).
HubSafe == Hub!HubSafe

\* What the platform keeps for a tenant: Meta's erasure requests reach every
\* tenant, no infected or unscanned upload reaches the store, a brand's
\* connected channels are its own and deliver, and a canned reply is what its
\* editors asked for (see Dsr, Document, Connect and Library).
DataProtected ==
  /\ Dsr!EveryTenantAsked
  /\ Document!CleanIsStored
  /\ Connect!AccountsFollowPages /\ Connect!ShownIsSubscribed
  /\ Library!EditsKeep /\ Library!MacrosResolve

\* A score and a closed data subject request stay (see Csat and Dsr).
DecisionsStand == ScoreStands /\ Dsr!ClosedStaysClosed

\* Resolutions are surveyed, breaches announced, lost sockets forgotten (see
\* Csat, Sla and RealtimeHub).
ServicesEnd == EveryResolutionIsSurveyed /\ Sla!EveryBreachIsAnnounced /\ Hub!GoneSocketsLeave
=============================================================================
