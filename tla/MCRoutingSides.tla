---------------------------- MODULE MCRoutingSides ----------------------------
(***************************************************************************)
(* Two instances of Routing that share no state; an initial state chooses  *)
(* the one that runs.  "ticks" is a re-evaluator against a direct caller,  *)
(* an agent and a senior agent with one slot each; "calls" two callers, a  *)
(* senior agent and a supervisor, and escalations in both directions.      *)
(***************************************************************************)
EXTENDS MCRouting

VARIABLES side, cState, cAssigned, cLock, cLoad, cPresence, cAgentLock, cPc, cTkt,
          cReason, cTier, cPrev, cPick, cTodo, cOrphans, cMoves

cVars == <<cState, cAssigned, cLock, cLoad, cPresence, cAgentLock, cPc, cTkt, cReason,
           cTier, cPrev, cPick, cTodo, cOrphans, cMoves>>

Calls == INSTANCE Routing WITH
  Agents <- {s1, u1}, Tickers <- {}, Callers <- {r2, r3},
  Role <- (s1 :> "senior_agent" @@ u1 :> "supervisor"), max_concurrent <- (s1 :> 2 @@ u1 :> 2),
  Skilled <- (t1 :> {s1, u1} @@ t2 :> {s1, u1}), MaxMoves <- 0,
  state <- cState, assigned <- cAssigned, lock <- cLock, current_load <- cLoad,
  presence <- cPresence, agentLock <- cAgentLock, pc <- cPc, tkt <- cTkt, reason <- cReason,
  tier <- cTier, prev <- cPrev, pick <- cPick, todo <- cTodo, orphans <- cOrphans, moves <- cMoves

Ticks(A)  == side = "ticks" /\ A /\ UNCHANGED <<side, cVars>>
Called(A) == side = "calls" /\ A /\ UNCHANGED <<side, vars>>

SidesVars == <<side, vars, cVars>>
SidesInit == side \in {"ticks", "calls"} /\ Init /\ Calls!Init
SidesNext == Ticks(Next) \/ Called(Calls!Next)

\* FairSpec, for the instance that runs.
SidesSpec ==
  /\ SidesInit
  /\ [][SidesNext]_SidesVars
  /\ \A r \in Routers : SF_SidesVars(Ticks(Step(r)))
  /\ \A r \in Tickers : WF_SidesVars(Ticks(ScanUnassigned(r)))
  /\ \A r \in {r2, r3} : SF_SidesVars(Called(Calls!Step(r)))
-----------------------------------------------------------------------------
\* A ticket does not stay unassigned while an agent who could take it stays
\* online with spare capacity (the batch must hold all waiting tickets), and
\* every call ends, in spite of escalations that lock two agents' rows in
\* opposite orders.
RoutingProgresses == (side = "ticks" => NoneLeftWaiting) /\ Calls!RoutersFinish
=============================================================================
