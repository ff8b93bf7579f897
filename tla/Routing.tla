-------------------------------- MODULE Routing --------------------------------
(***************************************************************************)
(* internal/routing: Engine.Route, Engine.Escalate, the Reevaluator's Tick *)
(* and ReleaseOnClose, as run by concurrent goroutines (or processes)      *)
(* against one Postgres, while agents come and go, take tickets by hand,   *)
(* finish them, and customers reopen them.                                 *)
(*                                                                         *)
(* A router takes one step per statement another one can observe: the row  *)
(* lock on the ticket, the unlocked read of the agents, the wait for the   *)
(* picked agent's agent_status row and (Escalate only) for the previous    *)
(* agent's.  Its writes become visible with the last of these, at commit.  *)
(***************************************************************************)
EXTENDS TicketState, Naturals, FiniteSets

CONSTANTS
  Tickets, Agents,
  Tickers,        \* goroutines that run Reevaluator.Run
  Callers,        \* goroutines that call Route or Escalate for one ticket
  Role,           \* agents.role
  max_concurrent, \* agents.max_concurrent
  Skilled,        \* Skilled[t]: the agents with all of t's required skills
  Targets,        \* states agents and customers move tickets to
  Rank,           \* order of the scans: priority, then created_at
  MaxBatch,       \* Reevaluator.MaxBatch
  MaxMoves,       \* bound on what agents and customers do
  None

Routers == Tickers \cup Callers

Tiers == {"agent", "senior_agent", "supervisor"}

ASSUME AgentAssumption ==
  /\ DOMAIN Role = Agents
  /\ max_concurrent \in [Agents -> Nat \ {0}]
ASSUME TicketAssumption ==
  /\ Skilled \in [Tickets -> SUBSET Agents]
  /\ Rank \in [Tickets -> Nat] /\ \A t, u \in Tickets : Rank[t] = Rank[u] => t = u
  /\ MaxBatch \in Nat
ASSUME RouterAssumption ==
  /\ IsFiniteSet(Tickers) /\ IsFiniteSet(Callers)
  /\ Routers # {} /\ Tickers \cap Callers = {}
ASSUME NoneAssumption == None \notin Tickets \cup Agents \cup Routers /\ None \notin Tiers
ASSUME BoundAssumption == MaxMoves \in Nat

VARIABLES
  state,          \* tickets.state
  assigned,       \* tickets.assigned_agent_id
  lock,           \* holder of the ticket's row lock
  current_load,   \* agent_status.current_load
  presence,       \* agent_status.status; "silent" is online with an old heartbeat
  agentLock,      \* holder of the agent_status row's lock
  pc, tkt,        \* next statement, ticket in hand
  reason,         \* the reason argument; "escalation" is a call of Escalate
  tier,           \* the from argument of Escalate, None to infer it
  prev, pick,     \* previous and picked agent
  todo, orphans,  \* tickets Tick has still to route: unassigned, offline-owned
  moves

tickets == <<state, assigned, lock>>
agents  == <<current_load, presence, agentLock>>
call    == <<tkt, reason, tier, prev, pick>>
sweep   == <<todo, orphans>>
vars    == <<tickets, agents, pc, call, sweep, moves>>

Presences == {"online", "silent", "offline"}
Reasons   == {"auto_route", "reassign_offline", "escalation"}
PCs == {"idle", "scan", "next", "lock", "agents", "charge", "uncharge"}

TypeOK ==
  /\ state \in [Tickets -> States]
  /\ assigned \in [Tickets -> Agents \cup {None}]
  /\ lock \in [Tickets -> Routers \cup {None}]
  /\ current_load \in [Agents -> Nat]
  /\ presence \in [Agents -> Presences]
  /\ agentLock \in [Agents -> Routers \cup {None}]
  /\ pc \in [Routers -> PCs]
  /\ tkt \in [Routers -> Tickets \cup {None}]
  /\ reason \in [Routers -> Reasons \cup {None}]
  /\ tier \in [Routers -> Tiers \cup {None}]
  /\ prev \in [Routers -> Agents \cup {None}]
  /\ pick \in [Routers -> Agents \cup {None}]
  /\ todo \in [Routers -> SUBSET Tickets]
  /\ orphans \in [Routers -> SUBSET Tickets]
  /\ moves \in 0..MaxMoves

Init ==
  /\ state = [t \in Tickets |-> "new"]
  /\ assigned = [t \in Tickets |-> None]
  /\ lock = [t \in Tickets |-> None]
  /\ current_load = [a \in Agents |-> 0]
  /\ presence = [a \in Agents |-> "online"]
  /\ agentLock = [a \in Agents |-> None]
  /\ pc = [r \in Routers |-> "idle"]
  /\ tkt = [r \in Routers |-> None]
  /\ reason = [r \in Routers |-> None]
  /\ tier = [r \in Routers |-> None]
  /\ prev = [r \in Routers |-> None]
  /\ pick = [r \in Routers |-> None]
  /\ todo = [r \in Routers |-> {}]
  /\ orphans = [r \in Routers |-> {}]
  /\ moves = 0

Goto(r, label) == pc' = [pc EXCEPT ![r] = label]
-----------------------------------------------------------------------------
(***************************************************************************)
(* Reevaluator.Tick: two scans, then Route for each ticket found.          *)
(***************************************************************************)
\* Mutant: the sweep forgets the tickets nobody ever opened.
MutUnassigned == {t \in Tickets : assigned[t] = None /\ state[t] = "reopened"}

Unassigned == {t \in Tickets : assigned[t] = None /\ state[t] \in {"new", "reopened"}}

OfflineOwned ==
  {t \in Tickets : /\ assigned[t] # None
                   /\ state[t] \in {"open", "pending"}
                   /\ presence[assigned[t]] # "online"}

\* ORDER BY priority, created_at LIMIT MaxBatch.
FirstBatch(S) == {t \in S : Cardinality({u \in S : Rank[u] < Rank[t]}) < MaxBatch}

ScanUnassigned(r) ==
  /\ r \in Tickers
  /\ pc[r] = "idle"
  /\ todo' = [todo EXCEPT ![r] = FirstBatch(Unassigned)]
  /\ Goto(r, "scan")
  /\ UNCHANGED <<tickets, agents, call, orphans, moves>>

\* The second scan drops what the first one found.
ScanOffline(r) ==
  /\ pc[r] = "scan"
  /\ orphans' = [orphans EXCEPT ![r] = FirstBatch(OfflineOwned) \ todo[r]]
  /\ Goto(r, "next")
  /\ UNCHANGED <<tickets, agents, call, todo, moves>>

NextUnassigned(r) ==
  /\ pc[r] = "next"
  /\ \E t \in todo[r] :
       /\ \A u \in todo[r] : Rank[t] <= Rank[u]
       /\ tkt' = [tkt EXCEPT ![r] = t]
       /\ todo' = [todo EXCEPT ![r] = @ \ {t}]
  /\ reason' = [reason EXCEPT ![r] = "auto_route"]
  /\ Goto(r, "lock")
  /\ UNCHANGED <<tickets, agents, tier, prev, pick, orphans, moves>>

NextOrphan(r) ==
  /\ pc[r] = "next"
  /\ todo[r] = {}
  /\ \E t \in orphans[r] :
       /\ \A u \in orphans[r] : Rank[t] <= Rank[u]
       /\ tkt' = [tkt EXCEPT ![r] = t]
       /\ orphans' = [orphans EXCEPT ![r] = @ \ {t}]
  /\ reason' = [reason EXCEPT ![r] = "reassign_offline"]
  /\ Goto(r, "lock")
  /\ UNCHANGED <<tickets, agents, tier, prev, pick, todo, moves>>

TickDone(r) ==
  /\ pc[r] = "next"
  /\ todo[r] = {} /\ orphans[r] = {}
  /\ Goto(r, "idle")
  /\ UNCHANGED <<tickets, agents, call, sweep, moves>>
-----------------------------------------------------------------------------
(***************************************************************************)
(* Engine.Route and Engine.Escalate.                                       *)
(***************************************************************************)
CallRoute(r, t) ==
  /\ r \in Callers
  /\ pc[r] = "idle"
  /\ tkt' = [tkt EXCEPT ![r] = t]
  /\ reason' = [reason EXCEPT ![r] = "auto_route"]
  /\ Goto(r, "lock")
  /\ UNCHANGED <<tickets, agents, tier, prev, pick, sweep, moves>>

CallEscalate(r, t, from) ==
  /\ r \in Callers
  /\ pc[r] = "idle"
  /\ tkt' = [tkt EXCEPT ![r] = t]
  /\ reason' = [reason EXCEPT ![r] = "escalation"]
  /\ tier' = [tier EXCEPT ![r] = from]
  /\ Goto(r, "lock")
  /\ UNCHANGED <<tickets, agents, prev, pick, sweep, moves>>

\* Mutant: SELECT without FOR UPDATE.
MutRowFree(t) == TRUE

RowFree(t) == lock[t] = None

SelectForUpdate(r) ==
  /\ pc[r] = "lock"
  /\ RowFree(tkt[r])
  /\ lock' = [lock EXCEPT ![tkt[r]] = r]
  /\ prev' = [prev EXCEPT ![r] = assigned[tkt[r]]]
  /\ Goto(r, "agents")
  /\ UNCHANGED <<state, assigned, agents, tkt, reason, tier, pick, sweep, moves>>

\* Defined for the tiers that have one above them.
nextTier(from) ==
  [agent |-> "senior_agent", senior_agent |-> "supervisor"][from]

\* The tier Escalate starts from: its argument or else the assignee's role.
FromTier(r) == IF tier[r] = None /\ prev[r] # None THEN Role[prev[r]] ELSE tier[r]

\* Mutant: an agent at the limit is taken for free.
MutHasCapacity(a) == current_load[a] <= max_concurrent[a]

HasCapacity(a) == current_load[a] < max_concurrent[a]

\* loadEligibleAgents and loadEligibleAgentsAtTier: status, load, and either
\* the required skills or the tier.  The heartbeat's age does not count.
Eligible(r) ==
  {a \in Agents :
     /\ presence[a] # "offline"
     /\ HasCapacity(a)
     /\ IF reason[r] = "escalation"
        THEN FromTier(r) \in {"agent", "senior_agent"} /\ Role[a] = nextTier(FromTier(r))
        ELSE a \in Skilled[tkt[r]]}

\* Pick: 0.3 per unit of spare capacity outweighs all of the freshness bonus
\* (at most 0.2) and the priority is the ticket's, the same for all agents; so
\* the least busy win, and time and ids decide between them.
Best(S) ==
  {a \in S : \A b \in S : max_concurrent[b] + current_load[a] <= max_concurrent[a] + current_load[b]}

PickAgent(r) ==
  /\ pc[r] = "agents"
  /\ \E a \in Best(Eligible(r)) : pick' = [pick EXCEPT ![r] = a]
  /\ Goto(r, "charge")
  /\ UNCHANGED <<tickets, agents, tkt, reason, tier, prev, sweep, moves>>

\* The call returns and forgets its locals.
Return(r) ==
  /\ Goto(r, IF r \in Tickers THEN "next" ELSE "idle")
  /\ tkt' = [tkt EXCEPT ![r] = None]
  /\ reason' = [reason EXCEPT ![r] = None]
  /\ tier' = [tier EXCEPT ![r] = None]
  /\ prev' = [prev EXCEPT ![r] = None]
  /\ pick' = [pick EXCEPT ![r] = None]

Unlocked(r) == [t \in Tickets |-> IF lock[t] = r THEN None ELSE lock[t]]

AgentsUnlocked(r) == [a \in Agents |-> IF agentLock[a] = r THEN None ELSE agentLock[a]]

\* Mutant: the deferred rollback is forgotten, the pooled connection keeps its
\* locks.
MutRollback(r) == UNCHANGED <<lock, agentLock>>

\* The transaction ends and its rows are free.
Rollback(r) == lock' = Unlocked(r) /\ agentLock' = AgentsUnlocked(r)

\* ErrNoEligibleAgent, or no tier above: the transaction rolls back.
NoAgent(r) ==
  /\ pc[r] = "agents"
  /\ Eligible(r) = {}
  /\ Rollback(r)
  /\ Return(r)
  /\ UNCHANGED <<state, assigned, current_load, presence, sweep, moves>>

\* Route commits: the ticket is open and assigned, whatever its state was.
CommitRoute(r) ==
  /\ pc[r] = "charge"
  /\ reason[r] # "escalation"
  /\ agentLock[pick[r]] = None
  /\ assigned' = [assigned EXCEPT ![tkt[r]] = pick[r]]
  /\ state' = [state EXCEPT ![tkt[r]] = "open"]
  /\ current_load' = [current_load EXCEPT ![pick[r]] = @ + 1]
  /\ lock' = Unlocked(r)
  /\ Return(r)
  /\ UNCHANGED <<presence, agentLock, sweep, moves>>

\* Escalate updates the new agent's row and holds it while it waits for the
\* previous agent's.
Charge(r) ==
  /\ pc[r] = "charge"
  /\ reason[r] = "escalation"
  /\ agentLock[pick[r]] = None
  /\ agentLock' = [agentLock EXCEPT ![pick[r]] = r]
  /\ Goto(r, "uncharge")
  /\ UNCHANGED <<tickets, current_load, presence, call, sweep, moves>>

\* Mutant: current_load - 1 without GREATEST.
MutLess(n) == n - 1

\* GREATEST(current_load - 1, 0).
Less(n) == IF n = 0 THEN 0 ELSE n - 1

\* Escalate commits; a ticket that was assigned gives its agent capacity back.
CommitEscalate(r) ==
  /\ pc[r] = "uncharge"
  /\ prev[r] # None => agentLock[prev[r]] \in {None, r}
  /\ assigned' = [assigned EXCEPT ![tkt[r]] = pick[r]]
  /\ current_load' =
       [a \in Agents |->
          LET up == IF a = pick[r] THEN current_load[a] + 1 ELSE current_load[a]
          IN IF a = prev[r] THEN Less(up) ELSE up]
  /\ lock' = Unlocked(r)
  /\ agentLock' = AgentsUnlocked(r)
  /\ Return(r)
  /\ UNCHANGED <<state, presence, sweep, moves>>

\* r is one of a circle of escalations that wait for each other's agent rows.
InCycle(r) ==
  \E C \in SUBSET Routers :
    /\ r \in C
    /\ \A q \in C : pc[q] = "uncharge" /\ prev[q] \notin {None, pick[q]}
    /\ {agentLock[prev[q]] : q \in C} = C

\* Postgres detects the deadlock and fails one of the transactions.
BreakDeadlock(r) ==
  /\ InCycle(r)
  /\ Rollback(r)
  /\ Return(r)
  /\ UNCHANGED <<state, assigned, current_load, presence, sweep, moves>>
-----------------------------------------------------------------------------
(***************************************************************************)
(* Agents and customers.                                                   *)
(***************************************************************************)
Move ==
  /\ moves < MaxMoves
  /\ moves' = moves + 1
  /\ UNCHANGED <<pc, call, sweep>>

SetPresence(a, p) ==
  /\ Move
  /\ agentLock[a] = None
  /\ presence[a] # p
  /\ presence' = [presence EXCEPT ![a] = p]
  /\ UNCHANGED <<tickets, current_load, agentLock>>

\* ChangeState to resolved with ReleaseOnClose in its transaction, as
\* ReleaseOnClose's comment wants it wired.
Close(t) ==
  /\ Move
  /\ lock[t] = None
  /\ Transition(state[t], "resolved")
  /\ state' = [state EXCEPT ![t] = "resolved"]
  /\ IF assigned[t] = None
     THEN UNCHANGED current_load
     ELSE /\ agentLock[assigned[t]] = None
          /\ current_load' = [current_load EXCEPT ![assigned[t]] = Less(@)]
  /\ UNCHANGED <<assigned, lock, presence, agentLock>>

\* ChangeState (or the ingress consumer) along an edge that frees no capacity.
ChangeState(t, to) ==
  /\ Move
  /\ lock[t] = None
  /\ to # "resolved"
  /\ Transition(state[t], to)
  /\ state' = [state EXCEPT ![t] = to]
  /\ UNCHANGED <<assigned, lock, agents>>

\* Repo.BulkAssign by hand: no load is charged, none is given back.
Assign(t, a) ==
  /\ Move
  /\ lock[t] = None
  /\ state[t] \notin {"resolved", "closed"}
  /\ assigned' = [assigned EXCEPT ![t] = a]
  /\ state' = [state EXCEPT ![t] = IF a # None /\ @ = "new" THEN "open" ELSE @]
  /\ UNCHANGED <<lock, agents>>
-----------------------------------------------------------------------------
Step(r) ==
  \/ ScanOffline(r) \/ NextUnassigned(r) \/ NextOrphan(r) \/ TickDone(r)
  \/ SelectForUpdate(r) \/ PickAgent(r) \/ NoAgent(r) \/ CommitRoute(r)
  \/ Charge(r) \/ CommitEscalate(r) \/ BreakDeadlock(r)

Environment ==
  \/ \E a \in Agents, p \in Presences : SetPresence(a, p)
  \/ \E t \in Tickets : Close(t)
  \/ \E t \in Tickets, to \in Targets : ChangeState(t, to)
  \/ \E t \in Tickets, a \in Agents \cup {None} : Assign(t, a)

Next ==
  \/ \E r \in Routers : ScanUnassigned(r) \/ Step(r)
  \/ \E r \in Routers, t \in Tickets : CallRoute(r, t)
  \/ \E r \in Routers, t \in Tickets, from \in Tiers \cup {None} : CallEscalate(r, t, from)
  \/ Environment

Spec == Init /\ [][Next]_vars

(***************************************************************************)
(* A router finishes what it started and the tickers never stop.  Postgres *)
(* serves the waiters for a row in turn, hence strong fairness: a step may *)
(* find its row taken again and again.  Nobody has to call, come online or *)
(* finish a ticket.                                                        *)
(***************************************************************************)
FairSpec ==
  /\ Spec
  /\ \A r \in Routers : SF_vars(Step(r))
  /\ \A r \in Tickers : WF_vars(ScanUnassigned(r))
-----------------------------------------------------------------------------
\* The agents are read without a lock, so concurrent routers may pick the same
\* agent for his last free slot: a load exceeds the limit by at most one less
\* than there are routers, never by more.
OvershootBounded ==
  \A a \in Agents : current_load[a] <= max_concurrent[a] + Cardinality(Routers) - 1

\* r's call commits an assignment.
Assigns(r) ==
  /\ pc[r] \in {"charge", "uncharge"} /\ pc'[r] \in {"idle", "next"}
  /\ assigned' # assigned \/ current_load' # current_load

\* The row lock makes the assignment's history true: the agent a ticket is
\* taken from (from_agent_id) is the one who has it at the commit, and an
\* escalation without an explicit tier climbs one tier above that agent.
TakenFromHolder ==
  [][\A r \in Routers : Assigns(r) =>
       /\ prev[r] = assigned[tkt[r]]
       /\ reason[r] = "escalation" /\ tier[r] = None =>
            Role[pick[r]] = nextTier(Role[assigned[tkt[r]]])]_vars

\* Every call and every tick ends, in spite of escalations that lock two
\* agents' rows in opposite orders.
RoutersFinish == \A r \in Routers : pc[r] # "idle" ~> pc[r] = "idle"

\* A ticket does not stay unassigned while an agent who could take it stays
\* online with spare capacity (the batch must hold all waiting tickets).
Waiting(t) ==
  /\ assigned[t] = None /\ state[t] \in {"new", "reopened"}
  /\ \E a \in Skilled[t] : presence[a] # "offline" /\ current_load[a] < max_concurrent[a]

NoneLeftWaiting == \A t \in Tickets : ~ <>[]Waiting(t)

\* "SELECT ... FOR UPDATE on the ticket so concurrent routers can't race onto
\* the same ticket": auto-routing takes no ticket away from an agent.
AutoRouteTakesNothing ==
  [][\A r \in Routers : Assigns(r) /\ reason[r] = "auto_route" => assigned[tkt[r]] = None]_vars
=============================================================================
