----------------------------- MODULE RoutingProofs -----------------------------
(***************************************************************************)
(* What Routing promises for any number of tickets, agents and routers.    *)
(*                                                                         *)
(* The capacity argument: a router that has read an agent as free and not  *)
(* yet charged him is on its way (InFlight).  An agent's load together     *)
(* with the routers on their way to him never exceeds the limit by more    *)
(* than the number of routers minus one: whoever sets out finds the load   *)
(* below the limit, and a commit turns one router on its way into one unit *)
(* of load.                                                                *)
(***************************************************************************)
EXTENDS Routing, FiniteSetTheorems, TLAPS

LEMMA TypeInit == Init => TypeOK
  BY BoundAssumption DEF Init, TypeOK, States, Presences, PCs

\* A router at work has a ticket, one that has picked has an agent.
InHand ==
  \A r \in Routers :
    /\ pc[r] \in {"lock", "agents", "charge", "uncharge"} => tkt[r] \in Tickets
    /\ pc[r] \in {"charge", "uncharge"} => pick[r] \in Agents

LEMMA HandInit == Init => InHand
  BY DEF Init, InHand

LEMMA TypeScan ==
  ASSUME TypeOK, NEW r \in Routers,
         \/ ScanUnassigned(r) \/ ScanOffline(r) \/ NextUnassigned(r)
         \/ NextOrphan(r) \/ TickDone(r)
  PROVE  TypeOK'
<1> USE DEF TypeOK, tickets, agents, call, sweep, Goto, PCs, Reasons
<1>1. CASE ScanUnassigned(r)
  BY <1>1 DEF ScanUnassigned, FirstBatch, Unassigned
<1>2. CASE ScanOffline(r)
  BY <1>2 DEF ScanOffline, FirstBatch, OfflineOwned
<1>3. CASE NextUnassigned(r)
  BY <1>3 DEF NextUnassigned
<1>4. CASE NextOrphan(r)
  BY <1>4 DEF NextOrphan
<1>5. CASE TickDone(r)
  BY <1>5 DEF TickDone
<1> QED
  BY <1>1, <1>2, <1>3, <1>4, <1>5

LEMMA TypeCall ==
  ASSUME TypeOK, NEW r \in Routers, NEW t \in Tickets, NEW from \in Tiers \cup {None},
         CallRoute(r, t) \/ CallEscalate(r, t, from)
  PROVE  TypeOK'
  BY DEF TypeOK, CallRoute, CallEscalate, tickets, agents, sweep, Goto, PCs, Reasons

LEMMA TypeRoute ==
  ASSUME TypeOK, InHand, NEW r \in Routers,
         \/ SelectForUpdate(r) \/ PickAgent(r) \/ NoAgent(r) \/ CommitRoute(r)
         \/ Charge(r) \/ CommitEscalate(r) \/ BreakDeadlock(r)
  PROVE  TypeOK'
<1> USE DEF TypeOK, InHand, sweep, Goto, PCs, Return, Rollback, Unlocked, AgentsUnlocked
<1>1. CASE SelectForUpdate(r)
  BY <1>1 DEF SelectForUpdate, agents
<1>2. CASE PickAgent(r)
  BY <1>2 DEF PickAgent, Best, Eligible, tickets, agents
<1>3. CASE NoAgent(r)
  BY <1>3 DEF NoAgent
<1>4. CASE CommitRoute(r)
  BY <1>4 DEF CommitRoute, States
<1>5. CASE Charge(r)
  BY <1>5 DEF Charge, tickets, call
<1>6. CASE CommitEscalate(r)
  <2>1. current_load' \in [Agents -> Nat]
    BY <1>6 DEF CommitEscalate, Less
  <2> QED
    BY <1>6, <2>1 DEF CommitEscalate
<1>7. CASE BreakDeadlock(r)
  BY <1>7 DEF BreakDeadlock
<1> QED
  BY <1>1, <1>2, <1>3, <1>4, <1>5, <1>6, <1>7

LEMMA TypeEnvironment ==
  ASSUME TypeOK, Environment
  PROVE  TypeOK'
<1> USE BoundAssumption DEF TypeOK, Move, call, sweep
<1>1. ASSUME NEW a \in Agents, NEW p \in Presences, SetPresence(a, p) PROVE TypeOK'
  BY <1>1 DEF SetPresence, tickets
<1>2. ASSUME NEW t \in Tickets, Close(t) PROVE TypeOK'
  <2>1. current_load' \in [Agents -> Nat]
    <3>1. CASE assigned[t] = None
      BY <1>2, <3>1 DEF Close
    <3>2. CASE assigned[t] # None
      <4>1. current_load[assigned[t]] \in Nat
        BY <3>2
      <4>2. Less(current_load[assigned[t]]) \in Nat
        BY <4>1 DEF Less
      <4> QED
        BY <1>2, <3>2, <4>2 DEF Close
    <3> QED
      BY <3>1, <3>2
  <2> QED
    BY <1>2, <2>1 DEF Close, States
<1>3. ASSUME NEW t \in Tickets, NEW to \in Targets, ChangeState(t, to) PROVE TypeOK'
  BY <1>3 DEF ChangeState, Transition, Validate, agents
<1>4. ASSUME NEW t \in Tickets, NEW a \in Agents \cup {None}, Assign(t, a) PROVE TypeOK'
  BY <1>4 DEF Assign, agents, States
<1> QED
  BY <1>1, <1>2, <1>3, <1>4 DEF Environment

\* The kinds of steps, as the lemmas about them want them.
LEMMA Kinds ==
  ASSUME [Next]_vars
  PROVE  \/ \E r \in Routers : \/ ScanUnassigned(r) \/ ScanOffline(r) \/ NextUnassigned(r)
                              \/ NextOrphan(r) \/ TickDone(r)
         \/ \E r \in Routers : \/ SelectForUpdate(r) \/ PickAgent(r) \/ NoAgent(r) \/ CommitRoute(r)
                              \/ Charge(r) \/ CommitEscalate(r) \/ BreakDeadlock(r)
         \/ \E r \in Routers, t \in Tickets, from \in Tiers \cup {None} :
              CallRoute(r, t) \/ CallEscalate(r, t, from)
         \/ Environment
         \/ UNCHANGED vars
<1>1. CASE \E r \in Routers : ScanUnassigned(r) \/ Step(r)
  BY <1>1 DEF Step
<1>2. CASE \E r \in Routers, t \in Tickets : CallRoute(r, t)
  <2>1. PICK r \in Routers, t \in Tickets : CallRoute(r, t)
    BY <1>2
  <2>2. None \in Tiers \cup {None}
    OBVIOUS
  <2> QED
    BY <2>1, <2>2, Zenon
<1>3. CASE \E r \in Routers, t \in Tickets, from \in Tiers \cup {None} : CallEscalate(r, t, from)
  BY <1>3, Zenon
<1> QED
  BY <1>1, <1>2, <1>3, Zenon DEF Next

LEMMA TypeStep == TypeOK /\ InHand /\ [Next]_vars => TypeOK'
<1> SUFFICES ASSUME TypeOK, InHand, [Next]_vars PROVE TypeOK'
  OBVIOUS
<1>1. CASE UNCHANGED vars
  BY <1>1 DEF TypeOK, vars, tickets, agents, call, sweep
<1> QED
  BY <1>1, Kinds, TypeScan, TypeCall, TypeRoute, TypeEnvironment, Zenon

LEMMA HandStep == TypeOK /\ InHand /\ [Next]_vars => InHand'
<1> SUFFICES ASSUME TypeOK, InHand, [Next]_vars PROVE InHand'
  OBVIOUS
<1> USE DEF TypeOK, InHand, Goto
<1>1. ASSUME NEW r \in Routers,
             \/ ScanUnassigned(r) \/ ScanOffline(r) \/ NextUnassigned(r) \/ NextOrphan(r) \/ TickDone(r)
      PROVE  InHand'
  BY <1>1 DEF ScanUnassigned, ScanOffline, NextUnassigned, NextOrphan, TickDone, call
<1>2. ASSUME NEW r \in Routers, SelectForUpdate(r) \/ PickAgent(r) \/ Charge(r) PROVE InHand'
  BY <1>2 DEF SelectForUpdate, PickAgent, Best, Eligible, Charge, call
<1>3. ASSUME NEW r \in Routers,
             NoAgent(r) \/ CommitRoute(r) \/ CommitEscalate(r) \/ BreakDeadlock(r)
      PROVE  InHand'
  BY <1>3 DEF NoAgent, CommitRoute, CommitEscalate, BreakDeadlock, Return
<1>4. ASSUME NEW r \in Routers, NEW t \in Tickets, NEW from \in Tiers \cup {None},
             CallRoute(r, t) \/ CallEscalate(r, t, from)
      PROVE  InHand'
  BY <1>4 DEF CallRoute, CallEscalate
<1>5. CASE Environment \/ UNCHANGED vars
  BY <1>5 DEF Environment, SetPresence, Close, ChangeState, Assign, Move, vars, call
<1> QED
  BY <1>1, <1>2, <1>3, <1>4, <1>5, Kinds, Zenon

\* The variables have the types TypeOK gives them, in every reachable state.
THEOREM TypeCorrect == Spec => []TypeOK
  BY TypeInit, HandInit, TypeStep, HandStep, PTL DEF Spec
-----------------------------------------------------------------------------
(***************************************************************************)
(* Capacity.                                                               *)
(***************************************************************************)
InFlight(a) == {r \in Routers : pc[r] \in {"charge", "uncharge"} /\ pick[r] = a}

Bounded(a) ==
  current_load[a] + Cardinality(InFlight(a)) <= max_concurrent[a] + Cardinality(Routers) - 1

Capacity == \A a \in Agents : Bounded(a)

\* The routers on their way to an agent are finitely many, at most all of them.
LEMMA FlightFinite ==
  ASSUME NEW a \in Agents
  PROVE  /\ IsFiniteSet(InFlight(a))
         /\ Cardinality(InFlight(a)) \in Nat
         /\ Cardinality(Routers) \in Nat
         /\ Cardinality(InFlight(a)) <= Cardinality(Routers)
<1>1. IsFiniteSet(Routers)
  BY RouterAssumption, FS_Union DEF Routers
<1>2. InFlight(a) \subseteq Routers
  BY DEF InFlight
<1> QED
  BY <1>1, <1>2, FS_Subset, FS_CardinalityType

\* The same of the next state.
LEMMA FlightFiniteNext ==
  ASSUME NEW a \in Agents
  PROVE  /\ IsFiniteSet(InFlight(a)')
         /\ Cardinality(InFlight(a)') \in Nat
         /\ Cardinality(InFlight(a)') <= Cardinality(Routers)
<1>1. IsFiniteSet(Routers)
  BY RouterAssumption, FS_Union DEF Routers
<1>2. InFlight(a)' \subseteq Routers
  BY DEF InFlight
<1> QED
  BY <1>1, <1>2, FS_Subset, FS_CardinalityType

\* Nobody sets out for the agent and his load does not grow.
LEMMA NobodySetsOut ==
  ASSUME TypeOK, TypeOK', NEW a \in Agents, Bounded(a),
         InFlight(a)' \subseteq InFlight(a), current_load'[a] <= current_load[a]
  PROVE  Bounded(a)'
<1>1. Cardinality(InFlight(a)') <= Cardinality(InFlight(a))
  BY FlightFinite, FS_Subset
<1> QED
  BY <1>1, FlightFinite, FlightFiniteNext, AgentAssumption DEF TypeOK, Bounded

\* A router on its way arrives and becomes one unit of load.
LEMMA RouterArrives ==
  ASSUME TypeOK, TypeOK', NEW a \in Agents, Bounded(a), NEW r \in InFlight(a),
         InFlight(a)' \subseteq InFlight(a) \ {r}, current_load'[a] <= current_load[a] + 1
  PROVE  Bounded(a)'
<1>1. /\ IsFiniteSet(InFlight(a) \ {r})
      /\ Cardinality(InFlight(a) \ {r}) = Cardinality(InFlight(a)) - 1
  BY FlightFinite, FS_RemoveElement
<1>2. Cardinality(InFlight(a)') <= Cardinality(InFlight(a)) - 1
  BY <1>1, FS_Subset
<1> QED
  BY <1>2, FlightFinite, FlightFiniteNext, AgentAssumption DEF TypeOK, Bounded

\* A router sets out for an agent below the limit.
LEMMA RouterSetsOut ==
  ASSUME TypeOK, TypeOK', NEW a \in Agents,
         current_load'[a] = current_load[a], current_load[a] < max_concurrent[a]
  PROVE  Bounded(a)'
  BY FlightFinite, FlightFiniteNext, AgentAssumption DEF TypeOK, Bounded

LEMMA CapacityInit == Init => Capacity
<1> SUFFICES ASSUME Init, NEW a \in Agents PROVE Bounded(a)
  BY DEF Capacity
<1>1. InFlight(a) = {}
  BY DEF Init, InFlight
<1>2. Cardinality(Routers) \in Nat \ {0}
  BY FlightFinite, RouterAssumption, FS_EmptySet, FS_Union DEF Routers
<1> QED
  BY <1>1, <1>2, FS_EmptySet, AgentAssumption DEF Init, Bounded

LEMMA CapacityScan ==
  ASSUME TypeOK, TypeOK', Capacity, NEW r \in Routers, NEW a \in Agents,
         \/ ScanUnassigned(r) \/ ScanOffline(r) \/ NextUnassigned(r)
         \/ NextOrphan(r) \/ TickDone(r) \/ SelectForUpdate(r)
  PROVE  Bounded(a)'
<1>1. InFlight(a)' \subseteq InFlight(a)
  BY DEF TypeOK, InFlight, ScanUnassigned, ScanOffline, NextUnassigned, NextOrphan,
     TickDone, SelectForUpdate, Goto, call
<1>2. current_load'[a] <= current_load[a]
  BY DEF TypeOK, ScanUnassigned, ScanOffline, NextUnassigned, NextOrphan,
     TickDone, SelectForUpdate, agents
<1> QED
  BY <1>1, <1>2, NobodySetsOut DEF Capacity

LEMMA CapacityRoute ==
  ASSUME TypeOK, TypeOK', InHand, Capacity, NEW r \in Routers, NEW a \in Agents,
         \/ PickAgent(r) \/ NoAgent(r) \/ CommitRoute(r)
         \/ Charge(r) \/ CommitEscalate(r) \/ BreakDeadlock(r)
  PROVE  Bounded(a)'
<1> USE DEF TypeOK, Goto, Return
<1>1. CASE PickAgent(r)
  <2>1. PICK b \in Best(Eligible(r)) : pick' = [pick EXCEPT ![r] = b]
    BY <1>1 DEF PickAgent
  <2>2. current_load'[a] = current_load[a]
    BY <1>1 DEF PickAgent, agents
  <2>3. CASE a = b
    BY <2>1, <2>2, <2>3, RouterSetsOut DEF Best, Eligible, HasCapacity
  <2>4. CASE a # b
    <3>1. InFlight(a)' \subseteq InFlight(a)
      BY <1>1, <2>1, <2>4 DEF PickAgent, InFlight
    <3> QED
      BY <2>2, <3>1, NobodySetsOut DEF Capacity
  <2> QED
    BY <2>3, <2>4
<1>2. CASE NoAgent(r) \/ Charge(r) \/ BreakDeadlock(r)
  <2>1. InFlight(a)' \subseteq InFlight(a)
    BY <1>2 DEF NoAgent, Charge, BreakDeadlock, InFlight, call
  <2>2. current_load'[a] <= current_load[a]
    BY <1>2 DEF NoAgent, Charge, BreakDeadlock
  <2> QED
    BY <2>1, <2>2, NobodySetsOut DEF Capacity
<1>3. CASE CommitRoute(r) \/ CommitEscalate(r)
  <2>1. InFlight(a)' \subseteq InFlight(a) \ {r}
    BY <1>3 DEF CommitRoute, CommitEscalate, InFlight
  <2>2. CASE a = pick[r]
    <3>1. r \in InFlight(a)
      BY <1>3, <2>2 DEF CommitRoute, CommitEscalate, InFlight
    <3>2. current_load'[a] <= current_load[a] + 1
      BY <1>3, <2>2 DEF CommitRoute, CommitEscalate, Less
    <3> QED
      BY <2>1, <3>1, <3>2, RouterArrives DEF Capacity
  <2>3. CASE a # pick[r]
    <3>1. current_load'[a] <= current_load[a]
      BY <1>3, <2>3 DEF CommitRoute, CommitEscalate, Less
    <3> QED
      BY <2>1, <3>1, NobodySetsOut DEF Capacity
  <2> QED
    BY <2>2, <2>3
<1> QED
  BY <1>1, <1>2, <1>3

LEMMA CapacityOthers ==
  ASSUME TypeOK, TypeOK', Capacity, NEW a \in Agents,
         \/ \E r \in Routers, t \in Tickets, from \in Tiers \cup {None} :
              CallRoute(r, t) \/ CallEscalate(r, t, from)
         \/ Environment
         \/ UNCHANGED vars
  PROVE  Bounded(a)'
<1>1. CASE \E r \in Routers, t \in Tickets, from \in Tiers \cup {None} :
             CallRoute(r, t) \/ CallEscalate(r, t, from)
  <2>1. InFlight(a)' \subseteq InFlight(a) /\ current_load'[a] <= current_load[a]
    BY <1>1 DEF TypeOK, CallRoute, CallEscalate, InFlight, Goto, agents
  <2> QED
    BY <2>1, NobodySetsOut DEF Capacity
<1>2. CASE Environment \/ UNCHANGED vars
  <2>1. InFlight(a)' \subseteq InFlight(a)
    BY <1>2 DEF Environment, SetPresence, Close, ChangeState, Assign, Move, InFlight, vars, call
  <2>2. current_load'[a] <= current_load[a]
    <3>1. CASE \E t \in Tickets : Close(t)
      <4>1. PICK t \in Tickets : Close(t)
        BY <3>1
      <4>2. CASE assigned[t] = None
        BY <4>1, <4>2 DEF TypeOK, Close
      <4>3. CASE assigned[t] # None
        <5>1. assigned[t] \in Agents /\ current_load[assigned[t]] \in Nat
          BY <4>3 DEF TypeOK
        <5>2. Less(current_load[assigned[t]]) <= current_load[assigned[t]]
          BY <5>1 DEF Less
        <5>3. current_load' = [current_load EXCEPT ![assigned[t]] = Less(current_load[assigned[t]])]
          BY <4>1, <4>3 DEF Close
        <5> QED
          BY <5>1, <5>2, <5>3 DEF TypeOK
      <4> QED
        BY <4>2, <4>3
    <3>2. CASE UNCHANGED current_load
      BY <3>2 DEF TypeOK
    <3> QED
      BY <1>2, <3>1, <3>2 DEF Environment, SetPresence, ChangeState, Assign, vars, agents
  <2> QED
    BY <2>1, <2>2, NobodySetsOut DEF Capacity
<1> QED
  BY <1>1, <1>2

LEMMA CapacityStep == TypeOK /\ InHand /\ Capacity /\ [Next]_vars => Capacity'
<1> SUFFICES ASSUME TypeOK, InHand, Capacity, [Next]_vars, NEW a \in Agents
             PROVE  Bounded(a)'
  BY Zenon DEF Capacity
<1>1. TypeOK'
  BY TypeStep
<1> QED
  BY <1>1, Kinds, CapacityScan, CapacityRoute, CapacityOthers, Zenon

\* An agent's load never exceeds the limit by as much as there are routers,
\* although they read it without a lock.
THEOREM LoadBounded == Spec => []OvershootBounded
<1>1. Init => TypeOK /\ InHand /\ Capacity
  BY TypeInit, HandInit, CapacityInit
<1>2. TypeOK /\ InHand /\ Capacity /\ [Next]_vars => (TypeOK /\ InHand /\ Capacity)'
  BY TypeStep, HandStep, CapacityStep
<1>3. TypeOK /\ Capacity => OvershootBounded
  <2> SUFFICES ASSUME TypeOK, Capacity, NEW a \in Agents
               PROVE  current_load[a] <= max_concurrent[a] + Cardinality(Routers) - 1
    BY DEF OvershootBounded
  <2>1. Bounded(a)
    BY DEF Capacity
  <2> QED
    BY <2>1, FlightFinite, AgentAssumption DEF TypeOK, Bounded
<1> QED
  BY <1>1, <1>2, <1>3, PTL DEF Spec
-----------------------------------------------------------------------------
(***************************************************************************)
(* The row lock.  From the moment it is granted to the commit nobody else  *)
(* changes the ticket, so what the router read of it then is true then.    *)
(***************************************************************************)
Holds(r) ==
  /\ lock[tkt[r]] = r
  /\ prev[r] = assigned[tkt[r]]

ClimbsOne(r) ==
  reason[r] = "escalation" /\ tier[r] = None =>
    prev[r] \in Agents /\ Role[pick[r]] = nextTier(Role[prev[r]])

Held ==
  \A r \in Routers :
    /\ pc[r] \in {"agents", "charge", "uncharge"} => Holds(r)
    /\ pc[r] \in {"charge", "uncharge"} => ClimbsOne(r)

LEMMA HeldInit == Init => Held
  BY DEF Init, Held

\* Steps of a router that leave tickets, locks and the others' locals alone.
LEMMA HeldOwn ==
  ASSUME TypeOK, InHand, Held, NEW r \in Routers,
         \/ ScanUnassigned(r) \/ ScanOffline(r) \/ NextUnassigned(r)
         \/ NextOrphan(r) \/ TickDone(r) \/ Charge(r)
  PROVE  Held'
<1> USE DEF TypeOK, InHand, Held, Holds, ClimbsOne, Goto, tickets
<1>1. CASE Charge(r)
  BY <1>1 DEF Charge, call
<1>2. CASE ScanUnassigned(r) \/ ScanOffline(r) \/ TickDone(r)
  BY <1>2 DEF ScanUnassigned, ScanOffline, TickDone, call
<1>3. CASE NextUnassigned(r) \/ NextOrphan(r)
  BY <1>3 DEF NextUnassigned, NextOrphan
<1> QED
  BY <1>1, <1>2, <1>3

LEMMA HeldCall ==
  ASSUME TypeOK, InHand, Held, NEW r \in Routers, NEW t \in Tickets,
         NEW from \in Tiers \cup {None}, CallRoute(r, t) \/ CallEscalate(r, t, from)
  PROVE  Held'
  BY DEF TypeOK, InHand, Held, Holds, ClimbsOne, Goto, tickets, CallRoute, CallEscalate

LEMMA HeldLock ==
  ASSUME TypeOK, InHand, Held, NEW r \in Routers, SelectForUpdate(r)
  PROVE  Held'
<1> SUFFICES ASSUME NEW q \in Routers
             PROVE  /\ (pc[q] \in {"agents", "charge", "uncharge"} => Holds(q))'
                    /\ (pc[q] \in {"charge", "uncharge"} => ClimbsOne(q))'
  BY DEF Held
<1> USE DEF TypeOK, InHand, Held, Holds, ClimbsOne, Goto, SelectForUpdate, RowFree
<1>1. CASE q = r
  BY <1>1
<1>2. CASE q # r
  BY <1>2, NoneAssumption
<1> QED
  BY <1>1, <1>2

LEMMA HeldPick ==
  ASSUME TypeOK, InHand, Held, NEW r \in Routers, PickAgent(r)
  PROVE  Held'
<1> SUFFICES ASSUME NEW q \in Routers
             PROVE  /\ (pc[q] \in {"agents", "charge", "uncharge"} => Holds(q))'
                    /\ (pc[q] \in {"charge", "uncharge"} => ClimbsOne(q))'
  BY DEF Held
<1> USE DEF TypeOK, InHand, Held, Holds, ClimbsOne, Goto, PickAgent, tickets
<1>1. CASE q = r
  <2>1. PICK a \in Best(Eligible(r)) : pick' = [pick EXCEPT ![r] = a]
    OBVIOUS
  <2>2. a \in Eligible(r)
    BY DEF Best
  <2>3. ASSUME reason[r] = "escalation", tier[r] = None
        PROVE  prev[r] \in Agents /\ Role[a] = nextTier(Role[prev[r]])
    <3>1. /\ FromTier(r) \in {"agent", "senior_agent"}
          /\ Role[a] = nextTier(FromTier(r))
      BY <2>2, <2>3 DEF Eligible
    <3>2. prev[r] # None
      BY <2>3, <3>1, NoneAssumption DEF FromTier, Tiers
    <3> QED
      BY <2>3, <3>1, <3>2 DEF FromTier
  <2> QED
    BY <1>1, <2>1, <2>3
<1>2. CASE q # r
  BY <1>2
<1> QED
  BY <1>1, <1>2

LEMMA HeldEnd ==
  ASSUME TypeOK, InHand, Held, NEW r \in Routers,
         NoAgent(r) \/ CommitRoute(r) \/ CommitEscalate(r) \/ BreakDeadlock(r)
  PROVE  Held'
<1> SUFFICES ASSUME NEW q \in Routers
             PROVE  /\ (pc[q] \in {"agents", "charge", "uncharge"} => Holds(q))'
                    /\ (pc[q] \in {"charge", "uncharge"} => ClimbsOne(q))'
  BY DEF Held
<1> USE DEF TypeOK, Goto, Return, NoAgent, CommitRoute, CommitEscalate, BreakDeadlock
<1>1. CASE q = r
  BY <1>1
<1>2. CASE q # r
  <2> SUFFICES ASSUME pc[q] \in {"agents", "charge", "uncharge"}
               PROVE  Holds(q)' /\ (ClimbsOne(q) => ClimbsOne(q)')
    BY <1>2 DEF Held
  <2>1. Holds(q) /\ tkt[q] \in Tickets
    BY DEF Held, InHand
  <2>2. /\ tkt'[q] = tkt[q] /\ prev'[q] = prev[q] /\ pick'[q] = pick[q]
        /\ reason'[q] = reason[q] /\ tier'[q] = tier[q]
    BY <1>2
  <2>3. lock'[tkt[q]] = q
    BY <1>2, <2>1 DEF Holds, Rollback, Unlocked
  <2>4. assigned'[tkt[q]] = assigned[tkt[q]]
    <3>1. CASE NoAgent(r) \/ BreakDeadlock(r)
      BY <3>1
    <3>2. CASE CommitRoute(r) \/ CommitEscalate(r)
      <4>1. lock[tkt[r]] = r /\ tkt[r] \in Tickets
        BY <3>2 DEF Held, Holds, InHand
      <4>2. tkt[r] # tkt[q]
        BY <1>2, <2>1, <4>1 DEF Holds
      <4>3. assigned' = [assigned EXCEPT ![tkt[r]] = pick[r]]
        BY <3>2
      <4> QED
        BY <2>1, <4>2, <4>3
    <3> QED
      BY <3>1, <3>2
  <2> QED
    BY <2>1, <2>2, <2>3, <2>4 DEF Holds, ClimbsOne
<1> QED
  BY <1>1, <1>2

LEMMA HeldEnvironment ==
  ASSUME TypeOK, InHand, Held, Environment \/ UNCHANGED vars
  PROVE  Held'
<1> SUFFICES ASSUME NEW q \in Routers
             PROVE  /\ (pc[q] \in {"agents", "charge", "uncharge"} => Holds(q))'
                    /\ (pc[q] \in {"charge", "uncharge"} => ClimbsOne(q))'
  BY DEF Held
<1>1. pc' = pc /\ UNCHANGED call
  BY DEF Environment, SetPresence, Close, ChangeState, Assign, Move, vars
<1> SUFFICES ASSUME pc[q] \in {"agents", "charge", "uncharge"} PROVE Holds(q)'
  BY <1>1 DEF Held, ClimbsOne, call
<1>2. Holds(q) /\ tkt[q] \in Tickets
  BY DEF Held, InHand
<1>3. lock' = lock /\ assigned'[tkt[q]] = assigned[tkt[q]]
  <2>1. CASE \E t \in Tickets, a \in Agents \cup {None} : Assign(t, a)
    BY <1>2, <2>1, NoneAssumption DEF Assign, Holds, TypeOK
  <2>2. CASE UNCHANGED <<lock, assigned>>
    BY <2>2
  <2> QED
    BY <2>1, <2>2 DEF Environment, SetPresence, Close, ChangeState, vars, tickets
<1> QED
  BY <1>1, <1>2, <1>3 DEF Holds, call

LEMMA HeldStep == TypeOK /\ InHand /\ Held /\ [Next]_vars => Held'
<1> SUFFICES ASSUME TypeOK, InHand, Held, [Next]_vars PROVE Held'
  OBVIOUS
<1> QED
  BY Kinds, HeldOwn, HeldCall, HeldLock, HeldPick, HeldEnd, HeldEnvironment, Zenon

\* What a commit writes as from_agent_id and as the higher tier is true of the
\* ticket as it is at that moment.
THEOREM HistoryTrue == Spec => TakenFromHolder
<1> DEFINE Inv == TypeOK /\ InHand /\ Held
           True == \A r \in Routers : Assigns(r) =>
                     /\ prev[r] = assigned[tkt[r]]
                     /\ reason[r] = "escalation" /\ tier[r] = None =>
                          Role[pick[r]] = nextTier(Role[assigned[tkt[r]]])
<1>1. Init => Inv
  BY TypeInit, HandInit, HeldInit
<1>2. Inv /\ [Next]_vars => Inv'
  BY TypeStep, HandStep, HeldStep
<1>3. Inv /\ [Next]_vars => [True]_vars
  <2> SUFFICES ASSUME Inv, NEW r \in Routers, Assigns(r)
               PROVE  /\ prev[r] = assigned[tkt[r]]
                      /\ reason[r] = "escalation" /\ tier[r] = None =>
                           Role[pick[r]] = nextTier(Role[assigned[tkt[r]]])
    OBVIOUS
  <2>1. pc[r] \in {"charge", "uncharge"}
    BY DEF Assigns
  <2>2. Holds(r) /\ ClimbsOne(r)
    BY <2>1 DEF Held
  <2> QED
    BY <2>2 DEF Holds, ClimbsOne
<1> QED
  BY <1>1, <1>2, <1>3, PTL DEF Spec, TakenFromHolder
=============================================================================
