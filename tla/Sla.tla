---------------------------------- MODULE Sla ----------------------------------
(***************************************************************************)
(* internal/sla: deadlines by priority, the risk of a ticket against them, *)
(* and the scheduler, which on every tick reads the tickets whose deadline *)
(* is near, raises the priority of each breached one and publishes the     *)
(* risk.  A tick evaluates what its query returned at the time it began,   *)
(* while agents answer and resolve.  (No program under cmd/ starts it yet. *)
(* Time is counted in units of which a policy's warning period is one or   *)
(* more; the lookahead of an hour covers every warning period.)            *)
(***************************************************************************)
EXTENDS Naturals, SequencesExt

CONSTANTS
  Tickets,
  Schedulers,   \* replicas that run Scheduler.Run
  DefaultPolicies, \* by priority, 1 the most urgent: [firstResponse, resolution, warn]
  Fallback,     \* the priority whose policy unknown ones get, 3 in the code
  MaxTime,      \* bound on the clock
  MaxFaults     \* bound on failed statements and publishes

Priorities == DOMAIN DefaultPolicies
PolicyAssumption ==
  /\ Fallback \in Priorities
  /\ \A p \in Priorities : p \in Nat \ {0} /\ 1..p \subseteq Priorities
FiniteAssumption == IsFiniteSet(Tickets) /\ IsFiniteSet(Schedulers)
BoundAssumption == MaxTime \in Nat /\ MaxFaults \in Nat

Kinds == {"first_response", "resolution"}

VARIABLES
  now,
  due,       \* due[t]: both deadlines, fixed when the ticket was created
  priority,
  open,      \* tickets in a state the scheduler's query asks for
  met,       \* met[t]: the kinds whose time stamp, first_response_at or resolved_at, is set
  todo,      \* todo[s]: the events this tick of s has still to handle
  pc,        \* "idle", "handle" or "publish"
  emitted,   \* events of the SLA stream
  late,      \* late[t]: priority raised for a deadline that had been met
  faults

vars == <<now, due, priority, open, met, todo, pc, emitted, late, faults>>

PolicyFor(p) == IF p \in Priorities THEN DefaultPolicies[p] ELSE DefaultPolicies[Fallback]
Deadlines(p) == [first_response |-> PolicyFor(p).firstResponse,
                 resolution |-> PolicyFor(p).resolution]

\* EvaluateFirstResponse and EvaluateResolution.
\* Mutant: a deadline that was met is evaluated like an open one.
MutRisk(t, k) == IF now >= due[t][k] THEN "breached" ELSE "ok"

Risk(t, k) ==
  CASE k \in met[t]                                       -> "ok"
    [] k \notin met[t] /\ now >= due[t][k]                -> "breached"
    [] k \notin met[t] /\ now < due[t][k]
         /\ now + PolicyFor(priority[t]).warn >= due[t][k] -> "at_risk"
    [] OTHER                                              -> "ok"

Events == [ticket : Tickets, kind : Kinds, risk : {"at_risk", "breached"}, priority : Nat]

TypeOK ==
  /\ now \in 0..MaxTime
  /\ \A t \in Tickets : priority[t] \in Priorities /\ met[t] \subseteq Kinds
  /\ \A s \in Schedulers : todo[s] \in Seq(Events) /\ (pc[s] = "idle" => todo[s] = <<>>)
  /\ pc \in [Schedulers -> {"idle", "handle", "publish"}]
  /\ emitted \subseteq Tickets \X Kinds \X {"at_risk", "breached"}
  /\ open \subseteq Tickets
  /\ late \in [Tickets -> Nat]
  /\ faults \in 0..MaxFaults

Init ==
  /\ now = 0
  /\ priority \in [Tickets -> Priorities]
  /\ due = [t \in Tickets |-> Deadlines(priority[t])]
  /\ met = [t \in Tickets |-> {}]
  /\ todo = [s \in Schedulers |-> <<>>] /\ pc = [s \in Schedulers |-> "idle"]
  /\ open = Tickets /\ emitted = {}
  /\ late = [t \in Tickets |-> 0]
  /\ faults = 0

Fault == faults < MaxFaults /\ faults' = faults + 1
-----------------------------------------------------------------------------
Elapse ==
  /\ now < MaxTime
  /\ now' = now + 1
  /\ UNCHANGED <<due, priority, open, met, todo, pc, emitted, late, faults>>

\* AppendMessage: an agent's first reply.
Answer(t) ==
  /\ "first_response" \notin met[t]
  /\ met' = [met EXCEPT ![t] = @ \cup {"first_response"}]
  /\ UNCHANGED <<now, due, priority, open, todo, pc, emitted, late, faults>>

\* ChangeState keeps the first resolved_at: a reopened ticket is read again,
\* but its resolution deadline is never looked at any more.
Resolve(t) ==
  /\ t \in open
  /\ open' = open \ {t}
  /\ met' = [met EXCEPT ![t] = @ \cup {"resolution"}]
  /\ UNCHANGED <<now, due, priority, todo, pc, emitted, late, faults>>

Reopen(t) ==
  /\ t \notin open
  /\ open' = open \cup {t}
  /\ UNCHANGED <<now, due, priority, met, todo, pc, emitted, late, faults>>

Event(t, k) == [ticket |-> t, kind |-> k, risk |-> Risk(t, k), priority |-> priority[t]]

Found(t) == {Event(t, k) : k \in {kind \in Kinds : Risk(t, kind) # "ok"}}
AtRisk == UNION {Found(t) : t \in open}

\* The rows of the query come in any order, and of a row first the first response.
RowByRow(events) == \A i, j \in DOMAIN events :
  i < j /\ events[i].ticket = events[j].ticket => j = i + 1 /\ events[i].kind = "first_response"

scanOnce(s) ==
  /\ pc[s] = "idle" /\ AtRisk # {}
  /\ \E events \in SetToSeqs(AtRisk) : RowByRow(events) /\ todo' = [todo EXCEPT ![s] = events]
  /\ pc' = [pc EXCEPT ![s] = "handle"]
  /\ UNCHANGED <<now, due, priority, open, met, emitted, late, faults>>

\* Mutant: the UPDATE trusts the priority the query returned.
MutRaised(p) == p - 1

Raised(p) == IF p - 1 > 1 THEN p - 1 ELSE 1
Raises(e) == e.risk = "breached" /\ e.priority > 1

After(s) == IF Tail(todo[s]) = <<>> THEN "idle" ELSE "handle"
handle(s) ==
  /\ pc[s] = "handle"
  /\ LET e == Head(todo[s]) IN
     /\ priority' = [priority EXCEPT ![e.ticket] = IF Raises(e) THEN Raised(@) ELSE @]
     /\ late' = [late EXCEPT ![e.ticket] = IF Raises(e) /\ e.kind \in met[e.ticket] THEN @ + 1 ELSE @]
  /\ pc' = [pc EXCEPT ![s] = "publish"]
  /\ UNCHANGED <<now, due, open, met, todo, emitted, faults>>

\* The Msg-Id is ticket, kind and risk.
publish(s) ==
  /\ pc[s] = "publish"
  /\ LET e == Head(todo[s]) IN emitted' = emitted \cup {<<e.ticket, e.kind, e.risk>>}
  /\ todo' = [todo EXCEPT ![s] = Tail(@)]
  /\ pc' = [pc EXCEPT ![s] = After(s)]
  /\ UNCHANGED <<now, due, priority, open, met, late, faults>>

\* The UPDATE or the publish fails: a warning, and the next row.
HandleFails(s) ==
  /\ pc[s] \in {"handle", "publish"}
  /\ Fault
  /\ todo' = [todo EXCEPT ![s] = Tail(@)]
  /\ pc' = [pc EXCEPT ![s] = After(s)]
  /\ UNCHANGED <<now, due, priority, open, met, emitted, late>>

Tick(s) == scanOnce(s) \/ handle(s) \/ publish(s)
Next ==
  \/ Elapse
  \/ \E t \in Tickets : Answer(t) \/ Resolve(t) \/ Reopen(t)
  \/ \E s \in Schedulers : Tick(s) \/ HandleFails(s)

Spec == Init /\ [][Next]_vars
\* The ticker fires again and again.
FairSpec == Spec /\ \A s \in Schedulers : WF_vars(Tick(s))
-----------------------------------------------------------------------------
(***************************************************************************)
(* A ticket whose deadline was met keeps its priority, but for what a tick *)
(* that had read it before still does: one step per scheduler and kind.    *)
(* However many schedulers raise it, it stays a priority (see TypeOK).     *)
(***************************************************************************)
CalmStaysCalm == \A t \in Tickets : late[t] <= Cardinality(Schedulers) * Cardinality(Kinds)

(***************************************************************************)
(* A breach is announced on the stream, in spite of failed statements and  *)
(* publishes, unless it is answered or resolved before.                    *)
(***************************************************************************)
EveryBreachIsAnnounced == []<>(\A t \in Tickets, k \in Kinds :
  t \in open /\ Risk(t, k) = "breached" => <<t, k, "breached">> \in emitted)
=============================================================================
