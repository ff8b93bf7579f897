--------------------------------- MODULE Csat ---------------------------------
(***************************************************************************)
(* internal/csat: a resolved ticket gets one survey, whose link goes to    *)
(* the customer as an outbound job, and the public endpoint records the    *)
(* customer's score.  The dispatcher runs in every gateway replica on one  *)
(* durable consumer of ticket.state_change.  (natsx creates no stream with *)
(* that subject, so the consumer cannot be created as deployed; the module *)
(* shows what the dispatcher does on a stream that has it.)                *)
(***************************************************************************)
EXTENDS Naturals, Sequences, FiniteSets

CONSTANTS
  EventOf,     \* calls of the OnStateChange listener: the e-th one's ticket and
               \* the state it went to; a ticket's are in the order of its moves
  Replicas,    \* dispatchers
  Browsers,    \* requests of POST /csat/{token}
  ScoreOf,     \* ScoreOf[b]: the score it carries
  MaxDeliver,  \* ConsumerConfig.MaxDeliver, 5 in the code
  MaxFaults,   \* bound on errors, crashes, slow handlers and revocations
  None

ASSUME BoundAssumption == MaxDeliver \in Nat \ {0} /\ MaxFaults \in Nat

Events == DOMAIN EventOf
Tickets == {EventOf[e].ticket : e \in Events}

VARIABLES
  job, deliveries,  \* the stream's messages
  window,       \* Msg-Ids it remembers
  pc, cur,      \* step of a dispatcher and its message
  surveys,      \* rows of csat_surveys, in the order of their creation
  links,        \* surveys whose outbound job was queued
  linkless,     \* surveys whose dispatcher failed before it could
  overlap,      \* tickets two dispatchers handled at once
  browser,      \* a browser's request: [pc, survey]
  faults

vars == <<job, deliveries, window, pc, cur, surveys, links, linkless, overlap,
          browser, faults>>
stream == <<job, deliveries, window>>
rows == <<surveys, links, linkless>>

Fault == faults < MaxFaults /\ faults' = faults + 1
Live(t) == {i \in DOMAIN surveys : surveys[i].ticket = t /\ ~surveys[i].revoked}
NoRequest == [pc |-> "idle", survey |-> 0]
Answered == [pc |-> "done", survey |-> 0]

TypeOK ==
  /\ job \in [Events -> {"none", "ready", "out", "acked", "dropped"}]
  /\ deliveries \in [Events -> 0..MaxDeliver]
  /\ pc \in [Replicas -> {"idle", "exists", "create", "queue", "ack"}]
  /\ cur \in [Replicas -> Events \cup {None}]
  /\ \A i \in DOMAIN surveys :
       /\ surveys[i].ticket \in Tickets /\ surveys[i].score \in {ScoreOf[b] : b \in Browsers} \cup {None}
       /\ {surveys[i].responded, surveys[i].revoked} \subseteq BOOLEAN
  /\ links \subseteq DOMAIN surveys /\ linkless \subseteq DOMAIN surveys
  /\ \A b \in Browsers : browser[b].pc \in {"idle", "store", "done"}
  /\ faults \in 0..MaxFaults

Init ==
  /\ job = [e \in Events |-> "none"] /\ deliveries = [e \in Events |-> 0]
  /\ window = {}
  /\ pc = [w \in Replicas |-> "idle"] /\ cur = [w \in Replicas |-> None]
  /\ surveys = <<>> /\ links = {} /\ linkless = {} /\ overlap = {}
  /\ browser = [b \in Browsers |-> NoRequest]
  /\ faults = 0
-----------------------------------------------------------------------------
\* The gateway's listener; the Msg-Id is ticket and new state.
OnStateChange(e) ==
  /\ job[e] = "none"
  /\ \A d \in 1..(e - 1) : EventOf[d].ticket = EventOf[e].ticket => job[d] # "none"
  /\ job' = [job EXCEPT ![e] = IF EventOf[e] \in window THEN "dropped" ELSE "ready"]
  /\ window' = window \cup {EventOf[e]}
  /\ UNCHANGED <<deliveries, pc, cur, rows, overlap, browser, faults>>

Forget(id) ==
  /\ window' = window \ {id}
  /\ UNCHANGED <<job, deliveries, pc, cur, rows, overlap, browser, faults>>

\* handle: only resolved tickets matter.
Deliver(w, e) ==
  /\ pc[w] = "idle" /\ job[e] = "ready" /\ deliveries[e] < MaxDeliver
  /\ job' = [job EXCEPT ![e] = "out"]
  /\ deliveries' = [deliveries EXCEPT ![e] = @ + 1]
  /\ cur' = [cur EXCEPT ![w] = e]
  /\ pc' = [pc EXCEPT ![w] = IF EventOf[e].to = "resolved" THEN "exists" ELSE "ack"]
  /\ overlap' = IF \E v \in Replicas \ {w} : pc[v] # "idle" /\ EventOf[cur[v]].ticket = EventOf[e].ticket
                THEN overlap \cup {EventOf[e].ticket} ELSE overlap
  /\ UNCHANGED <<window, rows, browser, faults>>

\* Mutant: only an answered survey counts.
MutAlready(t) == {i \in Live(t) : surveys[i].responded} # {}

Already(t) == Live(t) # {}
surveyExists(w) ==
  /\ pc[w] = "exists"
  /\ pc' = [pc EXCEPT ![w] = IF Already(EventOf[cur[w]].ticket) THEN "ack" ELSE "create"]
  /\ UNCHANGED <<stream, cur, rows, overlap, browser, faults>>

Create(w) ==
  /\ pc[w] = "create"
  /\ surveys' = Append(surveys, [ticket |-> EventOf[cur[w]].ticket, by |-> w, score |-> None,
                                 responded |-> FALSE, revoked |-> FALSE])
  /\ pc' = [pc EXCEPT ![w] = "queue"]
  /\ UNCHANGED <<stream, cur, links, linkless, overlap, browser, faults>>

Mine(w) == CHOOSE i \in DOMAIN surveys :
  surveys[i].by = w /\ \A j \in DOMAIN surveys : surveys[j].by = w => j <= i

queueOutbound(w) ==
  /\ pc[w] = "queue"
  /\ links' = links \cup {Mine(w)}
  /\ pc' = [pc EXCEPT ![w] = "ack"]
  /\ UNCHANGED <<stream, cur, surveys, linkless, overlap, browser, faults>>

Ack(w) ==
  /\ pc[w] = "ack"
  /\ job' = [job EXCEPT ![cur[w]] = "acked"]
  /\ pc' = [pc EXCEPT ![w] = "idle"] /\ cur' = [cur EXCEPT ![w] = None]
  /\ UNCHANGED <<deliveries, window, rows, overlap, browser, faults>>

\* Mutant: an error is acknowledged.
MutFailed(e) == "acked"

Failed(e) == "ready"

\* Any step fails and naks, or the gateway dies and AckWait brings the message
\* back: the survey it has created has no link, and will not get one.
Fails(w) ==
  /\ pc[w] # "idle"
  /\ Fault
  /\ job' = [job EXCEPT ![cur[w]] = Failed(cur[w])]
  /\ linkless' = IF pc[w] = "queue" THEN linkless \cup {Mine(w)} ELSE linkless
  /\ pc' = [pc EXCEPT ![w] = "idle"] /\ cur' = [cur EXCEPT ![w] = None]
  /\ UNCHANGED <<deliveries, window, surveys, links, overlap, browser>>

\* AckWait, 20 s, passes under the handler.
Lapse(w) ==
  /\ pc[w] # "idle" /\ job[cur[w]] = "out"
  /\ Fault
  /\ job' = [job EXCEPT ![cur[w]] = "ready"]
  /\ UNCHANGED <<deliveries, window, pc, cur, rows, overlap, browser>>
-----------------------------------------------------------------------------
\* Submit: FindByToken, and if it is open the UPDATE.  The link may have expired.
FindByToken(b, i, expired) ==
  /\ browser[b].pc = "idle" /\ i \in links
  /\ browser' = [browser EXCEPT ![b] =
       IF surveys[i].revoked \/ expired \/ surveys[i].responded
       THEN Answered ELSE [pc |-> "store", survey |-> i]]
  /\ UNCHANGED <<stream, pc, cur, rows, overlap, faults>>

\* Mutant: the UPDATE does not ask whether the survey was answered.
MutUnanswered(i) == TRUE

Unanswered(i) == ~surveys[i].responded
Submit(b) ==
  /\ browser[b].pc = "store"
  /\ LET i == browser[b].survey IN
     surveys' = IF Unanswered(i)
                THEN [surveys EXCEPT ![i].score = ScoreOf[b], ![i].responded = TRUE]
                ELSE surveys
  /\ browser' = [browser EXCEPT ![b] = Answered]
  /\ UNCHANGED <<stream, pc, cur, links, linkless, overlap, faults>>

Revoke(i) ==
  /\ i \in DOMAIN surveys /\ ~surveys[i].revoked
  /\ Fault
  /\ surveys' = [surveys EXCEPT ![i].revoked = TRUE, ![i].score = None]
  /\ UNCHANGED <<stream, pc, cur, links, linkless, overlap, browser>>

Step(w) == surveyExists(w) \/ Create(w) \/ queueOutbound(w) \/ Ack(w)

Next ==
  \/ \E e \in Events : OnStateChange(e)
  \/ \E id \in window : Forget(id)
  \/ \E w \in Replicas : Step(w) \/ Fails(w) \/ Lapse(w) \/ \E e \in Events : Deliver(w, e)
  \/ \E b \in Browsers : \/ Submit(b)
                         \/ \E i \in DOMAIN surveys, expired \in BOOLEAN : FindByToken(b, i, expired)
  \/ \E i \in DOMAIN surveys : Revoke(i)

Spec == Init /\ [][Next]_vars
Fairness ==
  /\ \A w \in Replicas : WF_vars(Step(w))
  /\ \A e \in Events : WF_vars(\E w \in Replicas : Deliver(w, e))
FairSpec == Spec /\ Fairness
-----------------------------------------------------------------------------
(***************************************************************************)
(* A ticket that is resolved again and again, and an event that is         *)
(* redelivered, has one survey unless two dispatchers handled it at once   *)
(* (nothing but the SELECT keeps them apart), and the survey's link is     *)
(* queued or its dispatcher failed right before.                           *)
(***************************************************************************)
OneSurvey ==
  /\ \A t \in Tickets \ overlap : Cardinality(Live(t)) <= 1
  /\ \A i \in DOMAIN surveys : i \in links \cup linkless \/ \E w \in Replicas : pc[w] = "queue" /\ Mine(w) = i

(***************************************************************************)
(* The first score stands: two requests that both found the survey open    *)
(* store one answer, and only Revoke takes it away.                        *)
(***************************************************************************)
ScoreStands == [][\A i \in DOMAIN surveys :
  surveys[i].score # None => surveys'[i].score = surveys[i].score
                             \/ (surveys'[i].revoked /\ ~surveys[i].revoked)]_vars

(***************************************************************************)
(* A resolution that reached the stream leads to a survey, through errors, *)
(* crashes and slow handlers that leave it a delivery.                     *)
(***************************************************************************)
EveryResolutionIsSurveyed == []<>(\A e \in Events :
  EventOf[e].to = "resolved" /\ job[e] \in {"ready", "out", "acked"}
    => \/ \E i \in DOMAIN surveys : surveys[i].ticket = EventOf[e].ticket
       \/ job[e] = "ready" /\ deliveries[e] = MaxDeliver)
=============================================================================
