------------------------------- MODULE Outbound -------------------------------
(***************************************************************************)
(* An agent's reply on its way to the customer: Repo.AppendMessage and the *)
(* gateway's OnOutbound listener store it and publish one job on           *)
(* outbound.<channel>.text; one worker program per channel (cmd/*-outbound)*)
(* pulls the job, asks Postgres for the route, calls the platform through  *)
(* internal/connector/*, writes a row of outbound_log and settles the job. *)
(*                                                                         *)
(* A platform's answer is a member of a small set; what matters of it is   *)
(* whether the customer got the text and what the sender makes of it.  A   *)
(* platform that answers "silent" (timeout, broken connection) or "server" *)
(* (5xx) may or may not have delivered.  Pull buffers are per process: a   *)
(* job waits in its worker's inbox with its AckWait running.               *)
(***************************************************************************)
EXTENDS Naturals, Sequences, FiniteSets

CONSTANTS
  Replies,     \* calls of POST /tickets/{id}/messages
  Tickets,
  TicketOf,    \* TicketOf[r]: the ticket a reply answers
  Channels,    \* channels the tickets of this instance may have
  MaxDeliver,  \* ConsumerConfig.MaxDeliver, 5 in every worker
  MaxFaults,   \* bound on crashes, late acknowledgements and database errors
  None

ASSUME TicketAssumption == TicketOf \in [Replies -> Tickets]
ASSUME BoundAssumption == MaxDeliver \in Nat \ {0} /\ MaxFaults \in Nat
ASSUME NoneAssumption == None \notin Replies \cup {"sent", "failed", "no_route", "agent_reply"}

VARIABLES
  channel,        \* channel[t]: the channel of the ticket's conversation
  reply,          \* how far the gateway got with a reply
  firstResponse,  \* firstResponse[t]: the reply whose time is first_response_at
  job, deliveries,\* the OUTBOUND stream
  inbox,          \* inbox[p]: jobs worker p has pulled
  pc, plan,       \* next step of the worker, its settlement
  copies,         \* copies[r]: texts the customer got for r
  rows,           \* rows[r]: kinds of the outbound_log rows of r
  unwritten,      \* replies a row of outbound_log could not be written for
  excuses,        \* excuses[r]: events after which r may be sent once more
  faults

vars == <<channel, reply, firstResponse, job, deliveries, inbox, pc, plan,
          copies, rows, unwritten, excuses, faults>>
gateway == <<channel, reply, firstResponse>>
records == <<rows, unwritten>>

NoPlan == [row |-> None, settle |-> None]
Plan(row, settle) == [row |-> row, settle |-> settle]
-----------------------------------------------------------------------------
(***************************************************************************)
(* The senders: which answers their SendText reports as a sent message and *)
(* which of its errors IsTransient calls transient.  A transport error is  *)
(* no *Error, so the three Graph senders report it as a permanent one.     *)
(* "local" is an error before anything left the process (an empty body,    *)
(* no token, no mailbox configuration).                                    *)
(***************************************************************************)
Delivers(a) == IF a \in {"ok", "garbled"} THEN {TRUE}
               ELSE IF a \in {"silent", "server"} THEN BOOLEAN ELSE {FALSE}

FbAnswers == {"ok", "garbled", "limited", "server", "refused", "silent", "local"}
FbTransient == {"limited", "server"}
IgAnswers == {"ok", "garbled", "limited", "server", "refused", "silent", "local"}
IgTransient == {"limited", "server"}
WaAnswers == {"ok", "garbled", "limited", "server", "refused", "silent", "local"}
WaTransient == {"limited", "server"}  \* "limited" has two more codes here
\* SMTP: an AUTH failure is permanent whatever its code, 4xx elsewhere is not,
\* and so is no transport error; "refused" is 5xx or a missing STARTTLS.
EmailAnswers == {"ok", "limited", "refused", "badauth", "silent", "local"}
EmailTransient == {"limited", "silent"}

\* Mutant: a transient error is acknowledged like a message that was sent.
MutSettlement(transient, a) ==
  CASE a = "noroute"     -> Plan("no_route", "term")
    [] a = "ok"          -> Plan("sent", "ack")
    [] a \in transient   -> Plan(None, "ack")
    [] OTHER             -> Plan("failed", "term")

\* handle of the Graph and SMTP workers: the row it writes, how it settles.
Settlement(transient, a) ==
  CASE a = "noroute"     -> Plan("no_route", "term")
    [] a = "ok"          -> Plan("sent", "ack")
    [] a \in transient   -> Plan(None, "nak")
    [] OTHER             -> Plan("failed", "term")

FbHandle(a)    == Settlement(FbTransient, a)
IgHandle(a)    == Settlement(IgTransient, a)
WaHandle(a)    == Settlement(WaTransient, a)
EmailHandle(a) == Settlement(EmailTransient, a)
\* The stub has no platform: its row is the shipment, an agent_reply.
StubHandle(a)  == Plan("agent_reply", "ack")

\* The durable consumers: the channels of their filters, PullMaxMessages.
FbWorker    == [serves |-> {"fb"}, prefetch |-> 4, answers |-> FbAnswers]
IgWorker    == [serves |-> {"ig"}, prefetch |-> 4, answers |-> IgAnswers]
WaWorker    == [serves |-> {"wa"}, prefetch |-> 4, answers |-> WaAnswers]
EmailWorker == [serves |-> {"email"}, prefetch |-> 2, answers |-> EmailAnswers]
\* The filter also names outbound.voice.sms, which the gateway never publishes.
StubWorker  == [serves |-> {"x", "widget"}, prefetch |-> 8, answers |-> {"none"}]

Worker == [fb |-> FbWorker, ig |-> IgWorker, wa |-> WaWorker,
           email |-> EmailWorker, stub |-> StubWorker]
Workers == DOMAIN Worker
Handle(p, a) == CASE p = "fb"    -> FbHandle(a)
                  [] p = "ig"    -> IgHandle(a)
                  [] p = "wa"    -> WaHandle(a)
                  [] p = "email" -> EmailHandle(a)
                  [] p = "stub"  -> StubHandle(a)
Routed(p) == IF p = "stub" THEN {} ELSE {"noroute"}

\* Mutant: every worker naks when its row cannot be written.
MutUnlogged(p, settle) == "nak"

\* What the failed INSERT of a row makes of the settlement.
Unlogged(p, settle) == IF p = "stub" THEN "nak" ELSE settle
-----------------------------------------------------------------------------
TypeOK ==
  /\ channel \in [Tickets -> Channels]
  /\ reply \in [Replies -> {"new", "note", "stored", "queued", "lost"}]
  /\ firstResponse \in [Tickets -> Replies \cup {None}]
  /\ job \in [Replies -> {"none", "ready", "out", "acked", "termed"}]
  /\ deliveries \in [Replies -> 0..MaxDeliver]
  /\ inbox \in [Workers -> Seq(Replies)]
  /\ \A p \in Workers : Len(inbox[p]) <= Worker[p].prefetch
  /\ pc \in [Workers -> {"idle", "handle", "log", "settle"}]
  /\ plan \in [Workers -> [row : {"sent", "failed", "no_route", "agent_reply", None},
                           settle : {"ack", "nak", "term", None}]]
  /\ copies \in [Replies -> Nat] /\ excuses \in [Replies -> Nat]
  /\ rows \in [Replies -> SUBSET {"sent", "failed", "no_route", "agent_reply"}]
  /\ unwritten \subseteq Replies
  /\ faults \in 0..MaxFaults

Init ==
  /\ channel \in [Tickets -> Channels]
  /\ reply = [r \in Replies |-> "new"]
  /\ firstResponse = [t \in Tickets |-> None]
  /\ job = [r \in Replies |-> "none"]
  /\ deliveries = [r \in Replies |-> 0]
  /\ inbox = [p \in Workers |-> <<>>]
  /\ pc = [p \in Workers |-> "idle"]
  /\ plan = [p \in Workers |-> NoPlan]
  /\ copies = [r \in Replies |-> 0]
  /\ rows = [r \in Replies |-> {}]
  /\ unwritten = {}
  /\ excuses = [r \in Replies |-> 0]
  /\ faults = 0

Fault == faults < MaxFaults /\ faults' = faults + 1
Ch(r) == channel[TicketOf[r]]
Held(r) == \E p \in Workers : \E i \in DOMAIN inbox[p] : inbox[p][i] = r
-----------------------------------------------------------------------------
(***************************************************************************)
(* The gateway.                                                            *)
(***************************************************************************)
\* Mutant: the column is written by every reply.
MutStamp(t, r) == r

\* COALESCE(first_response_at, created_at), under the ticket's row lock.
Stamp(t, r) == IF firstResponse[t] = None THEN r ELSE firstResponse[t]

\* One transaction: the message, and the first response of an outbound one.
AppendMessage(r) ==
  /\ reply[r] = "new"
  /\ \/ /\ reply' = [reply EXCEPT ![r] = "note"]
        /\ UNCHANGED firstResponse
     \/ /\ reply' = [reply EXCEPT ![r] = "stored"]
        /\ firstResponse' = [firstResponse EXCEPT ![TicketOf[r]] = Stamp(TicketOf[r], r)]
  /\ UNCHANGED <<channel, job, deliveries, inbox, pc, plan, copies, records, excuses, faults>>

\* After the commit: the channel is looked up and the job published.
OnOutbound(r) ==
  /\ reply[r] = "stored"
  /\ reply' = [reply EXCEPT ![r] = "queued"]
  /\ job' = [job EXCEPT ![r] = "ready"]
  /\ UNCHANGED <<channel, firstResponse, deliveries, inbox, pc, plan, copies, records, excuses, faults>>

\* The lookup or the publish fails, or the gateway dies: nobody learns of it.
LoseJob(r) ==
  /\ reply[r] = "stored"
  /\ Fault
  /\ reply' = [reply EXCEPT ![r] = "lost"]
  /\ UNCHANGED <<channel, firstResponse, job, deliveries, inbox, pc, plan, copies, records, excuses>>
-----------------------------------------------------------------------------
(***************************************************************************)
(* The stream and the workers' loops.                                      *)
(***************************************************************************)
\* Mutant: the iterator pulls without a bound.
MutRoom(p) == TRUE

Room(p) == Len(inbox[p]) < Worker[p].prefetch
Deliver(p, r) ==
  /\ job[r] = "ready" /\ Ch(r) \in Worker[p].serves
  /\ deliveries[r] < MaxDeliver
  /\ Room(p)
  /\ job' = [job EXCEPT ![r] = "out"]
  /\ deliveries' = [deliveries EXCEPT ![r] = @ + 1]
  /\ inbox' = [inbox EXCEPT ![p] = Append(@, r)]
  /\ UNCHANGED <<gateway, pc, plan, copies, records, excuses, faults>>

\* AckWait: 20, 30 or 60 seconds, against calls of up to 15 (Graph) or 40
\* (SMTP) each for every job that is before r in the inbox.
Lapse(r) ==
  /\ job[r] = "out" /\ Held(r)
  /\ Fault
  /\ job' = [job EXCEPT ![r] = "ready"]
  /\ excuses' = [excuses EXCEPT ![r] = @ + 1]
  /\ UNCHANGED <<gateway, deliveries, inbox, pc, plan, copies, records>>

AckWaitExpires(r) ==
  /\ job[r] = "out" /\ ~Held(r)
  /\ job' = [job EXCEPT ![r] = "ready"]
  /\ UNCHANGED <<gateway, deliveries, inbox, pc, plan, copies, records, excuses, faults>>

\* Mutant: the loop waits for a full batch.
MutPulled(p) == Len(inbox[p]) = Worker[p].prefetch

Pulled(p) == inbox[p] # <<>>
Take(p) ==
  /\ pc[p] = "idle" /\ Pulled(p)
  /\ pc' = [pc EXCEPT ![p] = "handle"]
  /\ UNCHANGED <<gateway, job, deliveries, inbox, plan, copies, records, excuses, faults>>

\* routeForTicket, then SendText.  A text that is out and will be sent again
\* is the platform's doubt, not the worker's mistake.
Send(p, a) ==
  /\ pc[p] = "handle"
  /\ LET r == Head(inbox[p]) IN
     \E delivered \in Delivers(a) :
       /\ copies' = [copies EXCEPT ![r] = IF delivered THEN @ + 1 ELSE @]
       /\ excuses' = [excuses EXCEPT ![r] =
                        IF delivered /\ a \notin {"ok", "garbled"} THEN @ + 1 ELSE @]
  /\ plan' = [plan EXCEPT ![p] = Handle(p, a)]
  /\ pc' = [pc EXCEPT ![p] = IF Handle(p, a).row = None THEN "settle" ELSE "log"]
  /\ UNCHANGED <<gateway, job, deliveries, inbox, records, faults>>

WriteRow(p) ==
  /\ pc[p] = "log"
  /\ rows' = [rows EXCEPT ![Head(inbox[p])] = @ \cup {plan[p].row}]
  /\ pc' = [pc EXCEPT ![p] = "settle"]
  /\ UNCHANGED <<gateway, job, deliveries, inbox, plan, copies, unwritten, excuses, faults>>

WriteFails(p) ==
  /\ pc[p] = "log"
  /\ Fault
  /\ unwritten' = unwritten \cup {Head(inbox[p])}
  /\ plan' = [plan EXCEPT ![p].settle = Unlogged(p, @)]
  /\ pc' = [pc EXCEPT ![p] = "settle"]
  /\ UNCHANGED <<gateway, job, deliveries, inbox, copies, rows, excuses>>

Settled(r) == job[r] \in {"acked", "termed"}
Settle(p) ==
  /\ pc[p] = "settle"
  /\ LET r == Head(inbox[p])
         to == [ack |-> "acked", term |-> "termed", nak |-> "ready"] IN
     job' = [job EXCEPT ![r] = IF Settled(r) THEN @ ELSE to[plan[p].settle]]
  /\ inbox' = [inbox EXCEPT ![p] = Tail(@)]
  /\ pc' = [pc EXCEPT ![p] = "idle"]
  /\ plan' = [plan EXCEPT ![p] = NoPlan]
  /\ UNCHANGED <<gateway, deliveries, copies, records, excuses, faults>>

\* The worker dies and is restarted; its inbox is gone.
Crash(p) ==
  /\ inbox[p] # <<>>
  /\ Fault
  /\ excuses' = [excuses EXCEPT ![Head(inbox[p])] =
                   IF pc[p] \in {"log", "settle"} THEN @ + 1 ELSE @]
  /\ inbox' = [inbox EXCEPT ![p] = <<>>]
  /\ pc' = [pc EXCEPT ![p] = "idle"]
  /\ plan' = [plan EXCEPT ![p] = NoPlan]
  /\ UNCHANGED <<gateway, job, deliveries, copies, records>>

Loop(p) ==
  \/ \E r \in Replies : Deliver(p, r)
  \/ Take(p)
  \/ \E a \in Worker[p].answers \cup Routed(p) : Send(p, a)
  \/ WriteRow(p)
  \/ Settle(p)

Served(r) == \E p \in Workers : Ch(r) \in Worker[p].serves
Over(r) == Settled(r) \/ (job[r] = "ready" /\ deliveries[r] = MaxDeliver)
Final(r) == \/ reply[r] \in {"note", "lost"}
            \/ reply[r] = "queued" /\ (Over(r) \/ ~Served(r))
Done ==
  /\ \A r \in Replies : Final(r)
  /\ UNCHANGED vars

Next ==
  \/ \E r \in Replies : \/ AppendMessage(r) \/ OnOutbound(r) \/ LoseJob(r)
                         \/ Lapse(r) \/ AckWaitExpires(r)
  \/ \E p \in Workers : Loop(p) \/ WriteFails(p) \/ Crash(p)
  \/ Done

\* The workers run and are restarted; whether an agent writes is their choice.
Fairness ==
  /\ \A p \in Workers : WF_vars(Loop(p))
  /\ \A r \in Replies : WF_vars(AckWaitExpires(r)) /\ WF_vars(OnOutbound(r))

Spec == Init /\ [][Next]_vars
FairSpec == Spec /\ Fairness
-----------------------------------------------------------------------------
(***************************************************************************)
(* Beyond one copy, the customer gets a text again only after the worker   *)
(* died with the text out, held it past its AckWait, or the platform left  *)
(* open whether it had it: a row that cannot be written (fb-outbound's     *)
(* "still Ack, else the customer gets the message twice") or a reply of    *)
(* the platform that cannot be read is no reason to send again.            *)
(***************************************************************************)
CopiesExcused == \A r \in Replies : copies[r] <= 1 + excuses[r]

(***************************************************************************)
(* outbound_log tells the agent the truth: a job of a real platform is     *)
(* acknowledged only if the customer got it, a sent row means the same, a  *)
(* no_route row of a job that never lapsed means nothing went out, and a   *)
(* settled job has a row unless the INSERT of one failed.                  *)
(***************************************************************************)
LogIsTrue == \A r \in Replies :
  /\ job[r] = "acked" /\ Ch(r) \notin Worker["stub"].serves => copies[r] > 0
  /\ "sent" \in rows[r] => copies[r] > 0
  /\ "no_route" \in rows[r] /\ excuses[r] = 0 => copies[r] = 0
  /\ Settled(r) => rows[r] # {} \/ r \in unwritten

(***************************************************************************)
(* The first response of a ticket is a stored reply and never an internal  *)
(* note, no later reply replaces it, and a ticket with a stored reply has  *)
(* one: the SLA clock of AppendMessage stops once and stays stopped.       *)
(***************************************************************************)
FirstResponseStands == [][\A t \in Tickets :
  /\ firstResponse[t] # None => firstResponse'[t] = firstResponse[t]
  /\ firstResponse'[t] # None => reply'[firstResponse'[t]] \in {"stored", "queued", "lost"}
  /\ (\E r \in Replies : TicketOf[r] = t /\ reply'[r] \in {"stored", "queued", "lost"})
       => firstResponse'[t] # None]_vars

(***************************************************************************)
(* A published job on a channel with a worker is acknowledged, terminated  *)
(* or has used up its deliveries, whatever answers the platform gives,     *)
(* while workers die and hold jobs too long: none stays in flight.         *)
(***************************************************************************)
EveryJobSettles == []<>(\A r \in Replies :
  reply[r] = "queued" /\ Served(r) => Over(r))
=============================================================================
