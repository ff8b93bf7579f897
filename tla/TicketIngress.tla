---------------------------- MODULE TicketIngress ----------------------------
(***************************************************************************)
(* internal/ticket/ingress.go: the durable JetStream consumer              *)
(* "ticket-ingress", pulled by one goroutine in every gateway replica,     *)
(* that turns connector events into customer, conversation, ticket and     *)
(* message rows, against agents who change the same tickets through        *)
(* Repo.ChangeState (TicketRepo shows that one such change is one legal    *)
(* step of the row).                                                       *)
(*                                                                         *)
(* Handle runs one READ COMMITTED transaction: each statement sees what is *)
(* committed when it starts, its own writes are invisible until Commit,    *)
(* and it holds the locks of the rows it wrote.  The conversation upsert   *)
(* locks the conversation's row, the UPDATE of a reopen the ticket's.      *)
(* Every connector sends a non-empty conversation_key, so a conversation   *)
(* is its thread; a thread belongs to one external customer.               *)
(***************************************************************************)
EXTENDS TicketState, Naturals, FiniteSets

CONSTANTS
  Msgs,         \* messages of the INGRESS stream
  Threads,      \* conversations, by (tenant, channel, thread)
  Customers,    \* external customer references
  Thread,       \* Thread[m]: the conversation of message m
  CustomerOf,   \* CustomerOf[m]: the external reference m carries
  Pid,          \* Pid[m]: platform_msg_id, NoPid if the connector has none
  NoPid,
  Kind,         \* Kind[m]: what Handle makes of m, see Kinds
  Workers,      \* gateway replicas, one consumer loop each
  AgentTargets, \* states agents move tickets to
  MaxDeliver,   \* ConsumerConfig.MaxDeliver
  MaxFaults,    \* bound on crashes, failed transactions and slow handlers
  MaxMoves,     \* bound on the agents' state changes
  None

Kinds == {"message", "signal", "malformed"}

ASSUME MessageAssumption ==
  /\ Thread \in [Msgs -> Threads]
  /\ CustomerOf \in [Msgs -> Customers]
  /\ Kind \in [Msgs -> Kinds]
  /\ DOMAIN Pid = Msgs
\* Platform ids are unique within a channel, so a retry names the same thread.
ASSUME PidAssumption ==
  \A m, n \in Msgs : Pid[m] = Pid[n] /\ Pid[m] # NoPid => Thread[m] = Thread[n]
ASSUME NoneAssumption == None \notin Workers \cup Msgs
ASSUME BoundAssumption == MaxDeliver \in Nat /\ MaxFaults \in Nat /\ MaxMoves \in Nat

VARIABLES
  \* JetStream
  published,   \* messages in the stream
  ready,       \* messages the consumer may hand out now
  acked,       \* messages acknowledged
  termed,      \* messages terminated
  deliveries,  \* deliveries so far
  \* Postgres, committed
  customers,   \* customers[c]: rows whose external_refs name c
  ticket,      \* ticket[th]: state of the conversation's ticket
  made,        \* made[th]: tickets inserted for the conversation
  stored,      \* stored[m]: rows of messages written for m
  convLock,    \* holder of the conversation's row lock
  rowLock,     \* holder of the ticket's row lock
  \* the consumer loops
  pc, msg,     \* next statement, message in hand
  newCust,     \* the transaction inserts a customer
  read,        \* ticket state the transaction read
  dup,         \* the EXISTS check found the platform id
  faults, moves

stream == <<published, ready, acked, termed, deliveries>>
db     == <<customers, ticket, made, stored>>
locks  == <<convLock, rowLock>>
tx     == <<newCust, read, dup>>
vars   == <<stream, db, locks, pc, msg, tx, faults, moves>>

PCs == {"idle", "handle", "customer", "conversation", "ticket", "reopen",
        "message", "commit", "ack"}
InTx == {"customer", "conversation", "ticket", "reopen", "message", "commit"}

TypeOK ==
  /\ published \subseteq Msgs /\ ready \subseteq published
  /\ acked \subseteq published /\ termed \subseteq published
  /\ deliveries \in [Msgs -> 0..MaxDeliver]
  /\ customers \in [Customers -> Nat]
  /\ ticket \in [Threads -> States \cup {Absent}]
  /\ made \in [Threads -> Nat]
  /\ stored \in [Msgs -> Nat]
  /\ convLock \in [Threads -> Workers \cup {None}]
  /\ rowLock \in [Threads -> Workers \cup {None}]
  /\ pc \in [Workers -> PCs]
  /\ msg \in [Workers -> Msgs \cup {None}]
  /\ newCust \in [Workers -> BOOLEAN]
  /\ read \in [Workers -> States \cup {Absent}]
  /\ dup \in [Workers -> BOOLEAN]
  /\ faults \in 0..MaxFaults /\ moves \in 0..MaxMoves

Init ==
  /\ published = {} /\ ready = {} /\ acked = {} /\ termed = {}
  /\ deliveries = [m \in Msgs |-> 0]
  /\ customers = [c \in Customers |-> 0]
  /\ ticket = [th \in Threads |-> Absent]
  /\ made = [th \in Threads |-> 0]
  /\ stored = [m \in Msgs |-> 0]
  /\ convLock = [th \in Threads |-> None]
  /\ rowLock = [th \in Threads |-> None]
  /\ pc = [w \in Workers |-> "idle"]
  /\ msg = [w \in Workers |-> None]
  /\ newCust = [w \in Workers |-> FALSE]
  /\ read = [w \in Workers |-> Absent]
  /\ dup = [w \in Workers |-> FALSE]
  /\ faults = 0 /\ moves = 0

Goto(w, label) == pc' = [pc EXCEPT ![w] = label]
Th(w) == Thread[msg[w]]
-----------------------------------------------------------------------------
(***************************************************************************)
(* The stream.  A connector publishes; the durable hands a ready message   *)
(* to one of the loops; it becomes ready again when it is naked or when    *)
(* AckWait runs out, whether or not its holder is still at work.           *)
(***************************************************************************)
Publish(m) ==
  /\ m \notin published
  /\ published' = published \cup {m}
  /\ ready' = ready \cup {m}
  /\ UNCHANGED <<acked, termed, deliveries, db, locks, pc, msg, tx, faults, moves>>

Deliver(w, m) ==
  /\ pc[w] = "idle"
  /\ m \in ready
  /\ deliveries[m] < MaxDeliver
  /\ ready' = ready \ {m}
  /\ deliveries' = [deliveries EXCEPT ![m] = @ + 1]
  /\ msg' = [msg EXCEPT ![w] = m]
  /\ Goto(w, "handle")
  /\ UNCHANGED <<published, acked, termed, db, locks, tx, faults, moves>>

Settled == acked \cup termed

\* Mutant: only a holder that is still alive lets the message time out.
MutOverdue(m) == m \in published \ (ready \cup Settled) /\ \E w \in Workers : msg[w] = m

\* m is delivered and neither acknowledged nor terminated.
Overdue(m) == m \in published \ (ready \cup Settled)

\* Nobody works on m any more: AckWait runs out.
AckWaitExpires(m) ==
  /\ Overdue(m)
  /\ \A w \in Workers : msg[w] # m
  /\ ready' = ready \cup {m}
  /\ UNCHANGED <<published, acked, termed, deliveries, db, locks, pc, msg, tx, faults, moves>>

\* The handler takes longer than AckWait: m becomes ready under its feet.
SlowHandler(m) ==
  /\ faults < MaxFaults
  /\ faults' = faults + 1
  /\ Overdue(m)
  /\ \E w \in Workers : msg[w] = m
  /\ ready' = ready \cup {m}
  /\ UNCHANGED <<published, acked, termed, deliveries, db, locks, pc, msg, tx, moves>>
-----------------------------------------------------------------------------
(***************************************************************************)
(* Consumer.handle and Consumer.Handle.                                    *)
(***************************************************************************)
\* The loop is done with its message and pulls the next one.
Done(w) ==
  /\ Goto(w, "idle")
  /\ msg' = [msg EXCEPT ![w] = None]
  /\ newCust' = [newCust EXCEPT ![w] = FALSE]
  /\ read' = [read EXCEPT ![w] = Absent]
  /\ dup' = [dup EXCEPT ![w] = FALSE]

\* The end of the transaction releases its row locks.
ReleaseLocks(w) ==
  /\ convLock' = [th \in Threads |-> IF convLock[th] = w THEN None ELSE convLock[th]]
  /\ rowLock' = [th \in Threads |-> IF rowLock[th] = w THEN None ELSE rowLock[th]]

\* Bad JSON is terminated.
Terminate(w) ==
  /\ pc[w] = "handle"
  /\ Kind[msg[w]] = "malformed"
  /\ termed' = termed \cup {msg[w]}
  /\ ready' = ready \ {msg[w]}
  /\ Done(w)
  /\ UNCHANGED <<published, acked, deliveries, db, locks, faults, moves>>

\* shouldCreateTicket is false: Handle returns nil, handle acks.
IgnoreSignal(w) ==
  /\ pc[w] = "handle"
  /\ Kind[msg[w]] = "signal"
  /\ Goto(w, "ack")
  /\ UNCHANGED <<stream, db, locks, msg, tx, faults, moves>>

BeginTx(w) ==
  /\ pc[w] = "handle"
  /\ Kind[msg[w]] = "message"
  /\ Goto(w, "customer")
  /\ UNCHANGED <<stream, db, locks, msg, tx, faults, moves>>

\* Mutant: the SELECT compares the whole JSONB column and never matches.
MutUnknown(c) == TRUE

\* No committed row carries the external reference.
Unknown(c) == customers[c] = 0

\* upsertCustomer: SELECT, and INSERT if nothing is committed under the ref.
UpsertCustomer(w) ==
  /\ pc[w] = "customer"
  /\ newCust' = [newCust EXCEPT ![w] = Unknown(CustomerOf[msg[w]])]
  /\ Goto(w, "conversation")
  /\ UNCHANGED <<stream, db, locks, msg, read, dup, faults, moves>>

\* Mutant: ON CONFLICT DO NOTHING plus a SELECT, which leaves no lock behind.
MutLockConversation(w) == UNCHANGED convLock

\* ON CONFLICT DO UPDATE waits for, and then holds, the conversation's row.
LockConversation(w) ==
  /\ convLock[Th(w)] = None
  /\ convLock' = [convLock EXCEPT ![Th(w)] = w]

UpsertConversation(w) ==
  /\ pc[w] = "conversation"
  /\ LockConversation(w)
  /\ Goto(w, "ticket")
  /\ UNCHANGED <<stream, db, rowLock, msg, tx, faults, moves>>

\* openOrReopenTicket: a plain SELECT of the newest ticket.
SelectTicket(w) ==
  /\ pc[w] = "ticket"
  /\ read' = [read EXCEPT ![w] = ticket[Th(w)]]
  /\ Goto(w, IF ticket[Th(w)] \in {"resolved", "closed"} THEN "reopen" ELSE "message")
  /\ UNCHANGED <<stream, db, locks, msg, newCust, dup, faults, moves>>

\* UPDATE tickets SET state = 'reopened' WHERE id = $1: waits for the row,
\* does not look at its state again.
ReopenTicket(w) ==
  /\ pc[w] = "reopen"
  /\ rowLock[Th(w)] = None
  /\ rowLock' = [rowLock EXCEPT ![Th(w)] = w]
  /\ Goto(w, "message")
  /\ UNCHANGED <<stream, db, convLock, msg, tx, faults, moves>>

\* Mutant: the EXISTS check is skipped.
MutSeen(m) == FALSE

\* A committed row carries m's platform id.
Seen(m) == Pid[m] # NoPid /\ \E n \in Msgs : Pid[n] = Pid[m] /\ stored[n] > 0

\* appendInboundMessage: EXISTS, then the INSERT unless it was seen.
AppendMessage(w) ==
  /\ pc[w] = "message"
  /\ dup' = [dup EXCEPT ![w] = Seen(msg[w])]
  /\ Goto(w, "commit")
  /\ UNCHANGED <<stream, db, locks, msg, newCust, read, faults, moves>>

\* The ticket w read was finished, so its transaction reopens it.
Reopens(w) == read[w] \in {"resolved", "closed"}

\* Mutant: the reopened ticket gets a label the enum does not have.
MutTicketAfter(w) ==
  IF read[w] = Absent THEN "new" ELSE IF Reopens(w) THEN "reopen" ELSE ticket[Th(w)]

\* The ticket's state once w commits: inserted, reopened or left alone.
TicketAfter(w) ==
  IF read[w] = Absent THEN "new" ELSE IF Reopens(w) THEN "reopened" ELSE ticket[Th(w)]

Commit(w) ==
  /\ pc[w] = "commit"
  /\ customers' = [customers EXCEPT ![CustomerOf[msg[w]]] = IF newCust[w] THEN @ + 1 ELSE @]
  /\ ticket' = [ticket EXCEPT ![Th(w)] = TicketAfter(w)]
  /\ made' = [made EXCEPT ![Th(w)] = IF read[w] = Absent THEN @ + 1 ELSE @]
  /\ stored' = [stored EXCEPT ![msg[w]] = IF dup[w] THEN @ ELSE @ + 1]
  /\ ReleaseLocks(w)
  /\ Goto(w, "ack")
  /\ UNCHANGED <<stream, msg, tx, faults, moves>>

\* Mutant: a failed transaction is acknowledged like a successful one.
MutNak(w) == ready' = ready /\ acked' = acked \cup {msg[w]}

\* Nak: redeliver, unless another delivery has settled the message already.
Nak(w) ==
  /\ ready' = ready \cup ({msg[w]} \ Settled)
  /\ acked' = acked

\* A statement or the commit fails: rollback and Nak.
TxFails(w) ==
  /\ faults < MaxFaults
  /\ faults' = faults + 1
  /\ pc[w] \in InTx
  /\ Nak(w)
  /\ ReleaseLocks(w)
  /\ Done(w)
  /\ UNCHANGED <<published, termed, deliveries, db, moves>>

Ack(w) ==
  /\ pc[w] = "ack"
  /\ acked' = acked \cup {msg[w]}
  /\ ready' = ready \ {msg[w]}
  /\ Done(w)
  /\ UNCHANGED <<published, termed, deliveries, db, locks, faults, moves>>

\* The replica dies: Postgres rolls its transaction back, the message stays
\* unacknowledged.
Crash(w) ==
  /\ faults < MaxFaults
  /\ faults' = faults + 1
  /\ msg[w] # None
  /\ ReleaseLocks(w)
  /\ Done(w)
  /\ UNCHANGED <<stream, db, moves>>
-----------------------------------------------------------------------------
(***************************************************************************)
(* Agents work on the tickets: one ChangeState, one legal step of the row. *)
(***************************************************************************)
ChangeState(th, to) ==
  /\ moves < MaxMoves
  /\ moves' = moves + 1
  /\ ticket[th] # Absent
  /\ rowLock[th] = None
  /\ Transition(ticket[th], to)
  /\ ticket' = [ticket EXCEPT ![th] = to]
  /\ UNCHANGED <<stream, customers, made, stored, locks, pc, msg, tx, faults>>

Step(w) ==
  \/ \E m \in Msgs : Deliver(w, m)
  \/ Terminate(w) \/ IgnoreSignal(w) \/ BeginTx(w) \/ UpsertCustomer(w)
  \/ UpsertConversation(w) \/ SelectTicket(w) \/ ReopenTicket(w)
  \/ AppendMessage(w) \/ Commit(w) \/ Ack(w)

\* Every message is settled or out of deliveries; agents may be done too.
Finished ==
  /\ published = Msgs
  /\ \A w \in Workers : pc[w] = "idle"
  /\ \A m \in Msgs \ Settled : deliveries[m] = MaxDeliver /\ m \in ready
  /\ UNCHANGED vars

Next ==
  \/ \E m \in Msgs : Publish(m) \/ AckWaitExpires(m) \/ SlowHandler(m)
  \/ \E w \in Workers : Step(w) \/ TxFails(w) \/ Crash(w)
  \/ \E th \in Threads, to \in AgentTargets : ChangeState(th, to)
  \/ Finished

Spec == Init /\ [][Next]_vars

(***************************************************************************)
(* The loops keep running (a crashed replica is restarted), the server     *)
(* redelivers, and Postgres serves the waiters for a row in turn.          *)
(***************************************************************************)
FairSpec ==
  /\ Spec
  /\ \A w \in Workers : WF_vars(Step(w)) /\ SF_vars(UpsertConversation(w))
  /\ \A m \in Msgs : WF_vars(AckWaitExpires(m)) /\ SF_vars(\E w \in Workers : Deliver(w, m))
-----------------------------------------------------------------------------
Rows == INSTANCE TicketRows WITH Tickets <- Threads, state <- ticket

\* What was acknowledged is in the database: a customer's message is never
\* lost by a crash, a rollback or a redelivery (Ack follows Commit).
AckedIsStored ==
  \A m \in acked : Kind[m] = "message" => stored[m] > 0 \/ Seen(m)

\* One platform message makes at most one row, over any redelivery, slow
\* handler, provider retry or second replica: the EXISTS check alone would
\* not do it, the conversation's lock serialises the checkers.
PidStoredOnce ==
  \A m, n \in Msgs :
    Pid[m] # NoPid /\ Pid[m] = Pid[n] /\ stored[m] > 0
      => stored[m] = 1 /\ (n # m => stored[n] = 0)

\* First contact opens one ticket per conversation, however many replicas
\* handle its first messages at the same time.
OneTicketPerConversation ==
  \A th \in Threads : made[th] = IF ticket[th] = Absent THEN 0 ELSE 1

\* upsertCustomer takes no lock between its SELECT and its INSERT, so a new
\* customer who writes on several threads may get several rows: at most one
\* per replica, because whoever selects after the first commit finds it.
CustomersPerRef == \A c \in Customers : customers[c] <= Cardinality(Workers)

\* Every message the stream took is settled, or the consumer gave up on it.
EveryMessageSettles ==
  \A m \in Msgs :
    m \in published ~> (m \in Settled \/ (deliveries[m] = MaxDeliver /\ m \in ready))

\* "Valid transitions are resolved->reopened and closed->reopened": with the
\* consumer at work the tickets still only move along the table's edges.
LegalHistory == Rows!Spec

\* "A duplicate inbound message from the same platform_msg_id is a no-op."
DuplicateIsNoOp ==
  [][\A w \in Workers : pc[w] = "commit" /\ pc'[w] = "ack" /\ dup[w]
                          => UNCHANGED <<ticket, stored>>]_vars
=============================================================================
