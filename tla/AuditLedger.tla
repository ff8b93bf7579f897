------------------------------ MODULE AuditLedger ------------------------------
(***************************************************************************)
(* internal/audit: events published to the AUDIT stream, the durable       *)
(* consumer "audit-writer" that every gateway process pulls, and the       *)
(* Writer that appends them to the hash-chained table audit_events.        *)
(*                                                                         *)
(* A row's hash covers its seq, and seqs are never given out twice: a hash *)
(* is named by the seq of its row, the genesis hash by 0.  Timestamps are  *)
(* taken under the same lock as seqs and the clocks of the processes are   *)
(* taken to agree, so ORDER BY ts, seq is the order of the seqs.           *)
(***************************************************************************)
EXTENDS Naturals, FiniteSets, FiniteSetsExt

CONSTANTS
  Events,      \* events the services publish
  MsgId,       \* MsgId[e]: Nats-Msg-Id, correlation id and action
  HasPayload,  \* events with a payload; the column is NOT NULL
  Writers,     \* gateway processes
  MaxDeliver,  \* ConsumerConfig.MaxDeliver
  MaxFaults,   \* bound on crashes, failed appends and slow handlers
  None

ASSUME EventAssumption ==
  /\ DOMAIN MsgId = Events
  /\ HasPayload \subseteq Events
ASSUME NoneAssumption == None \notin Writers \cup Events
ASSUME BoundAssumption == MaxDeliver \in Nat /\ MaxFaults \in Nat

VARIABLES
  \* JetStream
  published, ready, acked,
  deliveries,
  \* Postgres
  rows,        \* audit_events
  nextval,     \* the sequence behind seq
  advisory,    \* holder of the advisory lock
  \* processes
  pc,
  msg,         \* message in hand
  seq,         \* seq of the row being appended
  prevHash,    \* Writer.prevHash
  \* history
  alone,       \* no process has booted while another was up
  told,        \* no process has missed the outcome of its commit
  faults

stream == <<published, ready, acked, deliveries>>
db     == <<rows, nextval, advisory>>
ghosts == <<alone, told>>
vars   == <<stream, db, pc, msg, seq, prevHash, ghosts, faults>>

Row == [seq : Nat \ {0}, event : Events, prev_hash : Nat]

TypeOK ==
  /\ published \subseteq Events /\ ready \subseteq published /\ acked \subseteq published
  /\ deliveries \in [Events -> Nat]
  /\ rows \subseteq Row
  /\ nextval \in Nat \ {0}
  /\ advisory \in Writers \cup {None}
  /\ pc \in [Writers -> {"down", "idle", "lock", "commit", "ack"}]
  /\ msg \in [Writers -> Events \cup {None}]
  /\ seq \in [Writers -> Nat]
  /\ prevHash \in [Writers -> Nat]
  /\ alone \in BOOLEAN /\ told \in BOOLEAN
  /\ faults \in 0..MaxFaults

Init ==
  /\ published = {} /\ ready = {} /\ acked = {}
  /\ deliveries = [e \in Events |-> 0]
  /\ rows = {} /\ nextval = 1 /\ advisory = None
  /\ pc = [w \in Writers |-> "down"]
  /\ msg = [w \in Writers |-> None]
  /\ seq = [w \in Writers |-> 0]
  /\ prevHash = [w \in Writers |-> 0]
  /\ alone = TRUE /\ told = TRUE
  /\ faults = 0

Goto(w, label) == pc' = [pc EXCEPT ![w] = label]

Fault == faults < MaxFaults /\ faults' = faults + 1
-----------------------------------------------------------------------------
(***************************************************************************)
(* The stream.                                                             *)
(***************************************************************************)
\* The stream drops an event whose Msg-Id it has seen (within its duplicate
\* window, which is taken to last).
Publish(e) ==
  /\ e \notin published
  /\ \A f \in published : MsgId[f] # MsgId[e]
  /\ published' = published \cup {e}
  /\ ready' = ready \cup {e}
  /\ UNCHANGED <<acked, deliveries, db, pc, msg, seq, prevHash, ghosts, faults>>

\* Delivered, neither acknowledged nor ready again: what MaxAckPending counts.
Pending == published \ (ready \cup acked)

Receive(w, e) ==
  /\ pc[w] = "idle"
  /\ e \in ready
  /\ Pending = {}
  /\ deliveries[e] < MaxDeliver
  /\ ready' = ready \ {e}
  /\ deliveries' = [deliveries EXCEPT ![e] = @ + 1]
  /\ msg' = [msg EXCEPT ![w] = e]
  /\ Goto(w, "lock")
  /\ UNCHANGED <<published, acked, db, seq, prevHash, ghosts, faults>>

\* Nobody works on the message any more: AckWait runs out.
AckWaitExpires(e) ==
  /\ e \in Pending
  /\ \A w \in Writers : msg[w] # e
  /\ ready' = ready \cup {e}
  /\ UNCHANGED <<published, acked, deliveries, db, pc, msg, seq, prevHash, ghosts, faults>>

\* AckWait runs out while the handler is still at work.
SlowHandler(e) ==
  /\ Fault
  /\ e \in Pending
  /\ \E w \in Writers : msg[w] = e
  /\ ready' = ready \cup {e}
  /\ UNCHANGED <<published, acked, deliveries, db, pc, msg, seq, prevHash, ghosts>>
-----------------------------------------------------------------------------
(***************************************************************************)
(* The Writer.                                                             *)
(***************************************************************************)
\* Mutant: a restarted process begins with the genesis hash.
MutTail == 0

\* Mutant: an empty ledger (ErrNoRows) leaves the hash unset.
MutNoRows == IF rows = {} THEN None ELSE Max({r.seq : r \in rows})

\* ORDER BY ts DESC, seq DESC LIMIT 1, the genesis hash on an empty ledger.
Tail == Max({r.seq : r \in rows} \cup {0})

\* The process starts: Bootstrap, then Consumer.Run.  It takes no lock.
Bootstrap(w) ==
  /\ pc[w] = "down"
  /\ prevHash' = [prevHash EXCEPT ![w] = Tail]
  /\ alone' = (alone /\ \A v \in Writers : pc[v] = "down")
  /\ Goto(w, "idle")
  /\ UNCHANGED <<stream, db, msg, seq, told, faults>>

\* Mutant: no advisory lock.
MutLockFree == TRUE

LockFree == advisory = None

\* pg_advisory_xact_lock, then nextval under it.
Begin(w) ==
  /\ pc[w] = "lock"
  /\ LockFree
  /\ advisory' = w
  /\ seq' = [seq EXCEPT ![w] = nextval]
  /\ nextval' = nextval + 1
  /\ Goto(w, "commit")
  /\ UNCHANGED <<stream, rows, msg, prevHash, ghosts, faults>>

\* Mutant: a failed append leaves its connection, and so the lock, behind.
MutUnlocked(w) == advisory

\* The transaction ends, and the lock with it.
Unlocked(w) == IF advisory = w THEN None ELSE advisory

NewRow(w) == [seq |-> seq[w], event |-> msg[w], prev_hash |-> prevHash[w]]

\* INSERT and COMMIT; the next row will chain to this one.
Commit(w) ==
  /\ pc[w] = "commit"
  /\ msg[w] \in HasPayload
  /\ rows' = rows \cup {NewRow(w)}
  /\ prevHash' = [prevHash EXCEPT ![w] = seq[w]]
  /\ advisory' = None
  /\ Goto(w, "ack")
  /\ UNCHANGED <<stream, nextval, msg, seq, ghosts, faults>>

Done(w, label) ==
  /\ Goto(w, label)
  /\ msg' = [msg EXCEPT ![w] = None]
  /\ seq' = [seq EXCEPT ![w] = 0]

\* Mutant: the event of a failed append is acknowledged.
MutNak(w) == ready' = ready /\ acked' = acked \cup {msg[w]}

\* Nak: redeliver, unless another delivery has been acknowledged.
Nak(w) == ready' = ready \cup ({msg[w]} \ acked) /\ acked' = acked

\* Mutant: the hash is remembered before the commit.
MutCached(w) == [prevHash EXCEPT ![w] = IF seq[w] = 0 THEN @ ELSE seq[w]]

\* A failed append leaves the remembered hash alone.
Cached(w) == prevHash

\* A statement or the commit fails, the transaction is rolled back.
AppendFails(w) ==
  /\ Fault
  /\ pc[w] \in {"lock", "commit"}
  /\ Nak(w)
  /\ prevHash' = Cached(w)
  /\ advisory' = Unlocked(w)
  /\ Done(w, "idle")
  /\ UNCHANGED <<published, deliveries, rows, nextval, ghosts>>

\* An event without a payload is a NULL in a NOT NULL column, every time.
InsertRefused(w) ==
  /\ pc[w] = "commit"
  /\ msg[w] \notin HasPayload
  /\ Nak(w)
  /\ advisory' = Unlocked(w)
  /\ Done(w, "idle")
  /\ UNCHANGED <<published, deliveries, rows, nextval, prevHash, ghosts, faults>>

\* The row is committed, the answer is lost: Append returns an error.
CommitUnknown(w) ==
  /\ Fault
  /\ pc[w] = "commit"
  /\ msg[w] \in HasPayload
  /\ rows' = rows \cup {NewRow(w)}
  /\ told' = FALSE
  /\ Nak(w)
  /\ advisory' = None
  /\ Done(w, "idle")
  /\ UNCHANGED <<published, deliveries, nextval, prevHash, alone>>

Ack(w) ==
  /\ pc[w] = "ack"
  /\ acked' = acked \cup {msg[w]}
  /\ ready' = ready \ {msg[w]}
  /\ Done(w, "idle")
  /\ UNCHANGED <<published, deliveries, db, prevHash, ghosts, faults>>

\* The process stops; its open transaction is rolled back.
Crash(w) ==
  /\ Fault
  /\ pc[w] # "down"
  /\ advisory' = IF advisory = w THEN None ELSE advisory
  /\ prevHash' = [prevHash EXCEPT ![w] = 0]
  /\ Done(w, "down")
  /\ UNCHANGED <<stream, rows, nextval, ghosts>>

Step(w) ==
  \/ \E e \in Events : Receive(w, e)
  \/ Bootstrap(w) \/ Begin(w) \/ Commit(w) \/ InsertRefused(w) \/ Ack(w)

\* Every event is recorded, dropped or refused for good, everybody is idle.
Finished ==
  /\ \A e \in Events \ published : \E f \in published : MsgId[f] = MsgId[e]
  /\ \A w \in Writers : pc[w] = "idle"
  /\ \A e \in published \ acked : e \in ready /\ deliveries[e] = MaxDeliver
  /\ UNCHANGED vars

Next ==
  \/ \E e \in Events : Publish(e) \/ AckWaitExpires(e) \/ SlowHandler(e)
  \/ \E w \in Writers : Step(w) \/ AppendFails(w) \/ CommitUnknown(w) \/ Crash(w)
  \/ Finished

Spec == Init /\ [][Next]_vars

(***************************************************************************)
(* A process that stopped is started again, its loop keeps running and the *)
(* server redelivers.  Deliveries are bounded, so nobody waits for the     *)
(* advisory lock or for the one pending message for ever.                  *)
(***************************************************************************)
FairSpec ==
  /\ Spec
  /\ \A w \in Writers : WF_vars(Step(w))
  /\ \A e \in Events : WF_vars(AckWaitExpires(e))
-----------------------------------------------------------------------------
\* Verify walks the rows in order: each names the one before it.
ChainVerifies ==
  \A r \in rows : r.prev_hash = Max({q.seq : q \in {p \in rows : p.seq < r.seq}} \cup {0})

\* A single writer at a time (the next one starts after the last one stopped)
\* that always learns the outcome of its commits keeps the chain whole, over
\* failed appends, crashes, redeliveries and burnt sequence numbers.
SoleWriterChain == alone /\ told => ChainVerifies

\* Even when the chain forks, every row chains to an earlier committed row.
ChainsToARow ==
  \A r \in rows : r.prev_hash < r.seq /\ (r.prev_hash = 0 \/ \E q \in rows : q.seq = r.prev_hash)

\* nextval under the advisory lock: rows are committed in the order of their
\* seqs, so a reader of the tail never sees a row appear before it.
CommitsInOrder == [][\A r \in rows' \ rows, q \in rows : q.seq < r.seq]_vars

\* An acknowledged event is in the ledger.
AckedIsRecorded == acked \subseteq {r.event : r \in rows}

\* An event that the stream accepted is recorded in the end, if fewer things
\* go wrong than MaxDeliver allows for.
EventsAreRecorded ==
  \A e \in HasPayload : e \in published ~> \E r \in rows : r.event = e
=============================================================================
