-------------------------- MODULE TicketIngressProofs --------------------------
(***************************************************************************)
(* What TicketIngress promises for any number of messages, conversations,  *)
(* replicas, redeliveries and faults.                                      *)
(*                                                                         *)
(* The argument: whoever is past the conversation upsert holds the         *)
(* conversation's row (HoldsThread), so what it read of the ticket and of  *)
(* the stored platform ids still tells whether they exist when it commits  *)
(* (ReadIsCurrent, DupIsCurrent), although the state it read may be stale. *)
(***************************************************************************)
EXTENDS TicketIngress, FiniteSetTheorems, TLAPS

LEMMA TypeInit == Init => TypeOK
  BY BoundAssumption DEF Init, TypeOK, PCs

\* The stream's own steps keep the types.
LEMMA TypeQueue ==
  ASSUME TypeOK, NEW m \in Msgs, Publish(m) \/ AckWaitExpires(m) \/ SlowHandler(m)
  PROVE  TypeOK'
<1>1. CASE Publish(m)
  BY <1>1 DEF TypeOK, Publish, db, locks, tx
<1>2. CASE AckWaitExpires(m)
  BY <1>2 DEF TypeOK, AckWaitExpires, Overdue, db, locks, tx
<1>3. CASE SlowHandler(m)
  BY <1>3, BoundAssumption DEF TypeOK, SlowHandler, Overdue, db, locks, tx
<1> QED
  BY <1>1, <1>2, <1>3

\* An agent's state change keeps the types.
LEMMA TypeAgent ==
  ASSUME TypeOK, NEW th \in Threads, NEW s \in AgentTargets, ChangeState(th, s)
  PROVE  TypeOK'
  BY BoundAssumption DEF TypeOK, ChangeState, Transition, Validate, stream, locks, tx

\* A loop that is not idle has a message of the stream in hand.
InHand == \A w \in Workers : pc[w] # "idle" => msg[w] \in published

\* The loops' steps and their failures keep the types.
LEMMA TypeWorker ==
  ASSUME TypeOK, InHand, NEW w \in Workers, Step(w) \/ TxFails(w) \/ Crash(w)
  PROVE  TypeOK'
<1> USE MessageAssumption, BoundAssumption DEF Goto, Done, ReleaseLocks, Th
<1>1. CASE \E m \in Msgs : Deliver(w, m)
  BY <1>1 DEF TypeOK, Deliver, PCs, db, locks, tx
<1>2. CASE Terminate(w)
  BY <1>2 DEF TypeOK, InHand, Terminate, PCs, db, locks
<1>3. CASE IgnoreSignal(w) \/ BeginTx(w)
  BY <1>3 DEF TypeOK, InHand, IgnoreSignal, BeginTx, PCs, stream, db, locks, tx
<1>4. CASE UpsertCustomer(w)
  BY <1>4 DEF TypeOK, InHand, UpsertCustomer, Unknown, PCs, stream, db, locks
<1>5. CASE UpsertConversation(w)
  BY <1>5 DEF TypeOK, InHand, UpsertConversation, LockConversation, PCs, stream, db, tx
<1>6. CASE SelectTicket(w)
  BY <1>6 DEF TypeOK, InHand, SelectTicket, PCs, stream, db, locks
<1>7. CASE ReopenTicket(w)
  BY <1>7 DEF TypeOK, InHand, ReopenTicket, PCs, stream, db, tx
<1>8. CASE AppendMessage(w)
  BY <1>8 DEF TypeOK, InHand, AppendMessage, Seen, PCs, stream, db, locks
<1>9. CASE Commit(w)
  BY <1>9 DEF TypeOK, InHand, Commit, TicketAfter, PCs, States, stream, tx
<1>10. CASE Ack(w)
  BY <1>10 DEF TypeOK, InHand, Ack, PCs, db, locks
<1>11. CASE TxFails(w)
  BY <1>11 DEF TypeOK, InHand, TxFails, InTx, Nak, PCs, db
<1>12. CASE Crash(w)
  BY <1>12 DEF TypeOK, Crash, PCs, stream, db
<1> QED
  BY <1>1, <1>2, <1>3, <1>4, <1>5, <1>6, <1>7, <1>8, <1>9, <1>10, <1>11, <1>12
     DEF Step

LEMMA HandInit == Init => InHand
  BY DEF Init, InHand

LEMMA HandStep == TypeOK /\ InHand /\ [Next]_vars => InHand'
<1> SUFFICES ASSUME TypeOK, InHand, [Next]_vars PROVE InHand'
  OBVIOUS
<1> USE DEF InHand, Goto, Done
<1>1. CASE \E m \in Msgs : Publish(m) \/ AckWaitExpires(m) \/ SlowHandler(m)
  BY <1>1 DEF Publish, AckWaitExpires, SlowHandler
<1>2. ASSUME NEW w \in Workers, NEW m \in Msgs, Deliver(w, m) PROVE InHand'
  BY <1>2 DEF Deliver, TypeOK
<1>3. ASSUME NEW w \in Workers,
             \/ Terminate(w) \/ IgnoreSignal(w) \/ BeginTx(w) \/ UpsertCustomer(w)
             \/ UpsertConversation(w) \/ SelectTicket(w) \/ ReopenTicket(w)
             \/ AppendMessage(w) \/ Commit(w) \/ Ack(w) \/ TxFails(w) \/ Crash(w)
      PROVE  InHand'
  BY <1>3 DEF TypeOK, Terminate, IgnoreSignal, BeginTx, UpsertCustomer,
     UpsertConversation, SelectTicket, ReopenTicket, AppendMessage, Commit, Ack,
     TxFails, Crash, stream, InTx
<1>4. CASE \E th \in Threads, s \in AgentTargets : ChangeState(th, s)
  BY <1>4 DEF ChangeState, stream
<1>5. CASE UNCHANGED vars
  BY <1>5 DEF vars, stream
<1> QED
  BY <1>1, <1>2, <1>3, <1>4, <1>5 DEF Next, Step, Finished

LEMMA TypeStep == TypeOK /\ InHand /\ [Next]_vars => TypeOK'
<1> SUFFICES ASSUME TypeOK, InHand, [Next]_vars PROVE TypeOK'
  OBVIOUS
<1>1. CASE \E m \in Msgs : Publish(m) \/ AckWaitExpires(m) \/ SlowHandler(m)
  BY <1>1, TypeQueue
<1>2. CASE \E w \in Workers : Step(w) \/ TxFails(w) \/ Crash(w)
  BY <1>2, TypeWorker
<1>3. CASE \E th \in Threads, s \in AgentTargets : ChangeState(th, s)
  BY <1>3, TypeAgent
<1>4. CASE UNCHANGED vars
  BY <1>4 DEF TypeOK, vars, stream, db, locks, tx
<1> QED
  BY <1>1, <1>2, <1>3, <1>4 DEF Next, Finished

\* The variables have the types TypeOK gives them, in every reachable state.
THEOREM TypeCorrect == Spec => []TypeOK
<1>1. Init => TypeOK /\ InHand
  BY TypeInit, HandInit
<1> QED
  BY <1>1, TypeStep, HandStep, PTL DEF Spec
-----------------------------------------------------------------------------
(***************************************************************************)
(* The lock discipline.                                                    *)
(***************************************************************************)
Past == {"ticket", "reopen", "message", "commit"}

\* Whoever is past the conversation upsert holds its row.
HoldsThread == \A w \in Workers : pc[w] \in Past => convLock[Th(w)] = w

\* Only a customer's message opens a transaction.
TxIsMessage == \A w \in Workers : pc[w] \in InTx => Kind[msg[w]] = "message"

Locked == HoldsThread /\ TxIsMessage

LEMMA LockedInit == Init => Locked
  BY DEF Init, Locked, HoldsThread, TxIsMessage, Past, InTx

\* What a loop does leaves the other loops' locals and locks alone.
LEMMA Frame ==
  ASSUME TypeOK, NEW w \in Workers, NEW v \in Workers, v # w,
         Step(w) \/ TxFails(w) \/ Crash(w)
  PROVE  /\ pc'[v] = pc[v] /\ msg'[v] = msg[v]
         /\ newCust'[v] = newCust[v] /\ read'[v] = read[v] /\ dup'[v] = dup[v]
         /\ \A th \in Threads : convLock[th] = v => convLock'[th] = v
<1> USE DEF TypeOK, Goto, Done
<1>1. CASE \E m \in Msgs : Deliver(w, m)
  BY <1>1 DEF Deliver, locks, tx
<1>2. CASE \/ Terminate(w) \/ IgnoreSignal(w) \/ BeginTx(w) \/ UpsertCustomer(w)
           \/ SelectTicket(w) \/ ReopenTicket(w) \/ AppendMessage(w) \/ Ack(w)
  BY <1>2 DEF Terminate, IgnoreSignal, BeginTx, UpsertCustomer, SelectTicket,
     ReopenTicket, AppendMessage, Ack, locks, tx
<1>3. CASE UpsertConversation(w)
  BY <1>3, NoneAssumption DEF UpsertConversation, LockConversation, tx
<1>4. CASE Commit(w) \/ TxFails(w) \/ Crash(w)
  BY <1>4 DEF Commit, TxFails, Crash, ReleaseLocks, tx
<1> QED
  BY <1>1, <1>2, <1>3, <1>4 DEF Step

\* The environment touches neither the loops nor the conversations' locks, it
\* neither inserts nor deletes a row, and it acknowledges nothing.
LEMMA Environment ==
  ASSUME TypeOK, [Next]_vars, ~ \E w \in Workers : Step(w) \/ TxFails(w) \/ Crash(w)
  PROVE  /\ UNCHANGED <<pc, msg, tx, convLock, made, stored, customers, acked>>
         /\ \A th \in Threads : ticket'[th] = Absent <=> ticket[th] = Absent
<1>1. CASE \E m \in Msgs : Publish(m) \/ AckWaitExpires(m) \/ SlowHandler(m)
  BY <1>1 DEF Publish, AckWaitExpires, SlowHandler, db, locks
<1>2. CASE \E th \in Threads, s \in AgentTargets : ChangeState(th, s)
  BY <1>2 DEF TypeOK, ChangeState, Transition, Validate, States, Absent, stream, locks
<1>3. CASE UNCHANGED vars
  BY <1>3 DEF vars, stream, db, locks
<1> QED
  BY <1>1, <1>2, <1>3 DEF Next, Finished

LEMMA LockedStep == TypeOK /\ InHand /\ Locked /\ [Next]_vars => Locked'
<1> SUFFICES ASSUME TypeOK, InHand, Locked, [Next]_vars PROVE Locked'
  OBVIOUS
<1>1. CASE ~ \E w \in Workers : Step(w) \/ TxFails(w) \/ Crash(w)
  BY <1>1, Environment DEF Locked, HoldsThread, TxIsMessage, Th
<1>2. ASSUME NEW w \in Workers, Step(w) \/ TxFails(w) \/ Crash(w)
      PROVE  Locked'
  <2>1. ASSUME NEW v \in Workers, v # w
        PROVE  /\ pc'[v] \in Past => convLock'[Thread[msg'[v]]] = v
               /\ pc'[v] \in InTx => Kind[msg'[v]] = "message"
    BY <1>2, <2>1, Frame, MessageAssumption
       DEF Locked, HoldsThread, TxIsMessage, Th, InHand, TypeOK, Past
  <2>2. /\ pc'[w] \in Past => convLock'[Thread[msg'[w]]] = w
        /\ pc'[w] \in InTx => Kind[msg'[w]] = "message"
    <3> USE MessageAssumption DEF TypeOK, InHand, Locked, HoldsThread, TxIsMessage, Th,
            Past, InTx, Goto, Done
    <3>1. CASE \E m \in Msgs : Deliver(w, m)
      BY <3>1 DEF Deliver
    <3>2. CASE \/ Terminate(w) \/ IgnoreSignal(w) \/ Commit(w) \/ Ack(w)
               \/ TxFails(w) \/ Crash(w)
      BY <3>2 DEF Terminate, IgnoreSignal, Commit, Ack, TxFails, Crash
    <3>3. CASE BeginTx(w) \/ UpsertCustomer(w)
      BY <3>3 DEF BeginTx, UpsertCustomer
    <3>4. CASE UpsertConversation(w)
      BY <3>4 DEF UpsertConversation, LockConversation
    <3>5. CASE SelectTicket(w) \/ ReopenTicket(w) \/ AppendMessage(w)
      BY <3>5 DEF SelectTicket, ReopenTicket, AppendMessage, locks
    <3> QED
      BY <1>2, <3>1, <3>2, <3>3, <3>4, <3>5 DEF Step
  <2> QED
    BY <2>1, <2>2 DEF Locked, HoldsThread, TxIsMessage, Th
<1> QED
  BY <1>1, <1>2
-----------------------------------------------------------------------------
(***************************************************************************)
(* What a transaction read is still true when it commits.                  *)
(***************************************************************************)
ReadIsCurrent ==
  \A w \in Workers : pc[w] \in {"reopen", "message", "commit"} =>
    (read[w] = Absent <=> ticket[Th(w)] = Absent)

DupIsCurrent ==
  \A w \in Workers : pc[w] = "commit" => (dup[w] <=> Seen(msg[w]))

Current == ReadIsCurrent /\ DupIsCurrent

LEMMA CurrentInit == Init => Current
  BY DEF Init, Current, ReadIsCurrent, DupIsCurrent

\* Only a commit inserts rows.
LEMMA QuietLoop ==
  ASSUME NEW w \in Workers, Step(w) \/ TxFails(w) \/ Crash(w), ~Commit(w)
  PROVE  UNCHANGED <<ticket, made, stored, customers>>
<1>1. CASE \E m \in Msgs : Deliver(w, m)
  BY <1>1 DEF Deliver, db
<1>2. CASE ~ \E m \in Msgs : Deliver(w, m)
  BY <1>2 DEF Step, Terminate, IgnoreSignal, BeginTx, UpsertCustomer, db,
     UpsertConversation, SelectTicket, ReopenTicket, AppendMessage, Ack, TxFails, Crash
<1> QED
  BY <1>1, <1>2

\* A commit touches the rows of its own conversation and message, no others.
LEMMA CommitRows ==
  ASSUME TypeOK, InHand, NEW w \in Workers, Commit(w)
  PROVE  /\ msg[w] \in Msgs /\ Th(w) \in Threads
         /\ ticket'[Th(w)] = TicketAfter(w)
         /\ made'[Th(w)] = IF read[w] = Absent THEN made[Th(w)] + 1 ELSE made[Th(w)]
         /\ stored'[msg[w]] = IF dup[w] THEN stored[msg[w]] ELSE stored[msg[w]] + 1
         /\ \A th \in Threads \ {Th(w)} : ticket'[th] = ticket[th] /\ made'[th] = made[th]
         /\ \A m \in Msgs \ {msg[w]} : stored'[m] = stored[m]
<1> USE DEF TypeOK, Commit
<1>1. msg[w] \in Msgs /\ Th(w) \in Threads
  BY MessageAssumption DEF InHand, Th
<1>2. /\ ticket'[Th(w)] = TicketAfter(w)
      /\ \A th \in Threads \ {Th(w)} : ticket'[th] = ticket[th]
  BY <1>1
<1>3. /\ made'[Th(w)] = IF read[w] = Absent THEN made[Th(w)] + 1 ELSE made[Th(w)]
      /\ \A th \in Threads \ {Th(w)} : made'[th] = made[th]
  BY <1>1
<1>4. /\ stored'[msg[w]] = IF dup[w] THEN stored[msg[w]] ELSE stored[msg[w]] + 1
      /\ \A m \in Msgs \ {msg[w]} : stored'[m] = stored[m]
  BY <1>1
<1> QED
  BY <1>1, <1>2, <1>3, <1>4

\* A message of another conversation cannot change whether m was seen.
LEMMA SeenElsewhere ==
  ASSUME TypeOK, NEW m \in Msgs,
         \A n \in Msgs : Thread[n] = Thread[m] => stored'[n] = stored[n]
  PROVE  Seen(m)' <=> Seen(m)
  BY PidAssumption DEF Seen

LEMMA CurrentStep == TypeOK /\ InHand /\ Locked /\ Current /\ [Next]_vars => Current'
<1> SUFFICES ASSUME TypeOK, InHand, Locked, Current, [Next]_vars PROVE Current'
  OBVIOUS
<1>1. CASE ~ \E w \in Workers : Step(w) \/ TxFails(w) \/ Crash(w)
  <2>1. /\ UNCHANGED <<pc, msg, read, dup, stored>>
        /\ \A th \in Threads : ticket'[th] = Absent <=> ticket[th] = Absent
    BY <1>1, Environment DEF tx
  <2>2. \A w \in Workers : pc[w] # "idle" => msg[w] \in Msgs /\ Th(w) \in Threads
    BY MessageAssumption DEF InHand, TypeOK, Th
  <2> QED
    BY <2>1, <2>2 DEF Current, ReadIsCurrent, DupIsCurrent, Th, Seen
<1>2. ASSUME NEW w \in Workers, Step(w) \/ TxFails(w) \/ Crash(w)
      PROVE  Current'
  <2>1. ASSUME NEW v \in Workers, v # w, pc[v] \in {"reopen", "message", "commit"}
        PROVE  /\ msg[v] \in Msgs /\ Thread[msg[v]] \in Threads
               /\ ticket'[Thread[msg[v]]] = ticket[Thread[msg[v]]]
               /\ \A n \in Msgs : Thread[n] = Thread[msg[v]] => stored'[n] = stored[n]
    <3>1. msg[v] \in Msgs /\ Thread[msg[v]] \in Threads
      BY <2>1, MessageAssumption DEF InHand, TypeOK
    <3>2. CASE Commit(w)
      <4>1. pc[w] = "commit" /\ convLock[Th(w)] = w /\ convLock[Th(v)] = v
        BY <2>1, <3>2 DEF Commit, Locked, HoldsThread, Past
      <4>2. Thread[msg[v]] # Th(w)
        BY <2>1, <4>1 DEF Th
      <4> QED
        BY <3>1, <3>2, <4>2, CommitRows DEF Th
    <3>3. CASE ~Commit(w)
      BY <1>2, <3>1, <3>3, QuietLoop
    <3> QED
      BY <3>1, <3>2, <3>3
  <2>2. ASSUME NEW v \in Workers, v # w
        PROVE  /\ pc'[v] \in {"reopen", "message", "commit"} =>
                    (read'[v] = Absent <=> ticket'[Thread[msg'[v]]] = Absent)
               /\ pc'[v] = "commit" => (dup'[v] <=> Seen(msg[v])')
    <3>1. pc'[v] = pc[v] /\ msg'[v] = msg[v] /\ read'[v] = read[v] /\ dup'[v] = dup[v]
      BY <1>2, <2>2, Frame
    <3>2. CASE pc[v] \in {"reopen", "message", "commit"}
      BY <2>1, <2>2, <3>1, <3>2, SeenElsewhere DEF Current, ReadIsCurrent, DupIsCurrent, Th, Seen
    <3> QED
      BY <3>1, <3>2
  <2>3. /\ pc'[w] \in {"reopen", "message", "commit"} =>
             (read'[w] = Absent <=> ticket'[Thread[msg'[w]]] = Absent)
        /\ pc'[w] = "commit" => (dup'[w] <=> Seen(msg[w])')
    <3> USE DEF TypeOK, Current, ReadIsCurrent, DupIsCurrent, Th, Goto, Done
    <3>1. CASE \E m \in Msgs : Deliver(w, m)
      BY <3>1 DEF Deliver
    <3>2. CASE \/ Terminate(w) \/ IgnoreSignal(w) \/ BeginTx(w) \/ UpsertCustomer(w)
             \/ UpsertConversation(w) \/ Commit(w) \/ Ack(w) \/ TxFails(w) \/ Crash(w)
      BY <3>2 DEF Terminate, IgnoreSignal, BeginTx, UpsertCustomer, UpsertConversation,
         Commit, Ack, TxFails, Crash
    <3>3. CASE SelectTicket(w)
      BY <3>3 DEF SelectTicket, db
    <3>4. CASE ReopenTicket(w)
      BY <3>4 DEF ReopenTicket, db, tx
    <3>5. CASE AppendMessage(w)
      BY <3>5 DEF AppendMessage, db, Seen
    <3> QED
      BY <1>2, <3>1, <3>2, <3>3, <3>4, <3>5 DEF Step
  <2> QED
    BY <2>2, <2>3 DEF Current, ReadIsCurrent, DupIsCurrent, Th, Seen
<1> QED
  BY <1>1, <1>2
-----------------------------------------------------------------------------
(***************************************************************************)
(* The rows.                                                               *)
(***************************************************************************)
LEMMA OneTicketStep ==
  TypeOK /\ InHand /\ Current /\ OneTicketPerConversation /\ [Next]_vars
    => OneTicketPerConversation'
<1> SUFFICES ASSUME TypeOK, InHand, Current, OneTicketPerConversation, [Next]_vars
             PROVE  OneTicketPerConversation'
  OBVIOUS
<1>1. CASE ~ \E w \in Workers : Step(w) \/ TxFails(w) \/ Crash(w)
  BY <1>1, Environment DEF OneTicketPerConversation
<1>2. ASSUME NEW w \in Workers, Step(w) \/ TxFails(w) \/ Crash(w), ~Commit(w)
      PROVE  OneTicketPerConversation'
  BY <1>2, QuietLoop DEF OneTicketPerConversation
<1>3. ASSUME NEW w \in Workers, Commit(w)
      PROVE  OneTicketPerConversation'
  <2>1. read[w] = Absent <=> ticket[Th(w)] = Absent
    BY <1>3 DEF Commit, Current, ReadIsCurrent
  <2>2. TicketAfter(w) # Absent
    BY <2>1 DEF TicketAfter, Absent
  <2>3. made[Th(w)] = IF ticket[Th(w)] = Absent THEN 0 ELSE 1
    BY <1>3, CommitRows DEF OneTicketPerConversation
  <2>4. made'[Th(w)] = 1 /\ ticket'[Th(w)] # Absent
    BY <1>3, <2>1, <2>2, <2>3, CommitRows
  <2> QED
    BY <1>3, <2>4, CommitRows DEF OneTicketPerConversation
<1> QED
  BY <1>1, <1>2, <1>3

LEMMA PidStep ==
  TypeOK /\ InHand /\ Current /\ PidStoredOnce /\ [Next]_vars => PidStoredOnce'
<1> SUFFICES ASSUME TypeOK, InHand, Current, PidStoredOnce, [Next]_vars
             PROVE  PidStoredOnce'
  OBVIOUS
<1>1. CASE ~ \E w \in Workers : Step(w) \/ TxFails(w) \/ Crash(w)
  BY <1>1, Environment DEF PidStoredOnce
<1>2. ASSUME NEW w \in Workers, Step(w) \/ TxFails(w) \/ Crash(w), ~Commit(w)
      PROVE  PidStoredOnce'
  BY <1>2, QuietLoop DEF PidStoredOnce
<1>3. ASSUME NEW w \in Workers, Commit(w)
      PROVE  PidStoredOnce'
  <2>1. msg[w] \in Msgs /\ (dup[w] <=> Seen(msg[w]))
    BY <1>3, CommitRows DEF Commit, Current, DupIsCurrent
  <2>2. CASE dup[w]
    <3>1. \A m \in Msgs : stored'[m] = stored[m]
      BY <1>3, <2>1, <2>2, CommitRows
    <3> QED
      BY <3>1 DEF PidStoredOnce
  <2>3. CASE ~dup[w]
    <3>1. Pid[msg[w]] # NoPid =>
            \A n \in Msgs : Pid[n] = Pid[msg[w]] => stored[n] = 0
      BY <2>1, <2>3 DEF Seen, TypeOK
    <3>2. /\ stored'[msg[w]] = stored[msg[w]] + 1
          /\ \A m \in Msgs \ {msg[w]} : stored'[m] = stored[m]
      BY <1>3, <2>3, CommitRows
    <3> SUFFICES ASSUME NEW m \in Msgs, NEW n \in Msgs,
                        Pid[m] # NoPid, Pid[m] = Pid[n], stored'[m] > 0
                 PROVE  stored'[m] = 1 /\ (n # m => stored'[n] = 0)
      BY DEF PidStoredOnce
    <3>3. CASE Pid[m] = Pid[msg[w]]
      <4>1. stored[m] = 0 /\ stored[n] = 0 /\ stored[msg[w]] = 0
        BY <2>1, <3>1, <3>3
      <4>2. m = msg[w]
        BY <3>2, <4>1
      <4> QED
        BY <3>2, <4>1, <4>2
    <3>4. CASE Pid[m] # Pid[msg[w]]
      BY <2>1, <3>2, <3>4 DEF PidStoredOnce
    <3> QED
      BY <3>3, <3>4
  <2> QED
    BY <2>2, <2>3
<1> QED
  BY <1>1, <1>2, <1>3

(***************************************************************************)
(* What is acknowledged was stored.                                        *)
(***************************************************************************)
\* The row of m, or one with its platform id, is committed.
InDb(m) == stored[m] > 0 \/ Seen(m)

Handled ==
  /\ \A w \in Workers : pc[w] = "ack" /\ Kind[msg[w]] = "message" => InDb(msg[w])
  /\ AckedIsStored

\* No step deletes a message.
LEMMA Keeps ==
  ASSUME TypeOK, InHand, [Next]_vars, NEW m \in Msgs, InDb(m)
  PROVE  InDb(m)'
<1>1. \A n \in Msgs : stored'[n] >= stored[n]
  <2>1. CASE ~ \E w \in Workers : Step(w) \/ TxFails(w) \/ Crash(w)
    BY <2>1, Environment DEF TypeOK
  <2>2. ASSUME NEW w \in Workers, Step(w) \/ TxFails(w) \/ Crash(w), ~Commit(w)
        PROVE  \A n \in Msgs : stored'[n] >= stored[n]
    BY <2>2, QuietLoop DEF TypeOK
  <2>3. ASSUME NEW w \in Workers, Commit(w)
        PROVE  \A n \in Msgs : stored'[n] >= stored[n]
    BY <2>3, CommitRows DEF TypeOK
  <2> QED
    BY <2>1, <2>2, <2>3
<1>2. TypeOK'
  BY TypeStep
<1> QED
  BY <1>1, <1>2 DEF InDb, Seen, TypeOK

LEMMA HandledInit == Init => Handled
  BY DEF Init, Handled, AckedIsStored

LEMMA HandledStep ==
  TypeOK /\ InHand /\ Locked /\ Current /\ Handled /\ [Next]_vars => Handled'
<1> SUFFICES ASSUME TypeOK, InHand, Locked, Current, Handled, [Next]_vars
             PROVE  Handled'
  OBVIOUS
<1>1. \A m \in Msgs : InDb(m) => InDb(m)'
  BY Keeps
<1>2. acked \subseteq Msgs
  BY DEF TypeOK
<1>3. \A w \in Workers : pc[w] # "idle" => msg[w] \in Msgs
  BY DEF InHand, TypeOK
<1>4. CASE ~ \E w \in Workers : Step(w) \/ TxFails(w) \/ Crash(w)
  <2>1. UNCHANGED <<pc, msg, acked>>
    BY <1>4, Environment
  <2> QED
    BY <1>1, <1>2, <1>3, <2>1 DEF Handled, AckedIsStored, InDb
<1>5. ASSUME NEW w \in Workers, Step(w) \/ TxFails(w) \/ Crash(w)
      PROVE  Handled'
  <2>1. ASSUME NEW v \in Workers, v # w, pc'[v] = "ack", Kind[msg'[v]] = "message"
        PROVE  InDb(msg[v])'
    <3>1. pc[v] = "ack" /\ msg'[v] = msg[v]
      BY <1>5, <2>1, Frame
    <3>2. msg[v] \in Msgs /\ InDb(msg[v])
      BY <1>3, <2>1, <3>1 DEF Handled
    <3> QED
      BY <1>1, <3>1, <3>2 DEF InDb, Seen
  <2>2. ASSUME pc'[w] = "ack", Kind[msg'[w]] = "message"
        PROVE  InDb(msg[w])'
    <3>1. Commit(w)
      BY <1>5, <2>2 DEF TypeOK, Step, Deliver, Terminate, IgnoreSignal, BeginTx,
         UpsertCustomer, UpsertConversation, SelectTicket, ReopenTicket, AppendMessage,
         Ack, TxFails, Crash, Goto, Done
    <3>2. msg[w] \in Msgs /\ msg'[w] = msg[w] /\ (dup[w] => Seen(msg[w]))
      BY <3>1, CommitRows DEF Commit, Current, DupIsCurrent
    <3>3. CASE dup[w]
      BY <1>1, <3>2, <3>3 DEF InDb, Seen
    <3>4. CASE ~dup[w]
      <4>1. stored'[msg[w]] > 0
        BY <3>1, <3>2, <3>4, CommitRows DEF TypeOK
      <4> QED
        BY <3>2, <4>1 DEF InDb
    <3> QED
      BY <3>3, <3>4
  <2>3. ASSUME NEW m \in acked', Kind[m] = "message"
        PROVE  m \in Msgs /\ InDb(m)
    <3>1. m \in acked \/ (m = msg[w] /\ pc[w] = "ack")
      BY <1>5, <2>3 DEF Step, Deliver, Terminate, IgnoreSignal, BeginTx, UpsertCustomer,
         UpsertConversation, SelectTicket, ReopenTicket, AppendMessage, Commit, Ack,
         TxFails, Nak, Crash, stream
    <3> QED
      BY <1>2, <1>3, <2>3, <3>1 DEF Handled, AckedIsStored, InDb
  <2> QED
    BY <1>1, <2>1, <2>2, <2>3 DEF Handled, AckedIsStored, InDb
<1> QED
  BY <1>4, <1>5
-----------------------------------------------------------------------------
(***************************************************************************)
(* The theorems.                                                           *)
(***************************************************************************)
Safe == TypeOK /\ InHand /\ Locked /\ Current

LEMMA SafeAlways == Spec => []Safe
<1>1. Init => Safe
  BY TypeInit, HandInit, LockedInit, CurrentInit DEF Safe
<1>2. Safe /\ [Next]_vars => Safe'
  BY TypeStep, HandStep, LockedStep, CurrentStep DEF Safe
<1> QED
  BY <1>1, <1>2, PTL DEF Spec

\* First contact opens exactly one ticket per conversation (openOrReopenTicket
\* inside the transaction that upserted the conversation), for any number of
\* replicas, redeliveries and faults.
THEOREM OneTicket == Spec => []OneTicketPerConversation
<1>1. Init => OneTicketPerConversation
  BY DEF Init, OneTicketPerConversation
<1>2. Safe /\ OneTicketPerConversation /\ [Next]_vars => OneTicketPerConversation'
  BY OneTicketStep DEF Safe
<1> QED
  BY <1>1, <1>2, SafeAlways, PTL DEF Spec

\* A platform message is stored at most once (the EXISTS check of
\* appendInboundMessage under the conversation's lock), whatever the stream
\* redelivers and the provider retries.
THEOREM PlatformMessageOnce == Spec => []PidStoredOnce
<1>1. Init => PidStoredOnce
  BY DEF Init, PidStoredOnce
<1>2. Safe /\ PidStoredOnce /\ [Next]_vars => PidStoredOnce'
  BY PidStep DEF Safe
<1> QED
  BY <1>1, <1>2, SafeAlways, PTL DEF Spec

\* No acknowledged customer message is missing from the database
\* (Consumer.handle acks only after Handle has committed).
THEOREM NothingLost == Spec => []AckedIsStored
<1>1. Safe /\ Handled /\ [Next]_vars => Handled'
  BY HandledStep DEF Safe
<1>2. Handled => AckedIsStored
  BY DEF Handled
<1> QED
  BY <1>1, <1>2, HandledInit, SafeAlways, PTL DEF Spec
-----------------------------------------------------------------------------
(***************************************************************************)
(* Duplicate customers.  A loop that will insert a customer has read the   *)
(* table while it was still empty under the reference; the rows there are  *)
(* and the rows still to come never outnumber the loops.                   *)
(***************************************************************************)
Inserting(c) ==
  {w \in Workers : /\ pc[w] \in InTx \ {"customer"}
                   /\ newCust[w]
                   /\ CustomerOf[msg[w]] = c}

CustomersInv ==
  \A c \in Customers : customers[c] + Cardinality(Inserting(c)) <= Cardinality(Workers)

\* A set of loops within another is no larger than it.
LEMMA Fewer ==
  ASSUME IsFiniteSet(Workers), NEW S \in SUBSET Workers, NEW R \in SUBSET S
  PROVE  /\ Cardinality(R) \in Nat /\ Cardinality(S) \in Nat
         /\ Cardinality(R) <= Cardinality(S)
<1>1. IsFiniteSet(S)
  BY FS_Subset
<1>2. IsFiniteSet(R) /\ Cardinality(R) <= Cardinality(S)
  BY <1>1, FS_Subset
<1>. QED
  BY <1>1, <1>2, FS_CardinalityType

\* Only UpsertCustomer makes a loop one that will insert, and only under a
\* reference that no committed row carries.
LEMMA InsertingStep ==
  ASSUME TypeOK, InHand, [Next]_vars, NEW c \in Customers, customers[c] # 0
  PROVE  Inserting(c)' \subseteq Inserting(c)
<1>. SUFFICES ASSUME NEW v \in Inserting(c)' PROVE v \in Inserting(c)
  OBVIOUS
<1>1. CASE ~ \E w \in Workers : Step(w) \/ TxFails(w) \/ Crash(w)
  BY <1>1, Environment DEF Inserting, tx
<1>2. ASSUME NEW w \in Workers, Step(w) \/ TxFails(w) \/ Crash(w)
      PROVE  v \in Inserting(c)
  <2>1. CASE v # w
    BY <1>2, <2>1, Frame DEF Inserting
  <2>2. CASE v = w
    <3>. USE DEF TypeOK, Inserting, InTx, Goto, Done
    <3>1. CASE \E m \in Msgs : Deliver(w, m)
      BY <2>2, <3>1 DEF Deliver
    <3>2. CASE UpsertCustomer(w)
      BY <2>2, <3>2 DEF UpsertCustomer, Unknown
    <3>3. CASE ~UpsertCustomer(w) /\ ~ \E m \in Msgs : Deliver(w, m)
      BY <1>2, <2>2, <3>3
      DEF Step, Terminate, IgnoreSignal, BeginTx, UpsertConversation, SelectTicket,
          ReopenTicket, AppendMessage, Commit, Ack, TxFails, Crash, tx
    <3>. QED
      BY <3>1, <3>2, <3>3
  <2>. QED
    BY <2>1, <2>2
<1>. QED
  BY <1>1, <1>2

LEMMA CustomersStep ==
  ASSUME IsFiniteSet(Workers), TypeOK, InHand, CustomersInv, [Next]_vars
  PROVE  CustomersInv'
<1>. SUFFICES ASSUME NEW c \in Customers
              PROVE  customers'[c] + Cardinality(Inserting(c)') <= Cardinality(Workers)
  BY DEF CustomersInv
<1>. DEFINE I == Inserting(c)
            J == Inserting(c)'
<1>1. I \in SUBSET Workers /\ J \in SUBSET Workers /\ customers[c] \in Nat
  BY DEF Inserting, TypeOK
<1>2. customers[c] + Cardinality(I) <= Cardinality(Workers)
  BY DEF CustomersInv
<1>3. /\ Cardinality(I) \in Nat /\ Cardinality(J) \in Nat /\ Cardinality(Workers) \in Nat
      /\ Cardinality(J) <= Cardinality(Workers)
  BY <1>1, Fewer
<1>4. customers[c] # 0 => Cardinality(J) <= Cardinality(I)
  BY <1>1, Fewer, InsertingStep
<1>5. CASE customers'[c] = customers[c]
  BY <1>1, <1>2, <1>3, <1>4, <1>5
<1>6. ASSUME NEW w \in Workers, Commit(w), customers'[c] # customers[c]
      PROVE  customers'[c] + Cardinality(J) <= Cardinality(Workers)
  <2>1. msg[w] \in Msgs
    BY <1>6, CommitRows
  <2>2. newCust[w] /\ CustomerOf[msg[w]] = c /\ customers'[c] = customers[c] + 1
    BY <1>6, <2>1, MessageAssumption DEF Commit, TypeOK
  <2>3. w \in I
    BY <1>6, <2>2 DEF Inserting, InTx, Commit
  <2>4. J \subseteq I \ {w}
    <3>1. \A v \in Workers : v # w =>
            pc'[v] = pc[v] /\ msg'[v] = msg[v] /\ newCust'[v] = newCust[v]
      BY <1>6, Frame DEF Step
    <3>2. pc'[w] = "ack"
      BY <1>6 DEF Commit, Goto, TypeOK
    <3>. QED
      BY <3>1, <3>2 DEF Inserting, InTx
  <2>5. IsFiniteSet(I)
    BY <1>1, FS_Subset
  <2>6. Cardinality(I \ {w}) = Cardinality(I) - 1
    BY <2>3, <2>5, FS_RemoveElement
  <2>7. I \ {w} \in SUBSET Workers /\ J \in SUBSET (I \ {w})
    BY <1>1, <2>4
  <2>8. Cardinality(J) <= Cardinality(I \ {w})
    BY <2>7, Fewer
  <2>. QED
    BY <1>1, <1>2, <1>3, <2>2, <2>6, <2>8
<1>7. customers'[c] = customers[c] \/ \E w \in Workers : Commit(w)
  BY Environment, QuietLoop
<1>. QED
  BY <1>5, <1>6, <1>7

\* However many threads a new customer writes on at once, and whatever is
\* redelivered or fails, the rows under one external reference never exceed
\* the number of replicas (upsertCustomer's unlocked SELECT and INSERT).
THEOREM FewCustomers ==
  ASSUME IsFiniteSet(Workers)
  PROVE  Spec => []CustomersPerRef
<1>1. Init => CustomersInv
  <2>. SUFFICES ASSUME Init, NEW c \in Customers
                PROVE  customers[c] + Cardinality(Inserting(c)) <= Cardinality(Workers)
    BY DEF CustomersInv
  <2>1. Inserting(c) = {} /\ customers[c] = 0
    BY DEF Init, Inserting, InTx
  <2>. QED
    BY <2>1, FS_EmptySet, FS_CardinalityType
<1>2. TypeOK /\ InHand /\ CustomersInv /\ [Next]_vars => CustomersInv'
  BY CustomersStep
<1>3. TypeOK /\ CustomersInv => CustomersPerRef
  <2>. SUFFICES ASSUME TypeOK, CustomersInv, NEW c \in Customers
                PROVE  customers[c] <= Cardinality(Workers)
    BY DEF CustomersPerRef
  <2>1. Inserting(c) \in SUBSET Workers /\ customers[c] \in Nat
    BY DEF Inserting, TypeOK
  <2>2. Cardinality(Inserting(c)) \in Nat /\ Cardinality(Workers) \in Nat
    BY <2>1, Fewer
  <2>. QED
    BY <2>1, <2>2 DEF CustomersInv
<1>. QED
  BY <1>1, <1>2, <1>3, SafeAlways, PTL DEF Spec, Safe
=============================================================================
