--------------------------- MODULE AuditLedgerProofs ---------------------------
(***************************************************************************)
(* What AuditLedger promises for any number of events, processes and       *)
(* faults.                                                                 *)
(*                                                                         *)
(* The argument: the advisory lock is held from nextval to the commit, so  *)
(* a committing process holds a seq above every row's (Locked); the hash a *)
(* process remembers is always a committed row's (Remembered); and as long *)
(* as nobody overlapped and every outcome was learnt, the hash the one     *)
(* process remembers is the tail's (Sole).                                 *)
(***************************************************************************)
EXTENDS AuditLedger, TLAPS

\* m is the seq of the last row, 0 on an empty ledger.
IsTail(m) ==
  /\ m \in Nat
  /\ m = 0 \/ \E q \in rows : q.seq = m
  /\ \A r \in rows : r.seq <= m

InHand == \A w \in Writers : pc[w] \in {"lock", "commit", "ack"} => msg[w] \in published

\* Who is about to commit holds the lock and a seq above all others.
Locked ==
  /\ \A r \in rows : r.seq < nextval
  /\ \A w \in Writers : prevHash[w] < nextval
  /\ \A w \in Writers :
       pc[w] = "commit" => /\ advisory = w
                           /\ seq[w] \in Nat \ {0} /\ seq[w] < nextval
                           /\ prevHash[w] < seq[w]
                           /\ \A r \in rows : r.seq < seq[w]

HasTail == \E m \in Nat : IsTail(m)

Base == TypeOK /\ InHand /\ Locked /\ HasTail

\* The largest of a set of numbers that has one.
LEMMA MaxIs ==
  ASSUME NEW S \in SUBSET Nat, NEW m \in S, \A x \in S : x <= m
  PROVE  Max(S) = m
<1>1. m \in S /\ \A y \in S : m >= y
  OBVIOUS
<1>2. Max(S) \in S /\ \A y \in S : Max(S) >= y
  BY <1>1, Zenon DEF Max
<1>3. Max(S) >= m /\ m >= Max(S)
  BY <1>1, <1>2
<1>4. Max(S) \in Nat
  BY <1>2
<1> QED
  BY <1>3, <1>4

LEMMA TailIs ==
  ASSUME TypeOK, NEW m \in Nat, IsTail(m)
  PROVE  Tail = m
<1> DEFINE S == {r.seq : r \in rows} \cup {0}
<1>1. S \in SUBSET Nat
  BY DEF TypeOK, Row
<1>2. m \in S /\ \A x \in S : x <= m
  BY DEF IsTail
<1> HIDE DEF S
<1>3. Max(S) = m
  BY <1>1, <1>2, MaxIs
<1> QED
  BY <1>3 DEF S, Tail

LEMMA TailType == Base => Tail \in Nat /\ IsTail(Tail)
  BY TailIs DEF Base, HasTail

\* The kinds of steps.
LEMMA Kinds ==
  ASSUME [Next]_vars
  PROVE  \/ \E e \in Events : Publish(e) \/ AckWaitExpires(e) \/ SlowHandler(e)
         \/ \E w \in Writers : (\E e \in Events : Receive(w, e)) \/ Begin(w) \/ Ack(w)
         \/ \E w \in Writers : Bootstrap(w)
         \/ \E w \in Writers : Commit(w) \/ CommitUnknown(w)
         \/ \E w \in Writers : AppendFails(w) \/ InsertRefused(w) \/ Crash(w)
         \/ UNCHANGED vars
  BY Zenon DEF Next, Step, Finished

LEMMA BaseInit == Init => Base
  BY BoundAssumption DEF Init, Base, TypeOK, InHand, Locked, HasTail, IsTail

\* Everything but Bootstrap and the commits leaves the remembered hashes and
\* the rows alone (a crash forgets the hash).
LEMMA BaseQuiet ==
  ASSUME Base,
         \/ \E e \in Events : Publish(e) \/ AckWaitExpires(e) \/ SlowHandler(e)
         \/ \E w \in Writers : (\E e \in Events : Receive(w, e)) \/ Begin(w) \/ Ack(w)
         \/ \E w \in Writers : AppendFails(w) \/ InsertRefused(w) \/ Crash(w)
         \/ UNCHANGED vars
  PROVE  Base'
<1> USE BoundAssumption DEF Base, TypeOK, InHand, Locked, HasTail, IsTail, Goto, Done, Fault
<1> USE DEF stream, db, ghosts
<1>1. CASE \E e \in Events : Publish(e) \/ AckWaitExpires(e) \/ SlowHandler(e)
  BY <1>1 DEF Publish, AckWaitExpires, SlowHandler, Pending
<1>2. CASE \E w \in Writers : \E e \in Events : Receive(w, e)
  BY <1>2 DEF Receive
<1>3. CASE \E w \in Writers : Begin(w)
  <2>1. PICK w \in Writers : Begin(w)
    BY <1>3
  <2>2. \A v \in Writers : pc[v] # "commit"
    BY <2>1, NoneAssumption DEF Begin, LockFree
  <2>3. \A r \in rows : r.seq \in Nat
    BY DEF Row
  <2>4. TypeOK' /\ InHand' /\ HasTail'
    BY <2>1 DEF Begin
  <2>5. Locked'
    BY <2>1, <2>2, <2>3 DEF Begin
  <2> QED
    BY <2>4, <2>5
<1>4. CASE \E w \in Writers : Ack(w)
  BY <1>4 DEF Ack
<1>5. CASE \E w \in Writers : AppendFails(w)
  BY <1>5, NoneAssumption DEF AppendFails, Nak, Cached, Unlocked
<1>6. CASE \E w \in Writers : InsertRefused(w)
  BY <1>6, NoneAssumption DEF InsertRefused, Nak, Unlocked
<1>7. CASE \E w \in Writers : Crash(w)
  BY <1>7, NoneAssumption DEF Crash
<1>8. CASE UNCHANGED vars
  BY <1>8 DEF vars
<1> QED
  BY <1>1, <1>2, <1>3, <1>4, <1>5, <1>6, <1>7, <1>8

LEMMA BaseBootstrap ==
  ASSUME Base, NEW w \in Writers, Bootstrap(w)
  PROVE  Base'
<1>1. Tail \in Nat /\ Tail < nextval
  BY TailType DEF Base, TypeOK, Locked, IsTail
<1> QED
  BY <1>1 DEF Base, TypeOK, InHand, Locked, HasTail, IsTail, Bootstrap, Goto, stream, db

\* The new row is the last one.
LEMMA NewTail ==
  ASSUME Base, NEW w \in Writers, Commit(w) \/ CommitUnknown(w)
  PROVE  /\ rows' = rows \cup {NewRow(w)}
         /\ NewRow(w) \in Row
         /\ seq[w] \in Nat
         /\ \A m \in Nat : m = seq[w] => IsTail(m)'
         /\ \A v \in Writers : pc'[v] # "commit"
<1> USE DEF Base, TypeOK, InHand, Locked
<1>1. rows' = rows \cup {NewRow(w)}
  BY DEF Commit, CommitUnknown
<1>2. NewRow(w) \in Row
  BY DEF Commit, CommitUnknown, NewRow, Row
<1>3. pc[w] = "commit" /\ pc'[w] # "commit"
  BY DEF Commit, CommitUnknown, Goto, Done
<1>4. \A v \in Writers : v # w => pc'[v] = pc[v]
  BY DEF Commit, CommitUnknown, Goto, Done
<1>5. \A v \in Writers : pc'[v] # "commit"
  BY <1>3, <1>4
<1>6. seq[w] \in Nat /\ NewRow(w).seq = seq[w] /\ \A r \in rows : r.seq < seq[w] /\ r.seq \in Nat
  BY <1>3 DEF NewRow, Row
<1>7. \A r \in rows' : r.seq <= seq[w]
  BY <1>1, <1>6
<1>8. \E q \in rows' : q.seq = seq[w]
  BY <1>1, <1>6
<1>9. \A m \in Nat : m = seq[w] => IsTail(m)'
  BY <1>7, <1>8 DEF IsTail
<1> QED
  BY <1>1, <1>2, <1>5, <1>6, <1>9

LEMMA BaseCommit ==
  ASSUME Base, NEW w \in Writers, Commit(w) \/ CommitUnknown(w)
  PROVE  Base'
<1>1. PICK m \in Nat : m = seq[w]
  BY NewTail
<1>2. pc[w] = "commit" /\ m < nextval /\ nextval' = nextval /\ m > 0
  BY <1>1 DEF Base, Locked, Commit, CommitUnknown
<1>3. HasTail'
  BY <1>1, NewTail DEF HasTail
<1>4. \A r \in rows' : r.seq < nextval'
  <2>1. rows' = rows \cup {NewRow(w)} /\ NewRow(w).seq = m
    BY <1>1, NewTail DEF NewRow
  <2> QED
    BY <1>2, <2>1 DEF Base, Locked
<1>5. \A v \in Writers : prevHash'[v] < nextval'
  BY <1>1, <1>2 DEF Base, TypeOK, Locked, Commit, CommitUnknown
<1>6. Locked'
  BY <1>4, <1>5, NewTail DEF Locked
<1>7. TypeOK'
  <2>1. rows' \subseteq Row
    BY NewTail DEF Base, TypeOK
  <2>2. CASE Commit(w)
    BY <2>1, <2>2, <1>1 DEF Base, TypeOK, Commit, Goto, stream, ghosts
  <2>3. CASE CommitUnknown(w)
    <3>1. /\ alone' \in BOOLEAN /\ told' \in BOOLEAN
          /\ advisory' = None /\ nextval' = nextval /\ prevHash' = prevHash
          /\ deliveries' = deliveries
      BY <2>3 DEF Base, TypeOK, CommitUnknown
    <3>4. faults' \in 0..MaxFaults
      BY <2>3, BoundAssumption DEF Base, TypeOK, CommitUnknown, Fault
    <3>2. /\ pc' \in [Writers -> {"down", "idle", "lock", "commit", "ack"}]
          /\ msg' \in [Writers -> Events \cup {None}]
          /\ seq' \in [Writers -> Nat]
      BY <2>3 DEF Base, TypeOK, CommitUnknown, Goto, Done
    <3>3. published' \subseteq Events /\ ready' \subseteq published' /\ acked' \subseteq published'
      BY <2>3 DEF Base, TypeOK, InHand, CommitUnknown, Nak
    <3> QED
      BY <2>1, <3>1, <3>2, <3>3, <3>4 DEF Base, TypeOK
  <2> QED
    BY <2>2, <2>3
<1>8. InHand'
  BY DEF Base, TypeOK, InHand, Commit, CommitUnknown, Goto, Done, stream
<1> QED
  BY <1>3, <1>6, <1>7, <1>8 DEF Base

LEMMA BaseStep == Base /\ [Next]_vars => Base'
  BY Kinds, BaseQuiet, BaseBootstrap, BaseCommit, Zenon

\* The variables have the types TypeOK gives them, in every reachable state.
THEOREM TypeCorrect == Spec => []TypeOK
<1>1. Base => TypeOK
  BY DEF Base
<1> QED
  BY <1>1, BaseInit, BaseStep, PTL DEF Spec

\* Rows are committed in the order of their seqs, whatever crashes or fails
\* between nextval and the commit, with any number of processes.
THEOREM OrderedCommits == Spec => CommitsInOrder
<1> DEFINE InOrder == \A r \in rows' \ rows, q \in rows : q.seq < r.seq
<1>1. Base /\ [Next]_vars => [InOrder]_vars
  <2> SUFFICES ASSUME Base, [Next]_vars PROVE InOrder
    OBVIOUS
  <2>1. CASE \E w \in Writers : Commit(w) \/ CommitUnknown(w)
    <3>1. PICK w \in Writers : Commit(w) \/ CommitUnknown(w)
      BY <2>1
    <3>2. pc[w] = "commit" /\ rows' = rows \cup {NewRow(w)}
      BY <3>1, NewTail DEF Commit, CommitUnknown
    <3>3. \A q \in rows : q.seq < seq[w]
      BY <3>2 DEF Base, Locked
    <3> QED
      BY <3>2, <3>3 DEF NewRow
  <2>2. CASE rows' = rows
    BY <2>2
  <2>3. \/ \E w \in Writers : Commit(w) \/ CommitUnknown(w)
        \/ rows' = rows
    BY Kinds, Zenon DEF Publish, AckWaitExpires, SlowHandler, Receive, Begin, Ack, Bootstrap,
       AppendFails, InsertRefused, Crash, vars, db
  <2> QED
    BY <2>1, <2>2, <2>3
<1> QED
  BY <1>1, BaseInit, BaseStep, PTL DEF Spec, CommitsInOrder
-----------------------------------------------------------------------------
(***************************************************************************)
(* Rows chain to rows, acknowledged events have rows.                      *)
(***************************************************************************)
Remembered == \A w \in Writers : prevHash[w] = 0 \/ \E q \in rows : q.seq = prevHash[w]

Appended == \A w \in Writers : pc[w] = "ack" => \E r \in rows : r.event = msg[w]

Recorded == \A e \in acked : \E r \in rows : r.event = e

Linked == Remembered /\ ChainsToARow /\ Appended /\ Recorded

LEMMA LinkedInit == Init => Linked
  BY DEF Init, Linked, Remembered, ChainsToARow, Appended, Recorded

LEMMA LinkedCommit ==
  ASSUME Base, Linked, NEW w \in Writers, Commit(w) \/ CommitUnknown(w)
  PROVE  Linked'
<1>1. /\ rows' = rows \cup {NewRow(w)}
      /\ NewRow(w).seq = seq[w] /\ NewRow(w).event = msg[w] /\ NewRow(w).prev_hash = prevHash[w]
  BY NewTail DEF NewRow
<1>2. pc[w] = "commit" /\ prevHash[w] < seq[w]
  BY DEF Commit, CommitUnknown, Base, Locked
<1>3. ChainsToARow'
  BY <1>1, <1>2 DEF Linked, Remembered, ChainsToARow
<1>4. Remembered'
  BY <1>1 DEF Linked, Remembered, Commit, CommitUnknown, Base, TypeOK
<1>5. Appended'
  BY <1>1 DEF Linked, Appended, Commit, CommitUnknown, Goto, Done, Base, TypeOK
<1>6. Recorded'
  BY <1>1 DEF Linked, Recorded, Commit, CommitUnknown, Nak, stream
<1> QED
  BY <1>3, <1>4, <1>5, <1>6 DEF Linked

LEMMA LinkedStep == Base /\ Linked /\ [Next]_vars => Linked'
<1> SUFFICES ASSUME Base, Linked, [Next]_vars PROVE Linked'
  OBVIOUS
<1> USE DEF Linked, Remembered, Appended, Recorded, ChainsToARow, Goto, Done, Base, TypeOK
<1> USE DEF stream, db
<1>1. CASE \E e \in Events : Publish(e) \/ AckWaitExpires(e) \/ SlowHandler(e)
  BY <1>1 DEF Publish, AckWaitExpires, SlowHandler
<1>2. CASE \E w \in Writers : (\E e \in Events : Receive(w, e)) \/ Begin(w) \/ Ack(w)
  BY <1>2 DEF Receive, Begin, Ack
<1>3. CASE \E w \in Writers : Bootstrap(w)
  <2>1. PICK w \in Writers : Bootstrap(w)
    BY <1>3
  <2>2. Tail = 0 \/ \E q \in rows : q.seq = Tail
    BY TailType DEF IsTail
  <2> QED
    BY <2>1, <2>2 DEF Bootstrap
<1>4. CASE \E w \in Writers : AppendFails(w) \/ InsertRefused(w) \/ Crash(w)
  BY <1>4 DEF AppendFails, InsertRefused, Crash, Nak, Cached
<1>5. CASE UNCHANGED vars
  BY <1>5 DEF vars
<1> QED
  BY <1>1, <1>2, <1>3, <1>4, <1>5, Kinds, LinkedCommit, Zenon

\* Every row chains to an earlier committed row, however many processes fork
\* the chain.
THEOREM NoDanglingLink == Spec => []ChainsToARow
<1>1. Base /\ Linked => ChainsToARow
  BY DEF Linked
<1> QED
  BY <1>1, BaseInit, LinkedInit, BaseStep, LinkedStep, PTL DEF Spec

\* An acknowledged event is in the ledger.
THEOREM NothingAckedIsLost == Spec => []AckedIsRecorded
<1>1. Base /\ Linked => AckedIsRecorded
  BY DEF Linked, Recorded, AckedIsRecorded
<1> QED
  BY <1>1, BaseInit, LinkedInit, BaseStep, LinkedStep, PTL DEF Spec
-----------------------------------------------------------------------------
(***************************************************************************)
(* The chain of a sole writer.                                             *)
(***************************************************************************)
Sole ==
  alone /\ told =>
    /\ \A v, w \in Writers : pc[v] # "down" /\ pc[w] # "down" => v = w
    /\ \A w \in Writers : pc[w] # "down" => IsTail(prevHash[w])
    /\ ChainVerifies

\* The set of seqs below row r, as Verify walks the rows.
LEMMA ChainExtends ==
  ASSUME TypeOK, ChainVerifies, NEW m \in Nat, IsTail(m),
         NEW n \in Row, n.prev_hash = m, \A r \in rows : r.seq < n.seq,
         rows' = rows \cup {n}
  PROVE  ChainVerifies'
<1> SUFFICES ASSUME NEW r \in rows'
             PROVE  r.prev_hash = Max({q.seq : q \in {p \in rows' : p.seq < r.seq}} \cup {0})
  BY DEF ChainVerifies
<1>1. n.seq \in Nat /\ \A q \in rows : q.seq \in Nat
  BY DEF TypeOK, Row
<1>2. CASE r = n
  <2>1. {p \in rows' : p.seq < r.seq} = rows
    BY <1>1, <1>2
  <2>2. m = Max({q.seq : q \in rows} \cup {0})
    BY TailIs DEF Tail
  <2> QED
    BY <1>2, <2>1, <2>2
<1>3. CASE r \in rows
  <2>1. {p \in rows' : p.seq < r.seq} = {p \in rows : p.seq < r.seq}
    BY <1>1, <1>3
  <2> QED
    BY <1>3, <2>1 DEF ChainVerifies
<1> QED
  BY <1>2, <1>3

LEMMA SoleInit == Init => Sole
  BY DEF Init, Sole, ChainVerifies

LEMMA SoleCommit ==
  ASSUME Base, Sole, NEW w \in Writers, Commit(w)
  PROVE  Sole'
<1> SUFFICES ASSUME alone, told
             PROVE  /\ \A u, v \in Writers : pc'[u] # "down" /\ pc'[v] # "down" => u = v
                    /\ \A v \in Writers : pc'[v] # "down" => IsTail(prevHash[v])'
                    /\ ChainVerifies'
  BY DEF Sole, Commit, ghosts
<1>1. pc[w] = "commit" /\ pc' = [pc EXCEPT ![w] = "ack"]
  BY DEF Commit, Goto
<1>2. \A u, v \in Writers : pc'[u] # "down" /\ pc'[v] # "down" => u = v
  BY <1>1 DEF Sole, Base, TypeOK
<1>3. PICK m \in Nat : m = seq[w]
  BY NewTail
<1>4. IsTail(m)'
  BY <1>3, NewTail
<1>5. prevHash'[w] = m
  BY <1>3 DEF Commit, Base, TypeOK
<1>6. \A v \in Writers : pc'[v] # "down" => v = w
  BY <1>1, <1>2 DEF Base, TypeOK
<1>7. IsTail(prevHash[w])'
  BY <1>4, <1>5 DEF IsTail
<1>8. ChainVerifies'
  <2>1. ChainVerifies /\ IsTail(prevHash[w]) /\ prevHash[w] \in Nat
    BY <1>1 DEF Sole, Base, TypeOK
  <2>2. NewRow(w).prev_hash = prevHash[w] /\ NewRow(w).seq = seq[w]
    BY DEF NewRow
  <2>3. \A r \in rows : r.seq < NewRow(w).seq
    BY <1>1, <2>2 DEF Base, Locked
  <2> QED
    BY <2>1, <2>2, <2>3, NewTail, ChainExtends DEF Base
<1> QED
  BY <1>2, <1>6, <1>7, <1>8

LEMMA SoleBootstrap ==
  ASSUME Base, Sole, NEW w \in Writers, Bootstrap(w)
  PROVE  Sole'
<1> SUFFICES ASSUME alone', told'
             PROVE  /\ \A u, v \in Writers : pc'[u] # "down" /\ pc'[v] # "down" => u = v
                    /\ \A v \in Writers : pc'[v] # "down" => IsTail(prevHash[v])'
                    /\ ChainVerifies'
  BY DEF Sole
<1>1. alone /\ told /\ \A v \in Writers : pc[v] = "down"
  BY DEF Bootstrap
<1>2. rows' = rows /\ prevHash'[w] = Tail /\ \A v \in Writers : pc'[v] # "down" => v = w
  BY <1>1 DEF Bootstrap, Goto, db, Base, TypeOK
<1>3. IsTail(prevHash[w])'
  BY <1>2, TailType DEF IsTail
<1>4. ChainVerifies'
  BY <1>1, <1>2 DEF Sole, ChainVerifies
<1> QED
  BY <1>2, <1>3, <1>4

LEMMA SoleStep == Base /\ Sole /\ [Next]_vars => Sole'
<1> SUFFICES ASSUME Base, Sole, [Next]_vars PROVE Sole'
  OBVIOUS
<1> USE DEF Goto, Done, Base, TypeOK, stream, db, ghosts
<1>1. CASE \E w \in Writers : CommitUnknown(w)
  BY <1>1 DEF CommitUnknown, Sole
<1>2. CASE /\ rows' = rows /\ UNCHANGED ghosts
           /\ \A w \in Writers : pc'[w] # "down" => pc[w] # "down" /\ prevHash'[w] = prevHash[w]
  <2> SUFFICES ASSUME alone, told
               PROVE  /\ \A u, v \in Writers : pc'[u] # "down" /\ pc'[v] # "down" => u = v
                      /\ \A v \in Writers : pc'[v] # "down" => IsTail(prevHash[v])'
                      /\ ChainVerifies'
    BY <1>2 DEF Sole
  <2>1. ChainVerifies'
    BY <1>2 DEF Sole, ChainVerifies
  <2>2. \A v \in Writers : pc'[v] # "down" => IsTail(prevHash[v])'
    BY <1>2 DEF Sole, IsTail
  <2> QED
    BY <1>2, <2>1, <2>2 DEF Sole
<1>3. ASSUME NEW e \in Events, Publish(e) \/ AckWaitExpires(e) \/ SlowHandler(e)
      PROVE  Sole'
  BY <1>2, <1>3 DEF Publish, AckWaitExpires, SlowHandler
<1>4. ASSUME NEW w \in Writers, (\E e \in Events : Receive(w, e)) \/ Begin(w) \/ Ack(w)
      PROVE  Sole'
  BY <1>2, <1>4 DEF Receive, Begin, Ack
<1>5. ASSUME NEW w \in Writers, AppendFails(w) \/ InsertRefused(w) \/ Crash(w)
      PROVE  Sole'
  BY <1>2, <1>5 DEF AppendFails, InsertRefused, Crash, Cached
<1>6. CASE UNCHANGED vars
  BY <1>2, <1>6 DEF vars
<1> QED
  BY <1>1, <1>3, <1>4, <1>5, <1>6, Kinds, SoleCommit, SoleBootstrap, Zenon

\* A single writer at a time that learns the outcomes of its commits keeps the
\* chain whole: Verify finds no broken link, whatever else goes wrong.
THEOREM SoleWriterVerifies == Spec => []SoleWriterChain
<1>1. Sole => SoleWriterChain
  BY DEF Sole, SoleWriterChain
<1> QED
  BY <1>1, BaseInit, SoleInit, BaseStep, SoleStep, PTL DEF Spec
=============================================================================
