------------------------------ MODULE EdgesProofs ------------------------------
(***************************************************************************)
(* Proofs about the system's edges, for any number of events, accounts,    *)
(* subscriptions, workers, mails and mailboxes: the webhooks posted to the *)
(* tenants (Webhooks), those the platforms post (Connectors), and inbound  *)
(* e-mail (Mailbox).  Each theorem is about one of them: a name that       *)
(* several use stands for the one whose specification is assumed.          *)
(*                                                                         *)
(* The argument for Webhooks: a delivery that the stream has not forgotten *)
(* is in one place, as the next attempt that its posts call for (OneInv).  *)
(* For Mailbox: the loop receives the mails in the order of their UIDs     *)
(* without a gap (Placed), so what it has recorded is all up to the        *)
(* highest UID it saw (Covered), which is what becomes the checkpoint; and *)
(* a Message-ID's row is inserted once per connection, so that it pays for *)
(* one publish (Once), and is its mail's alone (RowOwner), so that the row *)
(* stands for a copy in the stream (Standing).  At the end the edges are   *)
(* put together with the outbound side: what holds of each holds of all    *)
(* (EdgesSideBySide).                                                      *)
(***************************************************************************)
EXTENDS Edges, OutboundProofs
-----------------------------------------------------------------------------
(***************************************************************************)
(* Webhooks: types.  A worker that is at work has its job at the head of   *)
(* its inbox, and an outcome once it has posted.                           *)
(***************************************************************************)
Outcomes == {"delivered", "transient", "permanent"}
Answers == [attempt : 1..MaxAttempts, class : Outcomes]

HookTyped ==
  /\ hActive \in [Subs -> BOOLEAN] /\ hFailures \in [Subs -> Nat] /\ hLate \in [Subs -> Nat]
  /\ hFan \in [DomainEvents -> SUBSET Subs]
  /\ hQueue \subseteq Hooks!Jobs /\ hWindow \subseteq Hooks!Jobs
  /\ hInbox \in [HookWorkers -> Seq(Hooks!Jobs)]
  /\ hPc \in [HookWorkers -> {"idle", "post", "count", "settle"}]
  /\ hClass \in [HookWorkers -> Outcomes \cup {None}]
  /\ hBackoff \in [HookWorkers -> SUBSET Hooks!Jobs]
  /\ hPosts \in [Hooks!Pairs -> Seq(Answers)]
  /\ \A w \in HookWorkers : /\ hPc[w] # "idle" => hInbox[w] # <<>>
                            /\ hPc[w] \in {"count", "settle"} => hClass[w] \in Outcomes

\* The cardinality an instance takes from FiniteSets is the one of FiniteSets.
LEMMA HookCardinality == \A S : Hooks!Cardinality(S) = Cardinality(S)
BY DEF Hooks!Cardinality, Cardinality

LEMMA ClassifyFacts == \A status : Hooks!Classify(status) \in Outcomes
BY DEF Hooks!Classify, Outcomes

\* A job and its pair.
LEMMA JobFacts ==
  ASSUME NEW j \in Hooks!Jobs
  PROVE  /\ j.sub \in Subs /\ j.ev \in DomainEvents /\ j.attempt \in 1..MaxAttempts
         /\ Hooks!Pair(j) = <<j.sub, j.ev>> /\ Hooks!Pair(j) \in Hooks!Pairs
         /\ Hooks!MsgId(j) = j
BY DEF Hooks!Jobs, Hooks!Pair, Hooks!Pairs, Hooks!MsgId

\* The first attempt of a delivery, and the one after a transient outcome.
LEMMA JobMade ==
  ASSUME Hooks!BoundAssumption
  PROVE  /\ \A s \in Subs, e \in DomainEvents : [sub |-> s, ev |-> e, attempt |-> 1] \in Hooks!Jobs
         /\ \A j \in Hooks!Jobs : ~Hooks!Exhausted(j) =>
              /\ Hooks!Bumped(j) \in Hooks!Jobs
              /\ Hooks!Bumped(j).attempt = j.attempt + 1
              /\ Hooks!Pair(Hooks!Bumped(j)) = Hooks!Pair(j)
<1>1. MaxAttempts \in Nat \ {0}
  BY DEF Hooks!BoundAssumption
<1>2. \A s \in Subs, e \in DomainEvents : [sub |-> s, ev |-> e, attempt |-> 1] \in Hooks!Jobs
  BY <1>1 DEF Hooks!Jobs
<1>3. ASSUME NEW j \in Hooks!Jobs, ~Hooks!Exhausted(j)
      PROVE  /\ Hooks!Bumped(j) \in Hooks!Jobs
             /\ Hooks!Bumped(j).attempt = j.attempt + 1
             /\ Hooks!Pair(Hooks!Bumped(j)) = Hooks!Pair(j)
  <2>1. j.attempt \in 1..MaxAttempts /\ j.attempt + 1 <= MaxAttempts
    BY <1>1, <1>3 DEF Hooks!Jobs, Hooks!Exhausted
  <2>2. j.attempt + 1 \in 1..MaxAttempts
    BY <1>1, <2>1
  <2>. QED
    BY <2>2 DEF Hooks!Bumped, Hooks!Jobs, Hooks!Pair
<1>. QED
  BY <1>2, <1>3

LEMMA HookInit == Hooks!Init => HookTyped
BY DEF Hooks!Init, HookTyped

\* The job a worker is at.
LEMMA InboxHead ==
  ASSUME HookTyped, NEW w \in HookWorkers, hInbox[w] # <<>>
  PROVE  /\ Head(hInbox[w]) \in Hooks!Jobs /\ Head(hInbox[w]) = hInbox[w][1] /\ 1 \in DOMAIN hInbox[w]
         /\ Tail(hInbox[w]) \in Seq(Hooks!Jobs)
         /\ \A i \in DOMAIN Tail(hInbox[w]) :
              i \in Nat /\ i + 1 \in DOMAIN hInbox[w] /\ i + 1 # 1 /\ Tail(hInbox[w])[i] = hInbox[w][i + 1]
<1>1. hInbox[w] \in Seq(Hooks!Jobs)
  BY DEF HookTyped
<1>2. /\ Head(hInbox[w]) = hInbox[w][1] /\ Len(hInbox[w]) \in Nat \ {0}
      /\ DOMAIN hInbox[w] = 1..Len(hInbox[w])
  BY <1>1, HeadTailProperties, EmptySeq, LenProperties
<1>3. 1 \in DOMAIN hInbox[w] /\ hInbox[w][1] \in Hooks!Jobs
  BY <1>1, <1>2, ElementOfSeq
<1>4. /\ Tail(hInbox[w]) \in Seq(Hooks!Jobs) /\ Len(Tail(hInbox[w])) = Len(hInbox[w]) - 1
      /\ \A i \in 1..Len(Tail(hInbox[w])) : Tail(hInbox[w])[i] = hInbox[w][i + 1]
  BY <1>1, HeadTailProperties
<1>5. DOMAIN Tail(hInbox[w]) = 1..(Len(hInbox[w]) - 1)
  BY <1>4, LenProperties
<1>. QED
  BY <1>2, <1>3, <1>4, <1>5

\* Finish: the worker drops the head of its inbox and is idle.
LEMMA FinishFacts ==
  ASSUME HookTyped, NEW w \in HookWorkers, hInbox[w] # <<>>, Hooks!Finish(w)
  PROVE  /\ hInbox' \in [HookWorkers -> Seq(Hooks!Jobs)]
         /\ hPc' \in [HookWorkers -> {"idle", "post", "count", "settle"}]
         /\ hClass' \in [HookWorkers -> Outcomes \cup {None}]
         /\ hPc'[w] = "idle" /\ hInbox'[w] = Tail(hInbox[w])
         /\ \A v \in HookWorkers : v # w => hInbox'[v] = hInbox[v] /\ hPc'[v] = hPc[v] /\ hClass'[v] = hClass[v]
<1>1. Tail(hInbox[w]) \in Seq(Hooks!Jobs)
  BY InboxHead
<1>2. /\ hInbox \in [HookWorkers -> Seq(Hooks!Jobs)]
      /\ hPc \in [HookWorkers -> {"idle", "post", "count", "settle"}]
      /\ hClass \in [HookWorkers -> Outcomes \cup {None}]
  BY DEF HookTyped
<1>. QED
  BY <1>1, <1>2 DEF Hooks!Finish

LEMMA EnqueueFacts ==
  ASSUME HookTyped, NEW j \in Hooks!Jobs, Hooks!Enqueue(j)
  PROVE  /\ hQueue' = (IF j \in hWindow THEN hQueue ELSE hQueue \cup {j})
         /\ hWindow' = hWindow \cup {j}
         /\ hQueue' \subseteq Hooks!Jobs /\ hWindow' \subseteq Hooks!Jobs
BY DEF HookTyped, Hooks!Enqueue, Hooks!MsgId

\* The steps outside the workers' loops.
LEMMA HookTypedOutside ==
  ASSUME Hooks!BoundAssumption, HookTyped,
         \/ \E e \in DomainEvents : \/ Hooks!FanOut(e)
                                    \/ \E s \in Subs : Hooks!Queue(e, s) \/ Hooks!QueueFails(e, s)
         \/ \E id \in hWindow : Hooks!Forget(id)
  PROVE  HookTyped'
<1>1. ASSUME NEW e \in DomainEvents, Hooks!FanOut(e) PROVE HookTyped'
  <2>1. Hooks!activeSubscriptions(e) \in SUBSET Subs
    BY DEF Hooks!activeSubscriptions
  <2>. QED
    BY <1>1, <2>1 DEF HookTyped, Hooks!FanOut, Hooks!row, Hooks!history
<1>2. ASSUME NEW e \in DomainEvents, NEW s \in Subs, Hooks!Queue(e, s) PROVE HookTyped'
  <2>1. [sub |-> s, ev |-> e, attempt |-> 1] \in Hooks!Jobs
    BY JobMade
  <2>2. hQueue' \subseteq Hooks!Jobs /\ hWindow' \subseteq Hooks!Jobs
    BY <1>2, <2>1, EnqueueFacts DEF Hooks!Queue
  <2>. QED
    BY <1>2, <2>2 DEF HookTyped, Hooks!Queue, Hooks!row, Hooks!history
<1>3. ASSUME NEW e \in DomainEvents, NEW s \in Subs, Hooks!QueueFails(e, s) PROVE HookTyped'
  BY <1>3 DEF HookTyped, Hooks!QueueFails, Hooks!row
<1>4. ASSUME NEW id \in hWindow, Hooks!Forget(id) PROVE HookTyped'
  BY <1>4 DEF HookTyped, Hooks!Forget, Hooks!row, Hooks!fanout
<1>. QED
  BY <1>1, <1>2, <1>3, <1>4

LEMMA HookTypedLoad ==
  ASSUME Hooks!BoundAssumption, HookTyped, NEW w \in HookWorkers,
         \/ \E j \in hQueue : Hooks!Pull(w, j)
         \/ Hooks!Load(w) \/ Hooks!LoadFails(w) \/ Hooks!Crash(w)
         \/ \E j \in hBackoff[w] : Hooks!requeueAfter(w, j) \/ Hooks!RequeueFails(w, j)
  PROVE  HookTyped'
<1>1. ASSUME NEW j \in hQueue, Hooks!Pull(w, j) PROVE HookTyped'
  <2>1. j \in Hooks!Jobs /\ hInbox[w] \in Seq(Hooks!Jobs)
    BY DEF HookTyped
  <2>2. Append(hInbox[w], j) \in Seq(Hooks!Jobs) /\ Append(hInbox[w], j) # <<>>
    BY <2>1, AppendProperties
  <2>3. hInbox' = [hInbox EXCEPT ![w] = Append(hInbox[w], j)]
    BY <1>1 DEF Hooks!Pull
  <2>. QED
    BY <1>1, <2>2, <2>3 DEF HookTyped, Hooks!Pull, Hooks!row, Hooks!fanout, Hooks!history
<1>2. CASE Hooks!Load(w)
  <2>1. CASE Hooks!Usable(Head(hInbox[w]).sub)
    BY <1>2, <2>1 DEF HookTyped, Hooks!Load, Hooks!row, Hooks!fanout
  <2>2. CASE ~Hooks!Usable(Head(hInbox[w]).sub)
    <3>1. Hooks!Finish(w) /\ hInbox[w] # <<>>
      BY <1>2, <2>2 DEF Hooks!Load
    <3>2. UNCHANGED <<hActive, hFailures, hLate, hFan, hQueue, hWindow, hBackoff, hPosts>>
      BY <1>2 DEF Hooks!Load, Hooks!row, Hooks!fanout
    <3>. QED
      BY <3>1, <3>2, FinishFacts DEF HookTyped
  <2>. QED
    BY <2>1, <2>2
<1>3. CASE Hooks!LoadFails(w)
  <2>1. Hooks!Finish(w) /\ hInbox[w] # <<>>
    BY <1>3 DEF Hooks!LoadFails
  <2>2. UNCHANGED <<hActive, hFailures, hLate, hFan, hQueue, hWindow, hBackoff, hPosts>>
    BY <1>3 DEF Hooks!LoadFails, Hooks!row, Hooks!fanout, Hooks!Redelivered
  <2>. QED
    BY <2>1, <2>2, FinishFacts DEF HookTyped
<1>4. CASE Hooks!Crash(w)
  <2>1. <<>> \in Seq(Hooks!Jobs)
    BY EmptySeq
  <2>. QED
    BY <1>4, <2>1 DEF HookTyped, Hooks!Crash, Hooks!row, Hooks!fanout, Hooks!Redelivered
<1>5. ASSUME NEW j \in hBackoff[w], Hooks!requeueAfter(w, j) PROVE HookTyped'
  <2>1. j \in Hooks!Jobs
    BY DEF HookTyped
  <2>2. hQueue' \subseteq Hooks!Jobs /\ hWindow' \subseteq Hooks!Jobs
    BY <1>5, <2>1, EnqueueFacts DEF Hooks!requeueAfter
  <2>. QED
    BY <1>5, <2>2 DEF HookTyped, Hooks!requeueAfter, Hooks!row, Hooks!fanout, Hooks!history
<1>6. ASSUME NEW j \in hBackoff[w], Hooks!RequeueFails(w, j) PROVE HookTyped'
  BY <1>6 DEF HookTyped, Hooks!RequeueFails, Hooks!row, Hooks!fanout
<1>. QED
  BY <1>1, <1>2, <1>3, <1>4, <1>5, <1>6

LEMMA HookTypedPost ==
  ASSUME Hooks!BoundAssumption, HookTyped, NEW w \in HookWorkers,
         \/ \E status \in Hooks!Statuses : Hooks!Deliver(w, status)
         \/ Hooks!Record(w) \/ Hooks!RecordFails(w) \/ Hooks!Settle(w)
  PROVE  HookTyped'
<1>. DEFINE j == Head(hInbox[w])
<1>1. hPc[w] # "idle"
  BY DEF Hooks!Deliver, Hooks!Record, Hooks!RecordFails, Hooks!Settle
<1>2. hInbox[w] # <<>> /\ j \in Hooks!Jobs
  BY <1>1, InboxHead DEF HookTyped
<1>3. j.sub \in Subs /\ j.attempt \in 1..MaxAttempts /\ Hooks!Pair(j) \in Hooks!Pairs
  BY <1>2, JobFacts
<1>4. ASSUME NEW status \in Hooks!Statuses, Hooks!Deliver(w, status) PROVE HookTyped'
  <2>. DEFINE a == [attempt |-> j.attempt, class |-> Hooks!Classify(status)]
  <2>1. a \in Answers
    BY <1>3, ClassifyFacts DEF Answers
  <2>2. hPosts[Hooks!Pair(j)] \in Seq(Answers)
    BY <1>3 DEF HookTyped
  <2>3. Append(hPosts[Hooks!Pair(j)], a) \in Seq(Answers)
    BY <2>1, <2>2, AppendProperties
  <2>4. hPosts' = [hPosts EXCEPT ![Hooks!Pair(j)] = Append(hPosts[Hooks!Pair(j)], a)]
    BY <1>4 DEF Hooks!Deliver
  <2>. HIDE DEF a
  <2>5. hPosts' \in [Hooks!Pairs -> Seq(Answers)]
    BY <2>3, <2>4 DEF HookTyped
  <2>6. hLate' \in [Subs -> Nat]
    BY <1>3, <1>4 DEF Hooks!Deliver, HookTyped
  <2>. QED
    BY <1>2, <1>4, <2>5, <2>6, ClassifyFacts DEF HookTyped, Hooks!Deliver, Hooks!row, Hooks!fanout
<1>5. CASE Hooks!Record(w)
  <2>1. hActive' \in [Subs -> BOOLEAN] /\ hFailures' \in [Subs -> Nat]
    <3>1. hActive \in [Subs -> BOOLEAN] /\ hFailures \in [Subs -> Nat]
      BY DEF HookTyped
    <3>2. Hooks!Kept(j.sub) \in BOOLEAN
      BY <1>3, <3>1 DEF Hooks!Kept
    <3>3. \/ hFailures' = [hFailures EXCEPT ![j.sub] = 0] /\ hActive' = hActive
          \/ hActive' = [hActive EXCEPT ![j.sub] = FALSE] /\ hFailures' = hFailures
          \/ /\ hFailures' = [hFailures EXCEPT ![j.sub] = @ + 1]
             /\ hActive' = [hActive EXCEPT ![j.sub] = Hooks!Kept(j.sub)]
      BY <1>5 DEF Hooks!Record, Hooks!recordOutcome
    <3>. HIDE DEF j
    <3>4. hFailures' \in [Subs -> Nat]
      BY <1>3, <3>1, <3>3
    <3>5. hActive' \in [Subs -> BOOLEAN]
      BY <1>3, <3>1, <3>2, <3>3, Zenon
    <3>. QED
      BY <3>4, <3>5
  <2>. QED
    BY <1>5, <2>1 DEF HookTyped, Hooks!Record, Hooks!fanout, Hooks!history
<1>6. CASE Hooks!RecordFails(w)
  BY <1>6 DEF HookTyped, Hooks!RecordFails, Hooks!row, Hooks!fanout, Hooks!history
<1>7. CASE Hooks!Settle(w)
  <2>1. Hooks!Finish(w) /\ UNCHANGED <<hActive, hFailures, hLate, hFan, hQueue, hWindow, hPosts>>
    BY <1>7 DEF Hooks!Settle, Hooks!row, Hooks!fanout
  <2>2. hBackoff' \in [HookWorkers -> SUBSET Hooks!Jobs]
    <3>1. hBackoff \in [HookWorkers -> SUBSET Hooks!Jobs]
      BY DEF HookTyped
    <3>2. CASE UNCHANGED hBackoff
      BY <3>1, <3>2
    <3>3. CASE ~Hooks!Exhausted(j) /\ hBackoff' = [hBackoff EXCEPT ![w] = @ \cup {Hooks!Bumped(j)}]
      <4>1. Hooks!Bumped(j) \in Hooks!Jobs
        BY <1>2, <3>3, JobMade
      <4>. HIDE DEF j
      <4>. QED
        BY <3>1, <3>3, <4>1
    <3>. QED
      BY <1>7, <3>2, <3>3 DEF Hooks!Settle
  <2>. QED
    BY <1>2, <2>1, <2>2, FinishFacts DEF HookTyped
<1>. QED
  BY <1>4, <1>5, <1>6, <1>7

LEMMA HookTypedStep ==
  ASSUME Hooks!BoundAssumption, HookTyped, [Hooks!Next]_Hooks!vars
  PROVE  HookTyped'
<1>1. UNCHANGED Hooks!vars => HookTyped'
  BY DEF Hooks!vars, HookTyped
<1>. QED
  BY <1>1, HookTypedOutside, HookTypedLoad, HookTypedPost DEF Hooks!Next, Hooks!Loop

-----------------------------------------------------------------------------
(***************************************************************************)
(* Webhooks: a disabled subscription.  Nobody begins a post for it, so the *)
(* late ones and the posts under way are never more than the workers.      *)
(***************************************************************************)
Posting(s) == {w \in HookWorkers : hPc[w] = "post" /\ Head(hInbox[w]).sub = s}

QuietInv == \A s \in Subs :
  /\ hActive[s] => hFailures[s] < AutoDisableThreshold /\ hLate[s] = 0
  /\ hLate[s] + Cardinality(Posting(s)) <= Cardinality(HookWorkers)

LEMMA PostingFinite ==
  ASSUME IsFiniteSet(HookWorkers), NEW S, S \subseteq HookWorkers
  PROVE  /\ IsFiniteSet(S) /\ Cardinality(S) \in Nat /\ Cardinality(HookWorkers) \in Nat
         /\ Cardinality(S) <= Cardinality(HookWorkers)
BY FS_Subset, FS_CardinalityType

LEMMA QuietInit ==
  ASSUME Hooks!BoundAssumption, IsFiniteSet(HookWorkers), Hooks!Init
  PROVE  QuietInv
<1>1. AutoDisableThreshold \in Nat \ {0}
  BY DEF Hooks!BoundAssumption
<1>2. \A s \in Subs : Posting(s) = {}
  BY DEF Hooks!Init, Posting
<1>. QED
  BY <1>1, <1>2, FS_EmptySet, PostingFinite DEF Hooks!Init, QuietInv

\* A step that begins no post, makes none late and re-enables nothing.
LEMMA QuietFrame ==
  ASSUME IsFiniteSet(HookWorkers), HookTyped, QuietInv, hLate' = hLate,
         \A w \in HookWorkers : hPc'[w] = "post" =>
           hPc[w] = "post" /\ Head(hInbox'[w]) = Head(hInbox[w]),
         \A s \in Subs : hActive'[s] => hActive[s] /\ hFailures'[s] < AutoDisableThreshold
  PROVE  QuietInv'
<1>1. ASSUME NEW s \in Subs
      PROVE  hLate[s] + Cardinality(Posting(s)') <= Cardinality(HookWorkers)
  <2>1. Posting(s)' \in SUBSET Posting(s)
    BY DEF Posting
  <2>2. Posting(s) \subseteq HookWorkers
    BY DEF Posting
  <2>3. /\ IsFiniteSet(Posting(s)) /\ Cardinality(Posting(s)) \in Nat
        /\ Cardinality(HookWorkers) \in Nat
    BY <2>2, PostingFinite
  <2>4. Cardinality(Posting(s)') <= Cardinality(Posting(s)) /\ Cardinality(Posting(s)') \in Nat
    BY <2>1, <2>3, FS_Subset, FS_CardinalityType
  <2>. QED
    BY <2>3, <2>4 DEF QuietInv, HookTyped
<1>. QED
  BY <1>1 DEF QuietInv

LEMMA QuietLoad ==
  ASSUME IsFiniteSet(HookWorkers), HookTyped, QuietInv, NEW w \in HookWorkers, hInbox[w] # <<>>,
         hActive[Head(hInbox[w]).sub], hPc' = [hPc EXCEPT ![w] = "post"],
         UNCHANGED <<hActive, hFailures, hLate, hInbox>>
  PROVE  QuietInv'
<1>1. ASSUME NEW s \in Subs
      PROVE  hLate[s] + Cardinality(Posting(s)') <= Cardinality(HookWorkers)
  <2>1. Posting(s)' \subseteq HookWorkers
    BY DEF Posting
  <2>2. Cardinality(Posting(s)') <= Cardinality(HookWorkers) /\ Cardinality(Posting(s)') \in Nat
        /\ Cardinality(HookWorkers) \in Nat
    BY <2>1, PostingFinite
  <2>3. CASE hActive[s]
    BY <2>2, <2>3 DEF QuietInv, HookTyped
  <2>4. CASE ~hActive[s]
    <3>1. Posting(s)' \in SUBSET Posting(s)
      BY <2>4 DEF Posting, HookTyped
    <3>2. Posting(s) \subseteq HookWorkers
      BY DEF Posting
    <3>3. IsFiniteSet(Posting(s)) /\ Cardinality(Posting(s)) \in Nat
      BY <3>2, PostingFinite
    <3>4. Cardinality(Posting(s)') <= Cardinality(Posting(s))
      BY <3>1, <3>3, FS_Subset
    <3>. QED
      BY <2>2, <3>3, <3>4 DEF QuietInv, HookTyped
  <2>. QED
    BY <2>3, <2>4
<1>. QED
  BY <1>1 DEF QuietInv

LEMMA QuietDeliver ==
  ASSUME IsFiniteSet(HookWorkers), HookTyped, QuietInv, NEW w \in HookWorkers,
         NEW status \in Hooks!Statuses, Hooks!Deliver(w, status)
  PROVE  QuietInv'
<1>. DEFINE j == Head(hInbox[w])
<1>1. hInbox[w] # <<>> /\ hPc[w] = "post"
  BY DEF HookTyped, Hooks!Deliver
<1>2. j \in Hooks!Jobs /\ j.sub \in Subs
  BY <1>1, InboxHead, JobFacts
<1>3. /\ UNCHANGED <<hActive, hFailures, hInbox>> /\ hPc' = [hPc EXCEPT ![w] = "count"]
      /\ hLate' = [hLate EXCEPT ![j.sub] = IF hActive[j.sub] THEN @ ELSE @ + 1]
  BY DEF Hooks!Deliver, Hooks!row
<1>4. hLate \in [Subs -> Nat] /\ hPc \in [HookWorkers -> {"idle", "post", "count", "settle"}]
  BY DEF HookTyped
<1>5. ASSUME NEW s \in Subs
      PROVE  /\ hLate'[s] + Cardinality(Posting(s)') <= Cardinality(HookWorkers)
             /\ hActive[s] => hLate'[s] = 0
  <2>1. Posting(s) \subseteq HookWorkers
    BY DEF Posting
  <2>2. /\ IsFiniteSet(Posting(s)) /\ Cardinality(Posting(s)) \in Nat
        /\ Cardinality(HookWorkers) \in Nat
    BY <2>1, PostingFinite
  <2>3. Posting(s)' = Posting(s) \ {w}
    BY <1>3, <1>4 DEF Posting
  <2>4. CASE s = j.sub
    <3>1. w \in Posting(s)
      BY <1>1, <2>4 DEF Posting
    <3>2. Cardinality(Posting(s)') = Cardinality(Posting(s)) - 1
      BY <2>2, <2>3, <3>1, FS_RemoveElement
    <3>3. hLate'[s] = IF hActive[s] THEN hLate[s] ELSE hLate[s] + 1
      BY <1>3, <1>4, <2>4
    <3>. QED
      BY <1>4, <2>2, <3>2, <3>3 DEF QuietInv
  <2>5. CASE s # j.sub
    <3>1. w \notin Posting(s)
      BY <2>5 DEF Posting
    <3>2. Posting(s)' = Posting(s)
      BY <2>3, <3>1
    <3>3. hLate'[s] = hLate[s]
      BY <1>2, <1>3, <1>4, <2>5
    <3>. QED
      BY <3>2, <3>3 DEF QuietInv
  <2>. QED
    BY <2>4, <2>5
<1>. QED
  BY <1>3, <1>5 DEF QuietInv

LEMMA QuietStep ==
  ASSUME Hooks!BoundAssumption, IsFiniteSet(HookWorkers), HookTyped, QuietInv, [Hooks!Next]_Hooks!vars
  PROVE  QuietInv'
<1>0. \A s \in Subs : hActive[s] => hFailures[s] < AutoDisableThreshold
  BY DEF QuietInv
<1>. DEFINE Row == UNCHANGED <<hActive, hFailures, hLate>>
<1>1. CASE UNCHANGED Hooks!vars
  BY <1>0, <1>1, QuietFrame DEF Hooks!vars
<1>2. ASSUME NEW e \in DomainEvents, NEW s \in Subs,
             Hooks!FanOut(e) \/ Hooks!Queue(e, s) \/ Hooks!QueueFails(e, s)
      PROVE  QuietInv'
  <2>1. UNCHANGED <<hActive, hFailures, hLate, hPc, hInbox>>
    BY <1>2 DEF Hooks!FanOut, Hooks!Queue, Hooks!QueueFails, Hooks!row, Hooks!history
  <2>. QED
    BY <1>0, <2>1, QuietFrame
<1>3. ASSUME NEW e \in DomainEvents, Hooks!FanOut(e)
      PROVE  QuietInv'
  <2>1. UNCHANGED <<hActive, hFailures, hLate, hPc, hInbox>>
    BY <1>3 DEF Hooks!FanOut, Hooks!row, Hooks!history
  <2>. QED
    BY <1>0, <2>1, QuietFrame
<1>4. ASSUME NEW id \in hWindow, Hooks!Forget(id)
      PROVE  QuietInv'
  <2>1. UNCHANGED <<hActive, hFailures, hLate, hPc, hInbox>>
    BY <1>4 DEF Hooks!Forget, Hooks!row
  <2>. QED
    BY <1>0, <2>1, QuietFrame
<1>5. ASSUME NEW w \in HookWorkers, NEW j \in hQueue, Hooks!Pull(w, j)
      PROVE  QuietInv'
  <2>1. UNCHANGED <<hActive, hFailures, hLate, hPc>> /\ hInbox' = [hInbox EXCEPT ![w] = Append(@, j)]
    BY <1>5 DEF Hooks!Pull, Hooks!row, Hooks!history
  <2>2. j \in Hooks!Jobs /\ hInbox \in [HookWorkers -> Seq(Hooks!Jobs)]
    BY DEF HookTyped
  <2>3. hInbox[w] # <<>> => Head(Append(hInbox[w], j)) = Head(hInbox[w])
    BY <2>2, AppendProperties, HeadTailProperties, EmptySeq
  <2>4. \A v \in HookWorkers : hPc[v] = "post" => Head(hInbox'[v]) = Head(hInbox[v])
    BY <2>1, <2>2, <2>3 DEF HookTyped
  <2>. QED
    BY <1>0, <2>1, <2>4, QuietFrame
<1>6. ASSUME NEW w \in HookWorkers, Hooks!Load(w)
      PROVE  QuietInv'
  <2>1. UNCHANGED <<hActive, hFailures, hLate>> /\ hInbox[w] # <<>>
    BY <1>6 DEF Hooks!Load, Hooks!row
  <2>2. CASE Hooks!Usable(Head(hInbox[w]).sub)
    BY <1>6, <2>1, <2>2, QuietLoad DEF Hooks!Load, Hooks!Usable
  <2>3. CASE ~Hooks!Usable(Head(hInbox[w]).sub)
    <3>1. Hooks!Finish(w)
      BY <1>6, <2>3 DEF Hooks!Load
    <3>. QED
      BY <1>0, <2>1, <3>1, FinishFacts, QuietFrame
  <2>. QED
    BY <2>2, <2>3
<1>7. ASSUME NEW w \in HookWorkers, Hooks!LoadFails(w) \/ Hooks!Settle(w)
      PROVE  QuietInv'
  <2>1. UNCHANGED <<hActive, hFailures, hLate>> /\ Hooks!Finish(w)
    BY <1>7 DEF Hooks!LoadFails, Hooks!Settle, Hooks!row
  <2>2. hInbox[w] # <<>>
    BY <1>7 DEF Hooks!LoadFails, Hooks!Settle, HookTyped
  <2>. QED
    BY <1>0, <2>1, <2>2, FinishFacts, QuietFrame
<1>8. ASSUME NEW w \in HookWorkers, Hooks!Crash(w)
      PROVE  QuietInv'
  <2>1. /\ UNCHANGED <<hActive, hFailures, hLate>> /\ hPc' = [hPc EXCEPT ![w] = "idle"]
        /\ hInbox' = [hInbox EXCEPT ![w] = <<>>]
    BY <1>8 DEF Hooks!Crash, Hooks!row
  <2>2. \A v \in HookWorkers : hPc'[v] = "post" => hPc[v] = "post" /\ hInbox'[v] = hInbox[v]
    BY <2>1 DEF HookTyped
  <2>. QED
    BY <1>0, <2>1, <2>2, QuietFrame
<1>9. ASSUME NEW w \in HookWorkers, NEW j \in hBackoff[w],
             Hooks!requeueAfter(w, j) \/ Hooks!RequeueFails(w, j)
      PROVE  QuietInv'
  <2>1. UNCHANGED <<hActive, hFailures, hLate, hPc, hInbox>>
    BY <1>9 DEF Hooks!requeueAfter, Hooks!RequeueFails, Hooks!row, Hooks!history
  <2>. QED
    BY <1>0, <2>1, QuietFrame
<1>10. ASSUME NEW w \in HookWorkers, Hooks!RecordFails(w)
       PROVE  QuietInv'
  <2>1. UNCHANGED <<hActive, hFailures, hLate, hInbox>> /\ hPc' = [hPc EXCEPT ![w] = "settle"]
    BY <1>10 DEF Hooks!RecordFails, Hooks!row, Hooks!history
  <2>2. \A v \in HookWorkers : hPc'[v] = "post" => hPc[v] = "post"
    BY <2>1 DEF HookTyped
  <2>. QED
    BY <1>0, <2>1, <2>2, QuietFrame
<1>11. ASSUME NEW w \in HookWorkers, Hooks!Record(w)
       PROVE  QuietInv'
  <2>1. UNCHANGED <<hLate, hInbox>> /\ hPc' = [hPc EXCEPT ![w] = "settle"]
    BY <1>11 DEF Hooks!Record, Hooks!history
  <2>2. \A v \in HookWorkers : hPc'[v] = "post" => hPc[v] = "post"
    BY <2>1 DEF HookTyped
  <2>. DEFINE x == Head(hInbox[w]).sub
  <2>3. hInbox[w] # <<>> /\ x \in Subs
    BY <1>11, InboxHead, JobFacts DEF Hooks!Record, HookTyped
  <2>4. hActive \in [Subs -> BOOLEAN] /\ hFailures \in [Subs -> Nat] /\ AutoDisableThreshold \in Nat \ {0}
    BY DEF HookTyped, Hooks!BoundAssumption
  <2>5. \/ hFailures' = [hFailures EXCEPT ![x] = 0] /\ hActive' = hActive
        \/ hActive' = [hActive EXCEPT ![x] = FALSE] /\ hFailures' = hFailures
        \/ /\ hFailures' = [hFailures EXCEPT ![x] = @ + 1]
           /\ hActive' = [hActive EXCEPT ![x] = Hooks!Kept(x)]
    BY <1>11 DEF Hooks!Record, Hooks!recordOutcome
  <2>6. Hooks!Kept(x) => hActive[x] /\ hFailures[x] + 1 < AutoDisableThreshold
    BY DEF Hooks!Kept
  <2>. HIDE DEF x
  <2>7. \A s \in Subs : hActive'[s] => hActive[s]
    BY <2>3, <2>4, <2>5, <2>6, Zenon
  <2>8. ASSUME NEW s \in Subs, hActive'[s]
        PROVE  hFailures'[s] < AutoDisableThreshold
    <3>1. hFailures[s] < AutoDisableThreshold /\ hFailures[s] \in Nat
      BY <1>0, <2>4, <2>7, <2>8
    <3>2. CASE s # x
      BY <2>3, <2>4, <2>5, <3>1, <3>2
    <3>3. CASE s = x /\ hFailures' = [hFailures EXCEPT ![x] = 0]
      BY <2>3, <2>4, <3>3
    <3>4. CASE s = x /\ hFailures' = hFailures
      BY <3>1, <3>4
    <3>5. CASE s = x /\ hFailures' = [hFailures EXCEPT ![x] = @ + 1] /\ hActive' = [hActive EXCEPT ![x] = Hooks!Kept(x)]
      <4>1. Hooks!Kept(x)
        BY <2>3, <2>4, <2>8, <3>5, Zenon
      <4>. QED
        BY <2>3, <2>4, <2>6, <3>5, <4>1
    <3>. QED
      BY <2>5, <3>2, <3>3, <3>4, <3>5
  <2>. QED
    BY <2>1, <2>2, <2>7, <2>8, QuietFrame
<1>. QED
  BY <1>1, <1>2, <1>3, <1>4, <1>5, <1>6, <1>7, <1>8, <1>9, <1>10, <1>11, QuietDeliver
     DEF Hooks!Next, Hooks!Loop

\* A subscription is disabled no later than its AutoDisableThreshold-th
\* consecutive failure and then left alone, whichever workers count it: each
\* may finish the one post for it that it had begun.
THEOREM DisabledStaysQuiet ==
  ASSUME Hooks!BoundAssumption, IsFiniteSet(HookWorkers)
  PROVE  Hooks!Spec => []DisabledIsQuiet
<1>1. Hooks!Init => HookTyped /\ QuietInv
  BY HookInit, QuietInit
<1>2. HookTyped /\ QuietInv /\ [Hooks!Next]_Hooks!vars => (HookTyped /\ QuietInv)'
  BY HookTypedStep, QuietStep
<1>3. HookTyped /\ QuietInv => DisabledIsQuiet
  <2>. SUFFICES ASSUME HookTyped, QuietInv, NEW s \in Subs
                PROVE  /\ hActive[s] => hFailures[s] < AutoDisableThreshold
                       /\ hLate[s] <= Cardinality(HookWorkers)
    BY HookCardinality DEF DisabledIsQuiet, Hooks!DisabledIsQuiet
  <2>1. Cardinality(Posting(s)) \in Nat /\ Cardinality(HookWorkers) \in Nat
    BY PostingFinite DEF Posting
  <2>. QED
    BY <2>1 DEF QuietInv, HookTyped
<1>. QED
  BY <1>1, <1>2, <1>3, PTL DEF Hooks!Spec

-----------------------------------------------------------------------------
(***************************************************************************)
(* Webhooks: one attempt at a time.  While the stream has its Msg-Ids, a   *)
(* delivery is one job in one place: the queue, an inbox, or a backoff.    *)
(* Its attempt is the next one, and the attempts before it were transient; *)
(* of a delivery whose first Msg-Id the stream does not know there is      *)
(* nothing.                                                                *)
(***************************************************************************)
Q(p, j) == j \in hQueue /\ Hooks!Pair(j) = p
I(p, w, i) == w \in HookWorkers /\ i \in DOMAIN hInbox[w] /\ Hooks!Pair(hInbox[w][i]) = p
B(p, w, j) == w \in HookWorkers /\ j \in hBackoff[w] /\ Hooks!Pair(j) = p

OnePlace(p) ==
  /\ \A j, k : Q(p, j) /\ Q(p, k) => j = k
  /\ \A w, i, v, k : I(p, w, i) /\ I(p, v, k) => w = v /\ i = k
  /\ \A w, j, v, k : B(p, w, j) /\ B(p, v, k) => w = v /\ j = k
  /\ \A j, w, i : ~(Q(p, j) /\ I(p, w, i))
  /\ \A j, w, k : ~(Q(p, j) /\ B(p, w, k))
  /\ \A w, i, v, k : ~(I(p, w, i) /\ B(p, v, k))

First(p) == [sub |-> p[1], ev |-> p[2], attempt |-> 1]
Nothing(p) ==
  /\ \A j : ~Q(p, j)
  /\ \A w, i : ~I(p, w, i)
  /\ \A w, j : ~B(p, w, j)
  /\ hPosts[p] = <<>>

InOrder(s) == \A i \in 1..Len(s) :
  s[i].attempt = i /\ (i < Len(s) => s[i].class = "transient")
\* So far every attempt was transient, and n is the next one.
Due(s, n) == Len(s) = n - 1 /\ \A i \in 1..Len(s) : s[i].class = "transient"
\* Attempt n was made, with this outcome.
Made(s, n, c) == Len(s) = n /\ s[n].class = c

Answered(w, i) == i = 1 /\ hPc[w] \in {"count", "settle"}

Attempts(p) ==
  /\ InOrder(hPosts[p])
  /\ \A j : Q(p, j) => Due(hPosts[p], j.attempt)
  /\ \A w, j : B(p, w, j) => Due(hPosts[p], j.attempt)
  /\ \A w, i : I(p, w, i) =>
       IF Answered(w, i) THEN Made(hPosts[p], hInbox[w][i].attempt, hClass[w])
       ELSE Due(hPosts[p], hInbox[w][i].attempt)

Single(p) == OnePlace(p) /\ Attempts(p) /\ (First(p) \notin hWindow => Nothing(p))

OneInv == \A p \in Hooks!Pairs \ hForgotten : Single(p)

LEMMA OneInit == Hooks!Init => OneInv
<1>. SUFFICES ASSUME Hooks!Init, NEW p \in Hooks!Pairs
              PROVE  OnePlace(p) /\ Attempts(p) /\ Nothing(p)
  BY DEF OneInv, Single
<1>1. /\ hPosts[p] = <<>> /\ \A w \in HookWorkers : hInbox[w] = <<>> /\ hBackoff[w] = {}
      /\ hQueue = {}
  BY DEF Hooks!Init
<1>2. (\A j : ~Q(p, j)) /\ (\A w, i : ~I(p, w, i)) /\ (\A w, j : ~B(p, w, j))
  BY <1>1 DEF Q, I, B
<1>. QED
  BY <1>1, <1>2 DEF OnePlace, Attempts, Nothing, InOrder


\* A step that makes no post of p, and no place of p that was not one: at
\* most the places of a worker move up by one.
LEMMA SingleFrame ==
  ASSUME NEW p, Single(p), NEW d \in [HookWorkers -> 0..1], hPosts'[p] = hPosts[p],
         hWindow \subseteq hWindow' \/ First(p) \in hWindow' \/ First(p) \notin hWindow,
         \A j : Q(p, j)' => Q(p, j),
         \A w, j : B(p, w, j)' => B(p, w, j),
         \A w, i : I(p, w, i)' =>
           /\ w \in HookWorkers /\ i \in Nat /\ I(p, w, i + d[w]) /\ hInbox'[w][i] = hInbox[w][i + d[w]]
           /\ Answered(w, i)' <=> Answered(w, i + d[w])
           /\ Answered(w, i)' => hClass'[w] = hClass[w]
  PROVE  Single(p)'
<1>1. OnePlace(p)'
  <2>1. \A j, k : Q(p, j)' /\ Q(p, k)' => j = k
    BY DEF Single, OnePlace
  <2>2. ASSUME NEW w, NEW i, NEW v, NEW k, I(p, w, i)', I(p, v, k)' PROVE w = v /\ i = k
    <3>1. w = v /\ i + d[w] = k + d[v] /\ w \in HookWorkers /\ i \in Nat /\ k \in Nat
      BY <2>2 DEF Single, OnePlace
    <3>2. d[w] \in 0..1
      BY <3>1
    <3>. QED
      BY <3>1, <3>2
  <2>3. \A w, j, v, k : B(p, w, j)' /\ B(p, v, k)' => w = v /\ j = k
    BY DEF Single, OnePlace
  <2>4. \A j, w, i : ~(Q(p, j)' /\ I(p, w, i)')
    BY DEF Single, OnePlace
  <2>5. \A j, w, k : ~(Q(p, j)' /\ B(p, w, k)')
    BY DEF Single, OnePlace
  <2>6. \A w, i, v, k : ~(I(p, w, i)' /\ B(p, v, k)')
    BY DEF Single, OnePlace
  <2>. QED
    BY <2>1, <2>2, <2>3, <2>4, <2>5, <2>6 DEF OnePlace
<1>2. Attempts(p)'
  <2>1. InOrder(hPosts'[p])
    BY DEF Single, Attempts
  <2>2. \A j : Q(p, j)' => Due(hPosts'[p], j.attempt)
    BY DEF Single, Attempts
  <2>3. \A w, j : B(p, w, j)' => Due(hPosts'[p], j.attempt)
    BY DEF Single, Attempts
  <2>4. ASSUME NEW w, NEW i, I(p, w, i)'
        PROVE  IF Answered(w, i)' THEN Made(hPosts'[p], hInbox'[w][i].attempt, hClass'[w])
               ELSE Due(hPosts'[p], hInbox'[w][i].attempt)
    <3>1. /\ I(p, w, i + d[w]) /\ hInbox'[w][i] = hInbox[w][i + d[w]]
          /\ Answered(w, i)' <=> Answered(w, i + d[w])
          /\ Answered(w, i)' => hClass'[w] = hClass[w]
      BY <2>4
    <3>2. IF Answered(w, i + d[w]) THEN Made(hPosts[p], hInbox[w][i + d[w]].attempt, hClass[w])
          ELSE Due(hPosts[p], hInbox[w][i + d[w]].attempt)
      BY <3>1 DEF Single, Attempts
    <3>. QED
      BY <3>1, <3>2
  <2>. QED
    BY <2>1, <2>2, <2>3, <2>4 DEF Attempts
<1>3. (First(p) \notin hWindow => Nothing(p))'
  <2>. SUFFICES ASSUME First(p) \notin hWindow' PROVE Nothing(p)'
    BY DEF First
  <2>1. Nothing(p)
    BY DEF Single
  <2>. QED
    BY <2>1 DEF Nothing
<1>. QED
  BY <1>1, <1>2, <1>3 DEF Single


\* Nothing of p moves.
LEMMA Steady ==
  ASSUME HookTyped, HookTyped', NEW p, Single(p), hPosts'[p] = hPosts[p],
         hWindow \subseteq hWindow' \/ First(p) \in hWindow' \/ First(p) \notin hWindow,
         \A j : Q(p, j)' => Q(p, j),
         \A w, j : B(p, w, j)' => B(p, w, j),
         \A w, i : I(p, w, i)' =>
           /\ I(p, w, i) /\ hInbox'[w][i] = hInbox[w][i]
           /\ Answered(w, i)' <=> Answered(w, i)
           /\ Answered(w, i)' => hClass'[w] = hClass[w]
  PROVE  Single(p)'
<1>. DEFINE d == [v \in HookWorkers |-> 0]
<1>1. d \in [HookWorkers -> 0..1]
  OBVIOUS
<1>2. ASSUME NEW w, NEW i, I(p, w, i)'
      PROVE  w \in HookWorkers /\ i \in Nat /\ i + d[w] = i
  <2>1. w \in HookWorkers /\ i \in DOMAIN hInbox'[w]
    BY <1>2 DEF I
  <2>2. hInbox'[w] \in Seq(Hooks!Jobs)
    BY <2>1 DEF HookTyped
  <2>3. i \in 1..Len(hInbox'[w]) /\ Len(hInbox'[w]) \in Nat
    BY <2>1, <2>2, LenProperties
  <2>. QED
    BY <2>1, <2>3
<1>3. \A w, i : I(p, w, i)' =>
           /\ w \in HookWorkers /\ i \in Nat /\ I(p, w, i + d[w]) /\ hInbox'[w][i] = hInbox[w][i + d[w]]
           /\ Answered(w, i)' <=> Answered(w, i + d[w])
           /\ Answered(w, i)' => hClass'[w] = hClass[w]
  BY <1>2
<1>. HIDE DEF d
<1>. QED
  BY <1>1, <1>3, SingleFrame

\* A worker drops the head of its inbox.
LEMMA Shifted ==
  ASSUME HookTyped, NEW p, Single(p), NEW w \in HookWorkers, hInbox[w] # <<>>, Hooks!Finish(w),
         UNCHANGED <<hPosts, hWindow>>,
         \A j : Q(p, j)' => Q(p, j),
         \A v, j : B(p, v, j)' => B(p, v, j)
  PROVE  Single(p)'
<1>. DEFINE d == [v \in HookWorkers |-> IF v = w THEN 1 ELSE 0]
<1>1. d \in [HookWorkers -> 0..1]
  OBVIOUS
<1>2. ASSUME NEW v, NEW i, I(p, v, i)'
      PROVE  /\ v \in HookWorkers /\ i \in Nat /\ I(p, v, i + d[v]) /\ hInbox'[v][i] = hInbox[v][i + d[v]]
             /\ Answered(v, i)' <=> Answered(v, i + d[v])
             /\ Answered(v, i)' => hClass'[v] = hClass[v]
  <2>1. v \in HookWorkers /\ i \in DOMAIN hInbox'[v] /\ Hooks!Pair(hInbox'[v][i]) = p
    BY <1>2 DEF I
  <2>2. CASE v = w
    <3>1. hInbox'[w] = Tail(hInbox[w]) /\ hPc'[w] = "idle"
      BY FinishFacts
    <3>2. i \in Nat /\ i + 1 \in DOMAIN hInbox[w] /\ i + 1 # 1 /\ hInbox'[w][i] = hInbox[w][i + 1]
      BY <2>1, <2>2, <3>1, InboxHead
    <3>3. d[v] = 1
      BY <2>2
    <3>. QED
      BY <2>1, <2>2, <3>1, <3>2, <3>3 DEF I, Answered
  <2>3. CASE v # w
    <3>1. hInbox'[v] = hInbox[v] /\ hPc'[v] = hPc[v] /\ hClass'[v] = hClass[v]
      BY <2>1, <2>3, FinishFacts
    <3>2. hInbox[v] \in Seq(Hooks!Jobs)
      BY <2>1 DEF HookTyped
    <3>3. i \in 1..Len(hInbox[v]) /\ Len(hInbox[v]) \in Nat
      BY <2>1, <3>1, <3>2, LenProperties
    <3>4. i \in Nat /\ i + d[v] = i
      BY <2>1, <2>3, <3>3
    <3>. QED
      BY <2>1, <3>1, <3>4 DEF I, Answered
  <2>. QED
    BY <2>2, <2>3
<1>. HIDE DEF d
<1>. QED
  BY <1>1, <1>2, SingleFrame

\* A job waits in the queue alone, whether it is the first or came from a backoff.
LEMMA Queued ==
  ASSUME NEW p, NEW j \in Hooks!Jobs, Hooks!Pair(j) = p, hPosts' = hPosts,
         InOrder(hPosts[p]), Due(hPosts[p], j.attempt), First(p) \in hWindow',
         \A k : Q(p, k)' => k = j,
         \A w, i : ~I(p, w, i)',
         \A w, k : ~B(p, w, k)'
  PROVE  Single(p)'
<1>1. OnePlace(p)'
  BY DEF OnePlace
<1>2. Attempts(p)'
  BY DEF Attempts
<1>3. First(p)' = First(p)
  BY DEF First
<1>. QED
  BY <1>1, <1>2, <1>3 DEF Single

LEMMA FirstOf ==
  ASSUME NEW j \in Hooks!Jobs
  PROVE  /\ First(Hooks!Pair(j)) = [sub |-> j.sub, ev |-> j.ev, attempt |-> 1]
         /\ j.attempt = 1 => First(Hooks!Pair(j)) = j
BY DEF First, Hooks!Pair, Hooks!Jobs

LEMMA SingleQueue ==
  ASSUME Hooks!BoundAssumption, HookTyped, HookTyped', NEW p \in Hooks!Pairs, Single(p),
         NEW e \in DomainEvents, NEW s \in Subs, Hooks!Queue(e, s)
  PROVE  Single(p)'
<1>. DEFINE j == [sub |-> s, ev |-> e, attempt |-> 1]
<1>1. j \in Hooks!Jobs /\ j.attempt = 1
  BY JobMade
<1>2. /\ hQueue' = (IF j \in hWindow THEN hQueue ELSE hQueue \cup {j})
      /\ hWindow' = hWindow \cup {j}
  BY <1>1, EnqueueFacts DEF Hooks!Queue
<1>3. UNCHANGED <<hInbox, hPc, hClass, hBackoff, hPosts>>
  BY DEF Hooks!Queue, Hooks!history
<1>4. /\ \A w, i : I(p, w, i)' => I(p, w, i) /\ Answered(w, i)' = Answered(w, i)
      /\ \A w, k : B(p, w, k)' => B(p, w, k)
  BY <1>3 DEF I, B, Answered
<1>. HIDE DEF j
<1>5. CASE j \in hWindow \/ Hooks!Pair(j) # p
  <2>1. \A k : Q(p, k)' => Q(p, k)
    BY <1>2, <1>5 DEF Q
  <2>. QED
    BY <1>2, <1>3, <1>4, <2>1, Steady
<1>6. CASE j \notin hWindow /\ Hooks!Pair(j) = p
  <2>1. First(p) = j
    BY <1>1, <1>6, FirstOf
  <2>2. Nothing(p)
    BY <1>6, <2>1 DEF Single
  <2>3. \A k : Q(p, k)' => k = j
    BY <1>2, <2>2 DEF Q, Nothing
  <2>4. (\A w, i : ~I(p, w, i)') /\ (\A w, k : ~B(p, w, k)')
    BY <1>4, <2>2 DEF Nothing
  <2>5. InOrder(hPosts[p]) /\ Due(hPosts[p], j.attempt)
    BY <1>1, <2>2 DEF Nothing, InOrder, Due
  <2>. QED
    BY <1>1, <1>2, <1>3, <1>6, <2>1, <2>3, <2>4, <2>5, Queued
<1>. QED
  BY <1>5, <1>6

LEMMA SingleRequeue ==
  ASSUME Hooks!BoundAssumption, HookTyped, HookTyped', NEW p \in Hooks!Pairs, Single(p),
         NEW w \in HookWorkers, NEW j \in hBackoff[w], Hooks!requeueAfter(w, j)
  PROVE  Single(p)'
<1>1. j \in Hooks!Jobs
  BY DEF HookTyped
<1>2. /\ hQueue' = (IF j \in hWindow THEN hQueue ELSE hQueue \cup {j})
      /\ hWindow' = hWindow \cup {j}
  BY <1>1, EnqueueFacts DEF Hooks!requeueAfter
<1>3. UNCHANGED <<hInbox, hPc, hClass, hPosts>> /\ hBackoff' = [hBackoff EXCEPT ![w] = @ \ {j}]
  BY DEF Hooks!requeueAfter, Hooks!history
<1>4. \A v, k : B(p, v, k)' => B(p, v, k) /\ (v # w \/ k # j)
  BY <1>3 DEF B, HookTyped
<1>5. \A v, i : I(p, v, i)' => I(p, v, i) /\ Answered(v, i)' = Answered(v, i)
  BY <1>3 DEF I, Answered
<1>6. CASE j \in hWindow \/ Hooks!Pair(j) # p
  <2>1. \A k : Q(p, k)' => Q(p, k)
    BY <1>2, <1>6 DEF Q
  <2>. QED
    BY <1>2, <1>3, <1>4, <1>5, <2>1, Steady
<1>7. CASE j \notin hWindow /\ Hooks!Pair(j) = p
  <2>1. B(p, w, j)
    BY <1>7 DEF B
  <2>2. /\ \A k : ~Q(p, k)
        /\ \A v, i : ~I(p, v, i)
        /\ \A v, k : B(p, v, k) => v = w /\ k = j
        /\ InOrder(hPosts[p]) /\ Due(hPosts[p], j.attempt)
    BY <2>1 DEF Single, OnePlace, Attempts
  <2>3. First(p) \in hWindow
    BY <2>1 DEF Single, Nothing
  <2>4. \A k : Q(p, k)' => k = j
    BY <1>2, <2>2 DEF Q
  <2>5. (\A v, i : ~I(p, v, i)') /\ (\A v, k : ~B(p, v, k)')
    BY <1>4, <1>5, <2>2
  <2>. QED
    BY <1>1, <1>2, <1>3, <1>7, <2>2, <2>3, <2>4, <2>5, Queued
<1>. QED
  BY <1>6, <1>7


LEMMA SinglePull ==
  ASSUME HookTyped, HookTyped', NEW p \in Hooks!Pairs, Single(p),
         NEW w \in HookWorkers, NEW j \in hQueue, Hooks!Pull(w, j)
  PROVE  Single(p)'
<1>1. j \in Hooks!Jobs /\ hInbox[w] \in Seq(Hooks!Jobs)
  BY DEF HookTyped
<1>. PICK n \in Nat : n = Len(hInbox[w]) + 1
  BY <1>1, LenProperties
<1>2. /\ hQueue' = hQueue \ {j} /\ hInbox' = [hInbox EXCEPT ![w] = Append(hInbox[w], j)]
      /\ UNCHANGED <<hWindow, hPc, hClass, hBackoff, hPosts>>
  BY DEF Hooks!Pull, Hooks!history
<1>3. /\ DOMAIN hInbox[w] = 1..Len(hInbox[w]) /\ Len(hInbox[w]) \in Nat
      /\ hInbox'[w] = Append(hInbox[w], j)
      /\ \A v \in HookWorkers : v # w => hInbox'[v] = hInbox[v]
  BY <1>1, <1>2, LenProperties DEF HookTyped
<1>4. /\ DOMAIN hInbox'[w] = 1..n
      /\ \A i \in 1..Len(hInbox[w]) : hInbox'[w][i] = hInbox[w][i]
      /\ hInbox'[w][n] = j
  BY <1>1, <1>3, AppendProperties, LenProperties
<1>5. /\ \A k : Q(p, k)' => Q(p, k) /\ k # j
      /\ \A v, k : B(p, v, k)' => B(p, v, k)
      /\ \A v, i : Answered(v, i)' = Answered(v, i)
  BY <1>2 DEF Q, B, Answered
<1>6. \A v, i : I(p, v, i)' => \/ I(p, v, i) /\ hInbox'[v][i] = hInbox[v][i]
                               \/ v = w /\ i = n /\ Hooks!Pair(j) = p
  BY <1>3, <1>4 DEF I
<1>7. CASE Hooks!Pair(j) # p
  BY <1>2, <1>5, <1>6, <1>7, Steady
<1>8. CASE Hooks!Pair(j) = p
  <2>1. Q(p, j)
    BY <1>8 DEF Q
  <2>2. /\ \A k : Q(p, k) => k = j
        /\ \A v, i : ~I(p, v, i)
        /\ \A v, k : ~B(p, v, k)
        /\ InOrder(hPosts[p]) /\ Due(hPosts[p], j.attempt)
        /\ First(p) \in hWindow
    BY <2>1 DEF Single, OnePlace, Attempts, Nothing
  <2>3. /\ \A k : ~Q(p, k)'
        /\ \A v, k : ~B(p, v, k)'
        /\ \A v, i : I(p, v, i)' => v = w /\ i = n
    BY <1>5, <1>6, <2>2
  <2>4. ~Answered(w, n)'
    <3>1. hInbox[w] = <<>> => hPc[w] = "idle"
      BY DEF HookTyped
    <3>2. n = 1 => hInbox[w] = <<>>
      BY <1>1, <1>3, EmptySeq
    <3>. QED
      BY <1>2, <3>1, <3>2 DEF Answered
  <2>5. OnePlace(p)'
    BY <2>3 DEF OnePlace
  <2>6. Attempts(p)'
    <3>1. InOrder(hPosts'[p]) /\ Due(hPosts'[p], hInbox'[w][n].attempt)
      BY <1>2, <1>4, <2>2
    <3>2. ASSUME NEW v, NEW i, I(p, v, i)'
          PROVE  ~Answered(v, i)' /\ Due(hPosts'[p], hInbox'[v][i].attempt)
      <4>1. v = w /\ i = n
        BY <2>3, <3>2
      <4>. QED
        BY <2>4, <3>1, <4>1
    <3>. QED
      BY <2>3, <3>1, <3>2 DEF Attempts
  <2>7. First(p) \in hWindow'
    BY <1>2, <2>2
  <2>. QED
    BY <2>5, <2>6, <2>7 DEF Single, First
<1>. QED
  BY <1>7, <1>8

\* The attempt that was due is made.
LEMMA AttemptMade ==
  ASSUME NEW s \in Seq(Answers), NEW a \in Answers, InOrder(s), Due(s, a.attempt)
  PROVE  InOrder(Append(s, a)) /\ Made(Append(s, a), a.attempt, a.class)
<1>1. Len(s) \in Nat /\ a.attempt \in Nat /\ a.attempt = Len(s) + 1
  BY LenProperties DEF Due, Answers
<1>2. /\ Len(Append(s, a)) = Len(s) + 1 /\ Append(s, a)[Len(s) + 1] = a
      /\ \A i \in 1..Len(s) : Append(s, a)[i] = s[i]
  BY AppendProperties
<1>3. ASSUME NEW i \in 1..Len(Append(s, a))
      PROVE  /\ Append(s, a)[i].attempt = i
             /\ i < Len(Append(s, a)) => Append(s, a)[i].class = "transient"
  <2>1. CASE i \in 1..Len(s)
    BY <1>2, <2>1 DEF InOrder, Due
  <2>2. CASE i = Len(s) + 1
    BY <1>1, <1>2, <2>2
  <2>. QED
    BY <1>1, <1>2, <2>1, <2>2
<1>. QED
  BY <1>1, <1>2, <1>3 DEF InOrder, Made

\* A transient attempt is followed by the next one.
LEMMA NextIsDue ==
  ASSUME NEW s \in Seq(Answers), NEW n \in Nat, InOrder(s), Made(s, n, "transient")
  PROVE  Due(s, n + 1)
<1>1. Len(s) \in Nat /\ Len(s) = n
  BY LenProperties DEF Made
<1>. QED
  BY <1>1 DEF InOrder, Made, Due

LEMMA SingleDeliver ==
  ASSUME Hooks!BoundAssumption, HookTyped, HookTyped', NEW p \in Hooks!Pairs, Single(p),
         NEW w \in HookWorkers, NEW status \in Hooks!Statuses, Hooks!Deliver(w, status)
  PROVE  Single(p)'
<1>. DEFINE j == Head(hInbox[w])
            a == [attempt |-> j.attempt, class |-> Hooks!Classify(status)]
<1>1. hPc[w] = "post" /\ hInbox[w] # <<>>
  BY DEF HookTyped, Hooks!Deliver
<1>2. j \in Hooks!Jobs /\ j = hInbox[w][1] /\ 1 \in DOMAIN hInbox[w]
  BY <1>1, InboxHead
<1>3. /\ hPosts' = [hPosts EXCEPT ![Hooks!Pair(j)] = Append(hPosts[Hooks!Pair(j)], a)]
      /\ hClass' = [hClass EXCEPT ![w] = Hooks!Classify(status)]
      /\ hPc' = [hPc EXCEPT ![w] = "count"]
      /\ UNCHANGED <<hQueue, hWindow, hInbox, hBackoff>>
  BY DEF Hooks!Deliver
<1>4. a \in Answers /\ a.attempt = j.attempt /\ a.class = Hooks!Classify(status)
  BY <1>2, JobFacts, ClassifyFacts DEF Answers
<1>5. hPosts \in [Hooks!Pairs -> Seq(Answers)] /\ hClass \in [HookWorkers -> Outcomes \cup {None}]
      /\ hPc \in [HookWorkers -> {"idle", "post", "count", "settle"}]
  BY DEF HookTyped
<1>6. /\ hClass'[w] = a.class /\ hPc'[w] = "count"
      /\ \A v \in HookWorkers : v # w => hClass'[v] = hClass[v] /\ hPc'[v] = hPc[v]
  BY <1>3, <1>4, <1>5
<1>7. /\ \A k : Q(p, k)' <=> Q(p, k)
      /\ \A v, k : B(p, v, k)' <=> B(p, v, k)
      /\ \A v, i : I(p, v, i)' <=> I(p, v, i)
  BY <1>3 DEF Q, I, B
<1>. HIDE DEF a
<1>8. CASE Hooks!Pair(j) # p
  <2>1. hPosts'[p] = hPosts[p]
    BY <1>3, <1>5, <1>8
  <2>2. ~I(p, w, 1)
    BY <1>2, <1>8 DEF I
  <2>3. \A v, i : I(p, v, i)' =>
           /\ I(p, v, i) /\ hInbox'[v][i] = hInbox[v][i]
           /\ Answered(v, i)' <=> Answered(v, i)
           /\ Answered(v, i)' => hClass'[v] = hClass[v]
    BY <1>3, <1>6, <1>7, <2>2 DEF Answered, I
  <2>. QED
    BY <1>3, <1>7, <2>1, <2>3, Steady
<1>9. CASE Hooks!Pair(j) = p
  <2>1. I(p, w, 1)
    BY <1>2, <1>9 DEF I
  <2>2. ~Answered(w, 1)
    BY <1>1 DEF Answered
  <2>3. /\ \A k : ~Q(p, k)
        /\ \A v, i : I(p, v, i) => v = w /\ i = 1
        /\ \A v, k : ~B(p, v, k)
        /\ InOrder(hPosts[p]) /\ Due(hPosts[p], j.attempt)
        /\ First(p) \in hWindow
    BY <1>2, <2>1, <2>2 DEF Single, OnePlace, Attempts, Nothing
  <2>4. hPosts'[p] = Append(hPosts[p], a) /\ hPosts[p] \in Seq(Answers)
    BY <1>3, <1>5, <1>9
  <2>5. InOrder(hPosts'[p]) /\ Made(hPosts'[p], j.attempt, a.class)
    BY <1>4, <2>3, <2>4, AttemptMade
  <2>6. Answered(w, 1)'
    BY <1>6 DEF Answered
  <2>7. OnePlace(p)'
    BY <1>7 DEF OnePlace, Single
  <2>8. Attempts(p)'
    <3>1. hInbox'[w][1] = j
      BY <1>2, <1>3
    <3>2. Made(hPosts'[p], hInbox'[w][1].attempt, hClass'[w])
      BY <1>6, <2>5, <3>1
    <3>. QED
      BY <1>7, <2>3, <2>5, <2>6, <3>2 DEF Attempts
  <2>9. First(p) \in hWindow'
    BY <1>3, <2>3
  <2>. QED
    BY <2>7, <2>8, <2>9 DEF Single, First
<1>. QED
  BY <1>8, <1>9

LEMMA SingleSettle ==
  ASSUME Hooks!BoundAssumption, HookTyped, HookTyped', NEW p \in Hooks!Pairs, Single(p),
         NEW w \in HookWorkers, Hooks!Settle(w)
  PROVE  Single(p)'
<1>. DEFINE j == Head(hInbox[w])
            b == Hooks!Bumped(j)
<1>1. hPc[w] = "settle" /\ hInbox[w] # <<>>
  BY DEF HookTyped, Hooks!Settle
<1>2. j \in Hooks!Jobs /\ j = hInbox[w][1] /\ 1 \in DOMAIN hInbox[w]
  BY <1>1, InboxHead
<1>3. Hooks!Finish(w) /\ UNCHANGED <<hQueue, hWindow, hPosts>>
  BY DEF Hooks!Settle
<1>4. \A k : Q(p, k)' <=> Q(p, k)
  BY <1>3 DEF Q
<1>5. CASE hBackoff' = hBackoff
  <2>1. \A v, k : B(p, v, k)' => B(p, v, k)
    BY <1>5 DEF B
  <2>. QED
    BY <1>1, <1>3, <1>4, <2>1, Shifted
<1>6. CASE /\ hClass[w] = "transient" /\ ~Hooks!Exhausted(j)
           /\ hBackoff' = [hBackoff EXCEPT ![w] = @ \cup {b}]
  <2>1. b \in Hooks!Jobs /\ b.attempt = j.attempt + 1 /\ Hooks!Pair(b) = Hooks!Pair(j)
    BY <1>2, <1>6, JobMade
  <2>. HIDE DEF b
  <2>2. \A v, k : B(p, v, k)' => B(p, v, k) \/ (v = w /\ k = b /\ Hooks!Pair(j) = p)
    BY <1>6, <2>1 DEF B, HookTyped
  <2>3. CASE Hooks!Pair(j) # p
    BY <1>1, <1>3, <1>4, <2>2, <2>3, Shifted
  <2>4. CASE Hooks!Pair(j) = p
    <3>1. I(p, w, 1) /\ Answered(w, 1)
      BY <1>1, <1>2, <2>4 DEF I, Answered
    <3>2. /\ \A k : ~Q(p, k)
          /\ \A v, i : I(p, v, i) => v = w /\ i = 1
          /\ \A v, k : ~B(p, v, k)
          /\ InOrder(hPosts[p]) /\ Made(hPosts[p], j.attempt, "transient")
          /\ First(p) \in hWindow
      BY <1>2, <1>6, <3>1 DEF Single, OnePlace, Attempts, Nothing
    <3>3. \A v, i : ~I(p, v, i)'
      <4>1. ASSUME NEW v, NEW i, I(p, v, i)' PROVE FALSE
        <5>1. v \in HookWorkers /\ i \in DOMAIN hInbox'[v] /\ Hooks!Pair(hInbox'[v][i]) = p
          BY <4>1 DEF I
        <5>2. CASE v # w
          <6>1. hInbox'[v] = hInbox[v]
            BY <1>1, <1>3, <5>1, <5>2, FinishFacts
          <6>. QED
            BY <3>2, <5>1, <5>2, <6>1 DEF I
        <5>3. CASE v = w
          <6>1. hInbox'[w] = Tail(hInbox[w])
            BY <1>1, <1>3, FinishFacts
          <6>2. i + 1 \in DOMAIN hInbox[w] /\ i + 1 # 1 /\ hInbox'[w][i] = hInbox[w][i + 1]
            BY <1>1, <5>1, <5>3, <6>1, InboxHead
          <6>. QED
            BY <3>2, <5>1, <5>3, <6>2 DEF I
        <5>. QED
          BY <5>2, <5>3
      <4>. QED
        BY <4>1
    <3>4. \A k : ~Q(p, k)'
      BY <1>4, <3>2
    <3>5. \A v, k : B(p, v, k)' => v = w /\ k = b
      BY <2>2, <3>2
    <3>6. Due(hPosts'[p], b.attempt) /\ InOrder(hPosts'[p])
      <4>1. hPosts[p] \in Seq(Answers) /\ j.attempt \in Nat
        BY <1>2, JobFacts DEF HookTyped, Hooks!BoundAssumption
      <4>2. Due(hPosts[p], j.attempt + 1)
        BY <3>2, <4>1, NextIsDue
      <4>. QED
        BY <1>3, <2>1, <3>2, <4>2
    <3>7. OnePlace(p)'
      BY <3>3, <3>4, <3>5 DEF OnePlace
    <3>8. Attempts(p)'
      BY <3>3, <3>4, <3>5, <3>6 DEF Attempts
    <3>9. First(p) \in hWindow'
      BY <1>3, <3>2
    <3>. QED
      BY <3>7, <3>8, <3>9 DEF Single, First
  <2>. QED
    BY <2>3, <2>4
<1>. QED
  BY <1>5, <1>6 DEF Hooks!Settle


\* The steps that move no job of p, and those that lose one.
LEMMA SingleElse ==
  ASSUME HookTyped, HookTyped', NEW p \in Hooks!Pairs, Single(p),
         \/ \E e \in DomainEvents : \/ Hooks!FanOut(e)
                                    \/ \E s \in Subs : Hooks!QueueFails(e, s)
         \/ \E w \in HookWorkers : \/ Hooks!Record(w) \/ Hooks!RecordFails(w)
                                   \/ \E j \in hBackoff[w] : Hooks!RequeueFails(w, j)
         \/ \E id \in hWindow : Hooks!Forget(id) /\ p \notin hForgotten'
         \/ UNCHANGED Hooks!vars
  PROVE  Single(p)'
<1>1. ASSUME UNCHANGED <<hQueue, hWindow, hInbox, hPc, hClass, hBackoff, hPosts>> PROVE Single(p)'
  <2>1. /\ \A j : Q(p, j)' => Q(p, j)
        /\ \A w, j : B(p, w, j)' => B(p, w, j)
        /\ \A w, i : I(p, w, i)' => I(p, w, i)
        /\ \A w, i : Answered(w, i)' = Answered(w, i)
    BY <1>1 DEF Q, B, I, Answered
  <2>. QED
    BY <1>1, <2>1, Steady
<1>2. ASSUME NEW e \in DomainEvents, NEW s \in Subs, Hooks!FanOut(e) \/ Hooks!QueueFails(e, s)
      PROVE  Single(p)'
  BY <1>1, <1>2 DEF Hooks!FanOut, Hooks!QueueFails, Hooks!history
<1>3. ASSUME NEW e \in DomainEvents, Hooks!FanOut(e)
      PROVE  Single(p)'
  BY <1>1, <1>3 DEF Hooks!FanOut, Hooks!history
<1>4. ASSUME NEW w \in HookWorkers, Hooks!Record(w) \/ Hooks!RecordFails(w)
      PROVE  Single(p)'
  <2>1. /\ hPc[w] = "count" /\ hPc' = [hPc EXCEPT ![w] = "settle"]
        /\ UNCHANGED <<hQueue, hWindow, hInbox, hClass, hBackoff, hPosts>>
    BY <1>4 DEF Hooks!Record, Hooks!RecordFails, Hooks!history
  <2>2. /\ \A j : Q(p, j)' => Q(p, j)
        /\ \A v, j : B(p, v, j)' => B(p, v, j)
        /\ \A v, i : I(p, v, i)' => I(p, v, i) /\ v \in HookWorkers
    BY <2>1 DEF Q, B, I
  <2>3. \A v \in HookWorkers : \A i : Answered(v, i)' <=> Answered(v, i)
    BY <2>1 DEF Answered, HookTyped
  <2>. QED
    BY <2>1, <2>2, <2>3, Steady
<1>5. ASSUME NEW w \in HookWorkers, NEW j \in hBackoff[w], Hooks!RequeueFails(w, j)
      PROVE  Single(p)'
  <2>1. /\ hBackoff' = [hBackoff EXCEPT ![w] = @ \ {j}]
        /\ UNCHANGED <<hQueue, hWindow, hInbox, hPc, hClass, hPosts>>
    BY <1>5 DEF Hooks!RequeueFails
  <2>2. /\ \A k : Q(p, k)' => Q(p, k)
        /\ \A v, k : B(p, v, k)' => B(p, v, k)
        /\ \A v, i : I(p, v, i)' => I(p, v, i)
        /\ \A v, i : Answered(v, i)' = Answered(v, i)
    BY <2>1 DEF Q, B, I, Answered, HookTyped
  <2>. QED
    BY <2>1, <2>2, Steady
<1>6. ASSUME NEW id \in hWindow, Hooks!Forget(id), p \notin hForgotten'
      PROVE  Single(p)'
  <2>1. /\ hWindow' = hWindow \ {id} /\ hForgotten' = hForgotten \cup {Hooks!Pair(id)}
        /\ UNCHANGED <<hQueue, hInbox, hPc, hClass, hBackoff, hPosts>>
    BY <1>6 DEF Hooks!Forget
  <2>2. Hooks!Pair(First(p)) = p
    BY DEF Hooks!Pair, Hooks!Pairs, First
  <2>3. First(p) \in hWindow' \/ First(p) \notin hWindow
    BY <1>6, <2>1, <2>2
  <2>4. /\ \A j : Q(p, j)' => Q(p, j)
        /\ \A w, j : B(p, w, j)' => B(p, w, j)
        /\ \A w, i : I(p, w, i)' => I(p, w, i)
        /\ \A w, i : Answered(w, i)' = Answered(w, i)
    BY <2>1 DEF Q, B, I, Answered
  <2>. QED
    BY <2>1, <2>3, <2>4, Steady
<1>7. CASE UNCHANGED Hooks!vars
  BY <1>1, <1>7 DEF Hooks!vars
<1>. QED
  BY <1>2, <1>3, <1>4, <1>5, <1>6, <1>7

LEMMA SingleLoad ==
  ASSUME HookTyped, HookTyped', NEW p \in Hooks!Pairs, Single(p), NEW w \in HookWorkers,
         Hooks!Load(w) \/ Hooks!LoadFails(w) \/ Hooks!Crash(w)
  PROVE  Single(p)'
<1>1. ASSUME hInbox[w] # <<>>, Hooks!Finish(w), UNCHANGED <<hQueue, hWindow, hPosts, hBackoff>>
      PROVE  Single(p)'
  <2>1. /\ \A j : Q(p, j)' => Q(p, j)
        /\ \A v, j : B(p, v, j)' => B(p, v, j)
    BY <1>1 DEF Q, B
  <2>. QED
    BY <1>1, <2>1, Shifted
<1>2. CASE Hooks!Load(w)
  <2>1. hInbox[w] # <<>> /\ UNCHANGED <<hQueue, hWindow, hPosts, hBackoff>> /\ hPc[w] = "idle"
    BY <1>2 DEF Hooks!Load
  <2>2. CASE Hooks!Usable(Head(hInbox[w]).sub)
    <3>1. UNCHANGED <<hInbox, hClass>> /\ hPc' = [hPc EXCEPT ![w] = "post"]
      BY <1>2, <2>2 DEF Hooks!Load
    <3>2. /\ \A j : Q(p, j)' => Q(p, j)
          /\ \A v, j : B(p, v, j)' => B(p, v, j)
          /\ \A v, i : I(p, v, i)' => I(p, v, i) /\ v \in HookWorkers
      BY <2>1, <3>1 DEF Q, B, I
    <3>3. \A v \in HookWorkers : \A i : Answered(v, i)' <=> Answered(v, i)
      BY <2>1, <3>1 DEF Answered, HookTyped
    <3>. QED
      BY <2>1, <3>1, <3>2, <3>3, Steady
  <2>3. CASE ~Hooks!Usable(Head(hInbox[w]).sub)
    <3>1. Hooks!Finish(w)
      BY <1>2, <2>3 DEF Hooks!Load
    <3>. QED
      BY <1>1, <2>1, <3>1
  <2>. QED
    BY <2>2, <2>3
<1>3. CASE Hooks!LoadFails(w)
  BY <1>1, <1>3 DEF Hooks!LoadFails, Hooks!Redelivered
<1>4. CASE Hooks!Crash(w)
  <2>1. /\ UNCHANGED <<hQueue, hWindow, hPosts>>
        /\ hInbox' = [hInbox EXCEPT ![w] = <<>>] /\ hBackoff' = [hBackoff EXCEPT ![w] = {}]
        /\ hPc' = [hPc EXCEPT ![w] = "idle"] /\ hClass' = [hClass EXCEPT ![w] = None]
    BY <1>4 DEF Hooks!Crash, Hooks!Redelivered
  <2>2. /\ \A j : Q(p, j)' => Q(p, j)
        /\ \A v, j : B(p, v, j)' => B(p, v, j)
    BY <2>1 DEF Q, B, HookTyped
  <2>3. \A v \in HookWorkers : v # w => hInbox'[v] = hInbox[v] /\ hPc'[v] = hPc[v] /\ hClass'[v] = hClass[v]
    BY <2>1 DEF HookTyped
  <2>4. hInbox'[w] = <<>>
    BY <2>1 DEF HookTyped
  <2>5. \A i : ~I(p, w, i)'
    BY <2>4 DEF I
  <2>6. \A v, i : I(p, v, i)' => v \in HookWorkers /\ v # w
    BY <2>5 DEF I
  <2>7. \A v, i : I(p, v, i)' =>
           /\ I(p, v, i) /\ hInbox'[v][i] = hInbox[v][i]
           /\ Answered(v, i)' <=> Answered(v, i)
           /\ Answered(v, i)' => hClass'[v] = hClass[v]
    BY <2>3, <2>6 DEF I, Answered
  <2>. QED
    BY <2>1, <2>2, <2>7, Steady
<1>. QED
  BY <1>2, <1>3, <1>4

LEMMA ForgottenGrows ==
  ASSUME [Hooks!Next]_Hooks!vars
  PROVE  hForgotten \subseteq hForgotten'
BY DEF Hooks!Next, Hooks!Loop, Hooks!vars, Hooks!history, Hooks!FanOut, Hooks!Queue, Hooks!QueueFails,
       Hooks!Pull, Hooks!Load, Hooks!LoadFails, Hooks!Deliver, Hooks!Record, Hooks!RecordFails,
       Hooks!Settle, Hooks!requeueAfter, Hooks!RequeueFails, Hooks!Crash, Hooks!Forget

LEMMA OneStep ==
  ASSUME Hooks!BoundAssumption, HookTyped, OneInv, [Hooks!Next]_Hooks!vars
  PROVE  OneInv'
<1>. SUFFICES ASSUME NEW p \in Hooks!Pairs, p \notin hForgotten' PROVE Single(p)'
  BY DEF OneInv, Hooks!Pairs
<1>1. HookTyped' /\ Single(p)
  BY HookTypedStep, ForgottenGrows DEF OneInv
<1>. QED
  BY <1>1, SingleElse, SingleLoad, SingleQueue, SingleRequeue, SinglePull, SingleDeliver, SingleSettle
     DEF Hooks!Next, Hooks!Loop

LEMMA AtMostOne ==
  ASSUME NEW S, \A x, y \in S : x = y
  PROVE  Cardinality(S) \in {0, 1} /\ (Cardinality(S) = 1 => \E x : x \in S)
<1>1. CASE S = {}
  <2>1. Cardinality({}) = 0
    BY FS_EmptySet
  <2>. QED
    BY <1>1, <2>1
<1>2. CASE S # {}
  <2>1. PICK x : S = {x}
    BY <1>2
  <2>2. Cardinality({x}) = 1
    BY FS_Singleton
  <2>. QED
    BY <2>1, <2>2
<1>. QED
  BY <1>1, <1>2

LEMMA OneCopy ==
  ASSUME NEW p \in Hooks!Pairs, OnePlace(p)
  PROVE  Hooks!Copies(p) <= 1
<1>. DEFINE S == {j \in hQueue : Hooks!Pair(j) = p}
            T == {x \in HookWorkers \X (1..Prefetch) :
                    x[2] \in DOMAIN hInbox[x[1]] /\ Hooks!Pair(hInbox[x[1]][x[2]]) = p}
            U == {x \in HookWorkers \X Hooks!Jobs : x[2] \in hBackoff[x[1]] /\ Hooks!Pair(x[2]) = p}
<1>1. Hooks!Copies(p) = Cardinality(S) + Cardinality(T) + Cardinality(U)
  BY HookCardinality DEF Hooks!Copies
<1>2. \A j \in S : Q(p, j)
  BY DEF Q
<1>3. \A x \in T : I(p, x[1], x[2]) /\ x = <<x[1], x[2]>>
  BY DEF I
<1>4. \A x \in U : B(p, x[1], x[2]) /\ x = <<x[1], x[2]>>
  BY DEF B
<1>. HIDE DEF S, T, U
<1>5. \A x, y \in S : x = y
  BY <1>2 DEF OnePlace
<1>6. \A x, y \in T : x = y
  <2>1. ASSUME NEW x \in T, NEW y \in T PROVE x[1] = y[1] /\ x[2] = y[2]
    BY <1>3 DEF OnePlace
  <2>. QED
    BY <1>3, <2>1
<1>7. \A x, y \in U : x = y
  <2>1. ASSUME NEW x \in U, NEW y \in U PROVE x[1] = y[1] /\ x[2] = y[2]
    BY <1>4 DEF OnePlace
  <2>. QED
    BY <1>4, <2>1
<1>8. /\ \A x \in S, y \in T : FALSE
      /\ \A x \in S, y \in U : FALSE
      /\ \A x \in T, y \in U : FALSE
  BY <1>2, <1>3, <1>4 DEF OnePlace
<1>9. /\ Cardinality(S) \in {0, 1} /\ (Cardinality(S) = 1 => \E x : x \in S)
      /\ Cardinality(T) \in {0, 1} /\ (Cardinality(T) = 1 => \E x : x \in T)
      /\ Cardinality(U) \in {0, 1} /\ (Cardinality(U) = 1 => \E x : x \in U)
  BY <1>5, <1>6, <1>7, AtMostOne
<1>. QED
  BY <1>1, <1>8, <1>9

\* While the stream has its Msg-Ids, a delivery is one job wherever it is, the
\* endpoint sees attempts 1, 2, ... once each in this order, and none after one
\* that it answered for good: over any repetition of FanOut, any number of
\* workers, crashes and lost publishes.
THEOREM OneAttempt ==
  ASSUME Hooks!BoundAssumption
  PROVE  Hooks!Spec => []OneAttemptAtATime
<1>1. Hooks!Init => HookTyped /\ OneInv
  BY HookInit, OneInit
<1>2. HookTyped /\ OneInv /\ [Hooks!Next]_Hooks!vars => (HookTyped /\ OneInv)'
  BY HookTypedStep, OneStep
<1>3. HookTyped /\ OneInv => OneAttemptAtATime
  <2>. SUFFICES ASSUME HookTyped, OneInv, NEW p \in Hooks!Pairs \ hForgotten
                PROVE  /\ Hooks!Copies(p) <= 1
                       /\ \A i \in DOMAIN hPosts[p] :
                            /\ hPosts[p][i].attempt = i
                            /\ i < Len(hPosts[p]) => hPosts[p][i].class = "transient"
    BY DEF OneAttemptAtATime, Hooks!OneAttemptAtATime
  <2>1. OnePlace(p) /\ InOrder(hPosts[p])
    BY DEF OneInv, Single, Attempts
  <2>2. DOMAIN hPosts[p] = 1..Len(hPosts[p])
    BY LenProperties DEF HookTyped
  <2>. QED
    BY <2>1, <2>2, OneCopy DEF InOrder
<1>. QED
  BY <1>1, <1>2, <1>3, PTL DEF Hooks!Spec


-----------------------------------------------------------------------------
(***************************************************************************)
(* Connectors: the Msg-Id an event travels with, if it has one.            *)
(***************************************************************************)
KeyIs(s, key) ==
  \/ s.src = "fb" /\ s.type \in {"message", "postback"} /\ key = <<"fb", s.id>>
  \/ s.src = "ig" /\ s.type \in {"dm", "comment", "mention"} /\ key = <<"ig", s.to, s.id>>
  \/ s.src = "wa" /\ s.type \in {"message", "sent", "delivered", "read"} /\ key = <<"wa", s.to, s.id>>
  \/ s.src = "x" /\ s.type \in {"reply", "quote", "mention", "dm", "favorite"} /\ key = <<"x", s.to, s.id>>
  \/ s.src = "voice" /\ s.type \in {"ringing", "consent", "ended"} /\ key = <<"voice", s.to, s.id, s.type>>

LEMMA ShapeFacts ==
  ASSUME NEW s \in In!Shapes
  PROVE  /\ s.src \in {"fb", "ig", "wa", "x", "voice", "widget"}
         /\ s.type \in In!Types[s.src] \cup {In!Garbage, In!Forged}
         /\ s.id \in Ids /\ s.to \in Accounts
BY DEF In!Shapes, In!Sources, In!Types

\* What a handler publishes, if anything, is what Normalize makes of the event.
LEMMA EventFacts ==
  ASSUME NEW s \in In!Shapes, NEW found \in BOOLEAN
  PROVE  /\ In!Handle(s, found).event \in {In!Nothing, In!Normalize(s)}
         /\ found /\ s.type \notin {In!Garbage, In!Forged} => In!Handle(s, found).event = In!Normalize(s)
         /\ In!Nothing.key = None /\ In!Nothing.kind = None
         /\ \A kind, key : In!Event(kind, key).key = key /\ In!Event(kind, key).kind = kind
<1>1. s.src \in {"fb", "ig", "wa", "x", "voice", "widget"}
  BY ShapeFacts
<1>2. \A code, event : In!Answer(code, event).event = event
  BY DEF In!Answer
<1>3. In!Dropping(s, found).event \in {In!Nothing, In!Normalize(s)}
  BY <1>2 DEF In!Dropping
<1>4. In!VoiceServeHTTP(s, found).event \in {In!Nothing, In!Normalize(s)}
  BY <1>2 DEF In!VoiceServeHTTP
<1>5. In!WidgetPump(s, found).event \in {In!Nothing, In!Normalize(s)}
  BY <1>2 DEF In!WidgetPump
<1>6. \/ In!Handle(s, found) = In!Dropping(s, found)
      \/ In!Handle(s, found) = In!VoiceServeHTTP(s, found)
      \/ In!Handle(s, found) = In!WidgetPump(s, found)
  BY <1>1, Zenon DEF In!Handle, In!FbHandleEvent, In!IgHandleEvent, In!WaHandleEvent, In!XHandleEvent
<1>7. ASSUME found, s.type \notin {In!Garbage, In!Forged}
      PROVE  In!Handle(s, found).event = In!Normalize(s)
  <2>1. In!Dropping(s, found).event = In!Normalize(s) /\ In!WidgetPump(s, found).event = In!Normalize(s)
    BY <1>2, <1>7 DEF In!Dropping, In!WidgetPump
  <2>2. In!VoiceServeHTTP(s, found).event = In!Normalize(s)
    BY <1>2, <1>7 DEF In!VoiceServeHTTP
  <2>. QED
    BY <1>2, <1>6, <2>1, <2>2
<1>8. /\ In!Nothing.key = None /\ In!Nothing.kind = None
      /\ \A kind, key : In!Event(kind, key).key = key /\ In!Event(kind, key).kind = kind
  BY DEF In!Nothing, In!Event
<1>. QED
  BY <1>3, <1>4, <1>5, <1>6, <1>7, <1>8

\* An event that has a Msg-Id when it is handled has the one of its shape.
LEMMA KeyOfEvent ==
  ASSUME NEW s \in In!Shapes, NEW found \in BOOLEAN,
         In!Handle(s, found).event.key # None
  PROVE  KeyIs(s, In!Handle(s, found).event.key)
<1>. DEFINE ev == In!Handle(s, found).event
<1>1. s.src \in {"fb", "ig", "wa", "x", "voice", "widget"}
  BY ShapeFacts
<1>2. In!Nothing.key = None /\ \A kind, key : In!Event(kind, key).key = key
  BY EventFacts
<1>4. ev \in {In!Nothing, In!Normalize(s)}
  BY EventFacts
<1>5. ev = In!Normalize(s)
  BY <1>2, <1>4
<1>6. CASE s.src = "fb"
  <2>1. In!Normalize(s) = In!FbNormalize(s)
    BY <1>6, Zenon DEF In!Normalize
  <2>2. \/ s.type \in {"message", "postback"} /\ In!FbNormalize(s) = In!Event(s.type, <<"fb", s.id>>)
        \/ In!FbNormalize(s) \in {In!Event(s.type, None), In!Nothing}
    BY Zenon DEF In!FbNormalize
  <2>. QED
    BY <1>2, <1>5, <1>6, <2>1, <2>2 DEF KeyIs
<1>7. CASE s.src = "ig"
  <2>1. In!Normalize(s) = In!IgNormalize(s)
    BY <1>7, Zenon DEF In!Normalize
  <2>2. \/ /\ s.type \in {"dm", "comment", "mention"}
           /\ In!IgNormalize(s) = In!Event(s.type, <<"ig", s.to, s.id>>)
        \/ In!IgNormalize(s) \in {In!Event(s.type, None), In!Nothing}
    BY Zenon DEF In!IgNormalize
  <2>. QED
    BY <1>2, <1>5, <1>7, <2>1, <2>2 DEF KeyIs
<1>8. CASE s.src = "wa"
  <2>1. In!Normalize(s) = In!WaNormalize(s)
    BY <1>8, Zenon DEF In!Normalize
  <2>2. \/ /\ s.type \in {"message", "sent", "delivered", "read"}
           /\ \E kind : In!WaNormalize(s) = In!Event(kind, <<"wa", s.to, s.id>>)
        \/ In!WaNormalize(s) = In!Nothing
    BY Zenon DEF In!WaNormalize
  <2>. QED
    BY <1>2, <1>5, <1>8, <2>1, <2>2 DEF KeyIs
<1>9. CASE s.src = "x"
  <2>1. In!Normalize(s) = In!XNormalize(s)
    BY <1>9, Zenon DEF In!Normalize
  <2>2. \/ /\ s.type \in In!Types.x \ {"follow"}
           /\ In!XNormalize(s) = In!Event(s.type, <<"x", s.to, s.id>>)
        \/ In!XNormalize(s) \in {In!Event(s.type, None), In!Nothing}
    BY Zenon DEF In!XNormalize
  <2>3. In!Types.x = {"reply", "quote", "mention", "dm", "favorite", "follow"}
    BY DEF In!Types
  <2>. QED
    BY <1>2, <1>5, <1>9, <2>1, <2>2, <2>3 DEF KeyIs
<1>10. CASE s.src = "voice"
  <2>1. In!Normalize(s) = In!VoiceNormalize(s)
    BY <1>10, Zenon DEF In!Normalize
  <2>2. In!Types.voice = {"ringing", "consent", "ended"}
    BY DEF In!Types
  <2>. QED
    BY <1>2, <1>5, <1>10, <2>1, <2>2 DEF In!VoiceNormalize, KeyIs
<1>11. CASE s.src = "widget"
  <2>1. In!Normalize(s) = In!WidgetFrame(s)
    BY <1>11, Zenon DEF In!Normalize
  <2>2. In!WidgetFrame(s) \in {In!Event("identified", None), In!Event(s.type, None), In!Nothing}
    BY Zenon DEF In!WidgetFrame
  <2>. QED
    BY <1>2, <1>5, <2>1, <2>2
<1>. QED
  BY <1>1, <1>6, <1>7, <1>8, <1>9, <1>10, <1>11


\* An event that must be accounted for is published with a Msg-Id.
LEMMA IdentifiedEvent ==
  ASSUME In!NoneAssumption, NEW s \in In!Shapes, In!HasId(s)
  PROVE  /\ In!Normalize(s).kind # None /\ In!Normalize(s).key # None
         /\ s.type \notin {In!Garbage, In!Forged}
<1>1. /\ s.src \in {"fb", "ig", "wa", "x", "voice", "widget"}
      /\ s.id \in Ids /\ s.to \in Accounts
  BY ShapeFacts
<1>2. \A kind, key : In!Event(kind, key).key = key /\ In!Event(kind, key).kind = kind
  BY EventFacts
<1>3. s.type \in In!Types[s.src] \ In!Mute[s.src]
  BY DEF In!HasId
<1>4. \A src \in {"fb", "ig", "wa", "x", "voice", "widget"} : None \notin In!Types[src]
  BY DEF In!NoneAssumption, In!Sources, In!Types
<1>5. None # s.type
  BY <1>1, <1>3, <1>4
<1>6. s.type \notin {In!Garbage, In!Forged}
  BY <1>1, <1>3 DEF In!Types, In!Garbage, In!Forged
<1>7. /\ None # "status" /\ None # <<"fb", s.id>>
      /\ \A src \in {"ig", "wa", "x"} : None # <<src, s.to, s.id>>
      /\ \A type \in In!Types.voice : None # <<"voice", s.to, s.id, type>>
  BY <1>1 DEF In!NoneAssumption
<1>8. CASE s.src = "fb"
  <2>1. In!Normalize(s) = In!FbNormalize(s)
    BY <1>8, Zenon DEF In!Normalize
  <2>2. s.type \in {"message", "postback"}
    BY <1>3, <1>8 DEF In!Types, In!Mute
  <2>3. In!FbNormalize(s) = In!Event(s.type, <<"fb", s.id>>)
    BY <2>2, Zenon DEF In!FbNormalize
  <2>. QED
    BY <1>2, <1>5, <1>6, <1>7, <2>1, <2>3
<1>9. CASE s.src = "ig"
  <2>1. In!Normalize(s) = In!IgNormalize(s)
    BY <1>9, Zenon DEF In!Normalize
  <2>2. s.type \in {"dm", "comment", "mention"}
    BY <1>3, <1>9 DEF In!Types, In!Mute
  <2>3. In!IgNormalize(s) = In!Event(s.type, <<"ig", s.to, s.id>>)
    BY <2>2, Zenon DEF In!IgNormalize
  <2>. QED
    BY <1>2, <1>5, <1>6, <1>7, <2>1, <2>3
<1>10. CASE s.src = "wa"
  <2>1. In!Normalize(s) = In!WaNormalize(s)
    BY <1>10, Zenon DEF In!Normalize
  <2>2. s.type \in {"message", "sent", "delivered", "read"}
    BY <1>3, <1>10 DEF In!Types, In!Mute
  <2>3. \/ s.type = "message" /\ In!WaNormalize(s) = In!Event("message", <<"wa", s.to, s.id>>)
        \/ s.type # "message" /\ In!WaNormalize(s) = In!Event("status", <<"wa", s.to, s.id>>)
    BY <2>2, Zenon DEF In!WaNormalize
  <2>. QED
    BY <1>2, <1>5, <1>6, <1>7, <2>1, <2>3
<1>11. CASE s.src = "x"
  <2>1. In!Normalize(s) = In!XNormalize(s)
    BY <1>11, Zenon DEF In!Normalize
  <2>2. s.type # "follow" /\ s.type \in In!Types.x \ {"follow"}
    BY <1>3, <1>11 DEF In!Types, In!Mute
  <2>3. In!XNormalize(s) = In!Event(s.type, <<"x", s.to, s.id>>)
    BY <2>2, Zenon DEF In!XNormalize
  <2>. QED
    BY <1>2, <1>5, <1>6, <1>7, <2>1, <2>3
<1>12. CASE s.src = "voice"
  <2>1. In!Normalize(s) = In!VoiceNormalize(s)
    BY <1>12, Zenon DEF In!Normalize
  <2>2. s.type \in In!Types.voice
    BY <1>3, <1>12 DEF In!Types
  <2>3. In!VoiceNormalize(s) = In!Event(s.type, <<"voice", s.to, s.id, s.type>>)
    BY <2>2 DEF In!VoiceNormalize
  <2>. QED
    BY <1>2, <1>5, <1>6, <1>7, <2>1, <2>2, <2>3
<1>13. CASE s.src = "widget"
  BY <1>3, <1>13 DEF In!Types, In!Mute
<1>. QED
  BY <1>1, <1>8, <1>9, <1>10, <1>11, <1>12, <1>13


\* Two events under one Msg-Id are one thing, or two statuses of one message.
LEMMA SameKey ==
  ASSUME cShape \in [PlatformEvents -> In!Shapes], In!Names(cShape), NEW e \in PlatformEvents, NEW f \in PlatformEvents,
         NEW key, KeyIs(cShape[e], key), KeyIs(cShape[f], key)
  PROVE  \/ In!SameThing(cShape[e], cShape[f])
         \/ In!IsStatus(cShape[e]) /\ In!IsStatus(cShape[f])
<1>. DEFINE s == cShape[e]
            t == cShape[f]
<1>1. key[1] = s.src /\ key[1] = t.src
  BY DEF KeyIs
<1>2. s.src # "widget"
  BY DEF KeyIs
<1>3. \/ s.src # t.src \/ s.id # t.id
      \/ s.type \in {In!Garbage, In!Forged} \/ t.type \in {In!Garbage, In!Forged}
      \/ s.src \in {"voice", "widget"}
      \/ s.type = t.type /\ (s.to = t.to \/ s.src = "x")
      \/ {s.type, t.type} \subseteq {"sent", "delivered", "read"} /\ s.to = t.to
  BY DEF In!Names
<1>4. s.type \notin {In!Garbage, In!Forged} /\ t.type \notin {In!Garbage, In!Forged}
  BY DEF KeyIs, In!Garbage, In!Forged
<1>5. CASE s.src = "fb"
  <2>1. key = <<"fb", s.id>> /\ key = <<"fb", t.id>>
    BY <1>1, <1>5 DEF KeyIs
  <2>2. s.type \in {"message", "postback"}
    BY <1>5 DEF KeyIs
  <2>. QED
    BY <1>1, <1>3, <1>4, <1>5, <2>1, <2>2 DEF In!SameThing
<1>6. CASE s.src = "ig"
  <2>1. key = <<"ig", s.to, s.id>> /\ key = <<"ig", t.to, t.id>>
    BY <1>1, <1>6 DEF KeyIs
  <2>2. s.type \in {"dm", "comment", "mention"}
    BY <1>6 DEF KeyIs
  <2>. QED
    BY <1>1, <1>3, <1>4, <1>6, <2>1, <2>2 DEF In!SameThing
<1>7. CASE s.src = "wa"
  <2>1. key = <<"wa", s.to, s.id>> /\ key = <<"wa", t.to, t.id>>
    BY <1>1, <1>7 DEF KeyIs
  <2>2. \/ s.type = t.type
        \/ {s.type, t.type} \subseteq {"sent", "delivered", "read"}
    BY <1>1, <1>3, <1>4, <1>7, <2>1
  <2>. QED
    BY <1>1, <1>7, <2>1, <2>2 DEF In!SameThing, In!IsStatus
<1>8. CASE s.src = "x"
  <2>1. key = <<"x", s.to, s.id>> /\ key = <<"x", t.to, t.id>>
    BY <1>1, <1>8 DEF KeyIs
  <2>2. s.type \in {"reply", "quote", "mention", "dm", "favorite"}
    BY <1>8 DEF KeyIs
  <2>. QED
    BY <1>1, <1>3, <1>4, <1>8, <2>1, <2>2 DEF In!SameThing
<1>9. CASE s.src = "voice"
  <2>1. key = <<"voice", s.to, s.id, s.type>> /\ key = <<"voice", t.to, t.id, t.type>>
    BY <1>1, <1>9 DEF KeyIs
  <2>. QED
    BY <1>1, <2>1 DEF In!SameThing
<1>10. s.src \in {"fb", "ig", "wa", "x", "voice"}
  BY DEF KeyIs
<1>. QED
  BY <1>5, <1>6, <1>7, <1>8, <1>9, <1>10

LEMMA OneKey ==
  ASSUME NEW s, NEW key, NEW other, KeyIs(s, key), KeyIs(s, other)
  PROVE  key = other
BY DEF KeyIs

-----------------------------------------------------------------------------
(***************************************************************************)
(* Connectors: the stream's duplicate window names, by the key it set, an  *)
(* event that is in the stream; while nothing of an event was forgotten,   *)
(* its one copy is named there.                                            *)
(***************************************************************************)
InTyped ==
  /\ cShape \in [PlatformEvents -> In!Shapes] /\ In!Names(cShape)
  /\ cPlatform \in [PlatformEvents -> {"idle", "due", "done"}]
  /\ cCopies \in [PlatformEvents -> Nat]
  /\ cDropped \in [PlatformEvents -> SUBSET PlatformEvents]
  /\ \A w \in cWindow : w.by \in PlatformEvents /\ KeyIs(cShape[w.by], w.key) /\ cCopies[w.by] > 0

Kept(e) == \E f \in cDropped[e] : cCopies[f] > 0
Accounted(e) ==
  /\ cPlatform[e] = "done" /\ e \notin cMissed => cCopies[e] > 0 \/ Kept(e)
  /\ e \notin cForgotten /\ cCopies[e] > 0 => cCopies[e] = 1 /\ \E w \in cWindow : w.by = e

InInv == In!OnlyRetriesAreDropped /\ \A e \in PlatformEvents : In!HasId(cShape[e]) => Accounted(e)

LEMMA InInit == In!Init => InTyped /\ InInv
<1>. SUFFICES ASSUME In!Init PROVE InTyped /\ InInv
  OBVIOUS
<1>1. InTyped
  BY DEF In!Init, InTyped
<1>2. In!OnlyRetriesAreDropped
  BY DEF In!Init, In!OnlyRetriesAreDropped
<1>3. \A e \in PlatformEvents : Accounted(e)
  BY DEF In!Init, Accounted
<1>. QED
  BY <1>1, <1>2, <1>3 DEF InInv

LEMMA InHappen ==
  ASSUME InTyped, InInv, NEW e \in PlatformEvents, In!Happen(e)
  PROVE  (InTyped /\ InInv)'
<1>1. /\ cPlatform' = [cPlatform EXCEPT ![e] = "due"]
      /\ UNCHANGED <<cShape, cWindow, cCopies, cDropped, cForgotten, cMissed>>
  BY DEF In!Happen
<1>2. InTyped'
  BY <1>1 DEF InTyped, In!Names
<1>3. In!OnlyRetriesAreDropped'
  BY <1>1 DEF InInv, In!OnlyRetriesAreDropped, In!SameThing, In!IsStatus
<1>4. \A f \in PlatformEvents : cPlatform'[f] = "done" => cPlatform[f] = "done"
  BY <1>1 DEF InTyped
<1>5. \A f \in PlatformEvents : In!HasId(cShape[f]) => Accounted(f)'
  BY <1>1, <1>4 DEF InInv, Accounted, Kept
<1>. QED
  BY <1>1, <1>2, <1>3, <1>5 DEF InInv

LEMMA InForget ==
  ASSUME InTyped, InInv, NEW w \in cWindow, In!Forget(w)
  PROVE  (InTyped /\ InInv)'
<1>1. /\ cWindow' = cWindow \ {w} /\ cForgotten' = cForgotten \cup {w.by}
      /\ UNCHANGED <<cShape, cPlatform, cCopies, cDropped, cMissed>>
  BY DEF In!Forget
<1>2. InTyped'
  BY <1>1 DEF InTyped, In!Names
<1>3. In!OnlyRetriesAreDropped'
  BY <1>1 DEF InInv, In!OnlyRetriesAreDropped, In!SameThing, In!IsStatus
<1>4. \A f \in PlatformEvents : In!HasId(cShape[f]) => Accounted(f)'
  BY <1>1 DEF InInv, Accounted, Kept
<1>. QED
  BY <1>1, <1>2, <1>3, <1>4 DEF InInv

LEMMA InPost ==
  ASSUME In!NoneAssumption, InTyped, InInv, NEW e \in PlatformEvents,
         NEW found \in BOOLEAN, NEW bus \in BOOLEAN, NEW heard \in BOOLEAN,
         In!Post(e, found, bus, heard)
  PROVE  (InTyped /\ InInv)'
<1>. DEFINE s == cShape[e]
            key == In!Handle(s, found).event.key
            kind == In!Handle(s, found).event.kind
            owners == In!Owners(key)
            duplicate == key # None /\ owners # {}
            stored == kind # None /\ bus /\ ~duplicate
<1>1. /\ cPlatform[e] = "due"
      /\ cCopies' = [cCopies EXCEPT ![e] = IF stored THEN @ + 1 ELSE @]
      /\ cWindow' = IF stored /\ key # None THEN cWindow \cup {[key |-> key, by |-> e]} ELSE cWindow
      /\ cDropped' = [cDropped EXCEPT ![e] =
                        IF kind # None /\ bus /\ duplicate THEN @ \cup owners ELSE @]
      /\ cMissed' = IF ~found \/ ~bus THEN cMissed \cup {e} ELSE cMissed
      /\ UNCHANGED <<cShape, cForgotten>>
  BY DEF In!Post
<1>2. \E v \in {"due", "done"} : cPlatform' = [cPlatform EXCEPT ![e] = v]
  BY DEF In!Post
<1>3. s \in In!Shapes /\ (key # None => KeyIs(s, key))
  BY KeyOfEvent DEF InTyped
<1>4. \A f \in owners : f \in PlatformEvents /\ KeyIs(cShape[f], key) /\ cCopies[f] > 0
  BY DEF In!Owners, InTyped
<1>5. ~duplicate /\ key # None => \A w \in cWindow : w.key # key
  BY DEF In!Owners
<1>6. In!HasId(s) => /\ kind # None => key # None
                     /\ found => kind # None
  <2>. SUFFICES ASSUME In!HasId(s) PROVE (kind # None => key # None) /\ (found => kind # None)
    OBVIOUS
  <2>1. /\ In!Normalize(s).kind # None /\ In!Normalize(s).key # None
        /\ s.type \notin {In!Garbage, In!Forged}
    BY <1>3, IdentifiedEvent
  <2>2. /\ In!Handle(s, found).event \in {In!Nothing, In!Normalize(s)}
        /\ found => In!Handle(s, found).event = In!Normalize(s)
        /\ In!Nothing.kind = None
    BY <1>3, <2>1, EventFacts
  <2>. QED
    BY <2>1, <2>2
<1>. HIDE DEF s, key, kind, owners
<1>7. cCopies' \in [PlatformEvents -> Nat] /\ \A f \in PlatformEvents : cCopies[f] > 0 => cCopies'[f] > 0
  BY <1>1 DEF InTyped
<1>8. InTyped'
  <2>1. cShape' \in [PlatformEvents -> In!Shapes] /\ In!Names(cShape')
    BY <1>1 DEF InTyped
  <2>2. cPlatform' \in [PlatformEvents -> {"idle", "due", "done"}]
    BY <1>2 DEF InTyped
  <2>3. cDropped' \in [PlatformEvents -> SUBSET PlatformEvents]
    <3>1. owners \in SUBSET PlatformEvents
      BY <1>4
    <3>. QED
      BY <1>1, <3>1 DEF InTyped
  <2>4. ASSUME NEW w \in cWindow'
        PROVE  w.by \in PlatformEvents /\ KeyIs(cShape'[w.by], w.key) /\ cCopies'[w.by] > 0
    <3>1. CASE w \in cWindow
      BY <1>1, <1>7, <3>1 DEF InTyped
    <3>2. CASE w \notin cWindow
      <4>1. stored /\ key # None /\ w = [key |-> key, by |-> e]
        BY <1>1, <3>2
      <4>2. cCopies'[e] > 0
        BY <1>1, <4>1 DEF InTyped
      <4>. QED
        BY <1>1, <1>3, <4>1, <4>2 DEF s
    <3>. QED
      BY <3>1, <3>2
  <2>. QED
    BY <1>7, <2>1, <2>2, <2>3, <2>4 DEF InTyped
<1>9. In!OnlyRetriesAreDropped'
  <2>. SUFFICES ASSUME NEW g \in PlatformEvents, NEW f \in cDropped'[g]
                PROVE  \/ In!SameThing(cShape[g], cShape[f])
                       \/ In!IsStatus(cShape[g]) /\ In!IsStatus(cShape[f])
    BY <1>1 DEF In!OnlyRetriesAreDropped, In!SameThing, In!IsStatus
  <2>1. CASE f \in cDropped[g]
    BY <2>1 DEF InInv, In!OnlyRetriesAreDropped
  <2>2. CASE f \notin cDropped[g]
    <3>1. g = e /\ duplicate /\ f \in owners
      BY <1>1, <2>2 DEF InTyped
    <3>. QED
      BY <1>3, <1>4, <3>1, SameKey DEF InTyped, s
  <2>. QED
    BY <2>1, <2>2
<1>10. ASSUME NEW f \in PlatformEvents, In!HasId(cShape[f])
       PROVE  Accounted(f)'
  <2>1. Accounted(f)
    BY <1>10 DEF InInv
  <2>2. Kept(f) => Kept(f)'
    <3>1. cDropped[f] \subseteq cDropped'[f] /\ cDropped[f] \subseteq PlatformEvents
      BY <1>1 DEF InTyped
    <3>. QED
      BY <1>7, <3>1 DEF Kept
  <2>3. cWindow \subseteq cWindow'
    BY <1>1
  <2>4. CASE f # e
    <3>1. cCopies'[f] = cCopies[f] /\ cPlatform'[f] = cPlatform[f] /\ (f \notin cMissed' => f \notin cMissed)
      BY <1>1, <1>2, <2>4 DEF InTyped
    <3>. QED
      BY <1>1, <2>1, <2>2, <2>3, <3>1 DEF Accounted
  <2>5. CASE f = e
    <3>1. cPlatform'[e] = "done" /\ e \notin cMissed' => cCopies'[e] > 0 \/ Kept(e)'
      <4>. SUFFICES ASSUME cPlatform'[e] = "done", e \notin cMissed' PROVE cCopies'[e] > 0 \/ Kept(e)'
        OBVIOUS
      <4>1. found /\ bus
        BY <1>1
      <4>2. kind # None /\ key # None
        BY <1>6, <1>10, <2>5, <4>1 DEF s
      <4>3. CASE stored
        BY <1>1, <4>3 DEF InTyped
      <4>4. CASE ~stored
        <5>1. duplicate /\ cDropped'[e] = cDropped[e] \cup owners
          BY <1>1, <4>1, <4>2, <4>4 DEF InTyped
        <5>2. PICK g \in owners : TRUE
          BY <5>1
        <5>. QED
          BY <1>4, <1>7, <5>1, <5>2 DEF Kept
      <4>. QED
        BY <4>3, <4>4
    <3>2. ASSUME e \notin cForgotten', cCopies'[e] > 0
          PROVE  cCopies'[e] = 1 /\ \E w \in cWindow' : w.by = e
      <4>1. CASE stored
        <5>1. key # None
          BY <1>6, <1>10, <2>5, <4>1 DEF s
        <5>2. \A w \in cWindow : w.by # e
          <6>. SUFFICES ASSUME NEW w \in cWindow, w.by = e PROVE FALSE
            OBVIOUS
          <6>1. KeyIs(s, w.key) /\ KeyIs(s, key)
            BY <1>3, <5>1 DEF InTyped, s
          <6>. QED
            BY <1>5, <4>1, <5>1, <6>1, OneKey
        <5>3. cCopies[e] = 0
          BY <1>1, <2>1, <2>5, <3>2, <5>2 DEF Accounted, InTyped
        <5>4. cCopies'[e] = 1
          BY <1>1, <4>1, <5>3 DEF InTyped
        <5>5. [key |-> key, by |-> e] \in cWindow'
          BY <1>1, <4>1, <5>1
        <5>. QED
          BY <5>4, <5>5
      <4>2. CASE ~stored
        <5>1. cCopies'[e] = cCopies[e]
          BY <1>1, <4>2 DEF InTyped
        <5>. QED
          BY <1>1, <2>1, <2>3, <2>5, <3>2, <5>1 DEF Accounted
      <4>. QED
        BY <4>1, <4>2
    <3>. QED
      BY <2>5, <3>1, <3>2 DEF Accounted
  <2>. QED
    BY <2>4, <2>5
<1>. QED
  BY <1>1, <1>8, <1>9, <1>10 DEF InInv

LEMMA InStep ==
  ASSUME In!NoneAssumption, InTyped, InInv, [In!Next]_In!vars
  PROVE  (InTyped /\ InInv)'
<1>1. CASE UNCHANGED In!vars
  <2>1. UNCHANGED <<cShape, cPlatform, cWindow, cCopies, cDropped, cForgotten, cMissed>>
    BY <1>1 DEF In!vars
  <2>2. InTyped'
    BY <2>1 DEF InTyped, In!Names
  <2>3. In!OnlyRetriesAreDropped'
    BY <2>1 DEF InInv, In!OnlyRetriesAreDropped, In!SameThing, In!IsStatus
  <2>4. \A f \in PlatformEvents : In!HasId(cShape[f]) => Accounted(f)'
    BY <2>1 DEF InInv, Accounted, Kept
  <2>. QED
    BY <2>1, <2>2, <2>3, <2>4 DEF InInv
<1>. QED
  BY <1>1, InHappen, InPost, InForget DEF In!Next

\* Whatever the platforms post and however often: an event with a platform id
\* that will not be posted again is in the stream, or was dropped for another
\* message of the same thing that is there, or a fault that the handlers answer
\* with 200 kept it out; it is there once while its Msg-Id is remembered; and
\* nothing is dropped for anything but itself (or another status of its message).
THEOREM Accounting ==
  ASSUME In!NoneAssumption
  PROVE  In!Spec => []EventsAccountedFor
<1>1. In!Init => InTyped /\ InInv
  BY InInit
<1>2. InTyped /\ InInv /\ [In!Next]_In!vars => (InTyped /\ InInv)'
  BY InStep
<1>3. InTyped /\ InInv => EventsAccountedFor
  <2>. SUFFICES ASSUME InTyped, InInv PROVE In!AnsweredIsAccounted
    BY DEF InInv, EventsAccountedFor, In!EventsAccountedFor
  <2>. SUFFICES ASSUME NEW e \in PlatformEvents, In!HasId(cShape[e])
                PROVE  /\ cPlatform[e] = "done" /\ e \notin cMissed
                            => cCopies[e] > 0 \/ \E f \in cDropped[e] : cCopies[f] > 0
                       /\ e \notin cForgotten => cCopies[e] <= 1
    BY DEF In!AnsweredIsAccounted
  <2>1. Accounted(e) /\ cCopies[e] \in Nat
    BY DEF InInv, InTyped
  <2>. QED
    BY <2>1 DEF Accounted, Kept
<1>. QED
  BY <1>1, <1>2, <1>3, PTL DEF In!Spec


-----------------------------------------------------------------------------
(***************************************************************************)
(* Mailbox: types, and the UIDs of a mailbox, which are 1, 2, ... without  *)
(* a gap and each of one mail.                                             *)
(***************************************************************************)
Steps == {"idle", "list", "loop", "publish", "wait"}
Busy == {"loop", "publish", "wait"}
Polls == [pc : Steps, box : Mail!Boxes \cup {None}, gen : Nat, since : Nat, todo : Seq(Mails),
          chan : Seq(Mails), mail : Mails \cup {None}, done : Nat, highest : Nat, fetched : Nat]

Arrivals(b) == Cardinality(Mail!Arrived(b))
Numbered(b) ==
  /\ \A m \in Mail!Arrived(b) : mUid[m] <= Arrivals(b)
  /\ \A u \in 1..Arrivals(b) : \E m \in Mail!Arrived(b) : mUid[m] = u
  /\ \A m, n \in Mail!Arrived(b) : mUid[m] = mUid[n] => m = n

MailTyped ==
  /\ mUid \in [Mails -> Nat] /\ mCopies \in [Mails -> Nat] /\ mTries \in [Mails -> Nat]
  /\ mCkpt \in [Mail!Boxes -> Nat] /\ mGen \in [Mail!Boxes -> Nat]
  /\ mPost \in [Mails -> {"none", "due", "recorded", "done"}]
  /\ mQueue \in Seq(Mail!Boxes)
  /\ mPoll \in Polls
  /\ mPoll.pc \in Busy => mPoll.box \in Mail!Boxes
  /\ mPoll.mail # None <=> mPoll.pc = "publish"
  /\ \A b \in Mail!Boxes : Numbered(b)

Assumptions == IsFiniteSet(Mails) /\ Mail!BoxAssumption /\ Mail!MidAssumption

LEMMA MailCardinality == \A S : Mail!Cardinality(S) = Cardinality(S)
BY DEF Mail!Cardinality, Cardinality

LEMMA ArrivedFacts ==
  ASSUME Assumptions, MailTyped, NEW b
  PROVE  /\ IsFiniteSet(Mail!Arrived(b)) /\ Arrivals(b) \in Nat
         /\ Mail!Arrived(b) \subseteq Mails
         /\ \A m \in Mail!Arrived(b) : BoxOf[m] = b /\ mUid[m] \in Nat \ {0}
<1>1. Mail!Arrived(b) \subseteq Mails
  BY DEF Mail!Arrived
<1>2. IsFiniteSet(Mail!Arrived(b)) /\ Arrivals(b) \in Nat
  BY <1>1, FS_Subset, FS_CardinalityType DEF Assumptions, Arrivals
<1>. QED
  BY <1>1, <1>2 DEF Mail!Arrived, MailTyped

\* What UID FETCH answers: the mails after the checkpoint, in order, or one at
\* or before it.
Following(s, n) == \A i \in 1..Len(s) : mUid[s[i]] = n + i
Before(s, n) == \A i \in 1..Len(s) : mUid[s[i]] <= n
Of(s, b) == \A i \in 1..Len(s) : s[i] \in Mails /\ BoxOf[s[i]] = b /\ mUid[s[i]] \in 1..Arrivals(b)

LEMMA FetchedFacts ==
  ASSUME Assumptions, MailTyped, NEW b \in Mail!Boxes
  PROVE  /\ Mail!Fetched(b) \in Seq(Mails) /\ Of(Mail!Fetched(b), b)
         /\ Following(Mail!Fetched(b), mCkpt[b]) \/ Before(Mail!Fetched(b), mCkpt[b])
<1>. DEFINE all == Mail!ByUid(b)
            last == Arrivals(b)
            start == IF 0 < last /\ last < mCkpt[b] + 1 THEN last ELSE mCkpt[b] + 1
            F == Mail!Fetched(b)
<1>1. last \in Nat /\ mCkpt[b] \in Nat
  BY ArrivedFacts DEF MailTyped
<1>2. all = [u \in 1..last |-> CHOOSE m \in Mail!Arrived(b) : mUid[m] = u]
  BY MailCardinality DEF Mail!ByUid, Arrivals
<1>3. ASSUME NEW u \in 1..last PROVE all[u] \in Mail!Arrived(b) /\ mUid[all[u]] = u
  BY <1>2, <1>3 DEF MailTyped, Numbered
<1>4. Len(all) = last
  BY <1>1, <1>2
<1>5. F = SubSeq(all, start, last)
  BY <1>4 DEF Mail!Fetched, Mail!Since
<1>6. start \in Nat /\ start >= 1 /\ start \in Int /\ last \in Int
  BY <1>1
<1>7. \A i \in start..last : all[i] \in Mails
  BY <1>1, <1>3, <1>6, ArrivedFacts
<1>. HIDE DEF all, F, start, last
<1>8. /\ F \in Seq(Mails)
      /\ Len(F) = IF start <= last THEN last - start + 1 ELSE 0
      /\ \A i \in 1..(last - start + 1) : F[i] = all[start + i - 1]
  BY <1>1, <1>5, <1>6, <1>7, SubSeqProperties
<1>9. ASSUME NEW i \in 1..Len(F)
      PROVE  F[i] \in Mail!Arrived(b) /\ mUid[F[i]] = start + i - 1 /\ start + i - 1 \in 1..last
  <2>1. start + i - 1 \in 1..last /\ i \in 1..(last - start + 1)
    BY <1>1, <1>6, <1>8
  <2>. QED
    BY <1>3, <1>8, <2>1
<1>10. Of(F, b)
  BY <1>1, <1>9, ArrivedFacts DEF Of, last
<1>11. CASE start = mCkpt[b] + 1
  <2>1. Following(F, mCkpt[b])
    BY <1>1, <1>9, <1>11 DEF Following
  <2>. QED
    BY <1>8, <1>10, <2>1 DEF F
<1>12. CASE start = last /\ last < mCkpt[b] + 1
  <2>1. Before(F, mCkpt[b])
    BY <1>1, <1>9, <1>12 DEF Before
  <2>. QED
    BY <1>8, <1>10, <2>1 DEF F
<1>. QED
  BY <1>11, <1>12 DEF start

\* The records that the poller's steps make of poll.
LEMMA PollFacts ==
  ASSUME MailTyped
  PROVE  /\ \A step \in Steps : Mail!NoPoll(step) \in Polls
         /\ \A step : Mail!NoPoll(step).pc = step /\ Mail!NoPoll(step).mail = None
         /\ \A p \in Polls : /\ Mail!Counted(p) \in Polls /\ Mail!Counted(p).pc \in {"wait", "loop"}
                             /\ Mail!Counted(p).mail = None /\ Mail!Counted(p).box = p.box
                             /\ Mail!Counted(p).gen = p.gen /\ Mail!Counted(p).since = p.since
                             /\ Mail!Counted(p).todo = p.todo /\ Mail!Counted(p).chan = p.chan
                             /\ Mail!Counted(p).highest = p.highest
<1>1. <<>> \in Seq(Mails)
  BY EmptySeq
<1>2. \A step \in Steps : Mail!NoPoll(step) \in Polls
  BY <1>1 DEF Mail!NoPoll, Polls
<1>3. \A step : Mail!NoPoll(step).pc = step /\ Mail!NoPoll(step).mail = None
  BY DEF Mail!NoPoll
<1>4. ASSUME NEW p \in Polls
      PROVE  /\ Mail!Counted(p) \in Polls /\ Mail!Counted(p).pc \in {"wait", "loop"}
             /\ Mail!Counted(p).mail = None /\ Mail!Counted(p).box = p.box
             /\ Mail!Counted(p).gen = p.gen /\ Mail!Counted(p).since = p.since
             /\ Mail!Counted(p).todo = p.todo /\ Mail!Counted(p).chan = p.chan
             /\ Mail!Counted(p).highest = p.highest
  <2>. DEFINE step == IF p.done + 1 >= Batch THEN "wait" ELSE "loop"
              p1 == [p EXCEPT !.done = p.done + 1]
              p2 == [p1 EXCEPT !.mail = None]
              p3 == [p2 EXCEPT !.pc = step]
  <2>1. Mail!Counted(p) = p3
    BY Zenon DEF Mail!Counted
  <2>2. step \in {"wait", "loop"}
    OBVIOUS
  <2>. HIDE DEF step
  <2>3. /\ p1 \in Polls /\ p1.box = p.box /\ p1.gen = p.gen /\ p1.since = p.since
        /\ p1.todo = p.todo /\ p1.chan = p.chan /\ p1.highest = p.highest
    BY DEF Polls
  <2>. HIDE DEF p1
  <2>4. /\ p2 \in Polls /\ p2.box = p1.box /\ p2.gen = p1.gen /\ p2.since = p1.since
        /\ p2.todo = p1.todo /\ p2.chan = p1.chan /\ p2.highest = p1.highest /\ p2.mail = None
    BY <2>3 DEF Polls
  <2>. HIDE DEF p2
  <2>5. /\ p3 \in Polls /\ p3.box = p2.box /\ p3.gen = p2.gen /\ p3.since = p2.since
        /\ p3.todo = p2.todo /\ p3.chan = p2.chan /\ p3.highest = p2.highest
        /\ p3.mail = p2.mail /\ p3.pc = step
    BY <2>2, <2>4 DEF Polls, Steps
  <2>. HIDE DEF p3
  <2>. QED
    BY <2>1, <2>2, <2>3, <2>4, <2>5
<1>. QED
  BY <1>2, <1>3, <1>4

LEMMA TakeFacts ==
  ASSUME MailTyped, mPoll.chan # <<>>
  PROVE  LET m == mPoll.chan[1] IN
         /\ m \in Mails /\ Head(mPoll.chan) = m /\ Mail!Take \in Polls
         /\ Mail!Take.pc = mPoll.pc /\ Mail!Take.box = mPoll.box /\ Mail!Take.gen = mPoll.gen
         /\ Mail!Take.since = mPoll.since /\ Mail!Take.todo = mPoll.todo
         /\ Mail!Take.chan = Tail(mPoll.chan) /\ Mail!Take.mail = m
         /\ Mail!Take.highest = IF mPoll.highest > mUid[m] THEN mPoll.highest ELSE mUid[m]
<1>. DEFINE m == mPoll.chan[1]
            h == IF mPoll.highest > mUid[m] THEN mPoll.highest ELSE mUid[m]
<1>1. mPoll \in Polls /\ mPoll.chan \in Seq(Mails) /\ mPoll.highest \in Nat
  BY DEF MailTyped, Polls
<1>2. Len(mPoll.chan) \in Nat \ {0} /\ Head(mPoll.chan) = m /\ Tail(mPoll.chan) \in Seq(Mails)
  BY <1>1, HeadTailProperties, EmptySeq, LenProperties
<1>3. m \in Mails
  BY <1>1, <1>2, ElementOfSeq
<1>4. h \in Nat
  BY <1>1, <1>3 DEF MailTyped
<1>. DEFINE p1 == [mPoll EXCEPT !.chan = Tail(mPoll.chan)]
            p2 == [p1 EXCEPT !.mail = m]
            p3 == [p2 EXCEPT !.highest = h]
<1>5. Mail!Take = p3
  BY <1>2, Zenon DEF Mail!Take, Mail!Greater
<1>. HIDE DEF m, h
<1>6. /\ p1 \in Polls /\ p1.pc = mPoll.pc /\ p1.box = mPoll.box /\ p1.gen = mPoll.gen
      /\ p1.since = mPoll.since /\ p1.todo = mPoll.todo /\ p1.chan = Tail(mPoll.chan)
  BY <1>1, <1>2 DEF Polls
<1>. HIDE DEF p1
<1>7. /\ p2 \in Polls /\ p2.pc = p1.pc /\ p2.box = p1.box /\ p2.gen = p1.gen
      /\ p2.since = p1.since /\ p2.todo = p1.todo /\ p2.chan = p1.chan /\ p2.mail = m
  BY <1>3, <1>6 DEF Polls
<1>. HIDE DEF p2
<1>8. /\ p3 \in Polls /\ p3.pc = p2.pc /\ p3.box = p2.box /\ p3.gen = p2.gen
      /\ p3.since = p2.since /\ p3.todo = p2.todo /\ p3.chan = p2.chan /\ p3.mail = p2.mail
      /\ p3.highest = h
  BY <1>4, <1>7 DEF Polls
<1>. HIDE DEF p3
<1>. QED
  BY <1>2, <1>3, <1>5, <1>6, <1>7, <1>8 DEF m, h


LEMMA SetFields ==
  ASSUME NEW p \in Polls
  PROVE  /\ \A v \in Steps :
              /\ [p EXCEPT !.pc = v] \in Polls /\ [p EXCEPT !.pc = v].pc = v
              /\ [p EXCEPT !.pc = v].mail = p.mail /\ [p EXCEPT !.pc = v].box = p.box
              /\ [p EXCEPT !.pc = v].gen = p.gen /\ [p EXCEPT !.pc = v].since = p.since
              /\ [p EXCEPT !.pc = v].todo = p.todo /\ [p EXCEPT !.pc = v].chan = p.chan
              /\ [p EXCEPT !.pc = v].highest = p.highest
         /\ \A v \in Mails \cup {None} :
              /\ [p EXCEPT !.mail = v] \in Polls /\ [p EXCEPT !.mail = v].pc = p.pc
              /\ [p EXCEPT !.mail = v].mail = v /\ [p EXCEPT !.mail = v].box = p.box
              /\ [p EXCEPT !.mail = v].gen = p.gen /\ [p EXCEPT !.mail = v].since = p.since
              /\ [p EXCEPT !.mail = v].todo = p.todo /\ [p EXCEPT !.mail = v].chan = p.chan
              /\ [p EXCEPT !.mail = v].highest = p.highest
         /\ \A v \in Seq(Mails) :
              /\ [p EXCEPT !.todo = v] \in Polls /\ [p EXCEPT !.todo = v].pc = p.pc
              /\ [p EXCEPT !.todo = v].mail = p.mail /\ [p EXCEPT !.todo = v].box = p.box
              /\ [p EXCEPT !.todo = v].gen = p.gen /\ [p EXCEPT !.todo = v].since = p.since
              /\ [p EXCEPT !.todo = v].todo = v /\ [p EXCEPT !.todo = v].chan = p.chan
              /\ [p EXCEPT !.todo = v].highest = p.highest
         /\ \A v \in Seq(Mails) :
              /\ [p EXCEPT !.chan = v] \in Polls /\ [p EXCEPT !.chan = v].pc = p.pc
              /\ [p EXCEPT !.chan = v].mail = p.mail /\ [p EXCEPT !.chan = v].box = p.box
              /\ [p EXCEPT !.chan = v].gen = p.gen /\ [p EXCEPT !.chan = v].since = p.since
              /\ [p EXCEPT !.chan = v].todo = p.todo /\ [p EXCEPT !.chan = v].chan = v
              /\ [p EXCEPT !.chan = v].highest = p.highest
<1>1. ASSUME NEW v \in Steps
      PROVE  /\ [p EXCEPT !.pc = v] \in Polls /\ [p EXCEPT !.pc = v].pc = v
             /\ [p EXCEPT !.pc = v].mail = p.mail /\ [p EXCEPT !.pc = v].box = p.box
             /\ [p EXCEPT !.pc = v].gen = p.gen /\ [p EXCEPT !.pc = v].since = p.since
             /\ [p EXCEPT !.pc = v].todo = p.todo /\ [p EXCEPT !.pc = v].chan = p.chan
             /\ [p EXCEPT !.pc = v].highest = p.highest
  BY DEF Polls
<1>2. ASSUME NEW v \in Mails \cup {None}
      PROVE  /\ [p EXCEPT !.mail = v] \in Polls /\ [p EXCEPT !.mail = v].pc = p.pc
             /\ [p EXCEPT !.mail = v].mail = v /\ [p EXCEPT !.mail = v].box = p.box
             /\ [p EXCEPT !.mail = v].gen = p.gen /\ [p EXCEPT !.mail = v].since = p.since
             /\ [p EXCEPT !.mail = v].todo = p.todo /\ [p EXCEPT !.mail = v].chan = p.chan
             /\ [p EXCEPT !.mail = v].highest = p.highest
  BY DEF Polls
<1>3. ASSUME NEW v \in Seq(Mails)
      PROVE  /\ [p EXCEPT !.todo = v] \in Polls /\ [p EXCEPT !.todo = v].pc = p.pc
             /\ [p EXCEPT !.todo = v].mail = p.mail /\ [p EXCEPT !.todo = v].box = p.box
             /\ [p EXCEPT !.todo = v].gen = p.gen /\ [p EXCEPT !.todo = v].since = p.since
             /\ [p EXCEPT !.todo = v].todo = v /\ [p EXCEPT !.todo = v].chan = p.chan
             /\ [p EXCEPT !.todo = v].highest = p.highest
  BY DEF Polls
<1>4. ASSUME NEW v \in Seq(Mails)
      PROVE  /\ [p EXCEPT !.chan = v] \in Polls /\ [p EXCEPT !.chan = v].pc = p.pc
             /\ [p EXCEPT !.chan = v].mail = p.mail /\ [p EXCEPT !.chan = v].box = p.box
             /\ [p EXCEPT !.chan = v].gen = p.gen /\ [p EXCEPT !.chan = v].since = p.since
             /\ [p EXCEPT !.chan = v].todo = p.todo /\ [p EXCEPT !.chan = v].chan = v
             /\ [p EXCEPT !.chan = v].highest = p.highest
  BY DEF Polls
<1>. QED
  BY <1>1, <1>2, <1>3, <1>4


\* The poll under way keeps its mailbox, generation and checkpoint.
SamePoll(q) == /\ q \in Polls /\ q.box = mPoll.box /\ q.gen = mPoll.gen /\ q.since = mPoll.since

LEMMA FetchSendsFacts ==
  ASSUME MailTyped, Mail!FetchSends
  PROVE  /\ SamePoll(mPoll') /\ mPoll'.pc = mPoll.pc /\ mPoll'.mail = mPoll.mail
         /\ mPoll'.highest = mPoll.highest /\ mPoll.pc \in Busy /\ mPoll.todo # <<>>
         /\ mPoll'.chan = Append(mPoll.chan, mPoll.todo[1]) /\ mPoll'.todo = Tail(mPoll.todo)
         /\ mPoll.todo[1] \in Mails
         /\ UNCHANGED <<mUid, mCkpt, mGen, mSeen, mWindow, mCopies, mDropped, mFailed, mPost, mTries, mQueue>>
<1>1. mPoll \in Polls /\ mPoll.chan \in Seq(Mails) /\ mPoll.todo \in Seq(Mails)
  BY DEF MailTyped, Polls
<1>2. mPoll.todo # <<>>
  BY DEF Mail!FetchSends
<1>3. Len(mPoll.todo) \in Nat \ {0} /\ Head(mPoll.todo) = mPoll.todo[1] /\ Tail(mPoll.todo) \in Seq(Mails)
  BY <1>1, <1>2, HeadTailProperties, EmptySeq, LenProperties
<1>4. mPoll.todo[1] \in Mails
  BY <1>1, <1>3, ElementOfSeq
<1>. DEFINE c == Append(mPoll.chan, mPoll.todo[1])
            t == Tail(mPoll.todo)
            p1 == [mPoll EXCEPT !.chan = c]
            p2 == [p1 EXCEPT !.todo = t]
<1>5. mPoll' = p2
  BY <1>3, Zenon DEF Mail!FetchSends
<1>6. c \in Seq(Mails) /\ t \in Seq(Mails)
  BY <1>1, <1>3, <1>4, AppendProperties
<1>. HIDE DEF c, t
<1>7. /\ p1 \in Polls /\ p1.pc = mPoll.pc /\ p1.mail = mPoll.mail /\ p1.box = mPoll.box /\ p1.gen = mPoll.gen
      /\ p1.since = mPoll.since /\ p1.chan = c /\ p1.highest = mPoll.highest
  BY <1>1, <1>6, SetFields, Zenon
<1>. HIDE DEF p1
<1>8. /\ p2 \in Polls /\ p2.pc = p1.pc /\ p2.mail = p1.mail /\ p2.box = p1.box /\ p2.gen = p1.gen
      /\ p2.since = p1.since /\ p2.todo = t /\ p2.chan = p1.chan /\ p2.highest = p1.highest
  BY <1>6, <1>7, SetFields, Zenon
<1>. HIDE DEF p2
<1>9. mPoll.pc \in Busy /\ UNCHANGED <<mUid, mCkpt, mGen, mSeen, mWindow, mCopies, mDropped, mFailed, mPost, mTries, mQueue>>
  BY DEF Mail!FetchSends, Busy, Mail!stream, Mail!webhook
<1>. QED
  BY <1>2, <1>4, <1>5, <1>7, <1>8, <1>9 DEF SamePoll, c, t

LEMMA FetchFailsFacts ==
  ASSUME MailTyped, Mail!FetchFails
  PROVE  /\ SamePoll(mPoll') /\ mPoll'.pc = mPoll.pc /\ mPoll'.mail = mPoll.mail
         /\ mPoll'.highest = mPoll.highest /\ mPoll.pc \in Busy
         /\ mPoll'.chan = mPoll.chan /\ mPoll'.todo = <<>>
         /\ UNCHANGED <<mUid, mCkpt, mGen, mSeen, mWindow, mCopies, mDropped, mFailed, mPost, mTries, mQueue>>
<1>1. mPoll \in Polls /\ <<>> \in Seq(Mails)
  BY EmptySeq DEF MailTyped
<1>2. mPoll' = [mPoll EXCEPT !.todo = <<>>]
  BY DEF Mail!FetchFails
<1>3. mPoll.pc \in Busy /\ UNCHANGED <<mUid, mCkpt, mGen, mSeen, mWindow, mCopies, mDropped, mFailed, mPost, mTries, mQueue>>
  BY DEF Mail!FetchFails, Busy, Mail!stream, Mail!webhook
<1>4. /\ [mPoll EXCEPT !.todo = <<>>] \in Polls /\ [mPoll EXCEPT !.todo = <<>>].pc = mPoll.pc
      /\ [mPoll EXCEPT !.todo = <<>>].mail = mPoll.mail /\ [mPoll EXCEPT !.todo = <<>>].box = mPoll.box
      /\ [mPoll EXCEPT !.todo = <<>>].gen = mPoll.gen /\ [mPoll EXCEPT !.todo = <<>>].since = mPoll.since
      /\ [mPoll EXCEPT !.todo = <<>>].todo = <<>> /\ [mPoll EXCEPT !.todo = <<>>].chan = mPoll.chan
      /\ [mPoll EXCEPT !.todo = <<>>].highest = mPoll.highest
  BY <1>1, SetFields, Zenon
<1>. QED
  BY <1>2, <1>3, <1>4, Zenon DEF SamePoll

\* The mail that the loop receives.
Received(m, q) ==
  /\ mPoll.pc = "loop" /\ mPoll.chan # <<>> /\ m = mPoll.chan[1] /\ m \in Mails
  /\ SamePoll(q) /\ q.todo = mPoll.todo /\ q.chan = Tail(mPoll.chan)
  /\ q.highest = IF mPoll.highest > mUid[m] THEN mPoll.highest ELSE mUid[m]

LEMMA ReceiveFacts ==
  ASSUME MailTyped, Mail!Receive
  PROVE  \E m \in Mails :
           /\ Received(m, mPoll') /\ mGen[mPoll.box] = mPoll.gen
           /\ LET r == Mail!Row(mPoll.box, mPoll.gen, Mail!ImapId(m)) IN
              /\ mSeen' = mSeen \cup {r}
              /\ \/ r \in mSeen /\ mPoll'.mail = None /\ mPoll'.pc \in {"loop", "wait"}
                 \/ r \notin mSeen /\ mPoll'.mail = m /\ mPoll'.pc = "publish"
           /\ UNCHANGED <<mUid, mCkpt, mGen, mWindow, mCopies, mDropped, mFailed, mPost, mTries, mQueue>>
<1>. DEFINE m == mPoll.chan[1]
            p == Mail!Take
            r == Mail!Row(mPoll.box, mPoll.gen, Mail!ImapId(m))
<1>1. mPoll.chan # <<>> /\ mPoll.pc = "loop" /\ mGen[mPoll.box] = mPoll.gen
  BY DEF Mail!Receive, Mail!Orphaned
<1>2. /\ m \in Mails /\ p \in Polls /\ p.pc = mPoll.pc /\ p.box = mPoll.box /\ p.gen = mPoll.gen
      /\ p.since = mPoll.since /\ p.todo = mPoll.todo /\ p.chan = Tail(mPoll.chan) /\ p.mail = m
      /\ p.highest = IF mPoll.highest > mUid[m] THEN mPoll.highest ELSE mUid[m]
  BY <1>1, TakeFacts
<1>3. /\ mSeen' = mSeen \cup {Mail!Row(mPoll.box, mPoll.gen, Mail!ImapId(p.mail))}
      /\ mPoll' = IF Mail!Row(mPoll.box, mPoll.gen, Mail!ImapId(p.mail)) \in mSeen THEN Mail!Counted(p)
                  ELSE [p EXCEPT !.pc = "publish"]
      /\ UNCHANGED <<mUid, mCkpt, mGen, mWindow, mCopies, mDropped, mFailed, mPost, mTries, mQueue>>
  BY DEF Mail!Receive, Mail!Recorded, Mail!stream, Mail!webhook
<1>. HIDE DEF p
<1>4. mSeen' = mSeen \cup {r} /\ mPoll' = IF r \in mSeen THEN Mail!Counted(p) ELSE [p EXCEPT !.pc = "publish"]
  BY <1>2, <1>3
<1>. HIDE DEF m, r
<1>5. CASE r \in mSeen
  <2>1. mPoll' = Mail!Counted(p)
    BY <1>4, <1>5
  <2>2. Received(m, mPoll') /\ mPoll'.mail = None /\ mPoll'.pc \in {"loop", "wait"}
    BY <1>1, <1>2, <2>1, PollFacts DEF Received, SamePoll, m
  <2>. QED
    BY <1>1, <1>2, <1>3, <1>4, <1>5, <2>2 DEF r
<1>6. CASE r \notin mSeen
  <2>. DEFINE q == [p EXCEPT !.pc = "publish"]
  <2>1. mPoll' = q
    BY <1>4, <1>6
  <2>2. "publish" \in Steps
    BY DEF Steps
  <2>3. /\ q \in Polls /\ q.pc = "publish" /\ q.mail = p.mail /\ q.box = p.box /\ q.gen = p.gen
        /\ q.since = p.since /\ q.todo = p.todo /\ q.chan = p.chan /\ q.highest = p.highest
    BY <1>2, <2>2, SetFields, Zenon
  <2>. HIDE DEF q
  <2>4. Received(m, mPoll') /\ mPoll'.mail = m /\ mPoll'.pc = "publish"
    BY <1>1, <1>2, <2>1, <2>3 DEF Received, SamePoll, m
  <2>. QED
    BY <1>1, <1>2, <1>3, <1>4, <1>6, <2>4 DEF r
<1>. QED
  BY <1>5, <1>6

LEMMA ReceiveFailsFacts ==
  ASSUME MailTyped, Mail!ReceiveFails
  PROVE  \E m \in Mails :
           /\ Received(m, mPoll') /\ mFailed' = mFailed \cup {m}
           /\ mPoll'.mail = None /\ mPoll'.pc = "loop"
           /\ UNCHANGED <<mUid, mCkpt, mGen, mSeen, mWindow, mCopies, mDropped, mPost, mTries, mQueue>>
<1>. DEFINE m == mPoll.chan[1]
            p == Mail!Take
            q == [p EXCEPT !.mail = None]
<1>1. mPoll.chan # <<>> /\ mPoll.pc = "loop"
  BY DEF Mail!ReceiveFails
<1>2. /\ m \in Mails /\ p \in Polls /\ p.pc = mPoll.pc /\ p.box = mPoll.box /\ p.gen = mPoll.gen
      /\ p.since = mPoll.since /\ p.todo = mPoll.todo /\ p.chan = Tail(mPoll.chan) /\ p.mail = m
      /\ p.highest = (IF mPoll.highest > mUid[m] THEN mPoll.highest ELSE mUid[m])
      /\ Head(mPoll.chan) = m
  BY <1>1, TakeFacts
<1>3. /\ mPoll' = q /\ mFailed' = mFailed \cup {Head(mPoll.chan)}
      /\ UNCHANGED <<mUid, mCkpt, mGen, mSeen, mWindow, mCopies, mDropped, mPost, mTries, mQueue>>
  BY DEF Mail!ReceiveFails, Mail!stream, Mail!webhook
<1>. HIDE DEF p, m
<1>4. /\ q \in Polls /\ q.pc = p.pc /\ q.mail = None /\ q.box = p.box /\ q.gen = p.gen
      /\ q.since = p.since /\ q.todo = p.todo /\ q.chan = p.chan /\ q.highest = p.highest
  <2>1. None \in Mails \cup {None}
    OBVIOUS
  <2>. QED
    BY <1>2, <2>1, SetFields, Zenon
<1>. HIDE DEF q
<1>5. Received(m, mPoll')
  BY <1>1, <1>2, <1>3, <1>4 DEF Received, SamePoll, m
<1>. QED
  BY <1>1, <1>2, <1>3, <1>4, <1>5

LEMMA PublishMailFacts ==
  ASSUME MailTyped, Mail!PublishMail \/ Mail!PublishFails
  PROVE  /\ mPoll.pc = "publish" /\ mPoll.mail \in Mails
         /\ SamePoll(mPoll') /\ mPoll'.mail = None /\ mPoll'.pc \in {"loop", "wait"}
         /\ mPoll'.todo = mPoll.todo /\ mPoll'.chan = mPoll.chan /\ mPoll'.highest = mPoll.highest
         /\ UNCHANGED <<mUid, mCkpt, mGen, mSeen, mPost, mTries, mQueue>>
         /\ \/ Mail!PublishId(mPoll.mail, Mail!ImapId(mPoll.mail)) /\ mFailed' = mFailed
            \/ mFailed' = mFailed \cup {mPoll.mail} /\ UNCHANGED <<mWindow, mCopies, mDropped>>
<1>1. mPoll.pc = "publish" /\ mPoll \in Polls /\ mPoll.mail \in Mails
  BY DEF MailTyped, Polls, Mail!PublishMail, Mail!PublishFails
<1>2. CASE Mail!PublishMail
  <2>1. /\ mPoll' = Mail!Counted(mPoll) /\ Mail!PublishId(mPoll.mail, Mail!ImapId(mPoll.mail))
        /\ UNCHANGED <<mUid, mCkpt, mGen, mSeen, mFailed, mPost, mTries, mQueue>>
    BY <1>2 DEF Mail!PublishMail, Mail!webhook
  <2>. QED
    BY <1>1, <2>1, PollFacts DEF SamePoll
<1>3. CASE Mail!PublishFails
  <2>. DEFINE p1 == [mPoll EXCEPT !.pc = "loop"]
              p2 == [p1 EXCEPT !.mail = None]
  <2>1. /\ mPoll' = p2 /\ mFailed' = mFailed \cup {mPoll.mail}
        /\ UNCHANGED <<mUid, mCkpt, mGen, mSeen, mWindow, mCopies, mDropped, mPost, mTries, mQueue>>
    BY <1>3, Zenon DEF Mail!PublishFails, Mail!webhook, Mail!stream
  <2>2. "loop" \in Steps
    BY DEF Steps
  <2>3. /\ p1 \in Polls /\ p1.pc = "loop" /\ p1.box = mPoll.box /\ p1.gen = mPoll.gen
        /\ p1.since = mPoll.since /\ p1.todo = mPoll.todo /\ p1.chan = mPoll.chan /\ p1.highest = mPoll.highest
    BY <1>1, <2>2, SetFields, Zenon
  <2>. HIDE DEF p1
  <2>4. /\ p2 \in Polls /\ p2.pc = p1.pc /\ p2.mail = None /\ p2.box = p1.box /\ p2.gen = p1.gen
        /\ p2.since = p1.since /\ p2.todo = p1.todo /\ p2.chan = p1.chan /\ p2.highest = p1.highest
    <3>1. None \in Mails \cup {None}
      OBVIOUS
    <3>. QED
      BY <2>3, <3>1, SetFields, Zenon
  <2>. HIDE DEF p2
  <2>. QED
    BY <1>1, <2>1, <2>3, <2>4 DEF SamePoll
<1>. QED
  BY <1>2, <1>3

LEMMA ChannelClosedFacts ==
  ASSUME MailTyped, Mail!ChannelClosed
  PROVE  /\ mPoll.pc = "loop" /\ SamePoll(mPoll') /\ mPoll'.pc = "wait" /\ mPoll'.mail = mPoll.mail
         /\ mPoll'.todo = mPoll.todo /\ mPoll'.chan = mPoll.chan /\ mPoll'.highest = mPoll.highest
         /\ UNCHANGED <<mUid, mCkpt, mGen, mSeen, mWindow, mCopies, mDropped, mFailed, mPost, mTries, mQueue>>
<1>. DEFINE q == [mPoll EXCEPT !.pc = "wait"]
<1>1. mPoll \in Polls /\ "wait" \in Steps
  BY DEF MailTyped, Steps
<1>2. /\ mPoll' = q /\ mPoll.pc = "loop"
      /\ UNCHANGED <<mUid, mCkpt, mGen, mSeen, mWindow, mCopies, mDropped, mFailed, mPost, mTries, mQueue>>
  BY DEF Mail!ChannelClosed, Mail!stream, Mail!webhook
<1>3. /\ q \in Polls /\ q.pc = "wait" /\ q.mail = mPoll.mail /\ q.box = mPoll.box /\ q.gen = mPoll.gen
      /\ q.since = mPoll.since /\ q.todo = mPoll.todo /\ q.chan = mPoll.chan /\ q.highest = mPoll.highest
  BY <1>1, SetFields, Zenon
<1>. HIDE DEF q
<1>. QED
  BY <1>2, <1>3 DEF SamePoll


LEMMA ArriveFacts ==
  ASSUME Assumptions, MailTyped, NEW m \in Mails, Mail!Arrive(m)
  PROVE  /\ mUid[m] = 0 /\ mUid' \in [Mails -> Nat] /\ mUid'[m] = Arrivals(BoxOf[m]) + 1
         /\ \A n \in Mails : n # m => mUid'[n] = mUid[n]
         /\ \A c : c # BoxOf[m] => Arrivals(c)' = Arrivals(c)
         /\ \A c : Arrivals(c)' \in Nat /\ Arrivals(c) \in Nat /\ Arrivals(c) <= Arrivals(c)'
         /\ \A c \in Mail!Boxes : Numbered(c)'
<1>. DEFINE b == BoxOf[m]
            n == Arrivals(b)
<1>1. mUid[m] = 0 /\ mUid' = [mUid EXCEPT ![m] = n + 1]
  BY MailCardinality DEF Mail!Arrive, Arrivals
<1>2. n \in Nat /\ IsFiniteSet(Mail!Arrived(b)) /\ mUid \in [Mails -> Nat]
  BY ArrivedFacts DEF MailTyped
<1>. HIDE DEF n
<1>3. mUid' \in [Mails -> Nat] /\ mUid'[m] = n + 1 /\ \A k \in Mails : k # m => mUid'[k] = mUid[k]
  BY <1>1, <1>2
<1>4. /\ Mail!Arrived(b)' = Mail!Arrived(b) \cup {m} /\ m \notin Mail!Arrived(b)
      /\ \A c : c # b => Mail!Arrived(c)' = Mail!Arrived(c)
  BY <1>1, <1>2, <1>3 DEF Mail!Arrived
<1>5. Arrivals(b)' = n + 1 /\ \A c : c # b => Arrivals(c)' = Arrivals(c)
  <2>1. Cardinality(Mail!Arrived(b) \cup {m}) = Cardinality(Mail!Arrived(b)) + 1
    BY <1>2, <1>4, FS_AddElement
  <2>. QED
    BY <1>4, <2>1 DEF Arrivals, n
<1>6. \A c : Arrivals(c) \in Nat
  BY ArrivedFacts
<1>7. ASSUME NEW c \in Mail!Boxes, c # b PROVE Numbered(c)'
  <2>1. \A k \in Mail!Arrived(c) : k \in Mails /\ k # m
    BY <1>7 DEF Mail!Arrived
  <2>2. Numbered(c)
    BY DEF MailTyped
  <2>. QED
    BY <1>3, <1>4, <1>5, <1>7, <2>1, <2>2 DEF Numbered
<1>8. Numbered(b)'
  <2>1. b \in Mail!Boxes
    BY DEF Assumptions, Mail!BoxAssumption
  <2>2. Numbered(b)
    BY <2>1 DEF MailTyped
  <2>3. \A k \in Mail!Arrived(b) : k \in Mails /\ k # m /\ mUid'[k] = mUid[k] /\ mUid[k] <= n /\ mUid[k] \in Nat
    BY <1>2, <1>3, <1>4, <2>2 DEF Mail!Arrived, Numbered, n
  <2>4. \A k \in Mail!Arrived(b)' : mUid'[k] <= n + 1
    BY <1>2, <1>3, <1>4, <2>3
  <2>5. ASSUME NEW u \in 1..(n + 1) PROVE \E k \in Mail!Arrived(b)' : mUid'[k] = u
    <3>1. CASE u = n + 1
      BY <1>3, <1>4, <3>1
    <3>2. CASE u \in 1..n
      BY <1>4, <2>2, <2>3, <3>2 DEF Numbered, n
    <3>. QED
      BY <1>2, <3>1, <3>2
  <2>6. \A k, l \in Mail!Arrived(b)' : mUid'[k] = mUid'[l] => k = l
    <3>1. \A k, l \in Mail!Arrived(b) : mUid'[k] = mUid'[l] => k = l
      BY <2>2, <2>3 DEF Numbered
    <3>2. \A k \in Mail!Arrived(b) : mUid'[k] # mUid'[m]
      BY <1>2, <1>3, <2>3
    <3>. QED
      BY <1>4, <3>1, <3>2
  <2>. QED
    BY <1>5, <2>4, <2>5, <2>6 DEF Numbered
<1>9. \A c : Arrivals(c)' \in Nat /\ Arrivals(c) <= Arrivals(c)'
  BY <1>2, <1>5, <1>6 DEF n
<1>. QED
  BY <1>1, <1>3, <1>5, <1>6, <1>7, <1>8, <1>9 DEF n

LEMMA SameUids ==
  ASSUME mUid' = mUid
  PROVE  \A c : /\ Arrivals(c)' = Arrivals(c) /\ Numbered(c)' = Numbered(c)
                /\ \A s : Of(s, c)' = Of(s, c)
<1>1. \A c : Mail!Arrived(c)' = Mail!Arrived(c)
  BY DEF Mail!Arrived
<1>2. \A c : Arrivals(c)' = Arrivals(c)
  BY <1>1 DEF Arrivals
<1>. QED
  BY <1>1, <1>2 DEF Numbered, Of

\* Publishing a mail under an id.
LEMMA PublishIdFacts ==
  ASSUME MailTyped, NEW m \in Mails, NEW id, Mail!PublishId(m, id)
  PROVE  /\ mCopies' \in [Mails -> Nat] /\ mCopies'[m] <= mCopies[m] + 1
         /\ \A n \in Mails : n # m => mCopies'[n] = mCopies[n]
         /\ \A n \in Mails : mCopies[n] <= mCopies'[n]
         /\ mDropped \subseteq mDropped'
         /\ \A w \in mWindow' : \/ w \in mWindow
                                \/ w = [id |-> id, by |-> m] /\ mCopies'[m] > 0
         /\ \/ mCopies'[m] > 0
            \/ \E w \in mWindow : w.id = id /\ w.by = m
            \/ m \in mDropped' /\ \E w \in mWindow : w.id = id /\ w.by # m
<1>. DEFINE owners == {w.by : w \in {v \in mWindow : v.id = id}}
<1>0. mCopies \in [Mails -> Nat]
  BY DEF MailTyped
<1>1. CASE owners = {}
  <2>1. /\ mCopies' = [mCopies EXCEPT ![m] = @ + 1] /\ mDropped' = mDropped
        /\ mWindow' = mWindow \cup {[id |-> id, by |-> m]}
    BY <1>1 DEF Mail!PublishId
  <2>. QED
    BY <1>0, <2>1
<1>2. CASE owners # {}
  <2>1. /\ mCopies' = mCopies /\ mWindow' = mWindow
        /\ mDropped' = IF m \in owners THEN mDropped ELSE mDropped \cup {m}
    BY <1>2 DEF Mail!PublishId
  <2>2. \E w \in mWindow : w.id = id /\ w.by \in owners /\ (m \in owners => w.by = m)
    BY <1>2
  <2>3. m \in owners => \E w \in mWindow : w.id = id /\ w.by = m
    OBVIOUS
  <2>. HIDE DEF owners
  <2>4. m \notin owners => \E w \in mWindow : w.id = id /\ w.by # m
    BY <2>2
  <2>. QED
    BY <1>0, <2>1, <2>3, <2>4
<1>. QED
  BY <1>1, <1>2


LEMMA MailInit == Assumptions /\ Mail!Init => MailTyped
<1>. SUFFICES ASSUME Assumptions, Mail!Init PROVE MailTyped
  OBVIOUS
<1>1. mPoll = Mail!NoPoll("idle") /\ mUid = [m \in Mails |-> 0]
  BY DEF Mail!Init
<1>2. mPoll \in Polls /\ mPoll.pc = "idle" /\ mPoll.mail = None
  BY <1>1, EmptySeq DEF Mail!NoPoll, Polls, Steps
<1>3. \A b : Mail!Arrived(b) = {}
  BY <1>1 DEF Mail!Arrived
<1>4. \A b : Arrivals(b) = 0
  BY <1>3, FS_EmptySet DEF Arrivals
<1>5. \A b : Numbered(b)
  BY <1>3, <1>4 DEF Numbered
<1>. QED
  BY <1>2, <1>5, EmptySeq DEF Mail!Init, MailTyped, Busy

LEMMA MailTypedElse ==
  ASSUME Assumptions, MailTyped,
         \/ \E m \in Mails : Mail!Arrive(m) \/ Mail!HandleMailgun(m) \/ Mail!HandleJSON(m)
         \/ \E m \in Mails, published, heard \in BOOLEAN : Mail!Publish(m, published, heard)
         \/ \E b \in Mail!Boxes : Mail!Reconnect(b)
         \/ \E w \in mWindow : Mail!Forget(w)
         \/ UNCHANGED Mail!vars
  PROVE  MailTyped'
<1>1. ASSUME NEW m \in Mails, Mail!Arrive(m) PROVE MailTyped'
  <2>1. mUid' \in [Mails -> Nat] /\ \A c \in Mail!Boxes : Numbered(c)'
    BY <1>1, ArriveFacts
  <2>. QED
    BY <1>1, <2>1 DEF Mail!Arrive, Mail!stream, Mail!poller, MailTyped
<1>2. ASSUME NEW m \in Mails, NEW id, Mail!Accept(m, id) PROVE MailTyped'
  <2>1. mUid' = mUid
    BY <1>2 DEF Mail!Accept
  <2>2. mPost' \in [Mails -> {"none", "due", "recorded", "done"}] /\ mTries' \in [Mails -> Nat]
    BY <1>2 DEF Mail!Accept, MailTyped
  <2>3. UNCHANGED <<mCkpt, mGen, mCopies, mQueue, mPoll>>
    BY <1>2 DEF Mail!Accept, Mail!stream, Mail!poller
  <2>. QED
    BY <2>1, <2>2, <2>3, SameUids DEF MailTyped
<1>3. ASSUME NEW m \in Mails, NEW published \in BOOLEAN, NEW heard \in BOOLEAN,
             Mail!Publish(m, published, heard)
      PROVE  MailTyped'
  <2>1. mUid' = mUid /\ UNCHANGED <<mCkpt, mGen, mTries, mQueue, mPoll>>
    BY <1>3 DEF Mail!Publish, Mail!poller
  <2>2. mPost' \in [Mails -> {"none", "due", "recorded", "done"}]
    BY <1>3 DEF Mail!Publish, MailTyped
  <2>3. (\E id : Mail!PublishId(m, id)) \/ mCopies' = mCopies
    BY <1>3 DEF Mail!Publish, Mail!stream
  <2>4. mCopies' \in [Mails -> Nat]
    BY <2>3, PublishIdFacts DEF MailTyped
  <2>. QED
    BY <2>1, <2>2, <2>4, SameUids DEF MailTyped
<1>4. ASSUME NEW b \in Mail!Boxes, Mail!Reconnect(b) PROVE MailTyped'
  <2>1. mUid' = mUid /\ UNCHANGED <<mCopies, mPost, mTries, mQueue, mPoll>>
    BY <1>4 DEF Mail!Reconnect, Mail!stream, Mail!webhook, Mail!poller
  <2>2. mGen' \in [Mail!Boxes -> Nat] /\ mCkpt' \in [Mail!Boxes -> Nat]
    BY <1>4 DEF Mail!Reconnect, MailTyped
  <2>. QED
    BY <2>1, <2>2, SameUids DEF MailTyped
<1>5. ASSUME NEW w \in mWindow, Mail!Forget(w) PROVE MailTyped'
  BY <1>5, SameUids DEF Mail!Forget, Mail!webhook, Mail!poller, MailTyped
<1>6. CASE UNCHANGED Mail!vars
  BY <1>6, SameUids DEF Mail!vars, MailTyped
<1>. QED
  BY <1>1, <1>2, <1>3, <1>4, <1>5, <1>6 DEF Mail!HandleMailgun, Mail!HandleJSON

LEMMA MailTypedPoll ==
  ASSUME Assumptions, MailTyped,
         Mail!PollAll \/ Mail!Step \/ Mail!ReceiveFails \/ Mail!DialFails \/ Mail!FetchFails
           \/ Mail!PublishFails \/ Mail!CheckpointFails \/ Mail!Crash
  PROVE  MailTyped'
\* The poll stays with its mailbox.
<1>1. ASSUME SamePoll(mPoll'), mPoll.pc \in Busy, mPoll'.pc \in Busy,
             mPoll'.mail # None <=> mPoll'.pc = "publish", mCopies' \in [Mails -> Nat],
             UNCHANGED <<mUid, mCkpt, mGen, mPost, mTries, mQueue>>
      PROVE  MailTyped'
  BY <1>1, SameUids DEF SamePoll, MailTyped
\* No poll is under way.
<1>2. ASSUME NEW step \in {"idle", "list"}, mPoll' = Mail!NoPoll(step) \/ (mPoll' = mPoll /\ mPoll.pc = step),
             mQueue' \in Seq(Mail!Boxes), mCkpt' \in [Mail!Boxes -> Nat],
             UNCHANGED <<mUid, mGen, mCopies, mPost, mTries>>
      PROVE  MailTyped'
  <2>1. mPoll' \in Polls /\ mPoll'.pc = step /\ mPoll'.mail = None
    BY <1>2, PollFacts DEF MailTyped, Steps
  <2>. QED
    BY <1>2, <2>1, SameUids DEF MailTyped, Busy
<1>3. mQueue \in Seq(Mail!Boxes) /\ mCkpt \in [Mail!Boxes -> Nat] /\ mCopies \in [Mails -> Nat]
      /\ (mQueue # <<>> => Head(mQueue) \in Mail!Boxes /\ Tail(mQueue) \in Seq(Mail!Boxes))
  BY HeadTailProperties DEF MailTyped
<1>4. CASE Mail!PollAll
  <2>1. Order \in Seq(Mail!Boxes)
    BY DEF Assumptions, Mail!BoxAssumption
  <2>. QED
    BY <1>2, <1>3, <1>4, <2>1 DEF Mail!PollAll, Mail!stream, Mail!webhook
<1>5. CASE Mail!PollOne
  <2>. DEFINE b == Head(mQueue)
              F == Mail!Fetched(b)
  <2>1. b \in Mail!Boxes /\ mQueue' \in Seq(Mail!Boxes)
    BY <1>3, <1>5 DEF Mail!PollOne
  <2>2. mPoll' = [pc |-> "loop", box |-> b, gen |-> mGen[b], since |-> mCkpt[b], todo |-> F,
                  chan |-> <<>>, mail |-> None, done |-> 0, highest |-> mCkpt[b], fetched |-> Len(F)]
        /\ UNCHANGED <<mUid, mCkpt, mGen, mCopies, mPost, mTries>>
    BY <1>5 DEF Mail!PollOne, Mail!stream, Mail!webhook
  <2>3. F \in Seq(Mails)
    BY <2>1, FetchedFacts
  <2>4. Len(F) \in Nat /\ <<>> \in Seq(Mails) /\ mGen[b] \in Nat /\ mCkpt[b] \in Nat
    BY <2>1, <2>3, EmptySeq, LenProperties DEF MailTyped
  <2>. HIDE DEF b, F
  <2>5. mPoll' \in Polls /\ mPoll'.pc = "loop" /\ mPoll'.mail = None /\ mPoll'.box = b
    BY <2>1, <2>2, <2>3, <2>4 DEF Polls, Steps
  <2>. QED
    BY <2>1, <2>2, <2>5, SameUids DEF MailTyped, Busy
<1>6. CASE Mail!DialFails
  BY <1>2, <1>3, <1>6 DEF Mail!DialFails, Mail!stream, Mail!webhook
<1>7. CASE Mail!RoundDone
  BY <1>2, <1>3, <1>7 DEF Mail!RoundDone, Mail!stream, Mail!webhook
<1>8. CASE Mail!FetchSends \/ Mail!FetchFails
  BY <1>1, <1>3, <1>8, FetchSendsFacts, FetchFailsFacts DEF MailTyped
<1>9. CASE Mail!Receive \/ Mail!ReceiveFails
  <2>1. None \notin Mails
    BY DEF Assumptions, Mail!MidAssumption
  <2>2. /\ SamePoll(mPoll') /\ mPoll.pc = "loop" /\ mPoll'.pc \in Busy
        /\ mPoll'.mail # None <=> mPoll'.pc = "publish"
        /\ UNCHANGED <<mUid, mCkpt, mGen, mCopies, mPost, mTries, mQueue>>
    <3>1. CASE Mail!Receive
      BY <2>1, <3>1, ReceiveFacts DEF Received, Busy
    <3>2. CASE Mail!ReceiveFails
      BY <2>1, <3>2, ReceiveFailsFacts DEF Received, Busy
    <3>. QED
      BY <1>9, <3>1, <3>2
  <2>. QED
    BY <1>1, <1>3, <2>2 DEF Busy
<1>10. CASE Mail!PublishMail \/ Mail!PublishFails
  <2>1. mCopies' \in [Mails -> Nat]
    BY <1>3, <1>10, PublishMailFacts, PublishIdFacts
  <2>2. /\ mPoll.pc = "publish" /\ SamePoll(mPoll') /\ mPoll'.mail = None /\ mPoll'.pc \in {"loop", "wait"}
        /\ UNCHANGED <<mUid, mCkpt, mGen, mPost, mTries, mQueue>>
    BY <1>10, PublishMailFacts
  <2>. QED
    BY <1>1, <2>1, <2>2 DEF Busy
<1>11. CASE Mail!ChannelClosed
  <2>1. /\ mPoll.pc = "loop" /\ SamePoll(mPoll') /\ mPoll'.pc = "wait" /\ mPoll'.mail = mPoll.mail
        /\ UNCHANGED <<mUid, mCkpt, mGen, mCopies, mPost, mTries, mQueue>>
    BY <1>11, ChannelClosedFacts
  <2>. QED
    BY <1>1, <1>3, <2>1 DEF MailTyped, Busy
<1>12. CASE Mail!AdvanceCheckpoint
  <2>1. mCkpt' \in [Mail!Boxes -> Nat]
    <3>1. mPoll.highest \in Nat /\ mCkpt \in [Mail!Boxes -> Nat]
      BY DEF MailTyped, Polls
    <3>2. mCkpt' = [mCkpt EXCEPT ![mPoll.box] =
                IF mPoll.highest > mPoll.since /\ mGen[mPoll.box] = mPoll.gen THEN mPoll.highest ELSE @]
      BY <1>12 DEF Mail!AdvanceCheckpoint
    <3>. QED
      BY <3>1, <3>2
  <2>. QED
    BY <1>2, <1>3, <1>12, <2>1 DEF Mail!AdvanceCheckpoint, Mail!stream, Mail!webhook
<1>13. CASE Mail!CheckpointFails
  BY <1>2, <1>3, <1>13 DEF Mail!CheckpointFails, Mail!stream, Mail!webhook
<1>14. CASE Mail!Crash
  BY <1>2, <1>3, <1>14, EmptySeq DEF Mail!Crash, Mail!stream, Mail!webhook
<1>. QED
  BY <1>4, <1>5, <1>6, <1>7, <1>8, <1>9, <1>10, <1>11, <1>12, <1>13, <1>14 DEF Mail!Step

LEMMA MailTypedStep ==
  ASSUME Assumptions, MailTyped, [Mail!Next]_Mail!vars
  PROVE  MailTyped'
BY MailTypedElse, MailTypedPoll DEF Mail!Next


-----------------------------------------------------------------------------
(***************************************************************************)
(* Mailbox: the checkpoint.  A poll whose mailbox is still the one it      *)
(* began with has recorded what it read, which is all up to the highest    *)
(* UID it saw: the mails it is sent follow that UID without a gap.         *)
(***************************************************************************)
RowOf(m) == Mail!Row(BoxOf[m], mGen[BoxOf[m]], Mail!ImapId(m))
RecordedUpTo(b, n) == \A m \in Mails \ mFailed :
  BoxOf[m] = b /\ mUid[m] \in 1..n => RowOf(m) \in mSeen

InSeq(c, t, n) == Following(c, n) /\ Following(t, n + Len(c))

Placed(p) ==
  /\ p.gen <= mGen[p.box]
  /\ Of(p.chan, p.box) /\ Of(p.todo, p.box)
  /\ p.mail # None => BoxOf[p.mail] = p.box /\ mUid[p.mail] > 0
  /\ p.since <= p.highest /\ p.highest <= Arrivals(p.box)
  /\ \/ InSeq(p.chan, p.todo, p.highest)
     \/ Before(p.chan, p.since) /\ Before(p.todo, p.since)
Covered(p) == p.gen = mGen[p.box] => mCkpt[p.box] = p.since /\ RecordedUpTo(p.box, p.highest)
PollInv == \A p \in Polls : p = mPoll /\ p.pc \in Busy => Placed(p) /\ Covered(p)

CkptInv == \A b \in Mail!Boxes : mCkpt[b] <= Arrivals(b) /\ RecordedUpTo(b, mCkpt[b])

\* UidFetch hands its next mail over.
LEMMA SentLists ==
  ASSUME MailTyped, NEW c \in Seq(Mails), NEW t \in Seq(Mails), t # <<>>, NEW b, NEW n \in Nat
  PROVE  /\ Of(c, b) /\ Of(t, b) => Of(Append(c, t[1]), b) /\ Of(Tail(t), b)
         /\ InSeq(c, t, n) => InSeq(Append(c, t[1]), Tail(t), n)
         /\ Before(c, n) /\ Before(t, n) => Before(Append(c, t[1]), n) /\ Before(Tail(t), n)
<1>. DEFINE d == Append(c, t[1])
            u == Tail(t)
<1>1. Len(c) \in Nat /\ Len(t) \in Nat \ {0} /\ t[1] \in Mails
  BY EmptySeq, LenProperties, ElementOfSeq
<1>2. /\ Len(d) = Len(c) + 1 /\ d[Len(c) + 1] = t[1] /\ \A i \in 1..Len(c) : d[i] = c[i]
      /\ Len(u) = Len(t) - 1 /\ \A i \in 1..Len(u) : u[i] = t[i + 1]
  BY <1>1, AppendProperties, HeadTailProperties
<1>. HIDE DEF d, u
<1>3. \A i \in 1..Len(u) : i + 1 \in 1..Len(t)
  BY <1>1, <1>2
<1>4. 1 \in 1..Len(t) /\ \A i \in 1..Len(d) : i \in 1..Len(c) \/ i = Len(c) + 1
  BY <1>1, <1>2
<1>0. \A i \in 1..Len(d) : (i \in 1..Len(c) /\ d[i] = c[i]) \/ (i = Len(c) + 1 /\ d[i] = t[1])
  BY <1>2, <1>4
<1>5. ASSUME Of(c, b), Of(t, b) PROVE Of(d, b) /\ Of(u, b)
  <2>1. Of(d, b)
    BY <1>0, <1>4, <1>5 DEF Of
  <2>2. ASSUME NEW i \in 1..Len(u)
        PROVE  u[i] \in Mails /\ BoxOf[u[i]] = b /\ mUid[u[i]] \in 1..Arrivals(b)
    BY <1>2, <1>3, <1>5 DEF Of
  <2>. QED
    BY <2>1, <2>2 DEF Of
<1>6. InSeq(c, t, n) => InSeq(d, u, n)
  <2>. SUFFICES ASSUME InSeq(c, t, n) PROVE Following(d, n) /\ Following(u, n + Len(d))
    BY DEF InSeq
  <2>1. \A i \in 1..Len(c) : mUid[c[i]] = n + i
    BY DEF InSeq, Following
  <2>2. \A i \in 1..Len(t) : mUid[t[i]] = n + Len(c) + i
    BY DEF InSeq, Following
  <2>3. \A i \in 1..Len(d) : mUid[d[i]] = n + i
    <3>1. mUid[t[1]] = n + Len(c) + 1
      BY <1>4, <2>2
    <3>2. ASSUME NEW i \in 1..Len(d) PROVE mUid[d[i]] = n + i
      <4>1. CASE i \in 1..Len(c) /\ d[i] = c[i]
        BY <2>1, <4>1
      <4>2. CASE i = Len(c) + 1 /\ d[i] = t[1]
        BY <1>1, <3>1, <4>2
      <4>. QED
        BY <1>0, <4>1, <4>2
    <3>. QED
      BY <3>2
  <2>4. ASSUME NEW i \in 1..Len(u) PROVE mUid[u[i]] = (n + Len(d)) + i
    <3>1. mUid[u[i]] = n + Len(c) + (i + 1)
      BY <1>2, <1>3, <2>2
    <3>. QED
      BY <1>1, <1>2, <3>1
  <2>. QED
    BY <2>3, <2>4 DEF Following
<1>7. ASSUME Before(c, n), Before(t, n) PROVE Before(d, n) /\ Before(u, n)
  <2>1. Before(d, n)
    BY <1>0, <1>4, <1>7 DEF Before
  <2>. QED
    BY <1>2, <1>3, <1>7, <2>1 DEF Before
<1>. QED
  BY <1>5, <1>6, <1>7 DEF d, u

\* The loop takes the next one.
LEMMA TakenLists ==
  ASSUME MailTyped, NEW c \in Seq(Mails), NEW t \in Seq(Mails), c # <<>>, NEW b, NEW n \in Nat
  PROVE  /\ Of(c, b) => Of(Tail(c), b) /\ BoxOf[c[1]] = b /\ mUid[c[1]] \in 1..Arrivals(b)
         /\ InSeq(c, t, n) => mUid[c[1]] = n + 1 /\ InSeq(Tail(c), t, n + 1)
         /\ Before(c, n) => mUid[c[1]] <= n /\ Before(Tail(c), n)
<1>. DEFINE u == Tail(c)
<1>1. Len(c) \in Nat \ {0}
  BY EmptySeq, LenProperties
<1>2. Len(u) = Len(c) - 1 /\ \A i \in 1..Len(u) : u[i] = c[i + 1]
  BY <1>1, HeadTailProperties
<1>. HIDE DEF u
<1>3. \A i \in 1..Len(u) : i + 1 \in 1..Len(c)
  BY <1>1, <1>2
<1>4. 1 \in 1..Len(c)
  BY <1>1
<1>5. Of(c, b) => Of(u, b) /\ BoxOf[c[1]] = b /\ mUid[c[1]] \in 1..Arrivals(b)
  BY <1>2, <1>3, <1>4 DEF Of
<1>6. ASSUME InSeq(c, t, n) PROVE mUid[c[1]] = n + 1 /\ InSeq(u, t, n + 1)
  <2>1. \A i \in 1..Len(c) : mUid[c[i]] = n + i
    BY <1>6 DEF InSeq, Following
  <2>2. \A i \in 1..Len(t) : mUid[t[i]] = n + Len(c) + i
    BY <1>6 DEF InSeq, Following
  <2>3. ASSUME NEW i \in 1..Len(u) PROVE mUid[u[i]] = (n + 1) + i
    <3>1. mUid[u[i]] = n + (i + 1)
      BY <1>2, <1>3, <2>1
    <3>. QED
      BY <1>1, <1>2, <3>1
  <2>4. \A i \in 1..Len(t) : mUid[t[i]] = ((n + 1) + Len(u)) + i
    BY <1>1, <1>2, <2>2
  <2>. QED
    BY <1>4, <2>1, <2>3, <2>4 DEF InSeq, Following
<1>7. Before(c, n) => mUid[c[1]] <= n /\ Before(u, n)
  BY <1>2, <1>3, <1>4 DEF Before
<1>. QED
  BY <1>5, <1>6, <1>7 DEF u

\* No mailbox is connected again, no checkpoint moves, and nothing that was
\* recorded or struck is forgotten.
LEMMA RecordedFrame ==
  ASSUME mUid' = mUid, mGen' = mGen, mSeen \subseteq mSeen', mFailed \subseteq mFailed'
  PROVE  /\ \A m : RowOf(m)' = RowOf(m)
         /\ \A b, n : RecordedUpTo(b, n) => RecordedUpTo(b, n)'
<1>1. \A m : RowOf(m)' = RowOf(m)
  BY DEF RowOf, Mail!Row, Mail!ImapId
<1>. QED
  BY <1>1 DEF RecordedUpTo

LEMMA CkptFrame ==
  ASSUME CkptInv, mUid' = mUid, mGen' = mGen, mCkpt' = mCkpt, mSeen \subseteq mSeen', mFailed \subseteq mFailed'
  PROVE  CkptInv'
BY RecordedFrame, SameUids DEF CkptInv


LEMMA PollFrame ==
  ASSUME mUid' = mUid, mGen' = mGen, mCkpt' = mCkpt, mSeen \subseteq mSeen', mFailed \subseteq mFailed'
  PROVE  \A p : (Placed(p) => Placed(p)') /\ (Covered(p) => Covered(p)')
<1>1. \A s, n : Following(s, n)' = Following(s, n) /\ Before(s, n)' = Before(s, n)
  BY DEF Following, Before
<1>2. \A s, t, n : InSeq(s, t, n)' = InSeq(s, t, n)
  BY <1>1 DEF InSeq
<1>3. ASSUME NEW p, Placed(p) PROVE Placed(p)'
  BY <1>1, <1>2, <1>3, SameUids DEF Placed
<1>4. ASSUME NEW p, Covered(p) PROVE Covered(p)'
  BY <1>4, RecordedFrame DEF Covered
<1>. QED
  BY <1>3, <1>4

\* A step that records or strikes mails, but not the poll's highest UID.
LEMMA PollStays ==
  ASSUME PollInv, CkptInv, mPoll \in Polls,
         mUid' = mUid, mGen' = mGen, mCkpt' = mCkpt, mSeen \subseteq mSeen', mFailed \subseteq mFailed',
         NEW q, q = mPoll',
         q.pc \in Busy => /\ mPoll.pc \in Busy /\ Placed(q) /\ q.box = mPoll.box /\ q.gen = mPoll.gen
                          /\ q.since = mPoll.since /\ q.highest = mPoll.highest
  PROVE  PollInv' /\ CkptInv'
<1>1. ASSUME q.pc \in Busy PROVE Placed(q)' /\ Covered(q)'
  <2>1. PICK p \in Polls : p = mPoll
    OBVIOUS
  <2>2. Covered(p)
    BY <1>1, <2>1 DEF PollInv
  <2>3. Covered(q)
    BY <1>1, <2>1, <2>2 DEF Covered
  <2>. QED
    BY <1>1, <2>3, PollFrame
<1>2. PollInv'
  BY <1>1 DEF PollInv
<1>. QED
  BY <1>2, CkptFrame

LEMMA PollSent ==
  ASSUME MailTyped, PollInv, Mail!FetchSends \/ Mail!FetchFails \/ Mail!ChannelClosed
                               \/ Mail!PublishMail \/ Mail!PublishFails,
         NEW q, q = mPoll'
  PROVE  /\ mPoll.pc \in Busy /\ Placed(q) /\ q.box = mPoll.box /\ q.gen = mPoll.gen
         /\ q.since = mPoll.since /\ q.highest = mPoll.highest
<1>1. PICK p \in Polls : p = mPoll
  BY DEF MailTyped
<1>2. mPoll.pc \in Busy => Placed(p)
  BY <1>1 DEF PollInv
<1>3. p.chan \in Seq(Mails) /\ p.todo \in Seq(Mails) /\ p.highest \in Nat /\ p.since \in Nat
  BY DEF Polls
<1>5. CASE Mail!FetchSends
  <2>1. /\ mPoll.pc \in Busy /\ q.box = p.box /\ q.gen = p.gen /\ q.since = p.since
        /\ q.highest = p.highest /\ q.mail = p.mail /\ p.todo # <<>>
        /\ q.chan = Append(p.chan, p.todo[1]) /\ q.todo = Tail(p.todo)
    BY <1>1, <1>5, FetchSendsFacts DEF SamePoll
  <2>2. /\ Of(p.chan, p.box) /\ Of(p.todo, p.box)
        /\ InSeq(p.chan, p.todo, p.highest) \/ (Before(p.chan, p.since) /\ Before(p.todo, p.since))
    BY <1>2, <2>1 DEF Placed
  <2>3. Of(q.chan, p.box) /\ Of(q.todo, p.box)
    BY <1>3, <2>1, <2>2, SentLists
  <2>4. InSeq(p.chan, p.todo, p.highest) => InSeq(q.chan, q.todo, p.highest)
    BY <1>3, <2>1, SentLists
  <2>5. Before(p.chan, p.since) /\ Before(p.todo, p.since) => Before(q.chan, p.since) /\ Before(q.todo, p.since)
    BY <1>3, <2>1, SentLists
  <2>. QED
    BY <1>1, <1>2, <2>1, <2>2, <2>3, <2>4, <2>5 DEF Placed
<1>6. CASE Mail!FetchFails
  <2>1. /\ mPoll.pc \in Busy /\ q.box = p.box /\ q.gen = p.gen /\ q.since = p.since
        /\ q.highest = p.highest /\ q.mail = p.mail /\ q.chan = p.chan /\ q.todo = <<>>
    BY <1>1, <1>6, FetchFailsFacts DEF SamePoll
  <2>2. Len(<<>>) = 0
    OBVIOUS
  <2>3. \A b, n : Of(<<>>, b) /\ Following(<<>>, n) /\ Before(<<>>, n)
    BY <2>2 DEF Of, Following, Before
  <2>. QED
    BY <1>1, <1>2, <2>1, <2>3 DEF Placed, InSeq
<1>7. CASE Mail!ChannelClosed
  <2>1. /\ mPoll.pc \in Busy /\ q.box = p.box /\ q.gen = p.gen /\ q.since = p.since
        /\ q.highest = p.highest /\ q.mail = p.mail /\ q.chan = p.chan /\ q.todo = p.todo
    BY <1>1, <1>7, ChannelClosedFacts DEF SamePoll, Busy
  <2>. QED
    BY <1>1, <1>2, <2>1 DEF Placed
<1>8. CASE Mail!PublishMail \/ Mail!PublishFails
  <2>1. /\ mPoll.pc \in Busy /\ q.box = p.box /\ q.gen = p.gen /\ q.since = p.since
        /\ q.highest = p.highest /\ q.mail = None /\ q.chan = p.chan /\ q.todo = p.todo
    BY <1>1, <1>8, PublishMailFacts DEF SamePoll, Busy
  <2>. QED
    BY <1>1, <1>2, <2>1 DEF Placed
<1>. QED
  BY <1>5, <1>6, <1>7, <1>8

LEMMA PollTaken ==
  ASSUME Assumptions, MailTyped, PollInv, NEW m, NEW q, q = mPoll', Received(m, q),
         q.mail \in {None, m}
  PROVE  /\ Placed(q) /\ BoxOf[m] = q.box /\ mUid[m] > 0
         /\ \A x \in Mails : BoxOf[x] = q.box /\ mUid[x] \in 1..q.highest
                               => x = m \/ mUid[x] \in 1..mPoll.highest
<1>1. PICK p \in Polls : p = mPoll
  BY DEF MailTyped
<1>2. /\ p.chan # <<>> /\ m = p.chan[1] /\ m \in Mails /\ q.box = p.box /\ q.gen = p.gen
      /\ q.since = p.since /\ q.todo = p.todo /\ q.chan = Tail(p.chan)
      /\ q.highest = IF p.highest > mUid[m] THEN p.highest ELSE mUid[m]
  BY <1>1 DEF Received, SamePoll
<1>3. Placed(p)
  BY <1>1 DEF PollInv, Received, Busy
<1>4. p.chan \in Seq(Mails) /\ p.todo \in Seq(Mails) /\ p.highest \in Nat /\ p.since \in Nat
      /\ mUid[m] \in Nat
  BY <1>2 DEF Polls, MailTyped
<1>9. \A b \in {p.box}, n \in Nat :
        /\ Of(p.chan, b) => Of(q.chan, b) /\ BoxOf[m] = b /\ mUid[m] \in 1..Arrivals(b)
        /\ InSeq(p.chan, p.todo, n) => mUid[m] = n + 1 /\ InSeq(q.chan, p.todo, n + 1)
        /\ Before(p.chan, n) => mUid[m] <= n /\ Before(q.chan, n)
  <2>. SUFFICES ASSUME NEW b, NEW n \in Nat
                PROVE  /\ Of(p.chan, b) => Of(q.chan, b) /\ BoxOf[m] = b /\ mUid[m] \in 1..Arrivals(b)
                       /\ InSeq(p.chan, p.todo, n) => mUid[m] = n + 1 /\ InSeq(q.chan, p.todo, n + 1)
                       /\ Before(p.chan, n) => mUid[m] <= n /\ Before(q.chan, n)
    OBVIOUS
  <2>. DEFINE c == p.chan
              t == p.todo
  <2>1. c \in Seq(Mails) /\ t \in Seq(Mails) /\ c # <<>>
    BY <1>2, <1>4
  <2>. HIDE DEF c, t
  <2>2. /\ Of(c, b) => Of(Tail(c), b) /\ BoxOf[c[1]] = b /\ mUid[c[1]] \in 1..Arrivals(b)
        /\ InSeq(c, t, n) => mUid[c[1]] = n + 1 /\ InSeq(Tail(c), t, n + 1)
        /\ Before(c, n) => mUid[c[1]] <= n /\ Before(Tail(c), n)
    BY <2>1, TakenLists
  <2>. QED
    BY <1>2, <2>2 DEF c, t
<1>5. Of(q.chan, q.box) /\ BoxOf[m] = q.box /\ mUid[m] \in 1..Arrivals(q.box)
  BY <1>2, <1>3, <1>9, <1>4 DEF Placed
<1>6. Arrivals(q.box) \in Nat
  BY ArrivedFacts
<1>7. CASE InSeq(p.chan, p.todo, p.highest)
  <2>1. mUid[m] = p.highest + 1 /\ InSeq(q.chan, q.todo, p.highest + 1)
    BY <1>2, <1>4, <1>7, <1>9
  <2>2. q.highest = p.highest + 1
    BY <1>2, <1>4, <2>1
  <2>3. ASSUME NEW x \in Mails, BoxOf[x] = q.box, mUid[x] \in 1..q.highest
        PROVE  x = m \/ mUid[x] \in 1..p.highest
    <3>1. CASE mUid[x] = mUid[m]
      <4>1. x \in Mail!Arrived(q.box) /\ m \in Mail!Arrived(q.box)
        BY <1>2, <1>5, <2>3, <1>6, <1>4 DEF Mail!Arrived
      <4>2. q.box \in Mail!Boxes
        BY <1>2, <1>5 DEF Assumptions, Mail!BoxAssumption
      <4>. QED
        BY <3>1, <4>1, <4>2 DEF MailTyped, Numbered
    <3>2. CASE mUid[x] # mUid[m]
      BY <1>4, <2>1, <2>2, <2>3, <3>2
    <3>. QED
      BY <3>1, <3>2
  <2>4. p.since <= q.highest /\ q.highest <= Arrivals(q.box)
    BY <1>3, <1>4, <1>5, <1>6, <2>1, <2>2 DEF Placed
  <2>. QED
    BY <1>1, <1>2, <1>3, <1>4, <1>5, <1>6, <2>1, <2>2, <2>3, <2>4 DEF Placed
<1>8. CASE Before(p.chan, p.since) /\ Before(p.todo, p.since)
  <2>1. mUid[m] <= p.since /\ Before(q.chan, p.since)
    BY <1>2, <1>4, <1>8, <1>9
  <2>2. q.highest = p.highest
    BY <1>2, <1>3, <1>4, <2>1 DEF Placed
  <2>. QED
    BY <1>1, <1>2, <1>3, <1>4, <1>5, <1>6, <1>8, <2>1, <2>2 DEF Placed
<1>. QED
  BY <1>3, <1>7, <1>8 DEF Placed


LEMMA PollReceived ==
  ASSUME Assumptions, MailTyped, PollInv, CkptInv, Mail!Receive \/ Mail!ReceiveFails
  PROVE  PollInv' /\ CkptInv'
<1>1. PICK q : q = mPoll'
  OBVIOUS
<1>2. PICK m \in Mails :
        /\ Received(m, q) /\ q.mail \in {None, m}
        /\ m \in mFailed' \/ (mGen[mPoll.box] = mPoll.gen /\ Mail!Row(mPoll.box, mPoll.gen, Mail!ImapId(m)) \in mSeen')
        /\ mSeen \subseteq mSeen' /\ mFailed \subseteq mFailed' /\ UNCHANGED <<mUid, mCkpt, mGen>>
  <2>1. CASE Mail!Receive
    BY <1>1, <2>1, ReceiveFacts
  <2>2. CASE Mail!ReceiveFails
    BY <1>1, <2>2, ReceiveFailsFacts
  <2>. QED
    BY <2>1, <2>2
<1>3. /\ Placed(q) /\ BoxOf[m] = q.box
      /\ \A x \in Mails : BoxOf[x] = q.box /\ mUid[x] \in 1..q.highest => x = m \/ mUid[x] \in 1..mPoll.highest
  BY <1>1, <1>2, PollTaken
<1>4. PICK p \in Polls : p = mPoll
  BY DEF MailTyped
<1>5. q.box = p.box /\ q.gen = p.gen /\ q.since = p.since /\ Covered(p)
  BY <1>2, <1>4 DEF Received, SamePoll, PollInv, Busy
<1>6. Placed(q)'
  BY <1>2, <1>3, PollFrame
<1>7. Covered(q)'
  <2>. SUFFICES ASSUME q.gen = mGen[q.box], NEW x \in Mails \ mFailed', BoxOf[x] = q.box, mUid[x] \in 1..q.highest
                PROVE  RowOf(x)' \in mSeen'
    BY <1>2, <1>5 DEF Covered, RecordedUpTo
  <2>1. RowOf(x)' = RowOf(x)
    BY <1>2, RecordedFrame
  <2>2. CASE x = m
    BY <1>2, <1>3, <1>4, <1>5, <2>1, <2>2 DEF RowOf
  <2>3. CASE mUid[x] \in 1..p.highest
    BY <1>2, <1>5, <2>1, <2>3 DEF Covered, RecordedUpTo
  <2>. QED
    BY <1>3, <1>4, <2>2, <2>3
<1>8. PollInv'
  BY <1>1, <1>6, <1>7 DEF PollInv
<1>. QED
  BY <1>2, <1>8, CkptFrame

\* A mail that arrives has a UID above all that were there.
LEMMA PollArrived ==
  ASSUME Assumptions, MailTyped, PollInv, CkptInv, NEW m \in Mails, Mail!Arrive(m)
  PROVE  PollInv' /\ CkptInv'
<1>1. /\ mCkpt' = mCkpt /\ mGen' = mGen /\ mSeen' = mSeen /\ mFailed' = mFailed /\ mPoll' = mPoll
  BY DEF Mail!Arrive, Mail!stream, Mail!poller
<1>2. /\ mUid[m] = 0 /\ mUid'[m] = Arrivals(BoxOf[m]) + 1
      /\ \A n \in Mails : n # m => mUid'[n] = mUid[n]
      /\ \A c : Arrivals(c)' \in Nat /\ Arrivals(c) \in Nat /\ Arrivals(c) <= Arrivals(c)'
  BY ArriveFacts
<1>3. ASSUME NEW s, NEW b, Of(s, b)
      PROVE  Of(s, b)' /\ \A i \in 1..Len(s) : mUid'[s[i]] = mUid[s[i]]
  <2>1. \A i \in 1..Len(s) : s[i] \in Mails /\ BoxOf[s[i]] = b /\ mUid[s[i]] \in 1..Arrivals(b) /\ s[i] # m
    BY <1>2, <1>3 DEF Of
  <2>2. ASSUME NEW i \in 1..Len(s) PROVE mUid'[s[i]] = mUid[s[i]] /\ mUid'[s[i]] \in 1..Arrivals(b)'
    BY <1>2, <2>1
  <2>. QED
    BY <2>1, <2>2 DEF Of
<1>4. ASSUME NEW b, NEW n \in Nat, n <= Arrivals(b), RecordedUpTo(b, n) PROVE RecordedUpTo(b, n)'
  <2>. SUFFICES ASSUME NEW x \in Mails \ mFailed, BoxOf[x] = b, mUid'[x] \in 1..n PROVE RowOf(x)' \in mSeen
    BY <1>1 DEF RecordedUpTo
  <2>1. x # m
    BY <1>2, <1>4
  <2>2. mUid'[x] = mUid[x]
    BY <1>2, <2>1
  <2>3. RowOf(x)' = RowOf(x)
    BY <1>1, <2>2 DEF RowOf, Mail!Row, Mail!ImapId
  <2>. QED
    BY <1>4, <2>2, <2>3 DEF RecordedUpTo
<1>5. CkptInv'
  <2>1. ASSUME NEW b \in Mail!Boxes PROVE mCkpt[b] <= Arrivals(b)' /\ RecordedUpTo(b, mCkpt[b])'
    <3>1. mCkpt[b] \in Nat /\ mCkpt[b] <= Arrivals(b) /\ RecordedUpTo(b, mCkpt[b])
      BY DEF CkptInv, MailTyped
    <3>2. PICK n \in Nat : n = mCkpt[b]
      BY <3>1
    <3>3. RecordedUpTo(b, n)' /\ n <= Arrivals(b)'
      BY <1>2, <1>4, <3>1, <3>2
    <3>. QED
      BY <1>1, <3>2, <3>3 DEF RecordedUpTo
  <2>. QED
    BY <1>1, <2>1 DEF CkptInv, RecordedUpTo
<1>6. PollInv'
  <2>. SUFFICES ASSUME NEW p \in Polls, p = mPoll, p.pc \in Busy PROVE Placed(p)' /\ Covered(p)'
    BY <1>1 DEF PollInv
  <2>1. Placed(p) /\ Covered(p) /\ p.highest \in Nat /\ p.since \in Nat
    BY DEF PollInv, Polls
  <2>2. /\ Of(p.chan, p.box)' /\ \A i \in 1..Len(p.chan) : mUid'[p.chan[i]] = mUid[p.chan[i]]
        /\ Of(p.todo, p.box)' /\ \A i \in 1..Len(p.todo) : mUid'[p.todo[i]] = mUid[p.todo[i]]
    BY <1>3, <2>1 DEF Placed
  <2>3. \A n : /\ Following(p.chan, n) => Following(p.chan, n)'
               /\ Following(p.todo, n) => Following(p.todo, n)'
               /\ Before(p.chan, n) => Before(p.chan, n)'
               /\ Before(p.todo, n) => Before(p.todo, n)'
    BY <2>2 DEF Following, Before
  <2>4. InSeq(p.chan, p.todo, p.highest) => InSeq(p.chan, p.todo, p.highest)'
    BY <2>3 DEF InSeq
  <2>5. p.mail # None => BoxOf[p.mail] = p.box /\ mUid'[p.mail] > 0
    <3>1. p.mail # None => p.mail # m /\ p.mail \in Mails
      BY <1>2, <2>1 DEF Placed, Polls
    <3>. QED
      BY <1>2, <2>1, <3>1 DEF Placed
  <2>6. p.highest <= Arrivals(p.box)'
    BY <1>2, <2>1 DEF Placed
  <2>7. Placed(p)'
    BY <1>1, <2>1, <2>2, <2>3, <2>4, <2>5, <2>6 DEF Placed
  <2>8. Covered(p)'
    BY <1>1, <1>4, <2>1 DEF Covered, Placed
  <2>. QED
    BY <2>7, <2>8
<1>. QED
  BY <1>5, <1>6

\* A mailbox that is connected again starts at UID 0 and disowns the poll.
LEMMA PollReconnected ==
  ASSUME Assumptions, MailTyped, PollInv, CkptInv, NEW b \in Mail!Boxes, Mail!Reconnect(b)
  PROVE  PollInv' /\ CkptInv'
<1>1. /\ mUid' = mUid /\ mPoll' = mPoll /\ mFailed' = mFailed /\ mSeen' = {r \in mSeen : r.box # b}
      /\ mGen' = [mGen EXCEPT ![b] = @ + 1] /\ mCkpt' = [mCkpt EXCEPT ![b] = 0]
  BY DEF Mail!Reconnect, Mail!stream, Mail!poller
<1>2. /\ mGen \in [Mail!Boxes -> Nat] /\ mCkpt \in [Mail!Boxes -> Nat]
  BY DEF MailTyped
<1>3. /\ mGen'[b] = mGen[b] + 1 /\ mCkpt'[b] = 0
      /\ \A c \in Mail!Boxes : c # b => mGen'[c] = mGen[c] /\ mCkpt'[c] = mCkpt[c]
  BY <1>1, <1>2
<1>4. ASSUME NEW c \in Mail!Boxes, c # b, NEW n, RecordedUpTo(c, n) PROVE RecordedUpTo(c, n)'
  <2>. SUFFICES ASSUME NEW x \in Mails \ mFailed, BoxOf[x] = c, mUid[x] \in 1..n PROVE RowOf(x)' \in mSeen'
    BY <1>1 DEF RecordedUpTo
  <2>1. RowOf(x)' = RowOf(x) /\ RowOf(x).box # b
    BY <1>1, <1>3, <1>4 DEF RowOf, Mail!Row, Mail!ImapId
  <2>. QED
    BY <1>1, <1>4, <2>1 DEF RecordedUpTo
<1>5. RecordedUpTo(b, 0)'
  BY DEF RecordedUpTo
<1>6. CkptInv'
  <2>. SUFFICES ASSUME NEW c \in Mail!Boxes PROVE (mCkpt'[c] <= Arrivals(c)' /\ RecordedUpTo(c, mCkpt[c])')
    BY DEF CkptInv
  <2>1. PICK n \in Nat : n = mCkpt'[c]
    BY <1>2, <1>3
  <2>2. Arrivals(c)' = Arrivals(c) /\ Arrivals(c) \in Nat
    BY <1>1, SameUids, ArrivedFacts
  <2>3. n <= Arrivals(c) /\ RecordedUpTo(c, n)'
    <3>1. CASE c = b
      BY <1>3, <1>5, <2>1, <2>2, <3>1
    <3>2. CASE c # b
      BY <1>3, <1>4, <2>1, <3>2 DEF CkptInv
    <3>. QED
      BY <3>1, <3>2
  <2>. QED
    BY <2>1, <2>2, <2>3 DEF RecordedUpTo
<1>7. PollInv'
  <2>. SUFFICES ASSUME NEW p \in Polls, p = mPoll, p.pc \in Busy PROVE Placed(p)' /\ Covered(p)'
    BY <1>1 DEF PollInv
  <2>1. Placed(p) /\ Covered(p) /\ p.box \in Mail!Boxes /\ p.gen \in Nat /\ mGen[p.box] \in Nat
    BY <1>2 DEF PollInv, MailTyped, Polls
  <2>2. p.gen <= mGen'[p.box]
    BY <1>3, <2>1 DEF Placed
  <2>3. Placed(p)'
    <3>1. \A s, n : Following(s, n)' = Following(s, n) /\ Before(s, n)' = Before(s, n)
      BY <1>1 DEF Following, Before
    <3>2. \A s, t, n : InSeq(s, t, n)' = InSeq(s, t, n)
      BY <3>1 DEF InSeq
    <3>. QED
      BY <1>1, <2>1, <2>2, <3>1, <3>2, SameUids DEF Placed
  <2>4. Covered(p)'
    <3>1. CASE p.box = b
      BY <1>3, <2>1, <3>1 DEF Covered, Placed
    <3>2. CASE p.box # b
      BY <1>3, <1>4, <2>1, <3>2 DEF Covered
    <3>. QED
      BY <3>1, <3>2
  <2>. QED
    BY <2>3, <2>4
<1>. QED
  BY <1>6, <1>7


LEMMA PollElse ==
  ASSUME Assumptions, MailTyped, PollInv, CkptInv,
         Mail!PollAll \/ Mail!PollOne \/ Mail!RoundDone \/ Mail!DialFails \/ Mail!AdvanceCheckpoint
           \/ Mail!CheckpointFails \/ Mail!Crash
  PROVE  PollInv' /\ CkptInv'
<1>1. PICK q : q = mPoll'
  OBVIOUS
<1>2. mPoll \in Polls /\ \A step : Mail!NoPoll(step).pc = step
  BY PollFacts DEF MailTyped
<1>3. CASE Mail!PollAll \/ Mail!RoundDone \/ Mail!DialFails \/ Mail!CheckpointFails \/ Mail!Crash
  <2>1. /\ mUid' = mUid /\ mGen' = mGen /\ mCkpt' = mCkpt /\ mSeen' = mSeen /\ mFailed \subseteq mFailed'
        /\ q.pc \notin Busy
    BY <1>1, <1>2, <1>3 DEF Mail!PollAll, Mail!RoundDone, Mail!DialFails, Mail!CheckpointFails,
         Mail!Crash, Busy
  <2>. QED
    BY <1>1, <1>2, <2>1, PollStays
<1>4. CASE Mail!PollOne
  <2>. DEFINE b == Head(mQueue)
              F == Mail!Fetched(b)
  <2>1. b \in Mail!Boxes
    BY <1>4, HeadTailProperties DEF Mail!PollOne, MailTyped
  <2>2. /\ q = [pc |-> "loop", box |-> b, gen |-> mGen[b], since |-> mCkpt[b], todo |-> F,
                chan |-> <<>>, mail |-> None, done |-> 0, highest |-> mCkpt[b], fetched |-> Len(F)]
        /\ mUid' = mUid /\ mGen' = mGen /\ mCkpt' = mCkpt /\ mSeen' = mSeen /\ mFailed' = mFailed
    BY <1>1, <1>4 DEF Mail!PollOne, Mail!stream, Mail!webhook
  <2>3. Of(F, b) /\ (Following(F, mCkpt[b]) \/ Before(F, mCkpt[b]))
    BY <2>1, FetchedFacts
  <2>4. mCkpt[b] \in Nat /\ mGen[b] \in Nat
    BY <2>1 DEF MailTyped
  <2>. HIDE DEF b, F
  <2>5. /\ q.box = b /\ q.gen = mGen[b] /\ q.since = mCkpt[b] /\ q.todo = F /\ q.chan = <<>>
        /\ q.mail = None /\ q.highest = mCkpt[b]
    BY <2>2
  <2>6. Len(<<>>) = 0
    OBVIOUS
  <2>7. Of(<<>>, b) /\ Following(<<>>, mCkpt[b]) /\ Before(<<>>, mCkpt[b])
    BY <2>6 DEF Of, Following, Before
  <2>8. mCkpt[b] + Len(<<>>) = mCkpt[b]
    BY <2>4, <2>6
  <2>9. mCkpt[b] <= Arrivals(b) /\ RecordedUpTo(b, mCkpt[b])
    BY <2>1 DEF CkptInv
  <2>10. Placed(q)
    BY <2>3, <2>4, <2>5, <2>7, <2>8, <2>9 DEF Placed, InSeq
  <2>11. Covered(q)
    BY <2>5, <2>9 DEF Covered
  <2>12. Placed(q)' /\ Covered(q)'
    BY <2>2, <2>10, <2>11, PollFrame
  <2>13. PollInv'
    BY <1>1, <2>12 DEF PollInv
  <2>. QED
    BY <2>2, <2>13, CkptFrame
<1>5. CASE Mail!AdvanceCheckpoint
  <2>1. PICK p \in Polls : p = mPoll
    BY <1>2
  <2>2. /\ p.pc = "wait" /\ q.pc \notin Busy
        /\ mUid' = mUid /\ mGen' = mGen /\ mSeen' = mSeen /\ mFailed' = mFailed
        /\ mCkpt' = [mCkpt EXCEPT ![p.box] = IF p.highest > p.since /\ mGen[p.box] = p.gen THEN p.highest ELSE @]
    BY <1>1, <1>2, <1>5, <2>1 DEF Mail!AdvanceCheckpoint, Mail!stream, Mail!webhook, Busy
  <2>3. p.box \in Mail!Boxes /\ Placed(p) /\ Covered(p)
    BY <2>1, <2>2 DEF PollInv, MailTyped, Busy
  <2>4. PollInv'
    BY <1>1, <2>2 DEF PollInv
  <2>5. ASSUME NEW c \in Mail!Boxes PROVE (mCkpt[c] <= Arrivals(c) /\ RecordedUpTo(c, mCkpt[c]))'
    <3>1. PICK n : n = mCkpt'[c]
      OBVIOUS
    <3>2. n <= Arrivals(c) /\ RecordedUpTo(c, n)
      <4>1. CASE n = mCkpt[c]
        BY <4>1 DEF CkptInv
      <4>2. CASE c = p.box /\ n = p.highest /\ mGen[p.box] = p.gen
        BY <2>3, <4>2 DEF Placed, Covered
      <4>3. (n = mCkpt[c]) \/ (c = p.box /\ n = p.highest /\ mGen[p.box] = p.gen)
        BY <2>2, <2>3, <3>1 DEF MailTyped
      <4>. QED
        BY <4>1, <4>2, <4>3
    <3>3. n <= Arrivals(c)' /\ RecordedUpTo(c, n)'
      BY <2>2, <3>2, SameUids, RecordedFrame
    <3>. QED
      BY <3>1, <3>3 DEF RecordedUpTo
  <2>6. CkptInv'
    BY <2>5 DEF CkptInv
  <2>. QED
    BY <2>4, <2>6
<1>. QED
  BY <1>3, <1>4, <1>5

LEMMA PollStep ==
  ASSUME Assumptions, MailTyped, PollInv, CkptInv, [Mail!Next]_Mail!vars
  PROVE  PollInv' /\ CkptInv'
<1>1. PICK q : q = mPoll'
  OBVIOUS
<1>2. mPoll \in Polls
  BY DEF MailTyped
<1>3. CASE \/ \E m \in Mails : Mail!HandleMailgun(m) \/ Mail!HandleJSON(m)
           \/ \E m \in Mails, published, heard \in BOOLEAN : Mail!Publish(m, published, heard)
           \/ \E w \in mWindow : Mail!Forget(w)
           \/ UNCHANGED Mail!vars
  <2>1. /\ mUid' = mUid /\ mGen' = mGen /\ mCkpt' = mCkpt /\ mPoll' = mPoll
        /\ mSeen \subseteq mSeen' /\ mFailed \subseteq mFailed'
    BY <1>3 DEF Mail!HandleMailgun, Mail!HandleJSON, Mail!Accept, Mail!Recorded, Mail!Publish,
         Mail!Forget, Mail!vars, Mail!poller, Mail!stream
  <2>2. q.pc \in Busy => Placed(q)
    BY <1>1, <1>2, <2>1 DEF PollInv
  <2>. QED
    BY <1>1, <1>2, <2>1, <2>2, PollStays
<1>4. CASE \E m \in Mails : Mail!Arrive(m)
  BY <1>4, PollArrived
<1>5. CASE \E b \in Mail!Boxes : Mail!Reconnect(b)
  BY <1>5, PollReconnected
<1>6. CASE Mail!FetchSends \/ Mail!FetchFails \/ Mail!ChannelClosed \/ Mail!PublishMail \/ Mail!PublishFails
  <2>1. /\ mUid' = mUid /\ mGen' = mGen /\ mCkpt' = mCkpt /\ mSeen' = mSeen /\ mFailed \subseteq mFailed'
    BY <1>6, FetchSendsFacts, FetchFailsFacts, ChannelClosedFacts, PublishMailFacts
  <2>2. /\ mPoll.pc \in Busy /\ Placed(q) /\ q.box = mPoll.box /\ q.gen = mPoll.gen
        /\ q.since = mPoll.since /\ q.highest = mPoll.highest
    BY <1>1, <1>6, PollSent
  <2>. QED
    BY <1>1, <1>2, <2>1, <2>2, PollStays
<1>7. CASE Mail!Receive \/ Mail!ReceiveFails
  BY <1>7, PollReceived
<1>8. CASE Mail!PollAll \/ Mail!PollOne \/ Mail!RoundDone \/ Mail!DialFails \/ Mail!AdvanceCheckpoint
           \/ Mail!CheckpointFails \/ Mail!Crash
  BY <1>8, PollElse
<1>. QED
  BY <1>3, <1>4, <1>5, <1>6, <1>7, <1>8 DEF Mail!Next, Mail!Step


-----------------------------------------------------------------------------
(***************************************************************************)
(* Mailbox: a mail's row, and what was made of it.                         *)
(***************************************************************************)
\* The ids under which a mail is recorded and published.
Named(m, id) ==
  \/ Mid[m] # None /\ id = Mid[m]
  \/ Mid[m] = None /\ \E k \in Nat : id = <<"mailgun", m, k>>
  \/ Mid[m] = None /\ mUid[m] > 0 /\ id = <<"imap", BoxOf[m], mUid[m]>>

WebInv == \A m \in Mails : /\ mPost[m] = "due" => mUid[m] > 0
                           /\ mPost[m] = "recorded" => mUid[m] > 0 /\ mTries[m] > 0
RowsInv == \A r \in mSeen : \E n \in Mails : Named(n, r.id)
WindowInv == \A w \in mWindow : w.by \in Mails /\ mCopies[w.by] > 0 /\ Named(w.by, w.id)
Once(m) == Mid[m] # None =>
  mCopies[m] + Bit(mPost[m] = "recorded") + Bit(mPoll.mail = m)
    <= mGen[BoxOf[m]] + Bit(RowOf(m) \in mSeen)
Published(m) ==
  mCopies[m] > 0 \/ (m \in mDropped /\ \E n \in Mails : BoxOf[n] # BoxOf[m] /\ Mid[n] = Mid[m])
Standing(m) == m \notin mFailed /\ RowOf(m) \in mSeen /\ mPost[m] # "recorded" /\ mPoll.mail # m
                 => Published(m)
MailInv == WebInv /\ RowsInv /\ WindowInv /\ \A m \in Mails : Once(m) /\ Standing(m)

\* Two mails under one id have the same Message-ID, in two mailboxes.
LEMMA Namesakes ==
  ASSUME Assumptions, MailTyped, NEW m \in Mails, NEW n \in Mails, m # n, NEW id, Named(m, id), Named(n, id)
  PROVE  BoxOf[n] # BoxOf[m] /\ Mid[n] = Mid[m]
<1>1. /\ \A x \in Mails : BoxOf[x] \in Mail!Boxes /\ mUid[x] \in Nat
      /\ \A b \in Mail!Boxes : Numbered(b)
      /\ \A x, y \in Mails : BoxOf[x] = BoxOf[y] /\ Mid[x] = Mid[y] /\ Mid[x] # None => x = y
      /\ \A x \in Mails : Mid[x] \notin ({"imap"} \X Mail!Boxes \X Nat) \cup ({"mailgun"} \X Mails \X Nat)
  BY DEF Assumptions, Mail!BoxAssumption, Mail!MidAssumption, MailTyped
<1>2. ASSUME NEW x \in Mails, NEW k \in Nat PROVE <<"mailgun", x, k>> \in {"mailgun"} \X Mails \X Nat
  OBVIOUS
<1>3. ASSUME NEW x \in Mails PROVE <<"imap", BoxOf[x], mUid[x]>> \in {"imap"} \X Mail!Boxes \X Nat
  BY <1>1
<1>4. ASSUME NEW x \in Mails, NEW y \in Mails, Mid[x] # None, id = Mid[x], Named(y, id)
      PROVE  Mid[y] = Mid[x]
  BY <1>1, <1>2, <1>3, <1>4 DEF Named
<1>5. CASE Mid[m] # None \/ Mid[n] # None
  <2>1. Mid[n] = Mid[m] /\ Mid[n] # None
    BY <1>4, <1>5 DEF Named
  <2>. QED
    BY <1>1, <2>1
<1>6. CASE Mid[m] = None /\ Mid[n] = None
  <2>1. ASSUME NEW x \in Mails, NEW y \in Mails, NEW k \in Nat, id = <<"mailgun", x, k>>, Mid[y] = None, Named(y, id)
        PROVE  x = y
    BY <2>1 DEF Named
  <2>2. CASE /\ mUid[m] > 0 /\ id = <<"imap", BoxOf[m], mUid[m]>>
             /\ mUid[n] > 0 /\ id = <<"imap", BoxOf[n], mUid[n]>>
    <3>1. BoxOf[m] = BoxOf[n] /\ mUid[m] = mUid[n]
      BY <2>2
    <3>2. m \in Mail!Arrived(BoxOf[m]) /\ n \in Mail!Arrived(BoxOf[m])
      BY <2>2, <3>1 DEF Mail!Arrived
    <3>. QED
      BY <1>1, <3>1, <3>2 DEF Numbered
  <2>. QED
    BY <1>6, <2>1, <2>2 DEF Named
<1>. QED
  BY <1>5, <1>6

\* A row is of one mail.
LEMMA RowOwner ==
  ASSUME Assumptions, MailTyped, NEW m \in Mails, NEW n \in Mails, NEW id, Named(n, id),
         RowOf(m) = Mail!Row(BoxOf[n], mGen[BoxOf[n]], id)
  PROVE  m = n
<1>1. BoxOf[m] = BoxOf[n] /\ id = Mail!ImapId(m)
  BY DEF RowOf, Mail!Row
<1>2. mUid[m] \in Nat /\ mUid[n] \in Nat
  BY DEF MailTyped
<1>3. CASE Mid[m] # None \/ mUid[m] > 0
  <2>1. Named(m, id)
    BY <1>1, <1>3 DEF Named, Mail!ImapId
  <2>. QED
    BY <1>1, <2>1, Namesakes
<1>4. CASE Mid[m] = None /\ mUid[m] = 0
  <2>1. id = <<"imap", BoxOf[m], 0>>
    BY <1>1, <1>4 DEF Mail!ImapId
  <2>2. /\ BoxOf[m] \in Mail!Boxes
        /\ Mid[n] \notin ({"imap"} \X Mail!Boxes \X Nat) \cup ({"mailgun"} \X Mails \X Nat)
    BY DEF Assumptions, Mail!BoxAssumption, Mail!MidAssumption
  <2>3. id \in {"imap"} \X Mail!Boxes \X Nat
    BY <2>1, <2>2
  <2>4. \A k : id # <<"mailgun", n, k>>
    BY <2>1
  <2>5. mUid[n] > 0 => id # <<"imap", BoxOf[n], mUid[n]>>
    BY <1>2, <2>1
  <2>. QED
    BY <2>2, <2>3, <2>4, <2>5 DEF Named
<1>. QED
  BY <1>2, <1>3, <1>4

\* Nothing happens to a mail, but that it is given up.
Quiet ==
  /\ UNCHANGED <<mUid, mGen, mSeen, mCopies, mDropped, mPost, mTries>>
  /\ mWindow' \subseteq mWindow /\ mFailed \subseteq mFailed'
  /\ \/ mPoll'.mail = mPoll.mail
     \/ mPoll'.mail = None /\ mPoll.mail \in mFailed' \cup {None}
\* The poller records a mail.
Fetches(m) ==
  /\ mPoll.mail = None /\ mPoll'.mail = m /\ mUid[m] > 0
  /\ RowOf(m) \notin mSeen /\ mSeen' = mSeen \cup {RowOf(m)}
  /\ UNCHANGED <<mUid, mGen, mWindow, mCopies, mDropped, mFailed, mPost, mTries>>
\* The poller publishes a mail.
Posts(m) ==
  /\ mPoll.mail = m /\ mPoll'.mail = None /\ mUid[m] > 0
  /\ Mail!PublishId(m, Mail!ImapId(m))
  /\ UNCHANGED <<mUid, mGen, mSeen, mFailed, mPost, mTries>>

LEMMA MailSteps ==
  ASSUME Assumptions, MailTyped, PollInv, [Mail!Next]_Mail!vars
  PROVE  \/ Quiet
         \/ \E m \in Mails : Fetches(m) \/ Posts(m)
         \/ \E m \in Mails : Mail!Arrive(m) \/ Mail!HandleMailgun(m) \/ Mail!HandleJSON(m)
         \/ \E m \in Mails, published, heard \in BOOLEAN : Mail!Publish(m, published, heard)
         \/ \E b \in Mail!Boxes : Mail!Reconnect(b)
<1>1. PICK p \in Polls : p = mPoll
  BY DEF MailTyped
<1>2. \A step : Mail!NoPoll(step).mail = None
  BY PollFacts
<1>3. mPoll.mail # None <=> mPoll.pc = "publish"
  BY DEF MailTyped
<1>4. CASE \/ Mail!PollAll \/ Mail!PollOne \/ Mail!RoundDone \/ Mail!DialFails \/ Mail!AdvanceCheckpoint
           \/ Mail!CheckpointFails
  <2>1. UNCHANGED <<mUid, mGen, mSeen, mCopies, mDropped, mPost, mTries, mWindow, mFailed>> /\ mPoll.mail = None
    BY <1>3, <1>4 DEF Mail!PollAll, Mail!PollOne, Mail!RoundDone, Mail!DialFails,
         Mail!AdvanceCheckpoint, Mail!CheckpointFails, Mail!stream, Mail!webhook
  <2>2. mPoll'.mail = None
    BY <1>2, <1>4, <2>1 DEF Mail!PollAll, Mail!PollOne, Mail!RoundDone, Mail!DialFails,
         Mail!AdvanceCheckpoint, Mail!CheckpointFails
  <2>. QED
    BY <2>1, <2>2 DEF Quiet
<1>5. CASE Mail!Crash
  <2>1. /\ UNCHANGED <<mUid, mGen, mSeen, mCopies, mDropped, mPost, mTries, mWindow>> /\ mPoll'.mail = None
        /\ mFailed' = mFailed \cup (IF mPoll.pc = "publish" THEN {mPoll.mail} ELSE {})
    BY <1>2, <1>5 DEF Mail!Crash, Mail!stream, Mail!webhook
  <2>. QED
    BY <1>3, <2>1 DEF Quiet
<1>6. CASE (\E w \in mWindow : Mail!Forget(w)) \/ UNCHANGED Mail!vars
  BY <1>6 DEF Mail!Forget, Mail!vars, Mail!webhook, Mail!poller, Quiet
<1>7. CASE Mail!FetchSends \/ Mail!FetchFails \/ Mail!ChannelClosed
  BY <1>7, FetchSendsFacts, FetchFailsFacts, ChannelClosedFacts DEF Quiet
<1>8. CASE Mail!PublishMail \/ Mail!PublishFails
  <2>1. mPoll.pc \in Busy
    BY <1>8, PublishMailFacts DEF Busy
  <2>2. mPoll.mail \in Mails /\ mPoll.mail # None
    BY <1>3, <1>8, PublishMailFacts
  <2>3. mUid[mPoll.mail] > 0
    BY <1>1, <2>1, <2>2 DEF PollInv, Placed
  <2>. QED
    BY <1>8, <2>2, <2>3, PublishMailFacts DEF Quiet, Posts
<1>9. CASE Mail!Receive \/ Mail!ReceiveFails
  <2>1. mPoll.pc = "loop" /\ mPoll.mail = None
    BY <1>3, <1>9 DEF Mail!Receive, Mail!ReceiveFails
  <2>2. CASE Mail!ReceiveFails
    BY <2>1, <2>2, ReceiveFailsFacts DEF Quiet
  <2>3. CASE Mail!Receive
    <3>1. PICK m \in Mails :
            /\ Received(m, mPoll') /\ mGen[mPoll.box] = mPoll.gen
            /\ LET r == Mail!Row(mPoll.box, mPoll.gen, Mail!ImapId(m)) IN
               /\ mSeen' = mSeen \cup {r}
               /\ \/ r \in mSeen /\ mPoll'.mail = None /\ mPoll'.pc \in {"loop", "wait"}
                  \/ r \notin mSeen /\ mPoll'.mail = m /\ mPoll'.pc = "publish"
            /\ UNCHANGED <<mUid, mCkpt, mGen, mWindow, mCopies, mDropped, mFailed, mPost, mTries, mQueue>>
      BY <2>3, ReceiveFacts
    <3>2. PICK q : q = mPoll'
      OBVIOUS
    <3>3. Received(m, q) /\ q.mail \in {None, m} /\ q.box = mPoll.box
      BY <3>1, <3>2 DEF Received, SamePoll
    <3>4. BoxOf[m] = mPoll.box /\ mUid[m] > 0
      BY <3>2, <3>3, PollTaken
    <3>5. Mail!Row(mPoll.box, mPoll.gen, Mail!ImapId(m)) = RowOf(m)
      BY <3>1, <3>4 DEF RowOf
    <3>6. CASE RowOf(m) \in mSeen
      BY <2>1, <3>1, <3>5, <3>6 DEF Quiet
    <3>7. CASE RowOf(m) \notin mSeen
      BY <2>1, <3>1, <3>4, <3>5, <3>7 DEF Fetches
    <3>. QED
      BY <3>6, <3>7
  <2>. QED
    BY <1>9, <2>2, <2>3
<1>. QED
  BY <1>4, <1>5, <1>6, <1>7, <1>8, <1>9 DEF Mail!Next, Mail!Step


LEMMA NamesFrame ==
  ASSUME mUid' = mUid
  PROVE  \A m, id : Named(m, id)' = Named(m, id)
BY DEF Named

LEMMA RowFrame ==
  ASSUME mUid' = mUid, mGen' = mGen
  PROVE  \A m : RowOf(m)' = RowOf(m)
BY DEF RowOf, Mail!Row, Mail!ImapId

LEMMA MailQuiet ==
  ASSUME Assumptions, MailTyped, MailInv, Quiet
  PROVE  MailInv'
<1>1. /\ \A m, id : Named(m, id)' = Named(m, id)
      /\ \A m : RowOf(m)' = RowOf(m)
  BY NamesFrame, RowFrame DEF Quiet
<1>2. \A m \in Mails : mCopies[m] \in Nat /\ mGen[BoxOf[m]] \in Nat /\ m # None
  BY DEF MailTyped, Assumptions, Mail!BoxAssumption, Mail!MidAssumption
<1>3. ASSUME NEW m \in Mails PROVE Once(m)'
  <2>1. Once(m) /\ (mPoll'.mail = m => mPoll.mail = m)
    BY <1>2 DEF MailInv, Quiet
  <2>. QED
    BY <1>1, <1>2, <2>1 DEF Quiet, Once, Bit
<1>4. ASSUME NEW m \in Mails PROVE Standing(m)'
  <2>1. Standing(m)
    BY DEF MailInv
  <2>2. Published(m)' = Published(m)
    BY DEF Published, Quiet
  <2>. QED
    BY <1>1, <2>1, <2>2 DEF Quiet, Standing
<1>5. WebInv' /\ RowsInv' /\ WindowInv'
  BY <1>1 DEF MailInv, Quiet, WebInv, RowsInv, WindowInv
<1>. QED
  BY <1>3, <1>4, <1>5 DEF MailInv


LEMMA MailPublished ==
  ASSUME Assumptions, MailTyped, WindowInv, NEW m \in Mails, NEW id, Named(m, id),
         Mail!PublishId(m, id), mUid' = mUid
  PROVE  /\ WindowInv' /\ Published(m)' /\ \A x \in Mails : Published(x) => Published(x)'
         /\ \A x \in Mails : mCopies'[x] \in Nat /\ mCopies'[x] <= mCopies[x] + Bit(x = m)
<1>1. /\ mCopies' \in [Mails -> Nat] /\ mCopies'[m] <= mCopies[m] + 1
      /\ \A n \in Mails : n # m => mCopies'[n] = mCopies[n]
      /\ \A n \in Mails : mCopies[n] <= mCopies'[n]
      /\ mDropped \subseteq mDropped'
      /\ \A w \in mWindow' : \/ w \in mWindow
                             \/ w = [id |-> id, by |-> m] /\ mCopies'[m] > 0
      /\ \/ mCopies'[m] > 0
         \/ \E w \in mWindow : w.id = id /\ w.by = m
         \/ m \in mDropped' /\ \E w \in mWindow : w.id = id /\ w.by # m
  BY PublishIdFacts
<1>2. /\ \A x, i : Named(x, i)' = Named(x, i)
      /\ mCopies \in [Mails -> Nat]
  BY NamesFrame DEF MailTyped
<1>3. WindowInv'
  <2>. SUFFICES ASSUME NEW w \in mWindow' PROVE w.by \in Mails /\ mCopies'[w.by] > 0 /\ Named(w.by, w.id)
    BY <1>2 DEF WindowInv
  <2>1. CASE w \in mWindow
    <3>1. w.by \in Mails /\ mCopies[w.by] > 0 /\ Named(w.by, w.id)
      BY <2>1 DEF WindowInv
    <3>2. mCopies[w.by] \in Nat /\ mCopies'[w.by] \in Nat /\ mCopies[w.by] <= mCopies'[w.by]
      BY <1>1, <1>2, <3>1
    <3>. QED
      BY <3>1, <3>2
  <2>2. CASE w = [id |-> id, by |-> m] /\ mCopies'[m] > 0
    BY <2>2
  <2>. QED
    BY <1>1, <2>1, <2>2
<1>4. Published(m)'
  <2>1. CASE \E w \in mWindow : w.id = id /\ w.by = m
    BY <1>1, <1>2, <2>1 DEF WindowInv, Published
  <2>2. CASE m \in mDropped' /\ \E w \in mWindow : w.id = id /\ w.by # m
    <3>1. PICK w \in mWindow : w.id = id /\ w.by # m
      BY <2>2
    <3>2. w.by \in Mails /\ Named(w.by, id)
      BY <3>1 DEF WindowInv
    <3>3. BoxOf[w.by] # BoxOf[m] /\ Mid[w.by] = Mid[m]
      BY <3>1, <3>2, Namesakes
    <3>. QED
      BY <2>2, <3>2, <3>3 DEF Published
  <2>. QED
    BY <1>1, <2>1, <2>2 DEF Published
<1>5. ASSUME NEW x \in Mails, Published(x) PROVE Published(x)'
  <2>1. mCopies[x] > 0 => mCopies'[x] > 0
    BY <1>1, <1>2
  <2>. QED
    BY <1>1, <1>5, <2>1 DEF Published
<1>6. ASSUME NEW x \in Mails PROVE mCopies'[x] \in Nat /\ mCopies'[x] <= mCopies[x] + Bit(x = m)
  BY <1>1, <1>2 DEF Bit
<1>. QED
  BY <1>3, <1>4, <1>5, <1>6

LEMMA MailTypes ==
  ASSUME Assumptions, MailTyped
  PROVE  \A m \in Mails : /\ mCopies[m] \in Nat /\ mGen[BoxOf[m]] \in Nat /\ m # None
                          /\ mUid[m] \in Nat /\ mTries[m] \in Nat /\ BoxOf[m] \in Mail!Boxes
BY DEF MailTyped, Assumptions, Mail!BoxAssumption, Mail!MidAssumption

LEMMA MailPosts ==
  ASSUME Assumptions, MailTyped, MailInv, NEW m \in Mails, Posts(m)
  PROVE  MailInv'
<1>1. /\ mPoll.mail = m /\ mPoll'.mail = None /\ mUid[m] > 0
      /\ UNCHANGED <<mUid, mGen, mSeen, mFailed, mPost, mTries>>
  BY DEF Posts
<1>2. Named(m, Mail!ImapId(m))
  BY <1>1 DEF Named, Mail!ImapId
<1>3. /\ WindowInv' /\ Published(m)' /\ \A x \in Mails : Published(x) => Published(x)'
      /\ \A x \in Mails : mCopies'[x] \in Nat /\ mCopies'[x] <= mCopies[x] + Bit(x = m)
  BY <1>1, <1>2, MailPublished DEF Posts, MailInv
<1>4. /\ \A x, id : Named(x, id)' = Named(x, id)
      /\ \A x : RowOf(x)' = RowOf(x)
  BY <1>1, NamesFrame, RowFrame
<1>5. ASSUME NEW x \in Mails PROVE Once(x)'
  <2>1. Once(x) /\ mCopies[x] \in Nat /\ mGen[BoxOf[x]] \in Nat /\ x # None
    BY MailTypes DEF MailInv
  <2>2. mCopies'[x] \in Nat /\ mCopies'[x] <= mCopies[x] + Bit(x = m)
    BY <1>3
  <2>. QED
    BY <1>1, <1>4, <2>1, <2>2 DEF Once, Bit
<1>6. ASSUME NEW x \in Mails PROVE Standing(x)'
  <2>1. Standing(x)
    BY DEF MailInv
  <2>. QED
    BY <1>1, <1>3, <1>4, <2>1 DEF Standing
<1>7. WebInv' /\ RowsInv'
  BY <1>1, <1>4 DEF MailInv, WebInv, RowsInv
<1>. QED
  BY <1>3, <1>5, <1>6, <1>7 DEF MailInv

LEMMA MailFetches ==
  ASSUME Assumptions, MailTyped, MailInv, NEW m \in Mails, Fetches(m)
  PROVE  MailInv'
<1>1. /\ mPoll.mail = None /\ mPoll'.mail = m /\ mUid[m] > 0
      /\ RowOf(m) \notin mSeen /\ mSeen' = mSeen \cup {RowOf(m)}
      /\ UNCHANGED <<mUid, mGen, mWindow, mCopies, mDropped, mFailed, mPost, mTries>>
  BY DEF Fetches
<1>2. /\ \A x, id : Named(x, id)' = Named(x, id)
      /\ \A x : RowOf(x)' = RowOf(x)
  BY <1>1, NamesFrame, RowFrame
<1>3. Named(m, Mail!ImapId(m))
  BY <1>1 DEF Named, Mail!ImapId
<1>4. ASSUME NEW x \in Mails, RowOf(x) \in mSeen', x # m PROVE RowOf(x) \in mSeen
  BY <1>1, <1>3, <1>4, RowOwner DEF RowOf
<1>5. ASSUME NEW x \in Mails PROVE Once(x)'
  <2>1. Once(x) /\ mCopies[x] \in Nat /\ mGen[BoxOf[x]] \in Nat /\ x # None
    BY MailTypes DEF MailInv
  <2>. QED
    BY <1>1, <1>2, <2>1 DEF Once, Bit
<1>6. ASSUME NEW x \in Mails PROVE Standing(x)'
  <2>1. Standing(x) /\ x # None
    BY MailTypes DEF MailInv
  <2>2. Published(x)' = Published(x)
    BY <1>1 DEF Published
  <2>. QED
    BY <1>1, <1>2, <1>4, <2>1, <2>2 DEF Standing
<1>7. RowsInv'
  <2>1. RowOf(m).id = Mail!ImapId(m)
    BY DEF RowOf, Mail!Row
  <2>. QED
    BY <1>1, <1>2, <1>3, <2>1 DEF MailInv, RowsInv
<1>8. WebInv' /\ WindowInv'
  BY <1>1, <1>2 DEF MailInv, WebInv, WindowInv
<1>. QED
  BY <1>5, <1>6, <1>7, <1>8 DEF MailInv


LEMMA MailAccepted ==
  ASSUME Assumptions, MailTyped, MailInv, NEW m \in Mails, NEW id, Named(m, id), Mail!Accept(m, id)
  PROVE  MailInv'
<1>. DEFINE r == Mail!Row(BoxOf[m], mGen[BoxOf[m]], id)
<1>1. /\ mPost[m] = "due" /\ mSeen' = mSeen \cup {r}
      /\ mPost' = [mPost EXCEPT ![m] = IF r \in mSeen THEN "done" ELSE "recorded"]
      /\ mTries' = [mTries EXCEPT ![m] = @ + 1]
      /\ UNCHANGED <<mUid, mGen, mWindow, mCopies, mDropped, mFailed, mPoll>>
  BY DEF Mail!Accept, Mail!Recorded, Mail!stream, Mail!poller
<1>2. /\ \A x, i : Named(x, i)' = Named(x, i)
      /\ \A x : RowOf(x)' = RowOf(x)
  BY <1>1, NamesFrame, RowFrame
<1>3. mPost \in [Mails -> {"none", "due", "recorded", "done"}] /\ mTries \in [Mails -> Nat]
  BY DEF MailTyped
<1>4. /\ mPost'[m] = IF r \in mSeen THEN "done" ELSE "recorded"
      /\ mTries'[m] = mTries[m] + 1 /\ mTries[m] \in Nat
      /\ \A x \in Mails : x # m => mPost'[x] = mPost[x] /\ mTries'[x] = mTries[x]
  BY <1>1, <1>3
<1>5. ASSUME NEW x \in Mails, x # m, RowOf(x) \in mSeen' PROVE RowOf(x) \in mSeen
  BY <1>1, <1>5, RowOwner
<1>6. Mid[m] # None => r = RowOf(m)
  BY DEF Named, RowOf, Mail!ImapId
<1>7. r.id = id
  BY DEF Mail!Row
<1>. HIDE DEF r
<1>8. ASSUME NEW x \in Mails PROVE Once(x)'
  <2>1. Once(x) /\ mCopies[x] \in Nat /\ mGen[BoxOf[x]] \in Nat
    BY MailTypes DEF MailInv
  <2>2. CASE x = m
    <3>1. RowOf(m) \in mSeen => RowOf(m) \in mSeen'
      BY <1>1
    <3>2. Mid[m] # None /\ r \notin mSeen => RowOf(m) \notin mSeen /\ RowOf(m) \in mSeen'
      BY <1>1, <1>6
    <3>3. CASE r \in mSeen
      BY <1>1, <1>2, <1>4, <2>1, <2>2, <3>1, <3>3 DEF Once, Bit
    <3>4. CASE r \notin mSeen
      BY <1>1, <1>2, <1>4, <2>1, <2>2, <3>2, <3>4 DEF Once, Bit
    <3>. QED
      BY <3>3, <3>4
  <2>3. CASE x # m
    <3>1. RowOf(x) \in mSeen => RowOf(x) \in mSeen'
      BY <1>1
    <3>. QED
      BY <1>1, <1>2, <1>4, <2>1, <2>3, <3>1 DEF Once, Bit
  <2>. QED
    BY <2>2, <2>3
<1>9. ASSUME NEW x \in Mails PROVE Standing(x)'
  <2>1. Standing(x)
    BY DEF MailInv
  <2>2. Published(x)' = Published(x)
    BY <1>1 DEF Published
  <2>3. CASE x = m
    <3>. SUFFICES ASSUME m \notin mFailed, RowOf(m) \in mSeen', mPost'[m] # "recorded", mPoll.mail # m
                  PROVE  Published(m)
      BY <1>1, <1>2, <2>2, <2>3 DEF Standing
    <3>1. RowOf(m) \in mSeen
      BY <1>1, <1>4
    <3>. QED
      BY <1>1, <2>1, <2>3, <3>1 DEF Standing
  <2>4. CASE x # m
    BY <1>1, <1>2, <1>4, <1>5, <2>1, <2>2, <2>4 DEF Standing
  <2>. QED
    BY <2>3, <2>4
<1>10. RowsInv'
  BY <1>1, <1>2, <1>7 DEF MailInv, RowsInv
<1>11. WebInv'
  <2>1. ASSUME NEW x \in Mails
        PROVE  /\ mPost'[x] = "due" => mUid[x] > 0
               /\ mPost'[x] = "recorded" => mUid[x] > 0 /\ mTries'[x] > 0
    BY <1>1, <1>4 DEF MailInv, WebInv
  <2>. QED
    BY <1>1, <2>1 DEF WebInv
<1>12. WindowInv'
  BY <1>1, <1>2 DEF MailInv, WindowInv
<1>. QED
  BY <1>8, <1>9, <1>10, <1>11, <1>12 DEF MailInv

LEMMA MailHandled ==
  ASSUME Assumptions, MailTyped, MailInv, NEW m \in Mails, Mail!HandleMailgun(m) \/ Mail!HandleJSON(m)
  PROVE  MailInv'
<1>1. CASE Mail!HandleMailgun(m)
  <2>1. Named(m, Mail!MailgunId(m))
    BY MailTypes DEF Named, Mail!MailgunId
  <2>. QED
    BY <1>1, <2>1, MailAccepted DEF Mail!HandleMailgun
<1>2. CASE Mail!HandleJSON(m)
  <2>1. Named(m, Mid[m]) /\ Mail!Accept(m, Mid[m])
    BY <1>2 DEF Named, Mail!HandleJSON
  <2>. QED
    BY <2>1, MailAccepted
<1>. QED
  BY <1>1, <1>2

LEMMA MailSent ==
  ASSUME Assumptions, MailTyped, MailInv, NEW m \in Mails, NEW published \in BOOLEAN,
         NEW heard \in BOOLEAN, Mail!Publish(m, published, heard)
  PROVE  MailInv'
<1>. DEFINE id == IF Mid[m] # None THEN Mid[m] ELSE <<"mailgun", m, mTries[m] - 1>>
<1>1. /\ mPost[m] = "recorded" /\ UNCHANGED <<mUid, mGen, mSeen, mTries, mPoll>>
      /\ mPost' = [mPost EXCEPT ![m] = IF published /\ heard THEN "done" ELSE "due"]
      /\ \/ published /\ Mail!PublishId(m, id) /\ mFailed' = mFailed
         \/ ~published /\ mFailed' = mFailed \cup {m} /\ UNCHANGED <<mWindow, mCopies, mDropped>>
  BY DEF Mail!Publish, Mail!stream, Mail!poller
<1>2. /\ \A x, i : Named(x, i)' = Named(x, i)
      /\ \A x : RowOf(x)' = RowOf(x)
  BY <1>1, NamesFrame, RowFrame
<1>3. mUid[m] > 0 /\ mTries[m] > 0 /\ mTries[m] \in Nat
  BY <1>1, MailTypes DEF MailInv, WebInv
<1>4. Named(m, id)
  <2>1. mTries[m] - 1 \in Nat
    BY <1>3
  <2>. QED
    BY <2>1 DEF Named
<1>. HIDE DEF id
<1>5. /\ WindowInv' /\ (m \in mFailed' \/ Published(m)')
      /\ \A x \in Mails : Published(x) => Published(x)'
      /\ \A x \in Mails : mCopies'[x] \in Nat /\ mCopies'[x] <= mCopies[x] + Bit(x = m)
  <2>1. CASE Mail!PublishId(m, id)
    BY <1>1, <1>4, <2>1, MailPublished DEF MailInv
  <2>2. CASE mFailed' = mFailed \cup {m} /\ UNCHANGED <<mWindow, mCopies, mDropped>>
    <3>1. WindowInv'
      BY <1>2, <2>2 DEF MailInv, WindowInv
    <3>2. \A x \in Mails : Published(x) => Published(x)'
      BY <2>2 DEF Published
    <3>3. \A x \in Mails : mCopies'[x] \in Nat /\ mCopies'[x] <= mCopies[x] + Bit(x = m)
      BY <2>2, MailTypes DEF Bit
    <3>. QED
      BY <2>2, <3>1, <3>2, <3>3
  <2>. QED
    BY <1>1, <2>1, <2>2
<1>6. /\ mPost'[m] \in {"done", "due"} /\ \A x \in Mails : x # m => mPost'[x] = mPost[x]
  BY <1>1 DEF MailTyped
<1>7. mFailed \subseteq mFailed'
  BY <1>1
<1>8. ASSUME NEW x \in Mails PROVE Once(x)'
  <2>1. Once(x) /\ mCopies[x] \in Nat /\ mGen[BoxOf[x]] \in Nat
    BY MailTypes DEF MailInv
  <2>2. mCopies'[x] \in Nat /\ mCopies'[x] <= mCopies[x] + Bit(x = m)
    BY <1>5
  <2>. QED
    BY <1>1, <1>2, <1>6, <2>1, <2>2 DEF Once, Bit
<1>9. ASSUME NEW x \in Mails PROVE Standing(x)'
  <2>1. Standing(x)
    BY DEF MailInv
  <2>. QED
    BY <1>1, <1>2, <1>5, <1>6, <1>7, <2>1 DEF Standing
<1>10. RowsInv'
  BY <1>1, <1>2 DEF MailInv, RowsInv
<1>11. WebInv'
  BY <1>1, <1>3, <1>6 DEF MailInv, WebInv
<1>. QED
  BY <1>5, <1>8, <1>9, <1>10, <1>11 DEF MailInv

LEMMA MailArrived ==
  ASSUME Assumptions, MailTyped, MailInv, NEW m \in Mails, Mail!Arrive(m)
  PROVE  MailInv'
<1>1. /\ UNCHANGED <<mGen, mSeen, mWindow, mCopies, mDropped, mFailed, mTries, mPoll>>
      /\ mPost' = [mPost EXCEPT ![m] = IF m \in Posted THEN "due" ELSE "none"]
  BY DEF Mail!Arrive, Mail!stream, Mail!poller
<1>2. /\ mUid[m] = 0 /\ mUid'[m] = Arrivals(BoxOf[m]) + 1 /\ Arrivals(BoxOf[m]) \in Nat
      /\ \A n \in Mails : n # m => mUid'[n] = mUid[n]
  BY ArriveFacts
<1>3. \A n \in Mails : \A id : Named(n, id) => Named(n, id)'
  <2>1. ASSUME NEW n \in Mails, NEW id, Named(n, id) PROVE Named(n, id)'
    <3>1. CASE n = m
      BY <1>2, <2>1, <3>1 DEF Named
    <3>2. CASE n # m
      BY <1>2, <2>1, <3>2 DEF Named
    <3>. QED
      BY <3>1, <3>2
  <2>. QED
    BY <2>1
<1>4. mPost'[m] \in {"due", "none"} /\ \A x \in Mails : x # m => mPost'[x] = mPost[x]
  BY <1>1 DEF MailTyped
<1>5. mPost[m] # "recorded" /\ mPost[m] # "due"
  BY <1>2 DEF MailInv, WebInv
\* The row of m is still the one of its Message-ID, or new.
<1>6. ASSUME NEW x \in Mails, x # m \/ Mid[m] # None PROVE RowOf(x)' = RowOf(x)
  BY <1>1, <1>2, <1>6 DEF RowOf, Mail!Row, Mail!ImapId
<1>7. Mid[m] = None => RowOf(m)' \notin mSeen
  <2>. SUFFICES ASSUME Mid[m] = None, RowOf(m)' \in mSeen PROVE FALSE
    OBVIOUS
  <2>1. PICK k \in Nat : k = mUid'[m] /\ k = Arrivals(BoxOf[m]) + 1
    BY <1>2
  <2>2. RowOf(m)'.id = <<"imap", BoxOf[m], k>>
    BY <2>1 DEF RowOf, Mail!Row, Mail!ImapId
  <2>3. PICK n \in Mails : Named(n, <<"imap", BoxOf[m], k>>)
    BY <2>2 DEF MailInv, RowsInv
  <2>4. /\ BoxOf[m] \in Mail!Boxes
        /\ Mid[n] \notin ({"imap"} \X Mail!Boxes \X Nat) \cup ({"mailgun"} \X Mails \X Nat)
    BY DEF Assumptions, Mail!BoxAssumption, Mail!MidAssumption
  <2>5. <<"imap", BoxOf[m], k>> \in {"imap"} \X Mail!Boxes \X Nat
    BY <2>4
  <2>6. mUid[n] > 0 /\ <<"imap", BoxOf[m], k>> = <<"imap", BoxOf[n], mUid[n]>>
    BY <2>3, <2>4, <2>5 DEF Named
  <2>7. BoxOf[n] = BoxOf[m] /\ mUid[n] = k
    BY <2>6
  <2>8. n \in Mail!Arrived(BoxOf[m])
    BY <2>6, <2>7 DEF Mail!Arrived
  <2>9. mUid[n] <= Arrivals(BoxOf[m])
    BY <2>4, <2>8 DEF MailTyped, Numbered
  <2>. QED
    BY <1>2, <2>1, <2>7, <2>9
<1>8. ASSUME NEW x \in Mails PROVE Once(x)'
  <2>1. Once(x) /\ mCopies[x] \in Nat /\ mGen[BoxOf[x]] \in Nat
    BY MailTypes DEF MailInv
  <2>2. Mid[x] # None => RowOf(x)' = RowOf(x)
    BY <1>6
  <2>3. mPost'[x] = "recorded" => mPost[x] = "recorded"
    BY <1>4
  <2>. QED
    BY <1>1, <2>1, <2>2, <2>3 DEF Once, Bit
<1>9. ASSUME NEW x \in Mails PROVE Standing(x)'
  <2>1. Standing(x) /\ Published(x)' = Published(x)
    BY <1>1 DEF MailInv, Published
  <2>2. CASE x = m /\ Mid[m] = None
    BY <1>1, <1>7, <2>2 DEF Standing
  <2>3. CASE x # m \/ Mid[m] # None
    <3>1. mPost'[x] # "recorded" => mPost[x] # "recorded"
      BY <1>4, <1>5
    <3>. QED
      BY <1>1, <1>6, <2>1, <2>3, <3>1 DEF Standing
  <2>. QED
    BY <2>2, <2>3
<1>10. RowsInv' /\ WindowInv'
  BY <1>1, <1>3 DEF MailInv, RowsInv, WindowInv
<1>11. WebInv'
  <2>1. ASSUME NEW x \in Mails
        PROVE  /\ mPost'[x] = "due" => mUid'[x] > 0
               /\ mPost'[x] = "recorded" => mUid'[x] > 0 /\ mTries[x] > 0
    <3>1. CASE x = m
      BY <1>2, <1>4, <3>1
    <3>2. CASE x # m
      BY <1>2, <1>4, <3>2 DEF MailInv, WebInv
    <3>. QED
      BY <3>1, <3>2
  <2>. QED
    BY <1>1, <2>1 DEF WebInv
<1>. QED
  BY <1>8, <1>9, <1>10, <1>11 DEF MailInv


LEMMA MailReconnected ==
  ASSUME Assumptions, MailTyped, MailInv, NEW b \in Mail!Boxes, Mail!Reconnect(b)
  PROVE  MailInv'
<1>1. /\ UNCHANGED <<mUid, mWindow, mCopies, mDropped, mFailed, mPost, mTries, mPoll>>
      /\ mSeen' = {r \in mSeen : r.box # b} /\ mGen' = [mGen EXCEPT ![b] = @ + 1]
  BY DEF Mail!Reconnect, Mail!stream, Mail!webhook, Mail!poller
<1>2. /\ mGen'[b] = mGen[b] + 1 /\ mGen[b] \in Nat
      /\ \A c \in Mail!Boxes : c # b => mGen'[c] = mGen[c]
  BY <1>1 DEF MailTyped
<1>3. \A x, i : Named(x, i)' = Named(x, i)
  BY <1>1, NamesFrame
<1>4. ASSUME NEW x \in Mails, BoxOf[x] = b PROVE RowOf(x)' \notin mSeen'
  BY <1>1, <1>4 DEF RowOf, Mail!Row
<1>5. ASSUME NEW x \in Mails, BoxOf[x] # b PROVE RowOf(x)' = RowOf(x) /\ (RowOf(x) \in mSeen' <=> RowOf(x) \in mSeen)
  BY <1>1, <1>2, <1>5, MailTypes DEF RowOf, Mail!Row, Mail!ImapId
<1>6. ASSUME NEW x \in Mails PROVE Once(x)'
  <2>1. Once(x) /\ mCopies[x] \in Nat /\ mGen[BoxOf[x]] \in Nat /\ BoxOf[x] \in Mail!Boxes
    BY MailTypes DEF MailInv
  <2>2. CASE BoxOf[x] = b
    BY <1>1, <1>2, <1>4, <2>1, <2>2 DEF Once, Bit
  <2>3. CASE BoxOf[x] # b
    BY <1>1, <1>2, <1>5, <2>1, <2>3 DEF Once, Bit
  <2>. QED
    BY <2>2, <2>3
<1>7. ASSUME NEW x \in Mails PROVE Standing(x)'
  <2>1. Standing(x) /\ Published(x)' = Published(x)
    BY <1>1 DEF MailInv, Published
  <2>. QED
    BY <1>1, <1>4, <1>5, <2>1 DEF Standing
<1>8. WebInv' /\ RowsInv' /\ WindowInv'
  BY <1>1, <1>3 DEF MailInv, WebInv, RowsInv, WindowInv
<1>. QED
  BY <1>6, <1>7, <1>8 DEF MailInv

LEMMA MailStep ==
  ASSUME Assumptions, MailTyped, PollInv, MailInv, [Mail!Next]_Mail!vars
  PROVE  MailInv'
BY MailSteps, MailQuiet, MailFetches, MailPosts, MailArrived, MailHandled, MailSent, MailReconnected

LEMMA MailStarts ==
  ASSUME Assumptions, Mail!Init
  PROVE  PollInv /\ CkptInv /\ MailInv
<1>1. /\ mPoll = Mail!NoPoll("idle") /\ mUid = [m \in Mails |-> 0] /\ mCkpt = [b \in Mail!Boxes |-> 0]
      /\ mGen = [b \in Mail!Boxes |-> 0] /\ mSeen = {} /\ mWindow = {}
      /\ mCopies = [m \in Mails |-> 0] /\ mPost = [m \in Mails |-> "none"]
  BY DEF Mail!Init
<1>2. MailTyped
  BY MailInit
<1>3. mPoll.pc = "idle" /\ mPoll.mail = None
  BY <1>1, <1>2, PollFacts
<1>4. PollInv
  BY <1>3 DEF PollInv, Busy
<1>5. CkptInv
  BY <1>1, <1>2, ArrivedFacts DEF CkptInv, RecordedUpTo
<1>6. \A m \in Mails : Once(m) /\ Standing(m)
  BY <1>1, <1>2, <1>3, MailTypes DEF Once, Bit, Standing
<1>7. WebInv /\ RowsInv /\ WindowInv
  BY <1>1 DEF WebInv, RowsInv, WindowInv
<1>. QED
  BY <1>4, <1>5, <1>6, <1>7 DEF MailInv

(***************************************************************************)
(* Whatever the webhook and the poller do, for any mails, mailboxes and    *)
(* bounds, and with any number of errors, crashes and mailboxes connected  *)
(* again, a mail with a Message-ID is ingested once per connection, and    *)
(* no mail is passed over.                                                 *)
(***************************************************************************)
THEOREM MailsAccounted ==
  ASSUME IsFiniteSet(Mails), Mail!BoxAssumption, Mail!MidAssumption
  PROVE  Mail!Spec => []MailAccountedFor
<1>. DEFINE IInv == MailTyped /\ PollInv /\ CkptInv /\ MailInv
<1>0. Assumptions
  BY DEF Assumptions
<1>1. Mail!Init => IInv
  BY <1>0, MailInit, MailStarts
<1>2. IInv /\ [Mail!Next]_Mail!vars => IInv'
  BY <1>0, MailTypedStep, PollStep, MailStep
<1>3. IInv => MailAccountedFor
  <2>. SUFFICES ASSUME MailTyped, PollInv, CkptInv, MailInv
                PROVE  Mail!IngestedOnce /\ Mail!NothingSkipped
    BY DEF MailAccountedFor, Mail!MailAccountedFor
  <2>1. Mail!IngestedOnce
    <3>. SUFFICES ASSUME NEW m \in Mails, Mid[m] # None PROVE mCopies[m] <= 1 + mGen[BoxOf[m]]
      BY DEF Mail!IngestedOnce
    <3>1. Once(m) /\ mCopies[m] \in Nat /\ mGen[BoxOf[m]] \in Nat
      BY <1>0, MailTypes DEF MailInv
    <3>. QED
      BY <3>1 DEF Once, Bit
  <2>2. ASSUME NEW m \in Mails \ mFailed
        PROVE  /\ mUid[m] \in 1..mCkpt[BoxOf[m]] => RowOf(m) \in mSeen
               /\ RowOf(m) \in mSeen /\ mPost[m] # "recorded" /\ mPoll.mail # m => Published(m)
    <3>1. BoxOf[m] \in Mail!Boxes
      BY <1>0, MailTypes
    <3>. QED
      BY <3>1 DEF CkptInv, RecordedUpTo, MailInv, Standing
  <2>. QED
    BY <2>1, <2>2 DEF Mail!NothingSkipped, RowOf, Published
<1>. QED
  BY <1>1, <1>2, <1>3, PTL DEF Mail!Spec


-----------------------------------------------------------------------------
(***************************************************************************)
(* The bounds of the types.  Webhooks: a call of FanOut is below MaxCalls, *)
(* a pull below Prefetch, a fault below MaxFaults.                         *)
(***************************************************************************)
Fates == {"delivered", "permanent", "exhausted", "disabled", "lost"}

HookBounds ==
  /\ hCalls \in [DomainEvents -> 0..MaxCalls]
  /\ \A w \in HookWorkers : Len(hInbox[w]) <= Prefetch
  /\ hFate \in [Hooks!Pairs -> SUBSET Fates]
  /\ hForgotten \subseteq Hooks!Pairs
  /\ hFaults \in 0..MaxFaults

LEMMA FateFacts ==
  ASSUME hFate \in [Hooks!Pairs -> SUBSET Fates]
  PROVE  /\ \A S : Hooks!Lost(S) => hFate' \in [Hooks!Pairs -> SUBSET Fates]
         /\ \A j \in Hooks!Jobs, how \in Fates : Hooks!Ends(j, how) => hFate' \in [Hooks!Pairs -> SUBSET Fates]
<1>1. ASSUME NEW S, Hooks!Lost(S) PROVE hFate' \in [Hooks!Pairs -> SUBSET Fates]
  <2>1. \A p \in Hooks!Pairs : hFate[p] \cup {"lost"} \in SUBSET Fates
    BY DEF Fates
  <2>. QED
    BY <1>1, <2>1 DEF Hooks!Lost
<1>2. ASSUME NEW j \in Hooks!Jobs, NEW how \in Fates, Hooks!Ends(j, how)
      PROVE  hFate' \in [Hooks!Pairs -> SUBSET Fates]
  <2>1. Hooks!Pair(j) \in Hooks!Pairs
    BY JobFacts
  <2>2. hFate[Hooks!Pair(j)] \cup {how} \in SUBSET Fates
    BY <2>1
  <2>. QED
    BY <1>2, <2>1, <2>2 DEF Hooks!Ends
<1>. QED
  BY <1>1, <1>2

LEMMA FaultCounts ==
  ASSUME Hooks!BoundAssumption, hFaults \in 0..MaxFaults, Hooks!Fault
  PROVE  hFaults' \in 0..MaxFaults
BY DEF Hooks!BoundAssumption, Hooks!Fault

\* What an inbox becomes: nothing, its tail, or one job more if there is room.
LEMMA InboxBounds ==
  ASSUME Hooks!BoundAssumption, HookTyped, HookBounds, NEW w \in HookWorkers
  PROVE  /\ Hooks!Finish(w) /\ hInbox[w] # <<>> => \A v \in HookWorkers : Len(hInbox'[v]) <= Prefetch
         /\ \A j \in hQueue : Hooks!Pull(w, j) => \A v \in HookWorkers : Len(hInbox'[v]) <= Prefetch
         /\ Hooks!Crash(w) => \A v \in HookWorkers : Len(hInbox'[v]) <= Prefetch
<1>1. /\ hInbox \in [HookWorkers -> Seq(Hooks!Jobs)] /\ \A v \in HookWorkers : Len(hInbox[v]) \in Nat
      /\ Prefetch \in Nat
  BY LenProperties DEF HookTyped, Hooks!BoundAssumption
<1>2. ASSUME Hooks!Finish(w), hInbox[w] # <<>>, NEW v \in HookWorkers PROVE Len(hInbox'[v]) <= Prefetch
  <2>1. hInbox' = [hInbox EXCEPT ![w] = Tail(hInbox[w])]
    BY <1>2 DEF Hooks!Finish
  <2>2. Len(Tail(hInbox[w])) = Len(hInbox[w]) - 1
    BY <1>1, <1>2, HeadTailProperties
  <2>. QED
    BY <1>1, <2>1, <2>2 DEF HookBounds
<1>3. ASSUME NEW j \in hQueue, Hooks!Pull(w, j), NEW v \in HookWorkers PROVE Len(hInbox'[v]) <= Prefetch
  <2>1. hInbox' = [hInbox EXCEPT ![w] = Append(hInbox[w], j)] /\ Len(hInbox[w]) < Prefetch
    BY <1>3 DEF Hooks!Pull
  <2>2. Len(Append(hInbox[w], j)) = Len(hInbox[w]) + 1
    BY <1>1, AppendProperties DEF HookTyped
  <2>. QED
    BY <1>1, <2>1, <2>2 DEF HookBounds
<1>4. ASSUME Hooks!Crash(w), NEW v \in HookWorkers PROVE Len(hInbox'[v]) <= Prefetch
  <2>1. hInbox' = [hInbox EXCEPT ![w] = <<>>] /\ Len(<<>>) = 0
    BY <1>4 DEF Hooks!Crash
  <2>. QED
    BY <1>1, <2>1 DEF HookBounds
<1>. QED
  BY <1>2, <1>3, <1>4

LEMMA HookBoundsStep ==
  ASSUME Hooks!BoundAssumption, HookTyped, HookBounds, [Hooks!Next]_Hooks!vars
  PROVE  HookBounds'
<1>1. ASSUME NEW e \in DomainEvents, Hooks!FanOut(e) PROVE HookBounds'
  <2>1. hCalls' \in [DomainEvents -> 0..MaxCalls]
    BY <1>1 DEF Hooks!FanOut, HookBounds, Hooks!BoundAssumption
  <2>. QED
    BY <1>1, <2>1 DEF Hooks!FanOut, HookBounds, Hooks!history
<1>2. ASSUME NEW e \in DomainEvents, NEW s \in Subs, Hooks!Queue(e, s) PROVE HookBounds'
  BY <1>2 DEF Hooks!Queue, HookBounds, Hooks!history
<1>3. ASSUME NEW e \in DomainEvents, NEW s \in Subs, Hooks!QueueFails(e, s) PROVE HookBounds'
  BY <1>3, FateFacts, FaultCounts DEF Hooks!QueueFails, HookBounds
<1>4. ASSUME NEW id \in hWindow, Hooks!Forget(id) PROVE HookBounds'
  <2>1. Hooks!Pair(id) \in Hooks!Pairs
    BY JobFacts DEF HookTyped
  <2>. QED
    BY <1>4, <2>1, FaultCounts DEF Hooks!Forget, HookBounds, Hooks!fanout
<1>5. ASSUME NEW w \in HookWorkers, NEW j \in hQueue, Hooks!Pull(w, j) PROVE HookBounds'
  BY <1>5, InboxBounds DEF Hooks!Pull, HookBounds, Hooks!fanout, Hooks!history
<1>6. ASSUME NEW w \in HookWorkers, Hooks!Load(w) PROVE HookBounds'
  <2>. DEFINE j == Head(hInbox[w])
  <2>1. hInbox[w] # <<>> /\ j \in Hooks!Jobs /\ "disabled" \in Fates
    BY <1>6, InboxHead DEF Hooks!Load, Fates
  <2>2. UNCHANGED <<hCalls, hForgotten, hFaults>>
    BY <1>6 DEF Hooks!Load, Hooks!fanout
  <2>3. CASE UNCHANGED <<hInbox, hFate>>
    BY <2>2, <2>3 DEF HookBounds
  <2>4. CASE Hooks!Ends(j, "disabled") /\ Hooks!Finish(w)
    BY <2>1, <2>2, <2>4, FateFacts, InboxBounds DEF HookBounds
  <2>. QED
    BY <1>6, <2>3, <2>4 DEF Hooks!Load
<1>7. ASSUME NEW w \in HookWorkers, Hooks!LoadFails(w) PROVE HookBounds'
  BY <1>7, FateFacts, InboxBounds, FaultCounts DEF Hooks!LoadFails, HookBounds, Hooks!fanout
<1>8. ASSUME NEW w \in HookWorkers, NEW status \in Hooks!Statuses, Hooks!Deliver(w, status) PROVE HookBounds'
  BY <1>8 DEF Hooks!Deliver, HookBounds, Hooks!fanout
<1>9. ASSUME NEW w \in HookWorkers, Hooks!Record(w) PROVE HookBounds'
  BY <1>9 DEF Hooks!Record, HookBounds, Hooks!fanout, Hooks!history
<1>10. ASSUME NEW w \in HookWorkers, Hooks!RecordFails(w) PROVE HookBounds'
  BY <1>10, FaultCounts DEF Hooks!RecordFails, HookBounds, Hooks!fanout, Hooks!history
<1>11. ASSUME NEW w \in HookWorkers, Hooks!Settle(w) PROVE HookBounds'
  <2>. DEFINE j == Head(hInbox[w])
  <2>1. hInbox[w] # <<>> /\ j \in Hooks!Jobs
    BY <1>11, InboxHead DEF Hooks!Settle, HookTyped
  <2>2. hClass[w] \in Outcomes
    BY <1>11 DEF Hooks!Settle, HookTyped
  <2>3. Hooks!Finish(w) /\ UNCHANGED <<hCalls, hForgotten, hFaults>>
    BY <1>11 DEF Hooks!Settle, Hooks!fanout
  <2>4. hFate' = hFate \/ \E how \in Fates : Hooks!Ends(j, how)
    BY <1>11, <2>2 DEF Hooks!Settle, Outcomes, Fates
  <2>. QED
    BY <2>1, <2>3, <2>4, FateFacts, InboxBounds DEF HookBounds
<1>12. ASSUME NEW w \in HookWorkers, NEW j \in hBackoff[w], Hooks!requeueAfter(w, j) PROVE HookBounds'
  BY <1>12 DEF Hooks!requeueAfter, HookBounds, Hooks!fanout, Hooks!history
<1>13. ASSUME NEW w \in HookWorkers, NEW j \in hBackoff[w], Hooks!RequeueFails(w, j) PROVE HookBounds'
  BY <1>13, FateFacts, FaultCounts DEF Hooks!RequeueFails, HookBounds, Hooks!fanout
<1>14. ASSUME NEW w \in HookWorkers, Hooks!Crash(w) PROVE HookBounds'
  BY <1>14, FateFacts, InboxBounds, FaultCounts DEF Hooks!Crash, HookBounds, Hooks!fanout
<1>15. CASE UNCHANGED Hooks!vars
  BY <1>15 DEF Hooks!vars, HookBounds
<1>. QED
  BY <1>1, <1>2, <1>3, <1>4, <1>5, <1>6, <1>7, <1>8, <1>9, <1>10, <1>11, <1>12, <1>13, <1>14, <1>15
     DEF Hooks!Next, Hooks!Loop

LEMMA HooksTyped ==
  ASSUME Hooks!BoundAssumption
  PROVE  Hooks!Spec => []Hooks!TypeOK
<1>1. Hooks!Init => HookTyped /\ HookBounds
  <2>1. ASSUME Hooks!Init PROVE HookBounds
    <3>1. /\ hCalls = [e \in DomainEvents |-> 0] /\ hFate = [p \in Hooks!Pairs |-> {}]
          /\ hForgotten = {} /\ hFaults = 0 /\ \A w \in HookWorkers : Len(hInbox[w]) = 0
      BY <2>1 DEF Hooks!Init
    <3>2. MaxCalls \in Nat /\ MaxFaults \in Nat /\ Prefetch \in Nat
      BY DEF Hooks!BoundAssumption
    <3>. QED
      BY <3>1, <3>2 DEF HookBounds
  <2>. QED
    BY <2>1, HookInit
<1>2. HookTyped /\ HookBounds /\ [Hooks!Next]_Hooks!vars => (HookTyped /\ HookBounds)'
  BY HookTypedStep, HookBoundsStep
<1>3. HookTyped /\ HookBounds => Hooks!TypeOK
  <2>. SUFFICES ASSUME HookTyped, HookBounds PROVE Hooks!TypeOK
    OBVIOUS
  <2>1. \A p \in Hooks!Pairs : \A i \in DOMAIN hPosts[p] : hPosts[p][i].attempt \in 1..MaxAttempts
    <3>. SUFFICES ASSUME NEW p \in Hooks!Pairs, NEW i \in DOMAIN hPosts[p] PROVE hPosts[p][i] \in Answers
      BY DEF Answers
    <3>1. hPosts[p] \in Seq(Answers)
      BY DEF HookTyped
    <3>. QED
      BY <3>1, ElementOfSeq, LenProperties
  <2>2. hClass \in [HookWorkers -> {"delivered", "transient", "permanent", None}]
    BY DEF HookTyped, Outcomes
  <2>. QED
    BY <2>1, <2>2 DEF HookTyped, HookBounds, Fates, Hooks!TypeOK
<1>. QED
  BY <1>1, <1>2, <1>3, PTL DEF Hooks!Spec

(***************************************************************************)
(* Connectors: no event makes more copies than it was posted.              *)
(***************************************************************************)
InBounds ==
  /\ cTries \in [PlatformEvents -> 0..PlatformTries]
  /\ \A e \in PlatformEvents : cCopies[e] \in Nat /\ cCopies[e] <= cTries[e]
  /\ cGreeted \subseteq Accounts \X Ids
  /\ \A w \in cWindow : w.key # None
  /\ cMissed \subseteq PlatformEvents
  /\ cFaults \in 0..MaxFaults

LEMMA InBoundsStep ==
  ASSUME In!BoundAssumption, InTyped, InBounds, [In!Next]_In!vars
  PROVE  InBounds'
<1>0. PlatformTries \in Nat /\ MaxFaults \in Nat
  BY DEF In!BoundAssumption
<1>1. ASSUME NEW e \in PlatformEvents, In!Happen(e) PROVE InBounds'
  BY <1>1 DEF In!Happen, InBounds
<1>2. ASSUME NEW w \in cWindow, In!Forget(w) PROVE InBounds'
  BY <1>2 DEF In!Forget, InBounds
<1>3. ASSUME NEW e \in PlatformEvents, NEW found \in BOOLEAN, NEW bus \in BOOLEAN, NEW heard \in BOOLEAN,
             In!Post(e, found, bus, heard)
      PROVE  InBounds'
  <2>1. cTries[e] < PlatformTries /\ cTries' = [cTries EXCEPT ![e] = @ + 1]
    BY <1>3 DEF In!Post
  <2>2. cTries' \in [PlatformEvents -> 0..PlatformTries]
    BY <1>0, <2>1 DEF InBounds
  <2>3. \E n \in {0, 1} : cCopies' = [cCopies EXCEPT ![e] = @ + n]
    <3>1. cCopies' = [cCopies EXCEPT ![e] = @ + 1] \/ cCopies' = [cCopies EXCEPT ![e] = @]
      BY <1>3 DEF In!Post
    <3>2. cCopies \in [PlatformEvents -> Nat] /\ cCopies[e] + 0 = cCopies[e]
      BY DEF InTyped
    <3>. QED
      BY <3>1, <3>2
  <2>4. \A f \in PlatformEvents : cCopies'[f] \in Nat /\ cCopies'[f] <= cTries'[f]
    BY <1>0, <2>1, <2>3 DEF InBounds, InTyped
  <2>5. cGreeted' \subseteq Accounts \X Ids
    <3>1. cGreeted' = cGreeted \/ cGreeted' = cGreeted \cup {<<cShape[e].to, cShape[e].id>>}
      BY <1>3 DEF In!Post
    <3>2. cShape[e].to \in Accounts /\ cShape[e].id \in Ids
      BY DEF InTyped, In!Shapes
    <3>. QED
      BY <3>1, <3>2 DEF InBounds
  <2>6. \A w \in cWindow' : w.key # None
    BY <1>3 DEF In!Post, InBounds
  <2>7. cMissed' \subseteq PlatformEvents
    BY <1>3 DEF In!Post, InBounds
  <2>8. cFaults' \in 0..MaxFaults
    BY <1>0, <1>3 DEF In!Post, InBounds
  <2>. QED
    BY <2>2, <2>4, <2>5, <2>6, <2>7, <2>8 DEF InBounds
<1>4. CASE UNCHANGED In!vars
  BY <1>4 DEF In!vars, InBounds
<1>. QED
  BY <1>1, <1>2, <1>3, <1>4 DEF In!Next

LEMMA ConnectorsTyped ==
  ASSUME In!BoundAssumption, In!NoneAssumption
  PROVE  In!Spec => []In!TypeOK
<1>1. In!Init => InTyped /\ InInv /\ InBounds
  <2>1. ASSUME In!Init PROVE InBounds
    <3>1. /\ cTries = [e \in PlatformEvents |-> 0] /\ cCopies = [e \in PlatformEvents |-> 0]
          /\ cGreeted = {} /\ cWindow = {} /\ cMissed = {} /\ cFaults = 0
      BY <2>1 DEF In!Init
    <3>. QED
      BY <3>1 DEF InBounds, In!BoundAssumption
  <2>. QED
    BY <2>1, InInit
<1>2. InTyped /\ InInv /\ InBounds /\ [In!Next]_In!vars => (InTyped /\ InInv /\ InBounds)'
  BY InStep, InBoundsStep
<1>3. InTyped /\ InBounds => In!TypeOK
  <2>. SUFFICES ASSUME InTyped, InBounds PROVE In!TypeOK
    OBVIOUS
  <2>1. cCopies \in [PlatformEvents -> 0..PlatformTries]
    BY DEF InTyped, InBounds, In!BoundAssumption
  <2>. QED
    BY <2>1 DEF InTyped, InBounds, In!TypeOK
<1>. QED
  BY <1>1, <1>2, <1>3, PTL DEF In!Spec


(***************************************************************************)
(* Mailbox: a poll takes less than Batch mails before its last, a row is   *)
(* of the connection that its mailbox has, and a connection is a fault.    *)
(***************************************************************************)
DoneInv ==
  /\ mPoll.done <= Batch /\ Len(mPoll.chan) <= Buffer
  /\ mPoll.pc \in {"loop", "publish"} => mPoll.done < Batch

MailBounds ==
  /\ mFaults \in 0..MaxFaults /\ \A b \in Mail!Boxes : mGen[b] <= mFaults
  /\ \A r \in mSeen : r.box \in Mail!Boxes /\ r.gen = mGen[r.box]
  /\ \A w \in mWindow : w.by \in Mails
  /\ mDropped \subseteq Mails /\ mFailed \subseteq Mails
  /\ mTries \in [Mails -> 0..ProviderTries]

LEMMA SetDone ==
  ASSUME NEW p \in Polls, NEW v
  PROVE  /\ [p EXCEPT !.pc = v].done = p.done /\ [p EXCEPT !.mail = v].done = p.done
         /\ [p EXCEPT !.todo = v].done = p.done /\ [p EXCEPT !.chan = v].done = p.done
         /\ [p EXCEPT !.highest = v].done = p.done
BY DEF Polls

\* What the poller's steps do to the number of mails processed.
LEMMA CountedDone ==
  ASSUME NEW p \in Polls
  PROVE  /\ Mail!Counted(p).done = p.done + 1
         /\ Mail!Counted(p).pc = IF p.done + 1 >= Batch THEN "wait" ELSE "loop"
<1>. DEFINE step == IF p.done + 1 >= Batch THEN "wait" ELSE "loop"
            p1 == [p EXCEPT !.done = p.done + 1]
            p2 == [p1 EXCEPT !.mail = None]
            p3 == [p2 EXCEPT !.pc = step]
<1>1. Mail!Counted(p) = p3
  BY Zenon DEF Mail!Counted
<1>2. step \in Steps
  BY DEF Steps
<1>. HIDE DEF step
<1>3. p1 \in Polls /\ p1.done = p.done + 1
  BY DEF Polls
<1>. HIDE DEF p1
<1>4. p2 \in Polls /\ p2.done = p1.done
  <2>1. None \in Mails \cup {None}
    OBVIOUS
  <2>. QED
    BY <1>3, <2>1, SetFields, SetDone, Zenon
<1>. HIDE DEF p2
<1>5. p3.done = p2.done /\ p3.pc = step
  BY <1>2, <1>4, SetFields, SetDone, Zenon
<1>. QED
  BY <1>1, <1>3, <1>4, <1>5 DEF step

LEMMA TakeDone ==
  ASSUME MailTyped, mPoll.chan # <<>>
  PROVE  Mail!Take.done = mPoll.done
<1>. DEFINE m == Head(mPoll.chan)
            h == Mail!Greater(mPoll.highest, mUid[m])
            p1 == [mPoll EXCEPT !.chan = Tail(mPoll.chan)]
            p2 == [p1 EXCEPT !.mail = m]
            p3 == [p2 EXCEPT !.highest = h]
<1>1. Mail!Take = p3
  BY Zenon DEF Mail!Take
<1>2. mPoll \in Polls /\ mPoll.chan \in Seq(Mails)
  BY DEF MailTyped, Polls
<1>3. Tail(mPoll.chan) \in Seq(Mails) /\ m \in Mails \cup {None}
  BY <1>2, HeadTailProperties
<1>. HIDE DEF m, h
<1>4. p1 \in Polls /\ p1.done = mPoll.done
  BY <1>2, <1>3, SetFields, SetDone, Zenon
<1>. HIDE DEF p1
<1>5. p2 \in Polls /\ p2.done = p1.done
  BY <1>3, <1>4, SetFields, SetDone, Zenon
<1>. HIDE DEF p2
<1>6. p3.done = p2.done
  BY <1>5, SetDone, Zenon
<1>. QED
  BY <1>1, <1>4, <1>5, <1>6

\* The poll is over, or it is a new one.
LEMMA NewDone ==
  ASSUME Mail!BoundAssumption
  PROVE  /\ \A step : LET p == Mail!NoPoll(step) IN p.done = 0 /\ Len(p.chan) = 0 /\ p.pc = step
         /\ Batch \in Nat \ {0} /\ Buffer \in Nat
<1>1. Batch \in Nat \ {0} /\ Buffer \in Nat
  BY DEF Mail!BoundAssumption
<1>. QED
  BY <1>1 DEF Mail!NoPoll

LEMMA DoneStep ==
  ASSUME Assumptions, Mail!BoundAssumption, MailTyped, DoneInv, [Mail!Next]_Mail!vars
  PROVE  DoneInv'
<1>1. /\ mPoll \in Polls /\ mPoll.done \in Nat /\ mPoll.chan \in Seq(Mails) /\ mPoll.todo \in Seq(Mails)
      /\ Batch \in Nat \ {0} /\ Buffer \in Nat
      /\ Len(mPoll.chan) \in Nat
  BY NewDone, LenProperties DEF MailTyped, Polls
<1>2. CASE \/ Mail!PollAll \/ Mail!RoundDone \/ Mail!AdvanceCheckpoint \/ Mail!CheckpointFails \/ Mail!Crash
  <2>1. \E step \in {"idle", "list"} : mPoll' = Mail!NoPoll(step)
    BY <1>2 DEF Mail!PollAll, Mail!RoundDone, Mail!AdvanceCheckpoint, Mail!CheckpointFails, Mail!Crash
  <2>2. PICK step \in {"idle", "list"} : mPoll' = Mail!NoPoll(step)
    BY <2>1
  <2>3. PICK q : q = mPoll'
    OBVIOUS
  <2>4. q.done = 0 /\ Len(q.chan) = 0 /\ q.pc = step
    BY <2>2, <2>3, NewDone
  <2>. QED
    BY <1>1, <2>3, <2>4 DEF DoneInv
<1>3. CASE Mail!PollOne
  <2>1. mPoll'.done = 0 /\ mPoll'.chan = <<>>
    BY <1>3 DEF Mail!PollOne
  <2>2. Len(mPoll'.chan) = 0
    BY <2>1
  <2>. QED
    BY <1>1, <2>1, <2>2 DEF DoneInv
<1>4. CASE Mail!FetchSends
  <2>. DEFINE c == Append(mPoll.chan, Head(mPoll.todo))
              t == Tail(mPoll.todo)
              p1 == [mPoll EXCEPT !.chan = c]
              p2 == [p1 EXCEPT !.todo = t]
  <2>1. mPoll' = p2 /\ Len(mPoll.chan) < Buffer
    BY <1>4, Zenon DEF Mail!FetchSends
  <2>2. Head(mPoll.todo) \in Mails
    BY <1>1, <1>4, HeadTailProperties DEF Mail!FetchSends
  <2>3. c \in Seq(Mails) /\ Len(c) = Len(mPoll.chan) + 1
    BY <1>1, <2>2, AppendProperties
  <2>. HIDE DEF c, t
  <2>4. p1 \in Polls /\ p1.done = mPoll.done
    BY <1>1, <2>3, SetFields, SetDone, Zenon
  <2>. HIDE DEF p1
  <2>5. p2.done = p1.done
    BY <2>4, SetDone, Zenon
  <2>. HIDE DEF p2
  <2>6. mPoll'.chan = c /\ mPoll'.pc = mPoll.pc
    <3>1. mPoll.todo[1] = Head(mPoll.todo)
      BY <1>1, <1>4, HeadTailProperties DEF Mail!FetchSends
    <3>. QED
      BY <1>4, <3>1, FetchSendsFacts DEF c
  <2>. QED
    BY <1>1, <2>1, <2>3, <2>4, <2>5, <2>6 DEF DoneInv
<1>5. CASE Mail!FetchFails
  <2>1. mPoll' = [mPoll EXCEPT !.todo = <<>>]
    BY <1>5 DEF Mail!FetchFails
  <2>2. mPoll'.done = mPoll.done
    BY <1>1, <2>1, SetDone, Zenon
  <2>3. mPoll'.chan = mPoll.chan /\ mPoll'.pc = mPoll.pc
    BY <1>5, FetchFailsFacts
  <2>. QED
    BY <2>2, <2>3 DEF DoneInv
<1>6. CASE Mail!ChannelClosed
  <2>1. mPoll' = [mPoll EXCEPT !.pc = "wait"]
    BY <1>6 DEF Mail!ChannelClosed
  <2>2. mPoll'.done = mPoll.done
    BY <1>1, <2>1, SetDone, Zenon
  <2>3. mPoll'.chan = mPoll.chan /\ mPoll'.pc = "wait"
    BY <1>6, ChannelClosedFacts
  <2>. QED
    BY <2>2, <2>3 DEF DoneInv
<1>7. CASE Mail!Receive
  <2>1. mPoll.pc = "loop" /\ mPoll.chan # <<>> /\ mPoll.done < Batch
    BY <1>7 DEF Mail!Receive, DoneInv
  <2>2. Mail!Take \in Polls /\ Mail!Take.done = mPoll.done /\ Mail!Take.chan = Tail(mPoll.chan)
    BY <2>1, TakeFacts, TakeDone
  <2>3. mPoll' = Mail!Counted(Mail!Take) \/ mPoll' = [Mail!Take EXCEPT !.pc = "publish"]
    BY <1>7 DEF Mail!Receive
  <2>4. Len(Tail(mPoll.chan)) = Len(mPoll.chan) - 1
    BY <1>1, <2>1, HeadTailProperties
  <2>5. PICK p \in Polls : p = Mail!Take
    BY <2>2
  <2>6. CASE mPoll' = Mail!Counted(p)
    <3>1. mPoll'.done = p.done + 1 /\ mPoll'.pc = (IF p.done + 1 >= Batch THEN "wait" ELSE "loop")
          /\ mPoll'.chan = p.chan
      BY <2>6, CountedDone, PollFacts
    <3>. QED
      BY <1>1, <2>1, <2>2, <2>4, <2>5, <3>1 DEF DoneInv
  <2>7. CASE mPoll' = [p EXCEPT !.pc = "publish"]
    <3>1. "publish" \in Steps
      BY DEF Steps
    <3>2. mPoll'.done = p.done /\ mPoll'.pc = "publish" /\ mPoll'.chan = p.chan
      BY <2>7, <3>1, SetFields, SetDone, Zenon
    <3>. QED
      BY <1>1, <2>1, <2>2, <2>4, <2>5, <3>2 DEF DoneInv
  <2>. QED
    BY <2>3, <2>5, <2>6, <2>7
<1>8. CASE Mail!ReceiveFails
  <2>1. mPoll.pc = "loop" /\ mPoll.chan # <<>> /\ mPoll.done < Batch
    BY <1>8 DEF Mail!ReceiveFails, DoneInv
  <2>2. Mail!Take \in Polls /\ Mail!Take.done = mPoll.done /\ Mail!Take.chan = Tail(mPoll.chan)
    BY <2>1, TakeFacts, TakeDone
  <2>3. mPoll' = [Mail!Take EXCEPT !.mail = None]
    BY <1>8 DEF Mail!ReceiveFails
  <2>4. Len(Tail(mPoll.chan)) = Len(mPoll.chan) - 1
    BY <1>1, <2>1, HeadTailProperties
  <2>5. PICK p \in Polls : p = Mail!Take
    BY <2>2
  <2>6. mPoll'.done = p.done /\ mPoll'.chan = p.chan
    <3>1. None \in Mails \cup {None} /\ mPoll' = [p EXCEPT !.mail = None]
      BY <2>3, <2>5
    <3>2. [p EXCEPT !.mail = None].done = p.done /\ [p EXCEPT !.mail = None].chan = p.chan
      BY <3>1, SetFields, SetDone, Zenon
    <3>. QED
      BY <3>1, <3>2
  <2>. QED
    BY <1>1, <2>1, <2>2, <2>4, <2>5, <2>6 DEF DoneInv
<1>9. CASE Mail!PublishMail
  <2>1. mPoll' = Mail!Counted(mPoll) /\ mPoll.done < Batch
    BY <1>9 DEF Mail!PublishMail, DoneInv
  <2>2. mPoll'.done = mPoll.done + 1 /\ mPoll'.pc = (IF mPoll.done + 1 >= Batch THEN "wait" ELSE "loop")
        /\ mPoll'.chan = mPoll.chan
    BY <1>1, <2>1, CountedDone, PollFacts
  <2>. QED
    BY <1>1, <2>1, <2>2 DEF DoneInv
<1>10. CASE Mail!PublishFails
  <2>. DEFINE p1 == [mPoll EXCEPT !.pc = "loop"]
              p2 == [p1 EXCEPT !.mail = None]
  <2>1. mPoll' = p2 /\ mPoll.pc = "publish"
    BY <1>10, Zenon DEF Mail!PublishFails
  <2>2. "loop" \in Steps
    BY DEF Steps
  <2>3. p1 \in Polls /\ p1.done = mPoll.done
    BY <1>1, <2>2, SetFields, SetDone, Zenon
  <2>. HIDE DEF p1
  <2>4. p2.done = p1.done
    BY <2>3, SetDone, Zenon
  <2>5. mPoll'.chan = mPoll.chan
    BY <1>10, PublishMailFacts
  <2>. QED
    BY <2>1, <2>3, <2>4, <2>5 DEF DoneInv
<1>11. UNCHANGED mPoll => DoneInv'
  BY DEF DoneInv
<1>12. ASSUME \/ \E m \in Mails : Mail!Arrive(m) \/ Mail!HandleMailgun(m) \/ Mail!HandleJSON(m)
              \/ \E m \in Mails, published, heard \in BOOLEAN : Mail!Publish(m, published, heard)
              \/ \E b \in Mail!Boxes : Mail!Reconnect(b)
              \/ \E w \in mWindow : Mail!Forget(w)
              \/ Mail!DialFails \/ UNCHANGED Mail!vars
       PROVE  UNCHANGED mPoll
  BY <1>12 DEF Mail!Arrive, Mail!HandleMailgun, Mail!HandleJSON, Mail!Accept, Mail!Publish,
       Mail!Reconnect, Mail!Forget, Mail!DialFails, Mail!vars, Mail!poller
<1>. QED
  BY <1>2, <1>3, <1>4, <1>5, <1>6, <1>7, <1>8, <1>9, <1>10, <1>11, <1>12 DEF Mail!Next, Mail!Step

\* A publish under an id leaves mails in the window and among the dropped.
LEMMA PublishBounds ==
  ASSUME MailBounds, NEW m \in Mails, NEW id, Mail!PublishId(m, id)
  PROVE  (\A w \in mWindow' : w.by \in Mails) /\ mDropped' \subseteq Mails
<1>1. \/ mWindow' = mWindow \cup {[id |-> id, by |-> m]} /\ mDropped' = mDropped
      \/ mWindow' = mWindow /\ mDropped' \in {mDropped, mDropped \cup {m}}
  BY DEF Mail!PublishId
<1>. QED
  BY <1>1 DEF MailBounds

LEMMA MailFaults ==
  ASSUME Mail!BoundAssumption, MailTyped, MailBounds, UNCHANGED mGen, Mail!Fault \/ mFaults' = mFaults
  PROVE  mFaults' \in 0..MaxFaults /\ \A b \in Mail!Boxes : mGen'[b] <= mFaults'
<1>1. MaxFaults \in Nat /\ \A b \in Mail!Boxes : mGen[b] \in Nat
  BY DEF Mail!BoundAssumption, MailTyped
<1>. QED
  BY <1>1 DEF Mail!Fault, MailBounds

LEMMA MailBoundsPosted ==
  ASSUME Assumptions, Mail!BoundAssumption, MailTyped, MailBounds,
         \/ \E m \in Mails : Mail!HandleMailgun(m) \/ Mail!HandleJSON(m)
         \/ \E m \in Mails, published, heard \in BOOLEAN : Mail!Publish(m, published, heard)
         \/ \E b \in Mail!Boxes : Mail!Reconnect(b)
  PROVE  MailBounds'
<1>1. ASSUME NEW m \in Mails, NEW id, Mail!Accept(m, id) PROVE MailBounds'
  <2>1. BoxOf[m] \in Mail!Boxes
    BY MailTypes
  <2>2. /\ mSeen' = mSeen \cup {Mail!Row(BoxOf[m], mGen[BoxOf[m]], id)}
        /\ mTries[m] < ProviderTries /\ mTries' = [mTries EXCEPT ![m] = @ + 1]
        /\ UNCHANGED <<mGen, mWindow, mDropped, mFailed, mFaults>>
    BY <1>1 DEF Mail!Accept, Mail!Recorded, Mail!stream
  <2>3. \A r \in mSeen' : r.box \in Mail!Boxes /\ r.gen = mGen[r.box]
    BY <2>1, <2>2 DEF MailBounds, Mail!Row
  <2>4. ProviderTries \in Nat
    BY DEF Mail!BoundAssumption
  <2>5. mTries' \in [Mails -> 0..ProviderTries]
    BY <2>2, <2>4 DEF MailBounds
  <2>. QED
    BY <2>2, <2>3, <2>5 DEF MailBounds
<1>2. ASSUME NEW m \in Mails, NEW published \in BOOLEAN, NEW heard \in BOOLEAN,
             Mail!Publish(m, published, heard)
      PROVE  MailBounds'
  <2>1. UNCHANGED <<mGen, mSeen, mTries>>
    BY <1>2 DEF Mail!Publish
  <2>2. Mail!Fault \/ mFaults' = mFaults
    BY <1>2 DEF Mail!Publish, Mail!Fault
  <2>3. \/ \E id : Mail!PublishId(m, id) /\ mFailed' = mFailed
        \/ mFailed' = mFailed \cup {m} /\ mWindow' = mWindow /\ mDropped' = mDropped
    BY <1>2 DEF Mail!Publish, Mail!stream
  <2>4. /\ \A w \in mWindow' : w.by \in Mails
        /\ mDropped' \subseteq Mails /\ mFailed' \subseteq Mails
    BY <2>3, PublishBounds DEF MailBounds
  <2>. QED
    BY <2>1, <2>2, <2>4, MailFaults DEF MailBounds
<1>3. ASSUME NEW b \in Mail!Boxes, Mail!Reconnect(b) PROVE MailBounds'
  <2>1. /\ mFaults < MaxFaults /\ mFaults' = mFaults + 1
        /\ mGen' = [mGen EXCEPT ![b] = @ + 1] /\ mSeen' = {r \in mSeen : r.box # b}
        /\ UNCHANGED <<mWindow, mDropped, mFailed, mTries>>
    BY <1>3 DEF Mail!Reconnect, Mail!Fault, Mail!stream, Mail!webhook
  <2>2. MaxFaults \in Nat /\ mGen \in [Mail!Boxes -> Nat]
    BY DEF Mail!BoundAssumption, MailTyped
  <2>3. mFaults' \in 0..MaxFaults /\ \A c \in Mail!Boxes : mGen'[c] <= mFaults'
    BY <2>1, <2>2 DEF MailBounds
  <2>4. \A r \in mSeen' : r.box \in Mail!Boxes /\ r.gen = mGen'[r.box]
    BY <2>1, <2>2 DEF MailBounds
  <2>. QED
    BY <2>1, <2>3, <2>4 DEF MailBounds
<1>. QED
  BY <1>1, <1>2, <1>3 DEF Mail!HandleMailgun, Mail!HandleJSON

LEMMA MailBoundsPolled ==
  ASSUME Assumptions, Mail!BoundAssumption, MailTyped, MailBounds,
         Mail!PollAll \/ Mail!Step \/ Mail!ReceiveFails \/ Mail!DialFails \/ Mail!FetchFails
           \/ Mail!PublishFails \/ Mail!CheckpointFails \/ Mail!Crash
  PROVE  MailBounds'
<1>1. CASE Mail!PollAll \/ Mail!PollOne \/ Mail!RoundDone \/ Mail!FetchSends \/ Mail!ChannelClosed
             \/ Mail!AdvanceCheckpoint
  BY <1>1 DEF Mail!PollAll, Mail!PollOne, Mail!RoundDone, Mail!FetchSends, Mail!ChannelClosed,
       Mail!AdvanceCheckpoint, Mail!stream, Mail!webhook, MailBounds
<1>2. CASE Mail!DialFails \/ Mail!FetchFails \/ Mail!CheckpointFails
  <2>1. Mail!Fault /\ UNCHANGED <<mGen, mSeen, mWindow, mDropped, mFailed, mTries>>
    BY <1>2 DEF Mail!DialFails, Mail!FetchFails, Mail!CheckpointFails, Mail!stream, Mail!webhook
  <2>. QED
    BY <2>1, MailFaults DEF MailBounds
<1>3. CASE Mail!Receive
  <2>1. PICK m \in Mails :
           /\ mGen[mPoll.box] = mPoll.gen
           /\ mSeen' = mSeen \cup {Mail!Row(mPoll.box, mPoll.gen, Mail!ImapId(m))}
           /\ UNCHANGED <<mGen, mWindow, mDropped, mFailed, mTries>>
    BY <1>3, ReceiveFacts
  <2>2. mPoll.box \in Mail!Boxes
    BY <1>3 DEF Mail!Receive, MailTyped, Busy
  <2>3. \A r \in mSeen' : r.box \in Mail!Boxes /\ r.gen = mGen[r.box]
    BY <2>1, <2>2 DEF MailBounds, Mail!Row
  <2>4. mFaults' = mFaults
    BY <1>3 DEF Mail!Receive
  <2>. QED
    BY <2>1, <2>3, <2>4 DEF MailBounds
<1>4. CASE Mail!ReceiveFails
  <2>1. PICK m \in Mails : /\ mFailed' = mFailed \cup {m}
                           /\ UNCHANGED <<mGen, mSeen, mWindow, mDropped, mTries>>
    BY <1>4, ReceiveFailsFacts
  <2>2. Mail!Fault \/ mFaults' = mFaults
    BY <1>4 DEF Mail!ReceiveFails
  <2>. QED
    BY <2>1, <2>2, MailFaults DEF MailBounds
<1>5. CASE Mail!PublishMail \/ Mail!PublishFails
  <2>1. /\ mPoll.mail \in Mails /\ UNCHANGED <<mGen, mSeen, mTries>>
        /\ \/ Mail!PublishId(mPoll.mail, Mail!ImapId(mPoll.mail)) /\ mFailed' = mFailed
           \/ mFailed' = mFailed \cup {mPoll.mail} /\ UNCHANGED <<mWindow, mCopies, mDropped>>
    BY <1>5, PublishMailFacts
  <2>2. Mail!Fault \/ mFaults' = mFaults
    BY <1>5 DEF Mail!PublishMail, Mail!PublishFails
  <2>3. /\ \A w \in mWindow' : w.by \in Mails
        /\ mDropped' \subseteq Mails /\ mFailed' \subseteq Mails
    BY <2>1, PublishBounds DEF MailBounds
  <2>. QED
    BY <2>1, <2>2, <2>3, MailFaults DEF MailBounds
<1>6. CASE Mail!Crash
  <2>1. /\ Mail!Fault /\ UNCHANGED <<mGen, mSeen, mWindow, mDropped, mTries>>
        /\ mFailed' = mFailed \cup (IF mPoll.pc = "publish" THEN {mPoll.mail} ELSE {})
    BY <1>6 DEF Mail!Crash, Mail!stream, Mail!webhook
  <2>2. mPoll.pc = "publish" => mPoll.mail \in Mails
    BY DEF MailTyped, Polls
  <2>3. mFailed' \subseteq Mails
    BY <2>1, <2>2 DEF MailBounds
  <2>. QED
    BY <2>1, <2>3, MailFaults DEF MailBounds
<1>. QED
  BY <1>1, <1>2, <1>3, <1>4, <1>5, <1>6 DEF Mail!Step

LEMMA MailBoundsStep ==
  ASSUME Assumptions, Mail!BoundAssumption, MailTyped, MailBounds, [Mail!Next]_Mail!vars
  PROVE  MailBounds'
<1>1. ASSUME NEW m \in Mails, Mail!Arrive(m) PROVE MailBounds'
  BY <1>1 DEF Mail!Arrive, Mail!stream, MailBounds
<1>2. ASSUME NEW w \in mWindow, Mail!Forget(w) PROVE MailBounds'
  BY <1>2 DEF Mail!Forget, Mail!webhook, MailBounds
<1>3. CASE UNCHANGED Mail!vars
  BY <1>3 DEF Mail!vars, MailBounds
<1>. QED
  BY <1>1, <1>2, <1>3, MailBoundsPosted, MailBoundsPolled DEF Mail!Next

\* No UID and no checkpoint is above the number of mails.
LEMMA UidBounds ==
  ASSUME Assumptions, MailTyped, CkptInv
  PROVE  /\ mUid \in [Mails -> 0..Cardinality(Mails)]
         /\ mCkpt \in [Mail!Boxes -> 0..Cardinality(Mails)]
<1>1. Cardinality(Mails) \in Nat
  BY FS_CardinalityType DEF Assumptions
<1>2. \A b : Arrivals(b) \in Nat /\ Arrivals(b) <= Cardinality(Mails)
  BY ArrivedFacts, FS_Subset DEF Assumptions, Arrivals
<1>3. ASSUME NEW m \in Mails PROVE mUid[m] \in 0..Cardinality(Mails)
  <2>1. BoxOf[m] \in Mail!Boxes /\ mUid[m] \in Nat
    BY MailTypes
  <2>2. mUid[m] > 0 => m \in Mail!Arrived(BoxOf[m])
    BY DEF Mail!Arrived
  <2>3. mUid[m] > 0 => mUid[m] <= Arrivals(BoxOf[m])
    BY <2>1, <2>2 DEF MailTyped, Numbered
  <2>. QED
    BY <1>1, <1>2, <2>1, <2>3
<1>4. \A b \in Mail!Boxes : mCkpt[b] \in 0..Cardinality(Mails)
  <2>. SUFFICES ASSUME NEW b \in Mail!Boxes PROVE mCkpt[b] \in 0..Cardinality(Mails)
    OBVIOUS
  <2>1. mCkpt[b] \in Nat /\ mCkpt[b] <= Arrivals(b)
    BY DEF MailTyped, CkptInv
  <2>. QED
    BY <1>1, <1>2, <2>1
<1>. QED
  BY <1>3, <1>4 DEF MailTyped

LEMMA MailboxTyped ==
  ASSUME IsFiniteSet(Mails), Mail!BoxAssumption, Mail!MidAssumption, Mail!BoundAssumption
  PROVE  Mail!Spec => []Mail!TypeOK
<1>. DEFINE IInv == MailTyped /\ PollInv /\ CkptInv /\ DoneInv /\ MailBounds
<1>0. Assumptions
  BY DEF Assumptions
<1>1. Mail!Init => IInv
  <2>1. ASSUME Mail!Init PROVE DoneInv /\ MailBounds
    <3>1. /\ mPoll = Mail!NoPoll("idle") /\ mGen = [b \in Mail!Boxes |-> 0] /\ mSeen = {} /\ mWindow = {}
          /\ mDropped = {} /\ mFailed = {} /\ mTries = [m \in Mails |-> 0] /\ mFaults = 0
      BY <2>1 DEF Mail!Init
    <3>2. DoneInv
      BY <3>1, NewDone DEF DoneInv
    <3>3. MaxFaults \in Nat /\ ProviderTries \in Nat
      BY DEF Mail!BoundAssumption
    <3>. QED
      BY <3>1, <3>2, <3>3 DEF MailBounds
  <2>. QED
    BY <1>0, <2>1, MailInit, MailStarts
<1>2. IInv /\ [Mail!Next]_Mail!vars => IInv'
  BY <1>0, MailTypedStep, PollStep, DoneStep, MailBoundsStep
<1>3. IInv => Mail!TypeOK
  <2>. SUFFICES ASSUME MailTyped, PollInv, CkptInv, DoneInv, MailBounds PROVE Mail!TypeOK
    OBVIOUS
  <2>1. mGen \in [Mail!Boxes -> 0..MaxFaults]
    <3>1. \A b \in Mail!Boxes : mGen[b] \in 0..MaxFaults
      BY DEF MailTyped, MailBounds, Mail!BoundAssumption
    <3>. QED
      BY <3>1 DEF MailTyped
  <2>2. /\ mUid \in [Mails -> 0..Mail!Cardinality(Mails)]
        /\ mCkpt \in [Mail!Boxes -> 0..Mail!Cardinality(Mails)]
    BY <1>0, UidBounds, MailCardinality
  <2>3. mPoll.pc \in {"idle", "list", "loop", "publish", "wait"}
    BY DEF MailTyped, Polls, Steps
  <2>4. /\ mCopies \in [Mails -> Nat] /\ mPost \in [Mails -> {"none", "due", "recorded", "done"}]
        /\ mQueue \in Seq(Mail!Boxes)
    BY DEF MailTyped
  <2>. QED
    BY <2>1, <2>2, <2>3, <2>4 DEF MailBounds, DoneInv, Mail!TypeOK
<1>. QED
  BY <1>1, <1>2, <1>3, PTL DEF Mail!Spec


-----------------------------------------------------------------------------
(***************************************************************************)
(* Side by side: a step of the edges is a step of one of them and leaves   *)
(* the others alone, so what holds of each holds of all of them together.  *)
(***************************************************************************)
LEMMA EdgesSideBySide ==
  /\ EdgesSpec => Spec
  /\ EdgesSpec => In!Spec
  /\ EdgesSpec => Mail!Spec
  /\ EdgesSpec => Hooks!Spec
<1>1. EdgesInit => Init /\ In!Init /\ Mail!Init /\ Hooks!Init
  BY DEF EdgesInit
<1>2. /\ cVars' = cVars <=> UNCHANGED In!vars
      /\ mVars' = mVars <=> UNCHANGED Mail!vars
      /\ hVars' = hVars <=> UNCHANGED Hooks!vars
  BY DEF cVars, mVars, hVars, In!vars, Mail!vars, Hooks!vars
<1>3. ASSUME [EdgesNext]_EdgesVars
      PROVE  [Next]_vars /\ [In!Next]_In!vars /\ [Mail!Next]_Mail!vars /\ [Hooks!Next]_Hooks!vars
  <2>1. CASE UNCHANGED EdgesVars
    BY <1>2, <2>1 DEF EdgesVars
  <2>2. CASE Sent(Next)
    BY <1>2, <2>2 DEF Sent
  <2>3. CASE Inbound(In!Next)
    BY <1>2, <2>3 DEF Inbound
  <2>4. CASE Mailed(Mail!Next)
    BY <1>2, <2>4 DEF Mailed
  <2>5. CASE Hooked(Hooks!Next)
    BY <1>2, <2>5 DEF Hooked
  <2>. QED
    BY <1>3, <2>1, <2>2, <2>3, <2>4, <2>5 DEF EdgesNext
<1>. QED
  BY <1>1, <1>3, PTL DEF EdgesSpec, Spec, In!Spec, Mail!Spec, Hooks!Spec

\* Together the edges are correctly typed, with every counter in its bound: the
\* channel of a poll holds at most Buffer mails, a worker at most Prefetch jobs,
\* a poll takes at most Batch mails, and no checkpoint is beyond the last mail.
THEOREM EdgesTyped ==
  ASSUME In!BoundAssumption, In!NoneAssumption, IsFiniteSet(Mails), Mail!BoxAssumption,
         Mail!MidAssumption, Mail!BoundAssumption, Hooks!BoundAssumption
  PROVE  EdgesSpec => []EdgesTypeOK
<1>1. TypeOK /\ In!TypeOK /\ Mail!TypeOK /\ Hooks!TypeOK => EdgesTypeOK
  BY DEF EdgesTypeOK
<1>. QED
  BY <1>1, EdgesSideBySide, TypeCorrect, ConnectorsTyped, MailboxTyped, HooksTyped, PTL

\* Together the edges lose no event, ingest no mail twice, attempt a webhook one
\* post at a time, leave a disabled one alone, and send no copy without excuse.
THEOREM EdgesSafe ==
  ASSUME In!NoneAssumption, IsFiniteSet(Mails), Mail!BoxAssumption, Mail!MidAssumption,
         Hooks!BoundAssumption, IsFiniteSet(HookWorkers)
  PROVE  EdgesSpec => [](/\ EventsAccountedFor /\ MailAccountedFor
                         /\ OneAttemptAtATime /\ DisabledIsQuiet
                         /\ CopiesExcused /\ LogIsTrue)
BY EdgesSideBySide, Accounting, MailsAccounted, OneAttempt, DisabledStaysQuiet, CopiesAreExcused,
   TruthfulLog, PTL
=============================================================================
