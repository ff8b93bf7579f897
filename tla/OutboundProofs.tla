---------------------------- MODULE OutboundProofs ----------------------------
(***************************************************************************)
(* Proofs about Outbound for any number of replies, tickets, redeliveries  *)
(* and faults: type correctness, no copy without an excuse, a truthful     *)
(* log, and the first response that stands.                                *)
(*                                                                         *)
(* The argument for the copies is a potential.  Weight counts the texts    *)
(* the customer got for a reply and the sends that are still to come from  *)
(* where the job is now: in the stream, in flight with nobody, or waiting  *)
(* in the worker's inbox.  No step raises it by more than the excuses it   *)
(* adds.                                                                   *)
(***************************************************************************)
EXTENDS Outbound, FunctionTheorems, FiniteSetTheorems, SequenceTheorems, TLAPS

(***************************************************************************)
(* How often a reply occurs in a sequence.                                 *)
(***************************************************************************)
Occ(s, r) == {i \in DOMAIN s : s[i] = r}
Count(s, r) == Cardinality(Occ(s, r))

LEMMA OccFinite ==
  ASSUME NEW S, NEW s \in Seq(S), NEW r
  PROVE  IsFiniteSet(Occ(s, r)) /\ Count(s, r) \in Nat
<1>1. IsFiniteSet(1..Len(s))
  BY FS_Interval
<1>2. Occ(s, r) \in SUBSET (1..Len(s))
  BY DEF Occ
<1>3. IsFiniteSet(Occ(s, r))
  BY <1>1, <1>2, FS_Subset
<1>. QED
  BY <1>3, FS_CardinalityType DEF Count

\* A reply that occurs is counted.
LEMMA CountHead ==
  ASSUME NEW S, NEW s \in Seq(S), NEW r, NEW i \in DOMAIN s, s[i] = r
  PROVE  Count(s, r) >= 1
<1>1. IsFiniteSet(Occ(s, r)) /\ Count(s, r) \in Nat /\ {i} \in SUBSET Occ(s, r)
  BY OccFinite DEF Occ
<1>2. Cardinality({i}) <= Count(s, r)
  BY <1>1, FS_Subset DEF Count
<1>3. Cardinality({i}) = 1
  BY FS_Singleton
<1>. QED
  BY <1>1, <1>2, <1>3

LEMMA CountEmpty ==
  ASSUME NEW r
  PROVE  Count(<<>>, r) = 0
<1>1. Occ(<<>>, r) = {}
  BY DEF Occ
<1>. QED
  BY <1>1, FS_EmptySet DEF Count

LEMMA CountAppend ==
  ASSUME NEW S, NEW s \in Seq(S), NEW x \in S, NEW r
  PROVE  Count(Append(s, x), r) = IF x = r THEN Count(s, r) + 1 ELSE Count(s, r)
<1>. DEFINE t == Append(s, x)
<1>1. /\ t \in Seq(S) /\ Len(t) = Len(s) + 1 /\ t[Len(s) + 1] = x
      /\ \A i \in 1..Len(s) : t[i] = s[i]
  BY AppendProperties
<1>2. /\ Len(s) \in Nat /\ DOMAIN s = 1..Len(s) /\ DOMAIN t = 1..(Len(s) + 1)
  BY <1>1, LenProperties
<1>3. IsFiniteSet(Occ(s, r))
  BY OccFinite
<1>. Len(s) + 1 \notin Occ(s, r)
  BY <1>2 DEF Occ
<1>4. CASE x = r
  <2>1. Occ(t, r) = Occ(s, r) \cup {Len(s) + 1}
    BY <1>1, <1>2, <1>4 DEF Occ
  <2>. QED
    BY <1>3, <1>4, <2>1, FS_AddElement DEF Count
<1>5. CASE x # r
  <2>1. Occ(t, r) = Occ(s, r)
    BY <1>1, <1>2, <1>5 DEF Occ
  <2>. QED
    BY <1>5, <2>1 DEF Count
<1>. QED
  BY <1>4, <1>5

\* What follows the head occurs one place further on.
LEMMA CountTail ==
  ASSUME NEW S, NEW s \in Seq(S), s # <<>>, NEW r
  PROVE  Count(s, r) = IF Head(s) = r THEN Count(Tail(s), r) + 1 ELSE Count(Tail(s), r)
<1>. DEFINE t == Tail(s)
            A == Occ(t, r)
            B == Occ(s, r) \ {1}
            f == [i \in A |-> i + 1]
<1>1. /\ t \in Seq(S) /\ Len(s) \in Nat \ {0} /\ Len(t) = Len(s) - 1
      /\ \A i \in 1..Len(t) : t[i] = s[i + 1]
  BY HeadTailProperties, EmptySeq, LenProperties
<1>2. DOMAIN s = 1..Len(s) /\ DOMAIN t = 1..(Len(s) - 1) /\ Head(s) = s[1]
  BY <1>1, LenProperties
<1>3. IsFiniteSet(A) /\ IsFiniteSet(Occ(s, r)) /\ Count(t, r) \in Nat /\ Count(s, r) \in Nat
  BY <1>1, OccFinite
<1>4. \A i \in A : i \in Nat /\ i + 1 \in B
  BY <1>1, <1>2 DEF Occ
<1>5. \A j \in B : j - 1 \in A /\ f[j - 1] = j
  BY <1>1, <1>2 DEF Occ
<1>6. f \in Bijection(A, B)
  <2>1. f \in [A -> B]
    BY <1>4
  <2>2. \A i, j \in A : f[i] = f[j] => i = j
    BY <1>4
  <2>3. \A j \in B : \E i \in A : f[i] = j
    BY <1>5
  <2>. QED
    BY <2>1, <2>2, <2>3, Fun_IsBij DEF ExistsBijection
<1>7. Cardinality(B) = Cardinality(A)
  BY <1>3, <1>6, FS_Bijection DEF ExistsBijection
<1>8. Cardinality(B) = IF 1 \in Occ(s, r) THEN Count(s, r) - 1 ELSE Count(s, r)
  BY <1>3, FS_RemoveElement DEF Count
<1>9. 1 \in Occ(s, r) <=> Head(s) = r
  BY <1>1, <1>2 DEF Occ
<1>. QED
  BY <1>3, <1>7, <1>8, <1>9 DEF Count
-----------------------------------------------------------------------------
(***************************************************************************)
(* The workers: each channel has at most one, and what handle makes of an  *)
(* answer.                                                                 *)
(***************************************************************************)
LEMMA WorkerFacts ==
  /\ Workers = {"fb", "ig", "wa", "email", "stub"}
  /\ \A p \in Workers : Worker[p].prefetch \in Nat
  /\ \A p, q \in Workers : \A c : c \in Worker[p].serves /\ c \in Worker[q].serves => p = q
<1>1. Workers = {"fb", "ig", "wa", "email", "stub"}
  BY DEF Workers, Worker
<1>2. /\ Worker["fb"] = FbWorker /\ Worker["ig"] = IgWorker /\ Worker["wa"] = WaWorker
      /\ Worker["email"] = EmailWorker /\ Worker["stub"] = StubWorker
  BY DEF Worker
<1>3. \A p \in Workers : Worker[p].prefetch \in Nat
  BY <1>1, <1>2 DEF FbWorker, IgWorker, WaWorker, EmailWorker, StubWorker
<1>4. \A p, q \in Workers : \A c : c \in Worker[p].serves /\ c \in Worker[q].serves => p = q
  BY <1>1, <1>2 DEF FbWorker, IgWorker, WaWorker, EmailWorker, StubWorker
<1>. QED
  BY <1>1, <1>3, <1>4

\* What a real platform's worker makes of any answer.
LEMMA SettlementFacts ==
  ASSUME NEW transient, NEW a, "ok" \notin transient, "garbled" \notin transient,
         "noroute" \notin transient
  PROVE  LET s == Settlement(transient, a) IN
         /\ s \in [row : {"sent", "failed", "no_route", None}, settle : {"ack", "nak", "term"}]
         /\ s.settle = "ack" => a = "ok"
         /\ s.row = "sent" => a = "ok"
         /\ s.row = "no_route" => a = "noroute"
         /\ a \in {"ok", "garbled", "noroute"} => s.settle # "nak" /\ s.row # None
         /\ s.settle # "nak" => s.row # None
BY NoneAssumption DEF Settlement, Plan

LEMMA HandleFacts ==
  ASSUME NEW p \in Workers, NEW a \in Worker[p].answers \cup Routed(p)
  PROVE  /\ Handle(p, a) \in [row : {"sent", "failed", "no_route", "agent_reply", None},
                              settle : {"ack", "nak", "term"}]
         /\ Handle(p, a).settle = "ack" => p = "stub" \/ a = "ok"
         /\ Handle(p, a).row = "sent" => a = "ok"
         /\ Handle(p, a).row = "no_route" => a = "noroute"
         /\ a \in {"ok", "garbled", "noroute"} => p # "stub" /\ Handle(p, a).settle # "nak"
         /\ Handle(p, a).settle # "nak" => Handle(p, a).row # None
         /\ p = "stub" => a = "none"
<1>. USE NoneAssumption, WorkerFacts
<1>1. CASE p = "fb"
  <2>1. Handle(p, a) = Settlement(FbTransient, a)
    BY <1>1 DEF Handle, FbHandle
  <2>. QED
    BY <1>1, <2>1, SettlementFacts DEF FbTransient
<1>2. CASE p = "ig"
  <2>1. Handle(p, a) = Settlement(IgTransient, a)
    BY <1>2 DEF Handle, IgHandle
  <2>. QED
    BY <1>2, <2>1, SettlementFacts DEF IgTransient
<1>3. CASE p = "wa"
  <2>1. Handle(p, a) = Settlement(WaTransient, a)
    BY <1>3 DEF Handle, WaHandle
  <2>. QED
    BY <1>3, <2>1, SettlementFacts DEF WaTransient
<1>4. CASE p = "email"
  <2>1. Handle(p, a) = Settlement(EmailTransient, a)
    BY <1>4 DEF Handle, EmailHandle
  <2>. QED
    BY <1>4, <2>1, SettlementFacts DEF EmailTransient
<1>5. CASE p = "stub"
  <2>1. a = "none"
    BY <1>5 DEF Worker, StubWorker, Routed
  <2>. QED
    BY <1>5, <2>1 DEF Handle, StubHandle, Plan
<1>. QED
  BY <1>1, <1>2, <1>3, <1>4, <1>5

\* What an answer says of the delivery.
LEMMA DeliversFacts ==
  ASSUME NEW a, NEW d \in Delivers(a)
  PROVE  /\ d \in BOOLEAN
         /\ a \in {"ok", "garbled"} => d
         /\ a \in {"none", "noroute"} => ~d
BY DEF Delivers
-----------------------------------------------------------------------------
(***************************************************************************)
(* Types: a worker that is at work has the job at the head of its inbox,   *)
(* and its inbox holds jobs of its channels only.                          *)
(***************************************************************************)
Typed ==
  /\ TypeOK
  /\ \A p \in Workers :
       /\ pc[p] # "idle" => inbox[p] # <<>>
       /\ pc[p] \in {"log", "settle"} => plan[p].settle \in {"ack", "nak", "term"}
       /\ pc[p] = "log" => plan[p].row # None
       /\ \A i \in DOMAIN inbox[p] : Ch(inbox[p][i]) \in Worker[p].serves

LEMMA TypeInit == Init => Typed
BY WorkerFacts, BoundAssumption DEF Init, Typed, TypeOK, NoPlan

\* The head of an inbox.
LEMMA HeadFacts ==
  ASSUME Typed, NEW p \in Workers, inbox[p] # <<>>
  PROVE  /\ Head(inbox[p]) \in Replies /\ Ch(Head(inbox[p])) \in Worker[p].serves
         /\ Held(Head(inbox[p]))
         /\ Count(inbox[p], Head(inbox[p])) >= 1
         /\ Tail(inbox[p]) \in Seq(Replies) /\ Len(Tail(inbox[p])) = Len(inbox[p]) - 1
         /\ \A i \in DOMAIN Tail(inbox[p]) : i + 1 \in DOMAIN inbox[p] /\ Tail(inbox[p])[i] = inbox[p][i + 1]
<1>1. inbox[p] \in Seq(Replies)
  BY DEF Typed, TypeOK
<1>2. /\ Head(inbox[p]) = inbox[p][1] /\ Len(inbox[p]) \in Nat \ {0}
      /\ DOMAIN inbox[p] = 1..Len(inbox[p])
  BY <1>1, HeadTailProperties, EmptySeq, LenProperties
<1>3. 1 \in DOMAIN inbox[p] /\ inbox[p][1] \in Replies
  BY <1>1, <1>2, ElementOfSeq
<1>4. Held(Head(inbox[p])) /\ Ch(Head(inbox[p])) \in Worker[p].serves
  BY <1>2, <1>3 DEF Held, Typed
<1>5. Count(inbox[p], Head(inbox[p])) >= 1
  BY <1>1, <1>2, <1>3, CountHead
<1>6. /\ Tail(inbox[p]) \in Seq(Replies) /\ Len(Tail(inbox[p])) = Len(inbox[p]) - 1
      /\ \A i \in 1..Len(Tail(inbox[p])) : Tail(inbox[p])[i] = inbox[p][i + 1]
  BY <1>1, HeadTailProperties
<1>7. DOMAIN Tail(inbox[p]) = 1..(Len(inbox[p]) - 1)
  BY <1>6, LenProperties
<1>. QED
  BY <1>2, <1>3, <1>4, <1>5, <1>6, <1>7

\* What the gateway and the stream do to the types.
LEMMA TypeGateway ==
  ASSUME Typed, NEW r \in Replies,
         AppendMessage(r) \/ OnOutbound(r) \/ LoseJob(r) \/ Lapse(r) \/ AckWaitExpires(r)
  PROVE  Typed'
<1>. USE TicketAssumption, BoundAssumption DEF Typed, TypeOK, Fault, Ch
<1>1. CASE AppendMessage(r)
  <2>1. firstResponse' \in [Tickets -> Replies \cup {None}]
    BY <1>1 DEF AppendMessage, Stamp
  <2>2. reply' \in [Replies -> {"new", "note", "stored", "queued", "lost"}]
    BY <1>1 DEF AppendMessage
  <2>3. UNCHANGED <<channel, job, deliveries, inbox, pc, plan, copies, records, excuses, faults>>
    BY <1>1 DEF AppendMessage
  <2>. QED
    BY <2>1, <2>2, <2>3 DEF records
<1>2. CASE OnOutbound(r)
  BY <1>2 DEF OnOutbound, records
<1>3. CASE LoseJob(r)
  BY <1>3 DEF LoseJob, records
<1>4. CASE Lapse(r)
  BY <1>4 DEF Lapse, records, gateway
<1>5. CASE AckWaitExpires(r)
  BY <1>5 DEF AckWaitExpires, records, gateway
<1>. QED
  BY <1>1, <1>2, <1>3, <1>4, <1>5

LEMMA TypeDeliver ==
  ASSUME Typed, NEW p \in Workers, NEW r \in Replies, Deliver(p, r)
  PROVE  Typed'
<1>. DEFINE s == Append(inbox[p], r)
<1>1. inbox[p] \in Seq(Replies)
  BY DEF Typed, TypeOK
<1>2. /\ s \in Seq(Replies) /\ Len(s) = Len(inbox[p]) + 1 /\ s # <<>>
      /\ \A i \in 1..Len(inbox[p]) : s[i] = inbox[p][i]
      /\ s[Len(inbox[p]) + 1] = r
  BY <1>1, AppendProperties
<1>3. Len(inbox[p]) \in Nat /\ DOMAIN inbox[p] = 1..Len(inbox[p]) /\ DOMAIN s = 1..(Len(inbox[p]) + 1)
  BY <1>1, <1>2, LenProperties
<1>4. inbox' = [inbox EXCEPT ![p] = s]
  BY DEF Deliver
<1>5. Len(s) <= Worker[p].prefetch
  BY <1>2, <1>3, WorkerFacts DEF Deliver, Room
<1>6. \A i \in DOMAIN s : Ch(s[i]) \in Worker[p].serves
  BY <1>2, <1>3 DEF Typed, Deliver
<1>7. /\ inbox' \in [Workers -> Seq(Replies)]
      /\ \A q \in Workers : inbox'[q] = IF q = p THEN s ELSE inbox[q]
  BY <1>2, <1>4 DEF Typed, TypeOK
<1>8. UNCHANGED <<channel, reply, firstResponse, pc, plan, copies, rows, unwritten, excuses, faults>>
  BY DEF Deliver, gateway, records
<1>9. /\ job' \in [Replies -> {"none", "ready", "out", "acked", "termed"}]
      /\ deliveries' \in [Replies -> 0..MaxDeliver]
  BY BoundAssumption DEF Deliver, Typed, TypeOK
<1>. QED
  BY <1>2, <1>5, <1>6, <1>7, <1>8, <1>9 DEF Typed, TypeOK, Ch

LEMMA TypeWorker ==
  ASSUME Typed, NEW p \in Workers,
         \/ Take(p) \/ WriteRow(p) \/ WriteFails(p) \/ Settle(p) \/ Crash(p)
         \/ \E a \in Worker[p].answers \cup Routed(p) : Send(p, a)
  PROVE  Typed'
<1>. USE DEF Typed, TypeOK, Fault, Ch
<1>. DEFINE r == Head(inbox[p])
<1>1. CASE Take(p)
  BY <1>1 DEF Take, Pulled, gateway, records
<1>2. ASSUME NEW a \in Worker[p].answers \cup Routed(p), Send(p, a)
      PROVE  Typed'
  <2>1. r \in Replies
    BY <1>2, HeadFacts DEF Send
  <2>2. copies' \in [Replies -> Nat] /\ excuses' \in [Replies -> Nat]
    BY <1>2, <2>1 DEF Send
  <2>. QED
    BY <1>2, <2>2, HandleFacts DEF Send, gateway, records
<1>3. CASE WriteRow(p)
  <2>1. r \in Replies
    BY <1>3, HeadFacts DEF WriteRow
  <2>. QED
    BY <1>3, <2>1 DEF WriteRow, gateway, records
<1>4. CASE WriteFails(p)
  <2>1. r \in Replies
    BY <1>4, HeadFacts DEF WriteFails
  <2>2. /\ plan' \in [Workers -> [row : {"sent", "failed", "no_route", "agent_reply", None},
                                  settle : {"ack", "nak", "term", None}]]
        /\ \A q \in Workers : q # p => plan'[q] = plan[q]
        /\ plan'[p].settle \in {"ack", "nak", "term"}
    <3>. DEFINE n == Unlogged(p, plan[p].settle)
    <3>1. n \in {"ack", "nak", "term"}
      BY <1>4 DEF WriteFails, Unlogged
    <3>2. plan' = [plan EXCEPT ![p].settle = n]
      BY <1>4 DEF WriteFails
    <3>3. plan \in [Workers -> [row : {"sent", "failed", "no_route", "agent_reply", None},
                                settle : {"ack", "nak", "term", None}]]
      OBVIOUS
    <3>. HIDE DEF n, Typed, TypeOK
    <3>. QED
      BY <3>1, <3>2, <3>3
  <2>3. /\ UNCHANGED <<channel, reply, firstResponse, job, deliveries, inbox, copies, rows, excuses>>
        /\ pc' = [pc EXCEPT ![p] = "settle"] /\ pc[p] = "log"
        /\ unwritten' \subseteq Replies
    BY <1>4, <2>1 DEF WriteFails, gateway
  <2>4. faults' \in 0..MaxFaults
    BY <1>4, BoundAssumption DEF WriteFails
  <2>. QED
    BY <2>2, <2>3, <2>4
<1>5. CASE Settle(p)
  <2>1. inbox[p] # <<>> /\ r \in Replies
    BY <1>5, HeadFacts DEF Settle
  <2>2. /\ Tail(inbox[p]) \in Seq(Replies) /\ Len(Tail(inbox[p])) <= Worker[p].prefetch
        /\ \A i \in DOMAIN Tail(inbox[p]) : Ch(Tail(inbox[p])[i]) \in Worker[p].serves
    <3>1. Len(inbox[p]) \in Nat /\ Len(inbox[p]) <= Worker[p].prefetch
      BY LenProperties
    <3>2. Worker[p].prefetch \in Nat
      BY WorkerFacts
    <3>3. Len(inbox[p]) - 1 <= Worker[p].prefetch
      BY <3>1, <3>2
    <3>4. \A i \in DOMAIN inbox[p] : Ch(inbox[p][i]) \in Worker[p].serves
      OBVIOUS
    <3>. HIDE DEF Ch, Typed, TypeOK
    <3>. QED
      BY <2>1, <3>3, <3>4, HeadFacts
  <2>3. job' \in [Replies -> {"none", "ready", "out", "acked", "termed"}]
    BY <1>5, <2>1 DEF Settle
  <2>4. /\ inbox' \in [Workers -> Seq(Replies)]
        /\ \A q \in Workers : inbox'[q] = IF q = p THEN Tail(inbox[p]) ELSE inbox[q]
    BY <1>5, <2>2 DEF Settle
  <2>5. /\ UNCHANGED <<channel, reply, firstResponse, deliveries, copies, rows, unwritten, excuses, faults>>
        /\ pc' = [pc EXCEPT ![p] = "idle"] /\ plan' = [plan EXCEPT ![p] = NoPlan]
    BY <1>5 DEF Settle, gateway, records
  <2>6. plan' \in [Workers -> [row : {"sent", "failed", "no_route", "agent_reply", None},
                               settle : {"ack", "nak", "term", None}]]
    BY <2>5 DEF NoPlan
  <2>7. \A q \in Workers : /\ Len(inbox'[q]) <= Worker[q].prefetch
                           /\ \A i \in DOMAIN inbox'[q] : Ch(inbox'[q][i]) \in Worker[q].serves
    BY <2>2, <2>4
  <2>. QED
    BY <2>3, <2>4, <2>5, <2>6, <2>7
<1>6. CASE Crash(p)
  <2>1. r \in Replies
    BY <1>6, HeadFacts DEF Crash
  <2>2. /\ inbox' \in [Workers -> Seq(Replies)]
        /\ \A q \in Workers : inbox'[q] = IF q = p THEN <<>> ELSE inbox[q]
    BY <1>6 DEF Crash
  <2>3. excuses' \in [Replies -> Nat]
    BY <1>6, <2>1 DEF Crash
  <2>4. Len(<<>>) <= Worker[p].prefetch /\ DOMAIN <<>> = {}
    <3>1. Worker[p].prefetch \in Nat
      BY WorkerFacts
    <3>2. Len(<<>>) = 0 /\ DOMAIN <<>> = {}
      OBVIOUS
    <3>. HIDE DEF Typed, TypeOK
    <3>. QED
      BY <3>1, <3>2
  <2>5. /\ UNCHANGED <<channel, reply, firstResponse, job, deliveries, copies, rows, unwritten>>
        /\ pc' = [pc EXCEPT ![p] = "idle"] /\ plan' = [plan EXCEPT ![p] = NoPlan]
    BY <1>6 DEF Crash, gateway, records
  <2>6. faults' \in 0..MaxFaults
    BY <1>6, BoundAssumption DEF Crash
  <2>. QED
    BY <2>2, <2>3, <2>4, <2>5, <2>6 DEF NoPlan
<1>. QED
  BY <1>1, <1>2, <1>3, <1>4, <1>5, <1>6

LEMMA TypeStep == Typed /\ [Next]_vars => Typed'
<1>. SUFFICES ASSUME Typed, [Next]_vars PROVE Typed'
  OBVIOUS
<1>1. UNCHANGED vars => Typed'
  BY DEF vars, Typed, TypeOK, Ch
<1>. QED
  BY <1>1, TypeGateway, TypeDeliver, TypeWorker DEF Next, Loop, Done

\* The variables have the types TypeOK gives them, in every reachable state;
\* no inbox holds more than its consumer's PullMaxMessages.
THEOREM TypeCorrect == Spec => []TypeOK
<1>1. Typed => TypeOK
  BY DEF Typed
<1>. QED
  BY <1>1, TypeInit, TypeStep, PTL DEF Spec
-----------------------------------------------------------------------------
(***************************************************************************)
(* Only a queued reply has a job, in the stream or in an inbox.            *)
(***************************************************************************)
JobInv ==
  /\ \A r \in Replies : reply[r] # "queued" => job[r] = "none"
  /\ \A p \in Workers : \A i \in DOMAIN inbox[p] : reply[inbox[p][i]] = "queued"

LEMMA JobGateway ==
  ASSUME Typed, JobInv, NEW r \in Replies,
         AppendMessage(r) \/ OnOutbound(r) \/ LoseJob(r) \/ Lapse(r) \/ AckWaitExpires(r)
  PROVE  JobInv'
<1>1. reply \in [Replies -> {"new", "note", "stored", "queued", "lost"}]
  BY DEF Typed, TypeOK
<1>2. job \in [Replies -> {"none", "ready", "out", "acked", "termed"}]
  BY DEF Typed, TypeOK
<1>3. \A p \in Workers : \A i \in DOMAIN inbox[p] : inbox[p][i] \in Replies
  BY ElementOfSeq, LenProperties DEF Typed, TypeOK
<1>4. inbox' = inbox
  BY DEF AppendMessage, OnOutbound, LoseJob, Lapse, AckWaitExpires
<1>5. \A x \in Replies : reply[x] = "queued" => reply'[x] = "queued"
  BY <1>1 DEF AppendMessage, OnOutbound, LoseJob, Lapse, AckWaitExpires, gateway
<1>6. \A x \in Replies : reply'[x] # "queued" => job'[x] = "none"
  BY <1>1, <1>2 DEF JobInv, AppendMessage, OnOutbound, LoseJob, Lapse, AckWaitExpires, gateway
<1>. QED
  BY <1>3, <1>4, <1>5, <1>6 DEF JobInv

LEMMA JobWorker ==
  ASSUME Typed, JobInv, NEW p \in Workers,
         \/ \E r \in Replies : Deliver(p, r)
         \/ Take(p) \/ WriteRow(p) \/ WriteFails(p) \/ Settle(p) \/ Crash(p)
         \/ \E a \in Worker[p].answers \cup Routed(p) : Send(p, a)
  PROVE  JobInv'
<1>1. /\ job \in [Replies -> {"none", "ready", "out", "acked", "termed"}]
      /\ inbox \in [Workers -> Seq(Replies)]
  BY DEF Typed, TypeOK
<1>2. ASSUME NEW r \in Replies, Deliver(p, r)
      PROVE  JobInv'
  <2>. DEFINE s == Append(inbox[p], r)
  <2>1. reply[r] = "queued"
    BY <1>2 DEF JobInv, Deliver
  <2>2. Len(inbox[p]) \in Nat /\ DOMAIN inbox[p] = 1..Len(inbox[p])
    BY <1>1, LenProperties
  <2>3. /\ s \in Seq(Replies) /\ Len(s) = Len(inbox[p]) + 1 /\ s[Len(inbox[p]) + 1] = r
        /\ \A i \in 1..Len(inbox[p]) : s[i] = inbox[p][i]
    BY <1>1, AppendProperties
  <2>4. DOMAIN s = 1..(Len(inbox[p]) + 1)
    BY <2>3, LenProperties
  <2>5. \A i \in DOMAIN s : reply[s[i]] = "queued"
    BY <2>1, <2>2, <2>3, <2>4 DEF JobInv
  <2>6. \A q \in Workers : inbox'[q] = IF q = p THEN s ELSE inbox[q]
    BY <1>1, <1>2 DEF Deliver
  <2>7. reply' = reply /\ job' = [job EXCEPT ![r] = "out"]
    BY <1>2 DEF Deliver, gateway
  <2>. HIDE DEF s
  <2>. QED
    BY <1>1, <2>1, <2>5, <2>6, <2>7 DEF JobInv
<1>3. CASE \/ Take(p) \/ WriteRow(p) \/ WriteFails(p)
           \/ \E a \in Worker[p].answers \cup Routed(p) : Send(p, a)
  <2>1. UNCHANGED <<reply, job, inbox>>
    BY <1>3 DEF Take, WriteRow, WriteFails, Send, gateway
  <2>. QED
    BY <2>1 DEF JobInv
<1>4. CASE Settle(p)
  <2>1. inbox[p] # <<>>
    BY <1>4 DEF Settle, Typed
  <2>2. Head(inbox[p]) \in Replies /\ reply[Head(inbox[p])] = "queued"
    <3>1. Head(inbox[p]) = inbox[p][1] /\ 1 \in DOMAIN inbox[p]
      BY <1>1, <2>1, HeadTailProperties, EmptySeq, LenProperties
    <3>. QED
      BY <2>1, <3>1, HeadFacts DEF JobInv
  <2>3. \A q \in Workers : inbox'[q] = IF q = p THEN Tail(inbox[p]) ELSE inbox[q]
    BY <1>1, <1>4 DEF Settle
  <2>4. \A i \in DOMAIN Tail(inbox[p]) : reply[Tail(inbox[p])[i]] = "queued"
    BY <2>1, HeadFacts DEF JobInv
  <2>5. reply' = reply /\ \A x \in Replies : x # Head(inbox[p]) => job'[x] = job[x]
    BY <1>1, <1>4 DEF Settle, gateway
  <2>6. \A x \in Replies : reply'[x] # "queued" => job'[x] = "none"
    BY <2>2, <2>5 DEF JobInv
  <2>7. ASSUME NEW q \in Workers
        PROVE  \A i \in DOMAIN inbox'[q] : reply[inbox'[q][i]] = "queued"
    <3>1. CASE q = p
      BY <2>3, <2>4, <3>1
    <3>2. CASE q # p
      BY <2>3, <3>2 DEF JobInv
    <3>. QED
      BY <3>1, <3>2
  <2>. QED
    BY <2>5, <2>6, <2>7 DEF JobInv
<1>5. CASE Crash(p)
  <2>1. \A q \in Workers : inbox'[q] = IF q = p THEN <<>> ELSE inbox[q]
    BY <1>1, <1>5 DEF Crash
  <2>2. UNCHANGED <<reply, job>>
    BY <1>5 DEF Crash, gateway
  <2>. QED
    BY <2>1, <2>2 DEF JobInv
<1>. QED
  BY <1>2, <1>3, <1>4, <1>5

LEMMA JobStep == Typed /\ JobInv /\ [Next]_vars => JobInv'
<1>. SUFFICES ASSUME Typed, JobInv, [Next]_vars PROVE JobInv'
  OBVIOUS
<1>1. UNCHANGED vars => JobInv'
  BY DEF vars, JobInv
<1>. QED
  BY <1>1, JobGateway, JobWorker DEF Next, Loop, Done
-----------------------------------------------------------------------------
(***************************************************************************)
(* The potential.  For a reply and the worker of its channel: the texts    *)
(* the customer got, one more send if the stream may hand the job out, and *)
(* one for each time the job waits in the inbox, but for the head that was *)
(* sent and will be settled for good.                                      *)
(***************************************************************************)
Serves(p, r) == Ch(r) \in Worker[p].serves

Free(p, r) == \/ job[r] \in {"none", "ready"}
              \/ job[r] = "out" /\ Count(inbox[p], r) = 0

Spent(p, r) == /\ pc[p] \in {"log", "settle"} /\ Head(inbox[p]) = r
               /\ p # "stub" /\ plan[p].settle # "nak"

Bit(b) == IF b THEN 1 ELSE 0

Weight(p, r) == copies[r] + Bit(Free(p, r)) + Count(inbox[p], r) - Bit(Spent(p, r))

\* The part of a step's effect on r's weight and excuses.
Balanced(p, r) == Weight(p, r)' + excuses[r] <= Weight(p, r) + excuses'[r]

\* The numbers a weight is made of, and that it bounds the copies.
LEMMA WeightFacts ==
  ASSUME Typed, NEW p \in Workers, NEW r \in Replies
  PROVE  /\ copies[r] \in Nat /\ excuses[r] \in Nat /\ Count(inbox[p], r) \in Nat
         /\ Bit(Free(p, r)) \in 0..1 /\ Bit(Spent(p, r)) \in 0..1
         /\ Spent(p, r) => Count(inbox[p], r) >= 1
         /\ copies[r] <= Weight(p, r) /\ Weight(p, r) \in Nat
<1>1. copies[r] \in Nat /\ excuses[r] \in Nat /\ inbox[p] \in Seq(Replies)
  BY DEF Typed, TypeOK
<1>2. Count(inbox[p], r) \in Nat
  BY <1>1, OccFinite
<1>3. Bit(Free(p, r)) \in 0..1 /\ Bit(Spent(p, r)) \in 0..1 /\ (~Spent(p, r) => Bit(Spent(p, r)) = 0)
  BY DEF Bit
<1>4. Spent(p, r) => Count(inbox[p], r) >= 1
  BY HeadFacts DEF Spent, Typed
<1>. QED
  BY <1>1, <1>2, <1>3, <1>4 DEF Weight

\* What a step leaves alone leaves the weight alone.
LEMMA BalancedFrame ==
  ASSUME Typed, NEW p \in Workers, NEW r \in Replies,
         UNCHANGED <<copies[r], excuses[r], inbox[p], pc[p], plan[p]>>,
         Free(p, r)' => Free(p, r)
  PROVE  Balanced(p, r)
<1>1. Spent(p, r)' <=> Spent(p, r)
  BY DEF Spent
<1>2. Bit(Free(p, r))' <= Bit(Free(p, r)) /\ Bit(Spent(p, r))' = Bit(Spent(p, r))
  BY <1>1 DEF Bit
<1>3. Count(inbox[p], r)' = Count(inbox[p], r)
  BY DEF Count, Occ
<1>4. /\ copies[r] \in Nat /\ excuses[r] \in Nat /\ Count(inbox[p], r) \in Nat
      /\ Bit(Free(p, r)) \in 0..1 /\ Bit(Spent(p, r)) \in 0..1 /\ Bit(Free(p, r))' \in 0..1
  BY WeightFacts DEF Bit
<1>. QED
  BY <1>2, <1>3, <1>4 DEF Balanced, Weight

\* A job nobody holds is in no inbox.
LEMMA NotHeld ==
  ASSUME NEW p \in Workers, NEW r \in Replies, ~Held(r)
  PROVE  Count(inbox[p], r) = 0
<1>1. Occ(inbox[p], r) = {}
  BY DEF Occ, Held
<1>. QED
  BY <1>1, FS_EmptySet DEF Count

LEMMA BalancedGateway ==
  ASSUME Typed, JobInv, NEW p \in Workers, NEW r \in Replies, NEW x \in Replies,
         \/ AppendMessage(x) \/ OnOutbound(x) \/ LoseJob(x) \/ AckWaitExpires(x)
         \/ Lapse(x)
  PROVE  Balanced(p, r)
<1>1. job \in [Replies -> {"none", "ready", "out", "acked", "termed"}]
  BY DEF Typed, TypeOK
<1>2. CASE \/ AppendMessage(x) \/ OnOutbound(x) \/ LoseJob(x) \/ AckWaitExpires(x)
  <2>1. UNCHANGED <<copies, excuses, inbox, pc, plan>>
    BY <1>2 DEF AppendMessage, OnOutbound, LoseJob, AckWaitExpires
  <2>2. Count(inbox[p], r)' = Count(inbox[p], r)
    BY <2>1 DEF Count, Occ
  <2>3. job'[r] = job[r] \/ Free(p, r)
    <3>1. CASE AppendMessage(x) \/ LoseJob(x)
      BY <3>1 DEF AppendMessage, LoseJob
    <3>2. CASE OnOutbound(x) /\ x = r
      BY <3>2 DEF OnOutbound, JobInv, Free
    <3>3. CASE AckWaitExpires(x) /\ x = r
      BY <3>3, NotHeld DEF AckWaitExpires, Free
    <3>4. CASE x # r /\ (OnOutbound(x) \/ AckWaitExpires(x))
      BY <1>1, <3>4 DEF OnOutbound, AckWaitExpires
    <3>. QED
      BY <1>2, <3>1, <3>2, <3>3, <3>4
  <2>4. Free(p, r)' => Free(p, r)
    BY <2>2, <2>3 DEF Free
  <2>. QED
    BY <2>1, <2>4, BalancedFrame
<1>3. CASE Lapse(x)
  <2>1. UNCHANGED <<copies, inbox, pc, plan>>
    BY <1>3 DEF Lapse
  <2>2. excuses' = [excuses EXCEPT ![x] = @ + 1] /\ excuses \in [Replies -> Nat]
    BY <1>3 DEF Lapse, Typed, TypeOK
  <2>3. CASE x # r
    <3>1. job'[r] = job[r] /\ excuses'[r] = excuses[r]
      BY <1>1, <1>3, <2>2, <2>3 DEF Lapse
    <3>2. Count(inbox[p], r)' = Count(inbox[p], r)
      BY <2>1 DEF Count, Occ
    <3>. QED
      BY <2>1, <3>1, <3>2, BalancedFrame DEF Free
  <2>4. CASE x = r
    <3>1. excuses'[r] = excuses[r] + 1
      BY <2>2, <2>4
    <3>2. Spent(p, r)' <=> Spent(p, r)
      BY <2>1 DEF Spent
    <3>3. Count(inbox[p], r)' = Count(inbox[p], r) /\ Bit(Spent(p, r))' = Bit(Spent(p, r))
      BY <2>1, <3>2 DEF Count, Occ, Bit
    <3>4. Bit(Free(p, r))' \in 0..1
      BY DEF Bit
    <3>5. /\ copies[r] \in Nat /\ excuses[r] \in Nat /\ Count(inbox[p], r) \in Nat
          /\ Bit(Free(p, r)) \in 0..1 /\ Bit(Spent(p, r)) \in 0..1
      BY WeightFacts
    <3>. QED
      BY <2>1, <3>1, <3>3, <3>4, <3>5 DEF Balanced, Weight
  <2>. QED
    BY <2>3, <2>4
<1>. QED
  BY <1>2, <1>3

(***************************************************************************)
(* A worker's step leaves the other workers and the replies of their       *)
(* channels alone.                                                         *)
(***************************************************************************)
Works(q) == \/ \E x \in Replies : Deliver(q, x)
            \/ Take(q) \/ WriteRow(q) \/ WriteFails(q) \/ Settle(q) \/ Crash(q)
            \/ \E a \in Worker[q].answers \cup Routed(q) : Send(q, a)

LEMMA WorkerFrame ==
  ASSUME Typed, NEW q \in Workers, Works(q)
  PROVE  /\ channel' = channel /\ reply' = reply
         /\ \A p \in Workers : p # q =>
              inbox'[p] = inbox[p] /\ pc'[p] = pc[p] /\ plan'[p] = plan[p]
         /\ \A r \in Replies : ~Serves(q, r) =>
              /\ copies'[r] = copies[r] /\ excuses'[r] = excuses[r] /\ job'[r] = job[r]
              /\ rows'[r] = rows[r]
<1>1. /\ job \in [Replies -> {"none", "ready", "out", "acked", "termed"}]
      /\ inbox \in [Workers -> Seq(Replies)]
      /\ copies \in [Replies -> Nat] /\ excuses \in [Replies -> Nat]
      /\ rows \in [Replies -> SUBSET {"sent", "failed", "no_route", "agent_reply"}]
      /\ pc \in [Workers -> {"idle", "handle", "log", "settle"}]
      /\ plan \in [Workers -> [row : {"sent", "failed", "no_route", "agent_reply", None},
                               settle : {"ack", "nak", "term", None}]]
  BY DEF Typed, TypeOK
<1>2. ASSUME NEW x \in Replies, Deliver(q, x)
      PROVE  /\ \A p \in Workers : p # q =>
                  inbox'[p] = inbox[p] /\ pc'[p] = pc[p] /\ plan'[p] = plan[p]
             /\ \A r \in Replies : ~Serves(q, r) =>
                  /\ copies'[r] = copies[r] /\ excuses'[r] = excuses[r] /\ job'[r] = job[r]
                  /\ rows'[r] = rows[r]
  BY <1>1, <1>2 DEF Deliver, records, Serves
<1>3. inbox[q] # <<>> => Head(inbox[q]) \in Replies /\ Serves(q, Head(inbox[q]))
  BY HeadFacts DEF Serves
<1>4. pc[q] # "idle" => inbox[q] # <<>>
  BY DEF Typed
<1>5. channel' = channel /\ reply' = reply
  BY DEF Works, Deliver, Take, WriteRow, WriteFails, Settle, Crash, Send, gateway
<1>6. ASSUME ~ \E x \in Replies : Deliver(q, x), NEW p \in Workers, p # q
      PROVE  inbox'[p] = inbox[p] /\ pc'[p] = pc[p] /\ plan'[p] = plan[p]
  <2>1. inbox'[p] = inbox[p]
    BY <1>1, <1>6 DEF Works, Take, WriteRow, WriteFails, Settle, Crash, Send
  <2>2. pc'[p] = pc[p]
    BY <1>1, <1>6 DEF Works, Take, WriteRow, WriteFails, Settle, Crash, Send
  <2>3. plan'[p] = plan[p]
    <3>1. CASE WriteFails(q)
      <4>. DEFINE n == [plan[q] EXCEPT !.settle = Unlogged(q, @)]
      <4>1. plan' = [plan EXCEPT ![q] = n]
        BY <3>1 DEF WriteFails
      <4>. HIDE DEF n
      <4>. QED
        BY <1>1, <1>6, <4>1
    <3>2. CASE ~WriteFails(q)
      BY <1>1, <1>6, <3>2 DEF Works, Take, WriteRow, Settle, Crash, Send
    <3>. QED
      BY <3>1, <3>2
  <2>. QED
    BY <2>1, <2>2, <2>3
<1>7. ASSUME ~ \E x \in Replies : Deliver(q, x), NEW r \in Replies, ~Serves(q, r)
      PROVE  /\ copies'[r] = copies[r] /\ excuses'[r] = excuses[r] /\ job'[r] = job[r]
             /\ rows'[r] = rows[r]
  <2>1. inbox[q] # <<>> => r # Head(inbox[q])
    BY <1>3, <1>7
  <2>2. copies'[r] = copies[r] /\ excuses'[r] = excuses[r]
    BY <1>1, <1>4, <1>7, <2>1 DEF Works, Take, WriteRow, WriteFails, Settle, Crash, Send
  <2>3. job'[r] = job[r] /\ rows'[r] = rows[r]
    BY <1>1, <1>4, <1>7, <2>1 DEF Works, Take, WriteRow, WriteFails, Settle, Crash, Send, records
  <2>. QED
    BY <2>2, <2>3
<1>. QED
  BY <1>2, <1>5, <1>6, <1>7

\* Another worker's step is not about this worker's jobs.
LEMMA BalancedElsewhere ==
  ASSUME Typed, NEW p \in Workers, NEW q \in Workers, p # q,
         NEW r \in Replies, Serves(p, r), Works(q)
  PROVE  Balanced(p, r)
<1>1. ~Serves(q, r)
  BY WorkerFacts DEF Serves
<1>2. /\ inbox'[p] = inbox[p] /\ pc'[p] = pc[p] /\ plan'[p] = plan[p]
      /\ copies'[r] = copies[r] /\ excuses'[r] = excuses[r] /\ job'[r] = job[r]
  BY <1>1, WorkerFrame
<1>3. Count(inbox[p], r)' = Count(inbox[p], r)
  BY <1>2 DEF Count, Occ
<1>4. Free(p, r)' => Free(p, r)
  BY <1>2, <1>3 DEF Free
<1>. QED
  BY <1>2, <1>4, BalancedFrame

\* The numbers of a worker's step, one lemma for each shape of it.
LEMMA BalancedDeliver ==
  ASSUME Typed, NEW p \in Workers, NEW r \in Replies, NEW x \in Replies, Deliver(p, x)
  PROVE  Balanced(p, r)
<1>1. /\ job \in [Replies -> {"none", "ready", "out", "acked", "termed"}]
      /\ inbox \in [Workers -> Seq(Replies)]
  BY DEF Typed, TypeOK
<1>2. inbox'[p] = Append(inbox[p], x)
  BY <1>1 DEF Deliver
<1>3. Count(inbox[p], r)' = IF x = r THEN Count(inbox[p], r) + 1 ELSE Count(inbox[p], r)
  <2>1. Count(Append(inbox[p], x), r) = IF x = r THEN Count(inbox[p], r) + 1 ELSE Count(inbox[p], r)
    BY <1>1, CountAppend
  <2>. QED
    BY <1>2, <2>1 DEF Count, Occ
<1>4. Spent(p, r)' <=> Spent(p, r)
  <2>1. UNCHANGED <<pc, plan>>
    BY DEF Deliver
  <2>2. CASE pc[p] \in {"log", "settle"}
    <3>1. inbox[p] # <<>>
      BY <2>2 DEF Typed
    <3>2. Head(Append(inbox[p], x)) = Head(inbox[p])
      BY <1>1, <3>1, AppendProperties, HeadTailProperties, EmptySeq
    <3>. QED
      BY <1>2, <2>1, <3>2 DEF Spent
  <2>3. CASE pc[p] \notin {"log", "settle"}
    BY <2>1, <2>3 DEF Spent
  <2>. QED
    BY <2>2, <2>3
<1>5. /\ copies[r] \in Nat /\ excuses[r] \in Nat /\ Count(inbox[p], r) \in Nat
      /\ Bit(Free(p, r)) \in 0..1 /\ Bit(Spent(p, r)) \in 0..1
  BY WeightFacts
<1>6. /\ copies' = copies /\ excuses' = excuses
      /\ Bit(Spent(p, r))' = Bit(Spent(p, r))
  BY <1>4 DEF Deliver, Bit
<1>7. CASE x = r
  <2>1. Bit(Free(p, r)) = 1
    BY <1>7 DEF Deliver, Free, Bit
  <2>2. job'[r] = "out" /\ Count(inbox[p], r)' # 0
    BY <1>1, <1>3, <1>5, <1>7 DEF Deliver
  <2>3. Bit(Free(p, r))' = 0
    BY <2>2 DEF Free, Bit
  <2>. QED
    BY <1>3, <1>5, <1>6, <1>7, <2>1, <2>3 DEF Balanced, Weight
<1>8. CASE x # r
  <2>1. job'[r] = job[r]
    BY <1>1, <1>8 DEF Deliver
  <2>2. Bit(Free(p, r))' = Bit(Free(p, r))
    BY <1>3, <1>8, <2>1 DEF Free, Bit
  <2>. QED
    BY <1>3, <1>5, <1>6, <1>8, <2>2 DEF Balanced, Weight
<1>. QED
  BY <1>7, <1>8

LEMMA BalancedHandle ==
  ASSUME Typed, NEW p \in Workers, NEW r \in Replies,
         \/ Take(p) \/ WriteRow(p) \/ WriteFails(p)
         \/ \E a \in Worker[p].answers \cup Routed(p) : Send(p, a)
  PROVE  Balanced(p, r)
<1>1. /\ copies \in [Replies -> Nat] /\ excuses \in [Replies -> Nat]
      /\ pc \in [Workers -> {"idle", "handle", "log", "settle"}]
      /\ plan \in [Workers -> [row : {"sent", "failed", "no_route", "agent_reply", None},
                               settle : {"ack", "nak", "term", None}]]
  BY DEF Typed, TypeOK
<1>2. UNCHANGED <<inbox, job>>
  BY DEF Take, WriteRow, WriteFails, Send
<1>3. Count(inbox[p], r)' = Count(inbox[p], r)
  BY <1>2 DEF Count, Occ
<1>4. Bit(Free(p, r))' = Bit(Free(p, r))
  BY <1>2, <1>3 DEF Free, Bit
<1>5. /\ copies[r] \in Nat /\ excuses[r] \in Nat /\ Count(inbox[p], r) \in Nat
      /\ Bit(Free(p, r)) \in 0..1 /\ Bit(Spent(p, r)) \in 0..1
  BY WeightFacts
<1>6. CASE Take(p) \/ WriteRow(p) \/ WriteFails(p)
  <2>1. copies' = copies /\ excuses' = excuses
    BY <1>6 DEF Take, WriteRow, WriteFails
  <2>2. Spent(p, r) => Spent(p, r)'
    <3>1. CASE Take(p)
      BY <3>1 DEF Take, Spent
    <3>2. CASE WriteRow(p)
      BY <1>1, <3>2 DEF WriteRow, Spent
    <3>3. CASE WriteFails(p)
      <4>. DEFINE n == Unlogged(p, plan[p].settle)
      <4>1. p # "stub" => n = plan[p].settle
        BY DEF Unlogged
      <4>2. plan' = [plan EXCEPT ![p].settle = n]
        BY <3>3 DEF WriteFails
      <4>. HIDE DEF n
      <4>3. plan'[p].settle = n
        BY <1>1, <4>2
      <4>4. pc'[p] = "settle" /\ inbox' = inbox
        BY <1>1, <3>3 DEF WriteFails
      <4>. QED
        BY <4>1, <4>3, <4>4 DEF Spent
    <3>. QED
      BY <1>6, <3>1, <3>2, <3>3
  <2>3. Bit(Spent(p, r)) <= Bit(Spent(p, r))' /\ Bit(Spent(p, r))' \in 0..1
    BY <2>2 DEF Bit
  <2>. QED
    BY <1>3, <1>4, <1>5, <2>1, <2>3 DEF Balanced, Weight
<1>7. ASSUME NEW a \in Worker[p].answers \cup Routed(p), Send(p, a)
      PROVE  Balanced(p, r)
  <2>. DEFINE h == Head(inbox[p])
  <2>1. PICK delivered \in Delivers(a) :
          /\ copies' = [copies EXCEPT ![h] = IF delivered THEN @ + 1 ELSE @]
          /\ excuses' = [excuses EXCEPT ![h] =
                           IF delivered /\ a \notin {"ok", "garbled"} THEN @ + 1 ELSE @]
    BY <1>7 DEF Send
  <2>2. h \in Replies
    BY <1>7, HeadFacts DEF Send, Typed
  <2>3. ~Spent(p, r)
    BY <1>7 DEF Send, Spent
  <2>4. Bit(Spent(p, r)) = 0 /\ Bit(Spent(p, r))' \in 0..1
    BY <2>3 DEF Bit
  <2>5. CASE h # r
    <3>1. copies'[r] = copies[r] /\ excuses'[r] = excuses[r]
      BY <1>1, <2>1, <2>2, <2>5
    <3>. QED
      BY <1>3, <1>4, <1>5, <2>4, <3>1 DEF Balanced, Weight
  <2>6. CASE h = r /\ ~(delivered /\ a \in {"ok", "garbled"})
    <3>1. copies'[r] - copies[r] = excuses'[r] - excuses[r] /\ copies'[r] \in Nat /\ excuses'[r] \in Nat
      BY <1>1, <2>1, <2>2, <2>6
    <3>. QED
      BY <1>3, <1>4, <1>5, <2>4, <3>1 DEF Balanced, Weight
  <2>7. CASE h = r /\ delivered /\ a \in {"ok", "garbled"}
    <3>1. copies'[r] = copies[r] + 1 /\ excuses'[r] = excuses[r]
      BY <1>1, <2>1, <2>2, <2>7
    <3>2. p # "stub" /\ Handle(p, a).settle # "nak"
      BY <2>7, HandleFacts
    <3>3. plan'[p] = Handle(p, a) /\ pc'[p] \in {"log", "settle"}
      BY <1>1, <1>7 DEF Send
    <3>4. Spent(p, r)'
      BY <1>2, <2>7, <3>2, <3>3 DEF Spent
    <3>5. Bit(Spent(p, r))' = 1
      BY <3>4 DEF Bit
    <3>. QED
      BY <1>3, <1>4, <1>5, <2>4, <3>1, <3>5 DEF Balanced, Weight
  <2>. QED
    BY <2>5, <2>6, <2>7
<1>. QED
  BY <1>6, <1>7

LEMMA BalancedSettle ==
  ASSUME Typed, NEW p \in Workers, NEW r \in Replies, Settle(p)
  PROVE  Balanced(p, r)
<1>1. /\ job \in [Replies -> {"none", "ready", "out", "acked", "termed"}]
      /\ inbox \in [Workers -> Seq(Replies)]
      /\ pc \in [Workers -> {"idle", "handle", "log", "settle"}]
  BY DEF Typed, TypeOK
<1>2. inbox[p] # <<>> /\ pc[p] = "settle" /\ Head(inbox[p]) \in Replies
  BY HeadFacts DEF Typed, Settle
<1>3. UNCHANGED <<copies, excuses>> /\ pc'[p] = "idle" /\ inbox'[p] = Tail(inbox[p])
  BY <1>1 DEF Settle
<1>4. /\ Count(inbox[p], r) = IF Head(inbox[p]) = r THEN Count(Tail(inbox[p]), r) + 1
                              ELSE Count(Tail(inbox[p]), r)
      /\ Count(Tail(inbox[p]), r) \in Nat
  BY <1>1, <1>2, CountTail, HeadFacts, OccFinite
<1>5. Count(inbox[p], r)' = Count(Tail(inbox[p]), r)
  BY <1>3 DEF Count, Occ
<1>6. Bit(Spent(p, r))' = 0
  BY <1>3 DEF Spent, Bit
<1>7. /\ copies[r] \in Nat /\ excuses[r] \in Nat /\ Count(inbox[p], r) \in Nat
      /\ Bit(Free(p, r)) \in 0..1 /\ Bit(Spent(p, r)) \in 0..1
  BY WeightFacts
<1>8. CASE Head(inbox[p]) # r
  <2>1. job'[r] = job[r]
    BY <1>1, <1>2, <1>8 DEF Settle
  <2>2. Bit(Free(p, r))' = Bit(Free(p, r))
    BY <1>4, <1>5, <1>8, <2>1 DEF Free, Bit
  <2>3. Bit(Spent(p, r)) = 0
    BY <1>8 DEF Spent, Bit
  <2>. QED
    BY <1>3, <1>4, <1>5, <1>6, <1>7, <1>8, <2>2, <2>3 DEF Balanced, Weight
<1>9. CASE Head(inbox[p]) = r /\ Settled(r)
  <2>1. job'[r] = job[r]
    BY <1>1, <1>2, <1>9 DEF Settle
  <2>2. Bit(Free(p, r))' = 0
    BY <1>9, <2>1 DEF Free, Settled, Bit
  <2>. QED
    BY <1>3, <1>4, <1>5, <1>6, <1>7, <1>9, <2>2 DEF Balanced, Weight
<1>10. CASE Head(inbox[p]) = r /\ ~Settled(r)
  <2>1. CASE plan[p].settle = "nak"
    <3>1. Bit(Spent(p, r)) = 0 /\ Bit(Free(p, r))' \in 0..1
      BY <2>1 DEF Spent, Bit
    <3>. QED
      BY <1>3, <1>4, <1>5, <1>6, <1>7, <1>10, <3>1 DEF Balanced, Weight
  <2>2. CASE plan[p].settle # "nak"
    <3>1. plan[p].settle \in {"ack", "term"}
      BY <1>2, <2>2 DEF Typed
    <3>2. job'[r] \in {"acked", "termed"}
      BY <1>1, <1>2, <1>10, <3>1 DEF Settle
    <3>3. Bit(Free(p, r))' = 0
      BY <3>2 DEF Free, Bit
    <3>. QED
      BY <1>3, <1>4, <1>5, <1>6, <1>7, <1>10, <3>3 DEF Balanced, Weight
  <2>. QED
    BY <2>1, <2>2
<1>. QED
  BY <1>8, <1>9, <1>10

LEMMA BalancedCrash ==
  ASSUME Typed, NEW p \in Workers, NEW r \in Replies, Crash(p)
  PROVE  Balanced(p, r)
<1>1. /\ inbox \in [Workers -> Seq(Replies)] /\ excuses \in [Replies -> Nat]
      /\ pc \in [Workers -> {"idle", "handle", "log", "settle"}]
  BY DEF Typed, TypeOK
<1>2. inbox[p] # <<>> /\ Head(inbox[p]) \in Replies
  BY HeadFacts DEF Crash
<1>3. UNCHANGED <<copies, job>> /\ pc'[p] = "idle" /\ inbox'[p] = <<>>
  BY <1>1 DEF Crash
<1>4. Count(inbox[p], r)' = 0
  <2>1. Count(<<>>, r) = 0
    BY CountEmpty
  <2>. QED
    BY <1>3, <2>1 DEF Count, Occ
<1>5. Bit(Spent(p, r))' = 0 /\ Bit(Free(p, r))' \in 0..1
  BY <1>3 DEF Spent, Bit
<1>6. /\ copies[r] \in Nat /\ excuses[r] \in Nat /\ Count(inbox[p], r) \in Nat
      /\ Bit(Free(p, r)) \in 0..1 /\ Bit(Spent(p, r)) \in 0..1
      /\ Spent(p, r) => Count(inbox[p], r) >= 1
  BY WeightFacts
<1>7. excuses'[r] \in Nat /\ excuses'[r] >= excuses[r] + Bit(Spent(p, r))
  <2>1. CASE Spent(p, r)
    BY <1>1, <1>2, <1>6, <2>1 DEF Crash, Spent, Bit
  <2>2. CASE ~Spent(p, r)
    BY <1>1, <1>2, <1>6, <2>2 DEF Crash, Bit
  <2>. QED
    BY <2>1, <2>2
<1>8. CASE Count(inbox[p], r) = 0
  <2>1. Bit(Free(p, r))' = Bit(Free(p, r))
    BY <1>3, <1>4, <1>8 DEF Free, Bit
  <2>. QED
    BY <1>3, <1>4, <1>5, <1>6, <1>7, <1>8, <2>1 DEF Balanced, Weight
<1>9. CASE Count(inbox[p], r) # 0
  BY <1>3, <1>4, <1>5, <1>6, <1>7, <1>9 DEF Balanced, Weight
<1>. QED
  BY <1>8, <1>9

\* A step puts no text on a customer's side that is not paid for.
LEMMA BalancedStep ==
  ASSUME Typed, JobInv, NEW p \in Workers, NEW r \in Replies, Serves(p, r), [Next]_vars
  PROVE  Balanced(p, r)
<1>1. CASE UNCHANGED vars
  <2>1. UNCHANGED <<copies, excuses, inbox, pc, plan, job>>
    BY <1>1 DEF vars
  <2>2. Free(p, r)' => Free(p, r)
    BY <2>1 DEF Free, Count, Occ
  <2>. QED
    BY <2>1, <2>2, BalancedFrame
<1>2. ASSUME NEW x \in Replies,
             \/ AppendMessage(x) \/ OnOutbound(x) \/ LoseJob(x) \/ AckWaitExpires(x)
             \/ Lapse(x)
      PROVE  Balanced(p, r)
  BY <1>2, BalancedGateway
<1>3. ASSUME NEW q \in Workers, Works(q)
      PROVE  Balanced(p, r)
  <2>1. CASE q = p
    BY <1>3, <2>1, BalancedDeliver, BalancedHandle, BalancedSettle, BalancedCrash DEF Works
  <2>2. CASE q # p
    BY <1>3, <2>2, BalancedElsewhere
  <2>. QED
    BY <2>1, <2>2
<1>. QED
  BY <1>1, <1>2, <1>3 DEF Next, Loop, Done, Works

-----------------------------------------------------------------------------
(***************************************************************************)
(* What the channel's worker may still send is one text and the excuses;   *)
(* a channel without a worker gets none.                                   *)
(***************************************************************************)
CopyInv == \A r \in Replies :
  /\ \A p \in Workers : Serves(p, r) => Weight(p, r) <= 1 + excuses[r]
  /\ (\A p \in Workers : ~Serves(p, r)) => copies[r] = 0

\* No step moves a ticket to another channel.
LEMMA ChannelStands == Typed /\ [Next]_vars => channel' = channel
<1>. SUFFICES ASSUME Typed, [Next]_vars PROVE channel' = channel
  OBVIOUS
<1>1. ASSUME NEW q \in Workers, Works(q) PROVE channel' = channel
  BY <1>1, WorkerFrame
<1>2. ASSUME NEW x \in Replies,
             \/ AppendMessage(x) \/ OnOutbound(x) \/ LoseJob(x) \/ AckWaitExpires(x)
             \/ Lapse(x)
      PROVE  channel' = channel
  BY <1>2 DEF AppendMessage, OnOutbound, LoseJob, AckWaitExpires, Lapse, gateway
<1>3. UNCHANGED vars => channel' = channel
  BY DEF vars
<1>. QED
  BY <1>1, <1>2, <1>3 DEF Next, Loop, Done, Works

LEMMA CopyInit == Init => CopyInv
<1>. SUFFICES ASSUME Init, NEW r \in Replies
              PROVE  /\ \A p \in Workers : Weight(p, r) <= 1 + excuses[r]
                     /\ copies[r] = 0
  BY DEF CopyInv
<1>1. copies[r] = 0 /\ excuses[r] = 0
  BY DEF Init
<1>2. ASSUME NEW p \in Workers PROVE Weight(p, r) <= 1 + excuses[r]
  <2>1. inbox[p] = <<>> /\ pc[p] = "idle"
    BY DEF Init
  <2>2. Count(inbox[p], r) = 0
    BY <2>1, CountEmpty
  <2>3. Bit(Spent(p, r)) = 0 /\ Bit(Free(p, r)) \in 0..1
    BY <2>1 DEF Spent, Bit
  <2>. QED
    BY <1>1, <2>2, <2>3 DEF Weight
<1>. QED
  BY <1>1, <1>2

LEMMA CopyStep == Typed /\ Typed' /\ JobInv /\ CopyInv /\ [Next]_vars => CopyInv'
<1>. SUFFICES ASSUME Typed, Typed', JobInv, CopyInv, [Next]_vars, NEW r \in Replies
              PROVE  /\ \A p \in Workers : Serves(p, r)' => Weight(p, r)' <= 1 + excuses'[r]
                     /\ (\A p \in Workers : ~Serves(p, r)') => copies'[r] = 0
  BY DEF CopyInv
<1>1. \A p \in Workers : Serves(p, r)' <=> Serves(p, r)
  BY ChannelStands DEF Serves, Ch
<1>2. ASSUME NEW p \in Workers, Serves(p, r)
      PROVE  Weight(p, r)' <= 1 + excuses'[r]
  <2>1. Balanced(p, r)
    BY <1>2, BalancedStep
  <2>2. Weight(p, r) <= 1 + excuses[r]
    BY <1>2 DEF CopyInv
  <2>3. excuses[r] \in Nat /\ Weight(p, r) \in Nat
    BY WeightFacts
  <2>4. excuses'[r] \in Nat /\ Weight(p, r)' \in Int
    <3>1. copies'[r] \in Nat /\ excuses'[r] \in Nat /\ inbox'[p] \in Seq(Replies)
      BY DEF Typed, TypeOK
    <3>2. Count(inbox'[p], r) \in Nat
      BY <3>1, OccFinite
    <3>3. Count(inbox[p], r)' = Count(inbox'[p], r)
      BY DEF Count, Occ
    <3>4. Bit(Free(p, r))' \in 0..1 /\ Bit(Spent(p, r))' \in 0..1
      BY DEF Bit
    <3>. QED
      BY <3>1, <3>2, <3>3, <3>4 DEF Weight
  <2>. QED
    BY <2>1, <2>2, <2>3, <2>4 DEF Balanced
<1>3. ASSUME \A p \in Workers : ~Serves(p, r)
      PROVE  copies'[r] = 0
  <2>1. copies[r] = 0
    BY <1>3 DEF CopyInv
  <2>2. ASSUME NEW q \in Workers, Works(q) PROVE copies'[r] = copies[r]
    BY <1>3, <2>2, WorkerFrame
  <2>3. ASSUME NEW x \in Replies,
               \/ AppendMessage(x) \/ OnOutbound(x) \/ LoseJob(x) \/ AckWaitExpires(x)
               \/ Lapse(x)
        PROVE  copies'[r] = copies[r]
    BY <2>3 DEF AppendMessage, OnOutbound, LoseJob, AckWaitExpires, Lapse
  <2>4. UNCHANGED vars => copies'[r] = copies[r]
    BY DEF vars
  <2>. QED
    BY <2>1, <2>2, <2>3, <2>4 DEF Next, Loop, Done, Works
<1>. QED
  BY <1>1, <1>2, <1>3

\* Beyond one copy, every copy of a reply has an excuse: a worker that died
\* with the text out, a job held past its AckWait, or a platform that left
\* open whether it had the text.
THEOREM CopiesAreExcused == Spec => []CopiesExcused
<1>. DEFINE Inv == Typed /\ JobInv /\ CopyInv
<1>1. Init => Inv
  <2>1. Init => JobInv
    BY DEF Init, JobInv
  <2>. QED
    BY <2>1, TypeInit, CopyInit
<1>2. Inv /\ [Next]_vars => Inv'
  BY TypeStep, JobStep, CopyStep
<1>3. Inv => CopiesExcused
  <2>. SUFFICES ASSUME Inv, NEW r \in Replies PROVE copies[r] <= 1 + excuses[r]
    BY DEF CopiesExcused
  <2>1. copies[r] \in Nat /\ excuses[r] \in Nat
    BY DEF Typed, TypeOK
  <2>2. CASE \A p \in Workers : ~Serves(p, r)
    BY <2>1, <2>2 DEF CopyInv
  <2>3. ASSUME NEW p \in Workers, Serves(p, r) PROVE copies[r] <= 1 + excuses[r]
    <3>1. Weight(p, r) <= 1 + excuses[r]
      BY <2>3 DEF CopyInv
    <3>2. copies[r] <= Weight(p, r) /\ Weight(p, r) \in Nat
      BY WeightFacts
    <3>. QED
      BY <2>1, <3>1, <3>2
  <2>. QED
    BY <2>2, <2>3
<1>. QED
  BY <1>1, <1>2, <1>3, PTL DEF Spec
-----------------------------------------------------------------------------
(***************************************************************************)
(* The log.  A worker that is about to write or to settle: what it will    *)
(* acknowledge, or write a sent row for, is with the customer, and what it *)
(* settles for good has its row.  A reply without a route leaves its       *)
(* worker one send fewer.                                                  *)
(***************************************************************************)
AtWork(p) ==
  /\ pc[p] \in {"log", "settle"} /\ plan[p].settle = "ack" /\ p # "stub" => copies[Head(inbox[p])] > 0
  /\ pc[p] = "log" /\ plan[p].row = "sent" => copies[Head(inbox[p])] > 0
  /\ pc[p] = "settle" /\ plan[p].settle # "nak" =>
       rows[Head(inbox[p])] # {} \/ Head(inbox[p]) \in unwritten

Unrouted(p, r) == \/ "no_route" \in rows[r]
                  \/ pc[p] = "log" /\ Head(inbox[p]) = r /\ plan[p].row = "no_route"

LogInv ==
  /\ \A p \in Workers : AtWork(p)
  /\ \A r \in Replies :
       /\ job[r] = "acked" /\ Ch(r) \notin Worker["stub"].serves => copies[r] > 0
       /\ "sent" \in rows[r] => copies[r] > 0
       /\ Settled(r) => rows[r] # {} \/ r \in unwritten
       /\ \A p \in Workers : Serves(p, r) /\ Unrouted(p, r) => Weight(p, r) <= excuses[r]

\* Copies and rows are never taken back.
LEMMA Monotone ==
  ASSUME Typed, NEW r \in Replies, [Next]_vars
  PROVE  copies'[r] >= copies[r] /\ copies'[r] \in Nat /\ rows[r] \subseteq rows'[r] /\ unwritten \subseteq unwritten'
<1>1. /\ copies \in [Replies -> Nat]
      /\ rows \in [Replies -> SUBSET {"sent", "failed", "no_route", "agent_reply"}]
  BY DEF Typed, TypeOK
<1>2. UNCHANGED <<copies, rows, unwritten>> => copies'[r] >= copies[r] /\ copies'[r] \in Nat /\ rows[r] \subseteq rows'[r] /\ unwritten \subseteq unwritten'
  BY <1>1
<1>3. ASSUME NEW q \in Workers, Works(q)
      PROVE  copies'[r] >= copies[r] /\ copies'[r] \in Nat /\ rows[r] \subseteq rows'[r] /\ unwritten \subseteq unwritten'
  <2>1. ASSUME NEW a \in Worker[q].answers \cup Routed(q), Send(q, a)
        PROVE  copies'[r] >= copies[r] /\ copies'[r] \in Nat
    BY <1>1, <2>1 DEF Send
  <2>2. CASE WriteRow(q)
    BY <1>1, <2>2 DEF WriteRow
  <2>3. CASE WriteFails(q)
    BY <1>1, <2>3 DEF WriteFails
  <2>4. (\E x \in Replies : Deliver(q, x)) \/ Take(q) \/ Settle(q) \/ Crash(q) => UNCHANGED <<copies, rows, unwritten>>
    BY DEF Deliver, Take, Settle, Crash, records
  <2>5. ASSUME NEW a \in Worker[q].answers \cup Routed(q), Send(q, a)
        PROVE  UNCHANGED <<rows, unwritten>>
    BY <2>5 DEF Send, records
  <2>. QED
    BY <1>2, <1>3, <2>1, <2>2, <2>3, <2>4, <2>5 DEF Works
<1>4. ASSUME NEW x \in Replies,
             \/ AppendMessage(x) \/ OnOutbound(x) \/ LoseJob(x) \/ AckWaitExpires(x)
             \/ Lapse(x)
      PROVE  UNCHANGED <<copies, rows, unwritten>>
  BY <1>4 DEF AppendMessage, OnOutbound, LoseJob, AckWaitExpires, Lapse, records
<1>5. UNCHANGED vars => UNCHANGED <<copies, rows, unwritten>>
  BY DEF vars
<1>. QED
  BY <1>2, <1>3, <1>4, <1>5 DEF Next, Loop, Done, Works


LEMMA LogInit == Init => LogInv
BY DEF Init, LogInv, AtWork, Settled, Unrouted

\* The steps outside this worker leave what it is about to write or settle.
LEMMA AtWorkFrame ==
  ASSUME Typed, [Next]_vars, NEW p \in Workers, AtWork(p),
         inbox[p] # <<>> => inbox'[p] # <<>> /\ Head(inbox'[p]) = Head(inbox[p]),
         pc'[p] = pc[p], plan'[p] = plan[p]
  PROVE  AtWork(p)'
<1>1. pc[p] \in {"log", "settle"} => inbox[p] # <<>> /\ Head(inbox[p]) \in Replies
  BY HeadFacts DEF Typed
<1>2. pc[p] \in {"log", "settle"} =>
        /\ copies[Head(inbox[p])] > 0 => copies'[Head(inbox[p])] > 0
        /\ rows[Head(inbox[p])] \subseteq rows'[Head(inbox[p])]
        /\ unwritten \subseteq unwritten'
  BY <1>1, Monotone DEF Typed, TypeOK
<1>. QED
  BY <1>1, <1>2 DEF AtWork

LEMMA AtWorkStep ==
  ASSUME Typed, LogInv, [Next]_vars, NEW p \in Workers
  PROVE  AtWork(p)'
<1>0. AtWork(p)
  BY DEF LogInv
<1>1. /\ copies \in [Replies -> Nat] /\ inbox \in [Workers -> Seq(Replies)]
      /\ rows \in [Replies -> SUBSET {"sent", "failed", "no_route", "agent_reply"}]
      /\ pc \in [Workers -> {"idle", "handle", "log", "settle"}]
      /\ plan \in [Workers -> [row : {"sent", "failed", "no_route", "agent_reply", None},
                               settle : {"ack", "nak", "term", None}]]
  BY DEF Typed, TypeOK
<1>2. CASE UNCHANGED <<inbox, pc, plan>>
  BY <1>0, <1>2, AtWorkFrame
<1>3. ASSUME NEW q \in Workers, q # p, Works(q)
      PROVE  AtWork(p)'
  <2>1. inbox'[p] = inbox[p] /\ pc'[p] = pc[p] /\ plan'[p] = plan[p]
    BY <1>3, WorkerFrame
  <2>. QED
    BY <1>0, <2>1, AtWorkFrame
<1>4. ASSUME NEW x \in Replies, Deliver(p, x)
      PROVE  AtWork(p)'
  <2>1. inbox'[p] = Append(inbox[p], x) /\ UNCHANGED <<pc, plan>>
    BY <1>1, <1>4 DEF Deliver
  <2>2. inbox[p] # <<>> => inbox'[p] # <<>> /\ Head(inbox'[p]) = Head(inbox[p])
    BY <1>1, <2>1, AppendProperties, HeadTailProperties, EmptySeq
  <2>. QED
    BY <1>0, <2>1, <2>2, AtWorkFrame
<1>5. CASE Take(p) \/ Settle(p) \/ Crash(p)
  <2>1. pc'[p] \notin {"log", "settle"}
    BY <1>1, <1>5 DEF Take, Settle, Crash
  <2>. QED
    BY <2>1 DEF AtWork
<1>6. ASSUME NEW a \in Worker[p].answers \cup Routed(p), Send(p, a)
      PROVE  AtWork(p)'
  <2>. DEFINE h == Head(inbox[p])
  <2>1. PICK delivered \in Delivers(a) :
          copies' = [copies EXCEPT ![h] = IF delivered THEN @ + 1 ELSE @]
    BY <1>6 DEF Send
  <2>2. h \in Replies
    BY <1>6, HeadFacts DEF Send, Typed
  <2>3. a = "ok" => copies'[h] > 0
    BY <1>1, <2>1, <2>2, DeliversFacts
  <2>4. /\ plan'[p] = Handle(p, a) /\ inbox' = inbox
        /\ pc'[p] = IF Handle(p, a).row = None THEN "settle" ELSE "log"
    BY <1>1, <1>6 DEF Send
  <2>5. /\ Handle(p, a).settle = "ack" => p = "stub" \/ a = "ok"
        /\ Handle(p, a).row = "sent" => a = "ok"
        /\ Handle(p, a).settle # "nak" => Handle(p, a).row # None
    BY HandleFacts
  <2>. QED
    BY <2>3, <2>4, <2>5 DEF AtWork
<1>7. CASE WriteRow(p)
  <2>1. inbox[p] # <<>> /\ Head(inbox[p]) \in Replies
    BY <1>7, HeadFacts DEF WriteRow, Typed
  <2>2. /\ UNCHANGED <<inbox, plan, copies>> /\ pc'[p] = "settle"
        /\ rows'[Head(inbox[p])] # {}
    BY <1>1, <1>7, <2>1 DEF WriteRow
  <2>. QED
    BY <1>0, <1>7, <2>2 DEF AtWork, WriteRow
<1>8. CASE WriteFails(p)
  <2>. DEFINE n == Unlogged(p, plan[p].settle)
  <2>1. n = "ack" /\ p # "stub" => plan[p].settle = "ack"
    BY DEF Unlogged
  <2>2. plan' = [plan EXCEPT ![p].settle = n]
    BY <1>8 DEF WriteFails
  <2>3. UNCHANGED <<inbox, copies>> /\ pc'[p] = "settle" /\ Head(inbox[p]) \in unwritten'
    BY <1>1, <1>8 DEF WriteFails
  <2>. HIDE DEF n
  <2>4. plan'[p].settle = n
    BY <1>1, <2>2
  <2>. QED
    BY <1>0, <1>8, <2>1, <2>3, <2>4 DEF AtWork, WriteFails
<1>9. ASSUME NEW x \in Replies,
             \/ AppendMessage(x) \/ OnOutbound(x) \/ LoseJob(x) \/ AckWaitExpires(x)
             \/ Lapse(x)
      PROVE  UNCHANGED <<inbox, pc, plan>>
  BY <1>9 DEF AppendMessage, OnOutbound, LoseJob, AckWaitExpires, Lapse
<1>10. UNCHANGED vars => UNCHANGED <<inbox, pc, plan>>
  BY DEF vars
<1>. QED
  BY <1>2, <1>3, <1>4, <1>5, <1>6, <1>7, <1>8, <1>9, <1>10 DEF Next, Loop, Done, Works

\* Only an answer without a route makes a reply one without a route.
LEMMA UnroutedOnce ==
  ASSUME Typed, [Next]_vars, NEW p \in Workers, NEW r \in Replies, Serves(p, r), Unrouted(p, r)'
  PROVE  \/ Unrouted(p, r)
         \/ "noroute" \in Worker[p].answers \cup Routed(p) /\ Send(p, "noroute") /\ Head(inbox[p]) = r
<1>1. /\ inbox \in [Workers -> Seq(Replies)]
      /\ rows \in [Replies -> SUBSET {"sent", "failed", "no_route", "agent_reply"}]
      /\ pc \in [Workers -> {"idle", "handle", "log", "settle"}]
      /\ plan \in [Workers -> [row : {"sent", "failed", "no_route", "agent_reply", None},
                               settle : {"ack", "nak", "term", None}]]
  BY DEF Typed, TypeOK
<1>2. UNCHANGED <<inbox, pc, plan, rows>> => Unrouted(p, r)
  BY DEF Unrouted
<1>3. ASSUME NEW q \in Workers, q # p, Works(q)
      PROVE  Unrouted(p, r)
  <2>1. ~Serves(q, r)
    BY <1>3, WorkerFacts DEF Serves
  <2>2. inbox'[p] = inbox[p] /\ pc'[p] = pc[p] /\ plan'[p] = plan[p] /\ rows'[r] = rows[r]
    BY <1>3, <2>1, WorkerFrame
  <2>. QED
    BY <2>2 DEF Unrouted
<1>4. ASSUME NEW x \in Replies, Deliver(p, x)
      PROVE  Unrouted(p, r)
  <2>1. inbox'[p] = Append(inbox[p], x) /\ UNCHANGED <<pc, plan, rows>>
    BY <1>1, <1>4 DEF Deliver, records
  <2>2. inbox[p] # <<>> => Head(inbox'[p]) = Head(inbox[p])
    BY <1>1, <2>1, AppendProperties, HeadTailProperties, EmptySeq
  <2>3. pc[p] = "log" => inbox[p] # <<>>
    BY DEF Typed
  <2>. QED
    BY <2>1, <2>2, <2>3 DEF Unrouted
<1>5. CASE Take(p) \/ Settle(p) \/ Crash(p) \/ WriteFails(p)
  <2>1. pc'[p] # "log" /\ rows' = rows
    BY <1>1, <1>5 DEF Take, Settle, Crash, WriteFails, records
  <2>. QED
    BY <2>1 DEF Unrouted
<1>6. CASE WriteRow(p)
  <2>1. pc'[p] # "log" /\ pc[p] = "log"
    BY <1>1, <1>6 DEF WriteRow
  <2>2. rows'[r] = IF Head(inbox[p]) = r THEN rows[r] \cup {plan[p].row} ELSE rows[r]
    BY <1>1, <1>6 DEF WriteRow
  <2>. QED
    BY <2>1, <2>2 DEF Unrouted
<1>7. ASSUME NEW a \in Worker[p].answers \cup Routed(p), Send(p, a), ~Unrouted(p, r)
      PROVE  a = "noroute" /\ Head(inbox[p]) = r
  <2>1. /\ plan'[p] = Handle(p, a) /\ UNCHANGED <<inbox, rows>>
    BY <1>1, <1>7 DEF Send, records
  <2>2. Handle(p, a).row = "no_route" /\ Head(inbox[p]) = r
    BY <1>7, <2>1 DEF Unrouted
  <2>. QED
    BY <2>2, HandleFacts
<1>8. ASSUME NEW x \in Replies,
             \/ AppendMessage(x) \/ OnOutbound(x) \/ LoseJob(x) \/ AckWaitExpires(x)
             \/ Lapse(x)
      PROVE  UNCHANGED <<inbox, pc, plan, rows>>
  BY <1>8 DEF AppendMessage, OnOutbound, LoseJob, AckWaitExpires, Lapse, records
<1>9. UNCHANGED vars => UNCHANGED <<inbox, pc, plan, rows>>
  BY DEF vars
<1>10. CASE Works(p)
  BY <1>4, <1>5, <1>6, <1>7, <1>10 DEF Works
<1>. QED
  BY <1>2, <1>3, <1>8, <1>9, <1>10 DEF Next, Loop, Done, Works

\* A reply without a route was not sent, and will not be: its worker has one
\* send fewer than before.
LEMMA UnroutedStep ==
  ASSUME Typed, Typed', JobInv, CopyInv, LogInv, [Next]_vars,
         NEW p \in Workers, NEW r \in Replies, Serves(p, r), Unrouted(p, r)'
  PROVE  Weight(p, r)' <= excuses'[r]
<1>1. /\ copies[r] \in Nat /\ excuses[r] \in Nat /\ Count(inbox[p], r) \in Nat
      /\ Bit(Free(p, r)) \in 0..1 /\ Bit(Spent(p, r)) \in 0..1
      /\ Weight(p, r) \in Nat
  BY WeightFacts
<1>2. /\ copies \in [Replies -> Nat] /\ excuses \in [Replies -> Nat]
      /\ pc \in [Workers -> {"idle", "handle", "log", "settle"}]
      /\ plan \in [Workers -> [row : {"sent", "failed", "no_route", "agent_reply", None},
                               settle : {"ack", "nak", "term", None}]]
  BY DEF Typed, TypeOK
<1>3. CASE Unrouted(p, r)
  <2>1. Weight(p, r) <= excuses[r]
    BY <1>3 DEF LogInv
  <2>2. Balanced(p, r)
    BY BalancedStep
  <2>3. excuses'[r] \in Nat /\ Weight(p, r)' \in Int
    <3>1. copies'[r] \in Nat /\ excuses'[r] \in Nat /\ inbox'[p] \in Seq(Replies)
      BY DEF Typed, TypeOK
    <3>2. Count(inbox'[p], r) \in Nat
      BY <3>1, OccFinite
    <3>3. Count(inbox[p], r)' = Count(inbox'[p], r)
      BY DEF Count, Occ
    <3>4. Bit(Free(p, r))' \in 0..1 /\ Bit(Spent(p, r))' \in 0..1
      BY DEF Bit
    <3>. QED
      BY <3>1, <3>2, <3>3, <3>4 DEF Weight
  <2>. QED
    BY <1>1, <2>1, <2>2, <2>3 DEF Balanced
<1>4. CASE /\ "noroute" \in Worker[p].answers \cup Routed(p)
           /\ Send(p, "noroute") /\ Head(inbox[p]) = r
  <2>1. PICK delivered \in Delivers("noroute") :
          /\ copies' = [copies EXCEPT ![Head(inbox[p])] = IF delivered THEN @ + 1 ELSE @]
          /\ excuses' = [excuses EXCEPT ![Head(inbox[p])] =
                           IF delivered /\ "noroute" \notin {"ok", "garbled"} THEN @ + 1 ELSE @]
    BY <1>4 DEF Send
  <2>2. copies'[r] = copies[r] /\ excuses'[r] = excuses[r]
    BY <1>2, <1>4, <2>1, DeliversFacts
  <2>3. UNCHANGED <<inbox, job>>
    BY <1>4 DEF Send
  <2>4. Count(inbox[p], r)' = Count(inbox[p], r) /\ Bit(Free(p, r))' = Bit(Free(p, r))
    BY <2>3 DEF Free, Bit, Count, Occ
  <2>5. Bit(Spent(p, r)) = 0
    BY <1>4 DEF Send, Spent, Bit
  <2>6. p # "stub" /\ Handle(p, "noroute").settle # "nak"
    BY <1>4, HandleFacts
  <2>7. plan'[p] = Handle(p, "noroute") /\ pc'[p] \in {"log", "settle"}
    BY <1>2, <1>4 DEF Send
  <2>8. Spent(p, r)'
    BY <1>4, <2>3, <2>6, <2>7 DEF Spent
  <2>9. Bit(Spent(p, r))' = 1
    BY <2>8 DEF Bit
  <2>10. Weight(p, r) <= 1 + excuses[r]
    BY DEF CopyInv
  <2>. QED
    BY <1>1, <2>2, <2>4, <2>5, <2>9, <2>10 DEF Weight
<1>. QED
  BY <1>3, <1>4, UnroutedOnce

\* What a step settles or writes.
LEMMA LogRows ==
  ASSUME Typed, LogInv, [Next]_vars, NEW r \in Replies
  PROVE  /\ "sent" \in rows'[r] => "sent" \in rows[r] \/ copies[r] > 0
         /\ job'[r] = "acked" => job[r] = "acked" \/ Ch(r) \in Worker["stub"].serves \/ copies[r] > 0
         /\ Settled(r)' => Settled(r) \/ rows[r] # {} \/ r \in unwritten
<1>1. /\ inbox \in [Workers -> Seq(Replies)]
      /\ job \in [Replies -> {"none", "ready", "out", "acked", "termed"}]
      /\ rows \in [Replies -> SUBSET {"sent", "failed", "no_route", "agent_reply"}]
      /\ pc \in [Workers -> {"idle", "handle", "log", "settle"}]
      /\ plan \in [Workers -> [row : {"sent", "failed", "no_route", "agent_reply", None},
                               settle : {"ack", "nak", "term", None}]]
  BY DEF Typed, TypeOK
<1>. DEFINE Same == rows'[r] = rows[r] /\ (job'[r] = job[r] \/ job'[r] \in {"ready", "out"})
<1>2. CASE Same
  BY <1>1, <1>2 DEF Settled
<1>3. ASSUME NEW x \in Replies,
             \/ AppendMessage(x) \/ OnOutbound(x) \/ LoseJob(x) \/ AckWaitExpires(x)
             \/ Lapse(x)
      PROVE  Same
  BY <1>1, <1>3 DEF AppendMessage, OnOutbound, LoseJob, AckWaitExpires, Lapse, records
<1>4. UNCHANGED vars => Same
  BY DEF vars
<1>5. ASSUME NEW q \in Workers, ~Settle(q), ~WriteRow(q), Works(q)
      PROVE  Same
  BY <1>1, <1>5 DEF Works, Deliver, Take, WriteFails, Crash, Send, records
<1>6. ASSUME NEW q \in Workers, WriteRow(q)
      PROVE  /\ "sent" \in rows'[r] => "sent" \in rows[r] \/ copies[r] > 0
             /\ job' = job
  <2>1. rows'[r] = IF Head(inbox[q]) = r THEN rows[r] \cup {plan[q].row} ELSE rows[r]
    BY <1>1, <1>6 DEF WriteRow
  <2>2. pc[q] = "log" /\ job' = job /\ AtWork(q)
    BY <1>6 DEF WriteRow, LogInv
  <2>. QED
    BY <2>1, <2>2 DEF AtWork
<1>7. ASSUME NEW q \in Workers, Settle(q), ~Same
      PROVE  /\ rows' = rows
             /\ job'[r] = "acked" => job[r] = "acked" \/ Ch(r) \in Worker["stub"].serves \/ copies[r] > 0
             /\ Settled(r)' => Settled(r) \/ rows[r] # {} \/ r \in unwritten
  <2>1. rows' = rows /\ pc[q] = "settle" /\ inbox[q] # <<>> /\ AtWork(q)
    BY <1>7 DEF Settle, records, LogInv, Typed
  <2>2. Head(inbox[q]) = r /\ ~Settled(r)
    BY <1>1, <1>7, <2>1 DEF Settle
  <2>3. plan[q].settle \in {"ack", "nak", "term"}
    BY <2>1 DEF Typed
  <2>4. job'[r] = CASE plan[q].settle = "ack" -> "acked"
                    [] plan[q].settle = "term" -> "termed"
                    [] plan[q].settle = "nak" -> "ready"
    BY <1>1, <1>7, <2>2, <2>3 DEF Settle
  <2>5. plan[q].settle # "nak"
    BY <1>7, <2>1, <2>4
  <2>6. Ch(r) \in Worker[q].serves
    BY <2>1, <2>2, HeadFacts
  <2>7. job'[r] = "acked" => plan[q].settle = "ack"
    BY <2>3, <2>4
  <2>8. job'[r] = "acked" => Ch(r) \in Worker["stub"].serves \/ copies[r] > 0
    BY <2>1, <2>2, <2>6, <2>7 DEF AtWork
  <2>9. rows[r] # {} \/ r \in unwritten
    BY <2>1, <2>2, <2>5 DEF AtWork
  <2>. QED
    BY <2>1, <2>8, <2>9
<1>. HIDE DEF Same
<1>8. ASSUME NEW q \in Workers, WriteRow(q)
      PROVE  Settled(r)' <=> Settled(r)
  BY <1>6, <1>8 DEF Settled
<1>9. ASSUME NEW q \in Workers, Works(q) PROVE
         /\ "sent" \in rows'[r] => "sent" \in rows[r] \/ copies[r] > 0
         /\ job'[r] = "acked" => job[r] = "acked" \/ Ch(r) \in Worker["stub"].serves \/ copies[r] > 0
         /\ Settled(r)' => Settled(r) \/ rows[r] # {} \/ r \in unwritten
  <2>1. CASE WriteRow(q)
    BY <1>6, <1>8, <2>1
  <2>2. CASE Settle(q) /\ ~Same
    BY <1>7, <2>2
  <2>3. CASE Same
    BY <1>2, <2>3
  <2>. QED
    BY <1>5, <1>9, <2>1, <2>2, <2>3
<1>. QED
  BY <1>2, <1>3, <1>4, <1>9 DEF Next, Loop, Done, Works

LEMMA LogStep == Typed /\ Typed' /\ JobInv /\ CopyInv /\ LogInv /\ [Next]_vars => LogInv'
<1>. SUFFICES ASSUME Typed, Typed', JobInv, CopyInv, LogInv, [Next]_vars PROVE LogInv'
  OBVIOUS
<1>1. ASSUME NEW p \in Workers PROVE AtWork(p)'
  BY AtWorkStep
<1>2. ASSUME NEW r \in Replies
      PROVE  /\ job'[r] = "acked" /\ Ch(r)' \notin Worker["stub"].serves => copies'[r] > 0
             /\ "sent" \in rows'[r] => copies'[r] > 0
             /\ Settled(r)' => rows'[r] # {} \/ r \in unwritten'
  <2>1. Ch(r)' = Ch(r)
    BY ChannelStands DEF Ch
  <2>2. /\ copies[r] \in Nat /\ copies'[r] >= copies[r] /\ copies'[r] \in Nat
        /\ rows[r] \subseteq rows'[r] /\ unwritten \subseteq unwritten'
    BY Monotone DEF Typed, TypeOK
  <2>3. copies[r] > 0 => copies'[r] > 0
    BY <2>2
  <2>4. /\ job[r] = "acked" /\ Ch(r) \notin Worker["stub"].serves => copies[r] > 0
        /\ "sent" \in rows[r] => copies[r] > 0
        /\ Settled(r) => rows[r] # {} \/ r \in unwritten
    BY DEF LogInv
  <2>. QED
    BY <2>1, <2>2, <2>3, <2>4, LogRows
<1>3. ASSUME NEW r \in Replies, NEW p \in Workers, Serves(p, r)', Unrouted(p, r)'
      PROVE  Weight(p, r)' <= excuses'[r]
  <2>1. Serves(p, r)
    BY <1>3, ChannelStands DEF Serves, Ch
  <2>. QED
    BY <1>3, <2>1, UnroutedStep
<1>. QED
  BY <1>1, <1>2, <1>3 DEF LogInv

\* outbound_log tells the agent the truth, whatever the platform answered and
\* whichever worker died: an acknowledged job and a sent row are texts the
\* customer got, a no_route row is none, and a settled job has its row.
THEOREM TruthfulLog == Spec => []LogIsTrue
<1>. DEFINE Inv == Typed /\ JobInv /\ CopyInv /\ LogInv
<1>1. Init => Inv
  <2>1. Init => JobInv
    BY DEF Init, JobInv
  <2>. QED
    BY <2>1, TypeInit, CopyInit, LogInit
<1>2. Inv /\ [Next]_vars => Inv'
  BY TypeStep, JobStep, CopyStep, LogStep
<1>3. Inv => LogIsTrue
  <2>. SUFFICES ASSUME Inv, NEW r \in Replies, "no_route" \in rows[r], excuses[r] = 0
                PROVE  copies[r] = 0
    BY DEF LogIsTrue, LogInv
  <2>1. copies[r] \in Nat
    BY DEF Typed, TypeOK
  <2>2. CASE \A p \in Workers : ~Serves(p, r)
    BY <2>2 DEF CopyInv
  <2>3. ASSUME NEW p \in Workers, Serves(p, r) PROVE copies[r] = 0
    <3>1. Weight(p, r) <= excuses[r]
      BY <2>3 DEF LogInv, Unrouted
    <3>2. copies[r] <= Weight(p, r) /\ Weight(p, r) \in Nat
      BY WeightFacts
    <3>. QED
      BY <2>1, <3>1, <3>2
  <2>. QED
    BY <2>2, <2>3
<1>. QED
  BY <1>1, <1>2, <1>3, PTL DEF Spec

-----------------------------------------------------------------------------
(***************************************************************************)
(* The first response: a stored reply, on every ticket that has one.       *)
(***************************************************************************)
Stored(r) == reply[r] \in {"stored", "queued", "lost"}

FirstInv ==
  /\ \A t \in Tickets : firstResponse[t] # None => Stored(firstResponse[t])
  /\ \A r \in Replies : Stored(r) => firstResponse[TicketOf[r]] # None

\* A stored reply stays stored, and the first response it found stays.
LEMMA FirstStep ==
  ASSUME Typed, FirstInv, [Next]_vars
  PROVE  /\ FirstInv'
         /\ \A t \in Tickets : firstResponse[t] # None => firstResponse'[t] = firstResponse[t]
<1>1. /\ firstResponse \in [Tickets -> Replies \cup {None}]
      /\ reply \in [Replies -> {"new", "note", "stored", "queued", "lost"}]
  BY DEF Typed, TypeOK
<1>2. CASE UNCHANGED <<reply, firstResponse>>
  BY <1>2 DEF FirstInv, Stored
<1>3. ASSUME NEW x \in Replies, firstResponse' = firstResponse,
             \/ Stored(x) /\ \E v \in {"queued", "lost"} : reply' = [reply EXCEPT ![x] = v]
             \/ reply[x] = "new" /\ reply' = [reply EXCEPT ![x] = "note"]
      PROVE  FirstInv'
  <2>1. \A r \in Replies : Stored(r)' <=> Stored(r)
    BY <1>1, <1>3 DEF Stored
  <2>2. \A t \in Tickets : firstResponse[t] # None => firstResponse[t] \in Replies
    BY <1>1
  <2>3. \A r \in Replies : reply'[r] \in {"stored", "queued", "lost"} <=> Stored(r)
    BY <2>1 DEF Stored
  <2>. QED
    BY <1>3, <2>2, <2>3 DEF FirstInv, Stored
<1>4. ASSUME NEW x \in Replies, reply[x] = "new", reply' = [reply EXCEPT ![x] = "stored"],
             firstResponse' = [firstResponse EXCEPT ![TicketOf[x]] = Stamp(TicketOf[x], x)]
      PROVE  /\ FirstInv'
             /\ \A t \in Tickets : firstResponse[t] # None => firstResponse'[t] = firstResponse[t]
  <2>1. TicketOf[x] \in Tickets /\ None \notin Replies /\ TicketOf \in [Replies -> Tickets]
    BY TicketAssumption, NoneAssumption
  <2>2. \A t \in Tickets : firstResponse[t] # None => firstResponse'[t] = firstResponse[t]
    BY <1>1, <1>4, <2>1 DEF Stamp
  <2>3. \A t \in Tickets : firstResponse'[t] # firstResponse[t] => t = TicketOf[x] /\ firstResponse'[t] = x
    BY <1>1, <1>4, <2>1 DEF Stamp
  <2>4. firstResponse'[TicketOf[x]] # None
    BY <1>1, <1>4, <2>1 DEF Stamp
  <2>5. \A r \in Replies : reply'[r] \in {"stored", "queued", "lost"} <=> Stored(r) \/ r = x
    BY <1>1, <1>4 DEF Stored
  <2>6. \A t \in Tickets : firstResponse[t] # None => firstResponse[t] \in Replies
    BY <1>1
  <2>7. \A t \in Tickets : firstResponse'[t] # None => Stored(firstResponse'[t]) \/ firstResponse'[t] = x
    BY <1>1, <2>2, <2>3 DEF FirstInv
  <2>8. \A t \in Tickets : firstResponse'[t] # None => firstResponse'[t] \in Replies
    BY <2>1, <2>2, <2>3, <2>6
  <2>9. \A t \in Tickets : firstResponse'[t] # None => reply'[firstResponse'[t]] \in {"stored", "queued", "lost"}
    BY <2>5, <2>7, <2>8
  <2>10. \A r \in Replies : Stored(r) \/ r = x => firstResponse'[TicketOf[r]] # None
    BY <2>1, <2>2, <2>4 DEF FirstInv
  <2>. QED
    BY <2>2, <2>5, <2>9, <2>10 DEF FirstInv, Stored
<1>5. ASSUME NEW q \in Workers, Works(q) PROVE UNCHANGED <<reply, firstResponse>>
  BY <1>5 DEF Works, Deliver, Take, WriteRow, WriteFails, Settle, Crash, Send, gateway
<1>6. ASSUME NEW x \in Replies, AckWaitExpires(x) \/ Lapse(x) PROVE UNCHANGED <<reply, firstResponse>>
  BY <1>6 DEF AckWaitExpires, Lapse, gateway
<1>7. ASSUME NEW x \in Replies, OnOutbound(x) \/ LoseJob(x)
      PROVE  /\ Stored(x) /\ firstResponse' = firstResponse
             /\ \E v \in {"queued", "lost"} : reply' = [reply EXCEPT ![x] = v]
  BY <1>7 DEF OnOutbound, LoseJob, Stored
<1>8. ASSUME NEW x \in Replies, AppendMessage(x)
      PROVE  /\ FirstInv'
             /\ \A t \in Tickets : firstResponse[t] # None => firstResponse'[t] = firstResponse[t]
  BY <1>3, <1>4, <1>8 DEF AppendMessage
<1>9. UNCHANGED vars => UNCHANGED <<reply, firstResponse>>
  BY DEF vars
<1>. QED
  BY <1>2, <1>3, <1>5, <1>6, <1>7, <1>8, <1>9 DEF Next, Loop, Done, Works

\* The SLA clock of a ticket stops with its first stored reply, never with a
\* note, and stays stopped: no later reply, crash or lost job moves it.
THEOREM ClockStopsOnce == Spec => FirstResponseStands
<1>. DEFINE Inv == Typed /\ FirstInv
<1>1. Init => Inv
  <2>1. Init => FirstInv
    BY DEF Init, FirstInv, Stored
  <2>. QED
    BY <2>1, TypeInit
<1>2. Inv /\ [Next]_vars => Inv'
  BY TypeStep, FirstStep
<1>. DEFINE A == \A t \in Tickets :
  /\ firstResponse[t] # None => firstResponse'[t] = firstResponse[t]
  /\ firstResponse'[t] # None => reply'[firstResponse'[t]] \in {"stored", "queued", "lost"}
  /\ (\E r \in Replies : TicketOf[r] = t /\ reply'[r] \in {"stored", "queued", "lost"})
       => firstResponse'[t] # None
<1>3. Inv /\ Inv' /\ [Next]_vars => A
  <2>. SUFFICES ASSUME Inv, Inv', [Next]_vars PROVE A
    OBVIOUS
  <2>1. \A t \in Tickets : firstResponse[t] # None => firstResponse'[t] = firstResponse[t]
    BY FirstStep
  <2>. QED
    BY <2>1, TicketAssumption DEF FirstInv, Stored
<1>4. Inv /\ Inv' /\ [Next]_vars => [A]_vars
  BY <1>3
<1>. QED
  BY <1>1, <1>2, <1>4, PTL DEF Spec, FirstResponseStands
=============================================================================
