------------------------------ MODULE CsatProofs ------------------------------
(***************************************************************************)
(* Proofs about Csat for any number of events, tickets, dispatchers,       *)
(* requests and faults: type correctness, one survey per ticket, and the   *)
(* score that stands.                                                      *)
(*                                                                         *)
(* The argument for one survey: as long as a ticket is not in overlap, at  *)
(* most one dispatcher works on it, so what that dispatcher's SELECT found *)
(* is still true when it inserts.  The argument for the link: a survey     *)
(* that was neither linked nor given up is its dispatcher's newest, and    *)
(* the dispatcher is about to queue the link.                              *)
(***************************************************************************)
EXTENDS Csat, FiniteSetTheorems, SequenceTheorems, TLAPS

Scores == {ScoreOf[b] : b \in Browsers} \cup {None}
Survey == [ticket : Tickets, by : Replicas, score : Scores,
           responded : BOOLEAN, revoked : BOOLEAN]

\* The survey j is w's newest.
NewestOf(w, j) ==
  /\ j \in DOMAIN surveys /\ surveys[j].by = w
  /\ \A i \in DOMAIN surveys : surveys[i].by = w => i <= j

(***************************************************************************)
(* Types: the rows are a sequence of surveys, a busy dispatcher has a      *)
(* message in hand, and one that will queue a link has its survey.         *)
(***************************************************************************)
Typed ==
  /\ TypeOK
  /\ surveys \in Seq(Survey)
  /\ \A w \in Replicas : pc[w] # "idle" => cur[w] \in Events
  /\ \A w \in Replicas : pc[w] = "queue" => \E j \in Nat : NewestOf(w, j)
  /\ browser \in [Browsers -> [pc : {"idle", "store", "done"}, survey : Nat]]

LEMMA TypeInit == Init => Typed
BY BoundAssumption DEF Init, Typed, TypeOK, NoRequest

\* What the rows are made of.
LEMMA SurveyRows ==
  ASSUME Typed
  PROVE  /\ \A i \in DOMAIN surveys : surveys[i] \in Survey
         /\ \E n \in Nat : n = Len(surveys) /\ DOMAIN surveys = 1..n
BY ElementOfSeq, LenProperties DEF Typed

\* SurveyRows that are rewritten in place stay rows.
LEMMA Rewritten ==
  ASSUME Typed, NEW f, DOMAIN f = DOMAIN surveys, f = [i \in DOMAIN surveys |-> f[i]],
         \A i \in DOMAIN surveys : f[i] \in Survey
  PROVE  f \in Seq(Survey)
<1>1. PICK n \in Nat : DOMAIN surveys = 1..n
  BY SurveyRows
<1>2. f \in [1..n -> Survey]
  BY <1>1
<1>. QED
  BY <1>1, <1>2, IsASeq

\* A dispatcher's newest survey is the one Mine chooses.
LEMMA MineIsNewest ==
  ASSUME Typed, NEW w \in Replicas, NEW j \in Nat, NewestOf(w, j)
  PROVE  Mine(w) = j
<1>1. PICK n \in Nat : DOMAIN surveys = 1..n
  BY SurveyRows
<1>2. \A i \in DOMAIN surveys : NewestOf(w, i) => i = j
  BY <1>1 DEF NewestOf
<1>. QED
  BY <1>2 DEF Mine, NewestOf
-----------------------------------------------------------------------------
(***************************************************************************)
(* The steps, by what they do to the rows: Create appends one, Submit and  *)
(* Revoke rewrite one in place, the others leave them alone.               *)
(***************************************************************************)
\* What Create(w) inserts.
Fresh(w) == [ticket |-> EventOf[cur[w]].ticket, by |-> w, score |-> None,
             responded |-> FALSE, revoked |-> FALSE]

LEMMA CreateAppends ==
  ASSUME Typed, NEW w \in Replicas, Create(w)
  PROVE  \E n \in Nat \ {0} :
           /\ DOMAIN surveys = 1..(n - 1) /\ DOMAIN surveys' = 1..n
           /\ \A i \in DOMAIN surveys : surveys'[i] = surveys[i]
           /\ surveys'[n] = Fresh(w)
           /\ surveys' \in Seq(Survey)
<1>1. Fresh(w) \in Survey
  BY DEF Fresh, Survey, Typed, Scores, Tickets, Create
<1>2. surveys' = Append(surveys, Fresh(w)) /\ surveys \in Seq(Survey)
  BY DEF Create, Fresh, Typed
<1>3. surveys' \in Seq(Survey) /\ Len(surveys') = Len(surveys) + 1
  BY <1>1, <1>2, AppendProperties
<1>4. Len(surveys) \in Nat /\ DOMAIN surveys = 1..Len(surveys) /\ DOMAIN surveys' = 1..Len(surveys')
  BY <1>2, <1>3, LenProperties
<1>5. /\ \A i \in DOMAIN surveys : surveys'[i] = surveys[i]
      /\ surveys'[Len(surveys) + 1] = Fresh(w)
  BY <1>1, <1>2, <1>4, AppendProperties
<1>. WITNESS Len(surveys) + 1 \in Nat \ {0}
<1>. QED
  BY <1>3, <1>4, <1>5

\* Ticket and author of a row never change, and a revoked one stays revoked.
SameRows ==
  /\ DOMAIN surveys' = DOMAIN surveys
  /\ \A i \in DOMAIN surveys : /\ surveys'[i].ticket = surveys[i].ticket
                               /\ surveys'[i].by = surveys[i].by
                               /\ surveys[i].revoked => surveys'[i].revoked
                               /\ surveys[i].responded => surveys'[i].responded

LEMMA InPlace ==
  ASSUME Typed, \/ UNCHANGED surveys
                \/ \E b \in Browsers : Submit(b)
                \/ \E i \in DOMAIN surveys : Revoke(i)
  PROVE  SameRows /\ surveys' \in Seq(Survey)
<1>1. \A i \in DOMAIN surveys : surveys[i] \in Survey
  BY SurveyRows
<1>2. CASE UNCHANGED surveys
  BY <1>2 DEF SameRows, Typed
<1>3. ASSUME NEW b \in Browsers, Submit(b), ~UNCHANGED surveys
      PROVE  SameRows /\ surveys' \in Seq(Survey)
  <2>. DEFINE k == browser[b].survey
  <2>1. surveys' = [surveys EXCEPT ![k].score = ScoreOf[b], ![k].responded = TRUE]
    BY <1>3 DEF Submit
  <2>2. ScoreOf[b] \in Scores
    BY DEF Scores
  <2>3. \A i \in DOMAIN surveys : /\ surveys'[i] \in Survey
                                  /\ surveys'[i].ticket = surveys[i].ticket
                                  /\ surveys'[i].by = surveys[i].by
                                  /\ surveys'[i].revoked = surveys[i].revoked
                                  /\ surveys[i].responded => surveys'[i].responded
    BY <1>1, <2>1, <2>2 DEF Survey
  <2>4. DOMAIN surveys' = DOMAIN surveys /\ surveys' = [i \in DOMAIN surveys |-> surveys'[i]]
    BY <2>1
  <2>5. surveys' \in Seq(Survey)
    BY <2>3, <2>4, Rewritten
  <2>. QED
    BY <2>3, <2>4, <2>5 DEF SameRows
<1>4. ASSUME NEW k \in DOMAIN surveys, Revoke(k)
      PROVE  SameRows /\ surveys' \in Seq(Survey)
  <2>1. surveys' = [surveys EXCEPT ![k].revoked = TRUE, ![k].score = None]
    BY <1>4 DEF Revoke
  <2>2. \A i \in DOMAIN surveys : /\ surveys'[i] \in Survey
                                  /\ surveys'[i].ticket = surveys[i].ticket
                                  /\ surveys'[i].by = surveys[i].by
                                  /\ surveys[i].revoked => surveys'[i].revoked
                                  /\ surveys'[i].responded = surveys[i].responded
    BY <1>1, <2>1 DEF Survey, Scores
  <2>3. DOMAIN surveys' = DOMAIN surveys /\ surveys' = [i \in DOMAIN surveys |-> surveys'[i]]
    BY <2>1
  <2>4. surveys' \in Seq(Survey)
    BY <2>2, <2>3, Rewritten
  <2>. QED
    BY <2>2, <2>3, <2>4 DEF SameRows
<1>. QED
  BY <1>2, <1>3, <1>4

\* Steps that leave the rows alone.
LEMMA OtherSteps ==
  ASSUME [Next]_vars, ~ \E w \in Replicas : Create(w)
  PROVE  \/ UNCHANGED surveys
         \/ \E b \in Browsers : Submit(b)
         \/ \E i \in DOMAIN surveys : Revoke(i)
BY DEF Next, vars, rows, OnStateChange, Forget, Step, surveyExists, queueOutbound, Ack, Fails,
       Lapse, Deliver, FindByToken

\* A newest survey stays newest while nothing is created.
LEMMA NewestKept ==
  ASSUME SameRows, NEW w \in Replicas, NEW j \in Nat, NewestOf(w, j)
  PROVE  NewestOf(w, j)'
BY DEF SameRows, NewestOf

LEMMA CreateNewest ==
  ASSUME Typed, NEW w \in Replicas, Create(w)
  PROVE  /\ \A v \in Replicas \ {w}, j \in Nat : NewestOf(v, j) => NewestOf(v, j)'
         /\ \E j \in Nat : NewestOf(w, j)'
<1>1. PICK n \in Nat \ {0} : /\ DOMAIN surveys = 1..(n - 1) /\ DOMAIN surveys' = 1..n
                             /\ \A i \in DOMAIN surveys : surveys'[i] = surveys[i]
                             /\ surveys'[n] = Fresh(w)
  BY CreateAppends
<1>2. NewestOf(w, n)'
  BY <1>1 DEF NewestOf, Fresh
<1>3. ASSUME NEW v \in Replicas \ {w}, NEW j \in Nat, NewestOf(v, j) PROVE NewestOf(v, j)'
  BY <1>1, <1>3 DEF NewestOf, Fresh
<1>. QED
  BY <1>2, <1>3

\* The part of Typed that does not look at the rows.
Flat ==
  /\ job \in [Events -> {"none", "ready", "out", "acked", "dropped"}]
  /\ deliveries \in [Events -> 0..MaxDeliver]
  /\ pc \in [Replicas -> {"idle", "exists", "create", "queue", "ack"}]
  /\ cur \in [Replicas -> Events \cup {None}]
  /\ \A w \in Replicas : pc[w] # "idle" => cur[w] \in Events
  /\ browser \in [Browsers -> [pc : {"idle", "store", "done"}, survey : Nat]]
  /\ faults \in 0..MaxFaults

LEMMA FlatStep == Typed /\ [Next]_vars => Flat'
<1>. SUFFICES ASSUME Typed, [Next]_vars PROVE Flat'
  OBVIOUS
<1>. Flat
  BY DEF Typed, TypeOK, Flat
<1>. USE DEF Flat
<1>1. ASSUME NEW e \in Events, OnStateChange(e) PROVE Flat'
  BY <1>1 DEF OnStateChange
<1>2. ASSUME NEW id \in window, Forget(id) PROVE Flat'
  BY <1>2 DEF Forget
<1>3. ASSUME NEW w \in Replicas, Step(w) PROVE Flat'
  BY <1>3 DEF Step, surveyExists, Create, queueOutbound, Ack, stream
<1>4. ASSUME NEW w \in Replicas, Fails(w) \/ Lapse(w) PROVE Flat'
  BY <1>4, BoundAssumption DEF Fails, Failed, Lapse, Fault
<1>5. ASSUME NEW w \in Replicas, NEW e \in Events, Deliver(w, e) PROVE Flat'
  BY <1>5, BoundAssumption DEF Deliver
<1>6. ASSUME NEW b \in Browsers, Submit(b) PROVE Flat'
  BY <1>6 DEF Submit, Answered, stream
<1>7. ASSUME NEW b \in Browsers, NEW i \in DOMAIN surveys, NEW x \in BOOLEAN, FindByToken(b, i, x)
      PROVE  Flat'
  <2>1. i \in Nat
    BY SurveyRows
  <2>. QED
    BY <1>7, <2>1 DEF FindByToken, Answered, stream
<1>8. ASSUME NEW i \in DOMAIN surveys, Revoke(i) PROVE Flat'
  BY <1>8, BoundAssumption DEF Revoke, Fault, stream
<1>9. UNCHANGED vars => Flat'
  BY DEF vars
<1>. QED
  BY <1>1, <1>2, <1>3, <1>4, <1>5, <1>6, <1>7, <1>8, <1>9 DEF Next

\* Who is about to queue a link was so before, or has just created a survey.
LEMMA QueueSteps ==
  ASSUME Typed, [Next]_vars, NEW v \in Replicas, pc'[v] = "queue"
  PROVE  pc[v] = "queue" \/ Create(v)
<1>. pc \in [Replicas -> {"idle", "exists", "create", "queue", "ack"}]
  BY DEF Typed, TypeOK
<1>1. ASSUME NEW w \in Replicas, Step(w) \/ Fails(w) PROVE pc[v] = "queue" \/ Create(v)
  BY <1>1 DEF Step, surveyExists, Create, queueOutbound, Ack, Fails
<1>2. ASSUME NEW w \in Replicas, NEW e \in Events, Deliver(w, e) PROVE pc[v] = "queue"
  BY <1>2 DEF Deliver
<1>. QED
  BY <1>1, <1>2 DEF Next, vars, OnStateChange, Forget, Lapse, FindByToken, Submit, Revoke

\* A link queued or given up is a survey's.
LEMMA LinkSteps ==
  ASSUME Typed, [Next]_vars
  PROVE  /\ links \subseteq links' /\ linkless \subseteq linkless'
         /\ links' \cup linkless' \subseteq DOMAIN surveys
<1>1. \A w \in Replicas : pc[w] = "queue" => Mine(w) \in DOMAIN surveys
  BY MineIsNewest DEF Typed, NewestOf
<1>2. links \cup linkless \subseteq DOMAIN surveys
  BY DEF Typed, TypeOK
<1>3. ASSUME NEW w \in Replicas, Step(w) \/ Fails(w)
      PROVE  /\ links \subseteq links' /\ linkless \subseteq linkless'
             /\ links' \cup linkless' \subseteq DOMAIN surveys
  BY <1>1, <1>2, <1>3 DEF Step, surveyExists, Create, queueOutbound, Ack, Fails, rows
<1>. QED
  BY <1>2, <1>3 DEF Next, vars, rows, OnStateChange, Forget, Lapse, Deliver, FindByToken, Submit, Revoke

LEMMA TypeStep == Typed /\ [Next]_vars => Typed'
<1>. SUFFICES ASSUME Typed, [Next]_vars PROVE Typed'
  OBVIOUS
<1>1. surveys' \in Seq(Survey)
  BY InPlace, OtherSteps, CreateAppends
<1>2. DOMAIN surveys \subseteq DOMAIN surveys'
  <2>1. ASSUME NEW w \in Replicas, Create(w) PROVE DOMAIN surveys \subseteq DOMAIN surveys'
    BY <2>1, CreateAppends
  <2>2. CASE ~ \E w \in Replicas : Create(w)
    BY <2>2, InPlace, OtherSteps DEF SameRows
  <2>. QED
    BY <2>1, <2>2
<1>3. links' \subseteq DOMAIN surveys' /\ linkless' \subseteq DOMAIN surveys'
  BY <1>2, LinkSteps
<1>4. \A i \in DOMAIN surveys' :
        /\ surveys'[i].ticket \in Tickets /\ surveys'[i].score \in {ScoreOf[b] : b \in Browsers} \cup {None}
        /\ {surveys'[i].responded, surveys'[i].revoked} \subseteq BOOLEAN
  <2>1. \A i \in DOMAIN surveys' : surveys'[i] \in Survey
    BY <1>1, ElementOfSeq
  <2>. QED
    BY <2>1 DEF Survey, Scores
<1>5. ASSUME NEW v \in Replicas, pc'[v] = "queue" PROVE \E j \in Nat : NewestOf(v, j)'
  <2>1. ASSUME NEW w \in Replicas, Create(w) PROVE \E j \in Nat : NewestOf(v, j)'
    <3>1. pc[v] = "queue" \/ v = w
      BY <1>5, <2>1 DEF Create, Typed, TypeOK
    <3>. QED
      BY <2>1, <3>1, CreateNewest DEF Typed
  <2>2. CASE ~ \E w \in Replicas : Create(w)
    <3>1. SameRows
      BY <2>2, InPlace, OtherSteps
    <3>2. PICK j \in Nat : NewestOf(v, j)
      BY <1>5, <2>2, QueueSteps DEF Typed
    <3>. QED
      BY <3>1, <3>2, NewestKept
  <2>. QED
    BY <2>1, <2>2
<1>. QED
  BY <1>1, <1>3, <1>4, <1>5, FlatStep DEF Typed, TypeOK, Flat

\* The variables have the types TypeOK gives them, in every reachable state.
THEOREM TypeCorrect == Spec => []TypeOK
<1>1. Typed => TypeOK
  BY DEF Typed
<1>. QED
  BY <1>1, TypeInit, TypeStep, PTL DEF Spec
-----------------------------------------------------------------------------
(***************************************************************************)
(* One survey.                                                             *)
(***************************************************************************)
Busy(w, t) == pc[w] # "idle" /\ EventOf[cur[w]].ticket = t

\* Off the overlap, one dispatcher at most works on a ticket, the ticket has
\* one open survey at most, and none while its dispatcher is about to create.
AloneInv ==
  \A t \in Tickets \ overlap :
    /\ \A v, w \in Replicas : Busy(v, t) /\ Busy(w, t) => v = w
    /\ \A i, j \in Live(t) : i = j
    /\ \A w \in Replicas : Busy(w, t) /\ pc[w] = "create" => Live(t) = {}

\* A survey whose link is neither queued nor given up is its dispatcher's
\* newest, and the dispatcher is about to queue the link.
LinkInv ==
  \A i \in DOMAIN surveys :
    \/ i \in links \cup linkless
    \/ pc[surveys[i].by] = "queue" /\ NewestOf(surveys[i].by, i)

LEMMA SurveyInit == Init => AloneInv /\ LinkInv
BY DEF Init, AloneInv, LinkInv, Busy, Live

LEMMA SurveyMeans == Typed /\ AloneInv /\ LinkInv => OneSurvey
<1>. SUFFICES ASSUME Typed, AloneInv, LinkInv PROVE OneSurvey
  OBVIOUS
<1>1. ASSUME NEW t \in Tickets \ overlap PROVE Cardinality(Live(t)) <= 1
  <2>1. CASE Live(t) = {}
    BY <2>1, FS_EmptySet
  <2>2. ASSUME NEW i \in Live(t) PROVE Cardinality(Live(t)) <= 1
    <3>1. Live(t) = {i}
      BY <2>2 DEF AloneInv
    <3>2. Cardinality({i}) = 1
      BY FS_Singleton
    <3>. QED
      BY <3>1, <3>2
  <2>. QED
    BY <2>1, <2>2
<1>2. ASSUME NEW i \in DOMAIN surveys, i \notin links \cup linkless
      PROVE  \E w \in Replicas : pc[w] = "queue" /\ Mine(w) = i
  <2>1. surveys[i].by \in Replicas /\ i \in Nat
    BY SurveyRows DEF Survey
  <2>2. pc[surveys[i].by] = "queue" /\ NewestOf(surveys[i].by, i)
    BY <1>2 DEF LinkInv
  <2>. QED
    BY <2>1, <2>2, MineIsNewest
<1>. QED
  BY <1>1, <1>2 DEF OneSurvey

\* A dispatcher works on what it worked on before, or was just given it.
LEMMA BusySteps ==
  ASSUME Typed, [Next]_vars, NEW w \in Replicas, pc'[w] # "idle",
         ~ \E e \in Events : Deliver(w, e)
  PROVE  pc[w] # "idle" /\ cur'[w] = cur[w]
<1>. Flat
  BY DEF Typed, TypeOK, Flat
<1>. USE DEF Flat
<1>1. ASSUME NEW v \in Replicas, Step(v) \/ Fails(v) PROVE pc[w] # "idle" /\ cur'[w] = cur[w]
  BY <1>1 DEF Step, surveyExists, Create, queueOutbound, Ack, Fails
<1>2. ASSUME NEW v \in Replicas, v # w, NEW e \in Events, Deliver(v, e)
      PROVE  pc[w] # "idle" /\ cur'[w] = cur[w]
  BY <1>2 DEF Deliver
<1>. QED
  BY <1>1, <1>2 DEF Next, vars, OnStateChange, Forget, Lapse, FindByToken, Submit, Revoke

\* Who is about to create has just seen that there is nothing open.
LEMMA CreateSteps ==
  ASSUME Typed, [Next]_vars, NEW w \in Replicas, pc'[w] = "create"
  PROVE  \/ pc[w] = "create"
         \/ surveyExists(w) /\ Live(EventOf[cur[w]].ticket) = {} /\ UNCHANGED surveys
<1>. Flat
  BY DEF Typed, TypeOK, Flat
<1>. USE DEF Flat
<1>1. ASSUME NEW v \in Replicas, surveyExists(v)
      PROVE  \/ pc[w] = "create"
             \/ surveyExists(w) /\ Live(EventOf[cur[w]].ticket) = {} /\ UNCHANGED surveys
  BY <1>1 DEF surveyExists, Already, rows
<1>2. ASSUME NEW v \in Replicas, Create(v) \/ queueOutbound(v) \/ Ack(v) \/ Fails(v)
      PROVE  pc[w] = "create"
  BY <1>2 DEF Create, queueOutbound, Ack, Fails
<1>3. ASSUME NEW v \in Replicas, NEW e \in Events, Deliver(v, e)
      PROVE  pc[w] = "create"
  BY <1>3 DEF Deliver
<1>. QED
  BY <1>1, <1>2, <1>3 DEF Next, Step, vars, OnStateChange, Forget, Lapse, FindByToken, Submit, Revoke

\* Open surveys only go away, unless one is created.
LEMMA LiveSteps ==
  ASSUME Typed, [Next]_vars, NEW t
  PROVE  \/ Live(t)' \subseteq Live(t)
         \/ \E w \in Replicas, n \in Nat : /\ Create(w) /\ EventOf[cur[w]].ticket = t
                                           /\ Live(t)' \subseteq Live(t) \cup {n}
<1>1. ASSUME NEW w \in Replicas, Create(w)
      PROVE  \/ Live(t)' \subseteq Live(t)
             \/ EventOf[cur[w]].ticket = t /\ \E n \in Nat : Live(t)' \subseteq Live(t) \cup {n}
  <2>1. PICK n \in Nat \ {0} : /\ DOMAIN surveys = 1..(n - 1) /\ DOMAIN surveys' = 1..n
                               /\ \A i \in DOMAIN surveys : surveys'[i] = surveys[i]
                               /\ surveys'[n] = Fresh(w)
    BY <1>1, CreateAppends
  <2>2. Live(t)' \subseteq Live(t) \cup {n}
    BY <2>1 DEF Live
  <2>3. n \in Live(t)' => EventOf[cur[w]].ticket = t
    BY <2>1 DEF Live, Fresh
  <2>. QED
    BY <2>2, <2>3
<1>2. CASE ~ \E w \in Replicas : Create(w)
  <2>1. SameRows
    BY <1>2, InPlace, OtherSteps
  <2>2. \A i \in DOMAIN surveys : surveys[i].revoked \in BOOLEAN /\ surveys'[i].revoked \in BOOLEAN
    <3>1. Typed'
      BY TypeStep
    <3>2. \A i \in DOMAIN surveys' : surveys'[i] \in Survey
      BY <3>1, ElementOfSeq DEF Typed
    <3>. QED
      BY <2>1, <3>2, SurveyRows DEF Survey, SameRows
  <2>. QED
    BY <2>1, <2>2 DEF Live, SameRows
<1>. QED
  BY <1>1, <1>2

LEMMA AloneStep ==
  ASSUME Typed, AloneInv, [Next]_vars
  PROVE  AloneInv'
<1>. Flat
  BY DEF Typed, TypeOK, Flat
<1>1. overlap \subseteq overlap'
  BY DEF Next, vars, OnStateChange, Forget, Step, surveyExists, Create, queueOutbound, Ack, Fails,
         Lapse, Deliver, FindByToken, Submit, Revoke
<1>. SUFFICES ASSUME NEW t \in Tickets \ overlap'
              PROVE  /\ \A v, w \in Replicas : Busy(v, t)' /\ Busy(w, t)' => v = w
                     /\ \A i, j \in Live(t)' : i = j
                     /\ \A w \in Replicas : Busy(w, t)' /\ pc'[w] = "create" => Live(t)' = {}
  BY DEF AloneInv, Tickets, Events
<1>2. t \in Tickets \ overlap
  BY <1>1
<1>3. ASSUME NEW v \in Replicas, NEW w \in Replicas, Busy(v, t)', Busy(w, t)' PROVE v = w
  <2>1. ASSUME NEW x \in Replicas, NEW e \in Events, Deliver(x, e), EventOf[e].ticket = t,
               NEW y \in Replicas, y # x
        PROVE  ~Busy(y, t)'
    <3>1. ~(pc[y] # "idle" /\ EventOf[cur[y]].ticket = t)
      BY <2>1 DEF Deliver
    <3>2. pc'[y] = pc[y] /\ cur'[y] = cur[y]
      BY <2>1 DEF Deliver, Flat
    <3>. QED
      BY <3>1, <3>2 DEF Busy
  <2>2. ASSUME NEW x \in Replicas, Busy(x, t)'
        PROVE  Busy(x, t) \/ \E e \in Events : Deliver(x, e) /\ EventOf[e].ticket = t
    <3>1. CASE \E e \in Events : Deliver(x, e)
      BY <2>2, <3>1 DEF Busy, Deliver, Flat
    <3>2. CASE ~ \E e \in Events : Deliver(x, e)
      BY <2>2, <3>2, BusySteps DEF Busy
    <3>. QED
      BY <3>1, <3>2
  <2>. QED
    BY <1>2, <1>3, <2>1, <2>2 DEF AloneInv
<1>4. \/ Live(t)' \subseteq Live(t)
      \/ /\ \E w \in Replicas : Create(w) /\ EventOf[cur[w]].ticket = t /\ Live(t) = {}
         /\ \E n \in Nat : Live(t)' \subseteq {n}
  <2>1. ASSUME NEW w \in Replicas, Create(w), EventOf[cur[w]].ticket = t PROVE Live(t) = {}
    BY <1>2, <2>1 DEF AloneInv, Busy, Create
  <2>. QED
    BY <2>1, LiveSteps
<1>5. \A i, j \in Live(t)' : i = j
  BY <1>2, <1>4 DEF AloneInv
<1>6. ASSUME NEW w \in Replicas, Busy(w, t)', pc'[w] = "create" PROVE Live(t)' = {}
  <2>1. \A e \in Events : ~Deliver(w, e)
    BY <1>6 DEF Deliver, Flat
  <2>2. pc[w] # "idle" /\ cur'[w] = cur[w] /\ EventOf[cur[w]].ticket = t
    BY <1>6, <2>1, BusySteps DEF Busy
  <2>3. CASE pc[w] = "create"
    <3>1. Live(t) = {}
      BY <1>2, <2>2, <2>3 DEF AloneInv, Busy
    <3>2. ASSUME NEW v \in Replicas, Create(v), EventOf[cur[v]].ticket = t PROVE FALSE
      <4>1. v = w
        BY <1>2, <2>2, <3>2 DEF AloneInv, Busy, Create
      <4>. QED
        BY <1>6, <3>2, <4>1 DEF Create, Flat
    <3>. QED
      BY <1>4, <3>1, <3>2
  <2>4. CASE pc[w] # "create"
    BY <1>6, <2>2, <2>4, CreateSteps DEF Live
  <2>. QED
    BY <2>3, <2>4
<1>. QED
  BY <1>3, <1>5, <1>6

LEMMA LinkStep ==
  ASSUME Typed, LinkInv, [Next]_vars
  PROVE  LinkInv'
<1>. Flat
  BY DEF Typed, TypeOK, Flat
<1>1. /\ \A i \in DOMAIN surveys : surveys[i].by \in Replicas /\ i \in Nat
      /\ links \cup linkless \subseteq links' \cup linkless'
  BY SurveyRows, LinkSteps DEF Survey
<1>2. ASSUME NEW w \in Replicas, Create(w) PROVE LinkInv'
  <2>1. PICK n \in Nat \ {0} : /\ DOMAIN surveys = 1..(n - 1) /\ DOMAIN surveys' = 1..n
                               /\ \A i \in DOMAIN surveys : surveys'[i] = surveys[i]
                               /\ surveys'[n] = Fresh(w)
    BY <1>2, CreateAppends
  <2>2. pc[w] = "create" /\ pc'[w] = "queue" /\ \A v \in Replicas \ {w} : pc'[v] = pc[v]
    BY <1>2 DEF Create, Flat
  <2>3. NewestOf(w, n)' /\ surveys'[n].by = w
    BY <2>1 DEF NewestOf, Fresh
  <2>4. ASSUME NEW i \in DOMAIN surveys, i \notin links \cup linkless
        PROVE  pc'[surveys'[i].by] = "queue" /\ NewestOf(surveys[i].by, i)'
    <3>1. PICK v \in Replicas : v = surveys[i].by
      BY <1>1
    <3>2. pc[v] = "queue" /\ NewestOf(v, i) /\ i \in Nat /\ v # w
      BY <1>1, <2>2, <2>4, <3>1 DEF LinkInv
    <3>3. NewestOf(v, i)'
      BY <1>2, <3>2, CreateNewest
    <3>. QED
      BY <2>1, <2>2, <3>1, <3>2, <3>3 DEF NewestOf
  <2>. QED
    BY <1>1, <2>1, <2>2, <2>3, <2>4 DEF LinkInv, NewestOf
<1>3. CASE ~ \E w \in Replicas : Create(w)
  <2>1. SameRows
    BY <1>3, InPlace, OtherSteps
  <2>. SUFFICES ASSUME NEW i \in DOMAIN surveys, i \notin links' \cup linkless'
                PROVE  pc'[surveys'[i].by] = "queue" /\ NewestOf(surveys[i].by, i)'
    BY <2>1 DEF LinkInv, SameRows, NewestOf
  <2>2. PICK v \in Replicas : v = surveys[i].by
    BY <1>1
  <2>3. pc[v] = "queue" /\ NewestOf(v, i) /\ i \in Nat
    BY <1>1, <2>2 DEF LinkInv
  <2>4. NewestOf(v, i)' /\ surveys'[i].by = v
    BY <2>1, <2>2, <2>3, NewestKept DEF SameRows
  <2>5. Mine(v) = i
    BY <2>3, MineIsNewest
  <2>6. ~queueOutbound(v) /\ ~Fails(v)
    BY <2>3, <2>5 DEF queueOutbound, Fails
  <2>7. pc'[v] = "queue"
    <3>1. ASSUME NEW w \in Replicas, Step(w) \/ Fails(w) PROVE pc'[v] = "queue"
      BY <1>3, <2>3, <2>6, <3>1 DEF Step, surveyExists, queueOutbound, Ack, Fails, Flat
    <3>2. ASSUME NEW w \in Replicas, NEW e \in Events, Deliver(w, e) PROVE pc'[v] = "queue"
      BY <2>3, <3>2 DEF Deliver, Flat
    <3>. QED
      BY <2>3, <3>1, <3>2 DEF Next, vars, OnStateChange, Forget, Lapse, FindByToken, Submit, Revoke
  <2>. QED
    BY <2>4, <2>7 DEF NewestOf
<1>. QED
  BY <1>2, <1>3

\* A ticket has one open survey unless two dispatchers handled it at once, and
\* the survey's link is queued or its dispatcher failed right before: for any
\* number of resolutions, redeliveries, dispatchers and faults.
THEOREM SurveyedOnce == Spec => []OneSurvey
<1>1. Typed /\ AloneInv /\ LinkInv /\ [Next]_vars => (Typed /\ AloneInv /\ LinkInv)'
  BY TypeStep, AloneStep, LinkStep
<1>. QED
  BY <1>1, TypeInit, SurveyInit, SurveyMeans, PTL DEF Spec
-----------------------------------------------------------------------------
(***************************************************************************)
(* The score.  Submit asks whether the survey was answered, not whether it *)
(* has a score: the two agree where there is a score.                      *)
(***************************************************************************)
ScoredIsAnswered == \A i \in DOMAIN surveys : surveys[i].score # None => surveys[i].responded

LEMMA ScoreStep ==
  ASSUME Typed, ScoredIsAnswered, [Next]_vars
  PROVE  /\ ScoredIsAnswered'
         /\ \A i \in DOMAIN surveys :
              surveys[i].score # None => surveys'[i].score = surveys[i].score
                                         \/ (surveys'[i].revoked /\ ~surveys[i].revoked)
<1>1. \A i \in DOMAIN surveys : surveys[i] \in Survey
  BY SurveyRows
<1>2. ASSUME NEW w \in Replicas, Create(w)
      PROVE  ScoredIsAnswered' /\ \A i \in DOMAIN surveys : surveys'[i] = surveys[i]
  <2>1. PICK n \in Nat \ {0} : /\ DOMAIN surveys = 1..(n - 1) /\ DOMAIN surveys' = 1..n
                               /\ \A i \in DOMAIN surveys : surveys'[i] = surveys[i]
                               /\ surveys'[n] = Fresh(w)
    BY <1>2, CreateAppends
  <2>. QED
    BY <2>1 DEF ScoredIsAnswered, Fresh
<1>3. ASSUME NEW b \in Browsers, Submit(b), ~UNCHANGED surveys
      PROVE  /\ ScoredIsAnswered'
             /\ \A i \in DOMAIN surveys : surveys[i].score # None => surveys'[i].score = surveys[i].score
  <2>. DEFINE k == browser[b].survey
  <2>1. surveys' = [surveys EXCEPT ![k].score = ScoreOf[b], ![k].responded = TRUE] /\ ~surveys[k].responded
    BY <1>3 DEF Submit, Unanswered
  <2>2. \A i \in DOMAIN surveys : /\ i # k => surveys'[i] = surveys[i]
                                  /\ i = k => surveys'[i].responded
    BY <1>1, <2>1 DEF Survey
  <2>3. DOMAIN surveys' = DOMAIN surveys
    BY <2>1
  <2>. QED
    BY <2>1, <2>2, <2>3 DEF ScoredIsAnswered
<1>4. ASSUME NEW k \in DOMAIN surveys, Revoke(k)
      PROVE  /\ ScoredIsAnswered'
             /\ \A i \in DOMAIN surveys : \/ surveys'[i].score = surveys[i].score
                                          \/ surveys'[i].revoked /\ ~surveys[i].revoked
  <2>1. surveys' = [surveys EXCEPT ![k].revoked = TRUE, ![k].score = None] /\ ~surveys[k].revoked
    BY <1>4 DEF Revoke
  <2>2. \A i \in DOMAIN surveys : /\ i # k => surveys'[i] = surveys[i]
                                  /\ i = k => surveys'[i].revoked /\ surveys'[i].score = None
    BY <1>1, <2>1 DEF Survey
  <2>3. DOMAIN surveys' = DOMAIN surveys
    BY <2>1
  <2>. QED
    BY <2>1, <2>2, <2>3 DEF ScoredIsAnswered
<1>5. UNCHANGED surveys => ScoredIsAnswered' /\ \A i \in DOMAIN surveys : surveys'[i] = surveys[i]
  BY DEF ScoredIsAnswered
<1>. QED
  BY <1>2, <1>3, <1>4, <1>5, OtherSteps

\* The first score a customer gave stays until the survey is revoked, however
\* many requests found the survey open (Submit's WHERE responded_at IS NULL).
THEOREM FirstScoreStands == Spec => ScoreStands
<1>1. Init => ScoredIsAnswered
  BY DEF Init, ScoredIsAnswered
<1>2. Typed /\ ScoredIsAnswered /\ [Next]_vars => (Typed /\ ScoredIsAnswered)'
  BY TypeStep, ScoreStep
<1>3. Typed /\ ScoredIsAnswered /\ [Next]_vars =>
        [\A i \in DOMAIN surveys :
           surveys[i].score # None => surveys'[i].score = surveys[i].score
                                      \/ (surveys'[i].revoked /\ ~surveys[i].revoked)]_vars
  BY ScoreStep
<1>. QED
  BY <1>1, <1>2, <1>3, TypeInit, PTL DEF Spec, ScoreStands
=============================================================================
