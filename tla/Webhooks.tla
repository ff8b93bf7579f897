------------------------------- MODULE Webhooks -------------------------------
(***************************************************************************)
(* internal/webhooks: platform events posted to the tenants' endpoints.    *)
(* FanOut queues one job per matching active subscription on the WEBHOOKS  *)
(* work queue; a worker loads the subscription, posts once, records the    *)
(* outcome and, if it was transient, acknowledges the job and queues the   *)
(* next attempt from memory after a backoff.  The consumer's MaxDeliver is *)
(* 1: a job that was handed out is never handed out again.  (No program    *)
(* under cmd/ starts the dispatcher yet; who calls FanOut, and again after *)
(* an error, is an assumption.)                                            *)
(***************************************************************************)
EXTENDS Naturals, Sequences, FiniteSets, SequencesExt

CONSTANTS
  Subs, Events,
  Patterns,     \* Patterns[s]: the subjects of a subscription, as token sequences
  SubjectOf,    \* SubjectOf[e]
  Workers,      \* processes that run Worker.Run
  MaxAttempts,  \* 5 in the code
  AutoDisableThreshold, \* 50 in the code
  Prefetch,     \* PullMaxMessages, 8 in the code
  MaxCalls,     \* bound on calls of FanOut, per event
  MaxFaults,    \* bound on crashes, errors, failed publishes and forgotten Msg-Ids
  None

BoundAssumption ==
  {MaxAttempts, AutoDisableThreshold, Prefetch} \subseteq Nat \ {0} /\ {MaxCalls, MaxFaults} \subseteq Nat

Jobs == [sub : Subs, ev : Events, attempt : 1..MaxAttempts]
Pairs == Subs \X Events
Pair(j) == <<j.sub, j.ev>>

VARIABLES
  active, failures, \* columns of webhook_subscriptions
  calls, fan,   \* fan[e]: subscriptions FanOut has still to queue e for
  queue,        \* jobs of WEBHOOKS nobody has
  window,       \* Msg-Ids the stream remembers
  inbox,        \* inbox[w]: jobs worker w has pulled
  pc, class,    \* its step for the first of them and the outcome
  backoff,      \* backoff[w]: jobs its goroutines will queue
  posts,        \* posts[p]: the attempts that reached the endpoint
  fate,         \* fate[p]: how the delivery ended
  forgotten,    \* pairs of which a Msg-Id left the window
  late,         \* late[s]: posts to s after it was disabled
  faults

vars == <<active, failures, calls, fan, queue, window, inbox, pc, class,
          backoff, posts, fate, forgotten, late, faults>>
row == <<active, failures>>
fanout == <<calls, fan>>
history == <<posts, fate, forgotten, late>>

Fault == faults < MaxFaults /\ faults' = faults + 1
-----------------------------------------------------------------------------
Matches(p, s, n) == \A i \in 1..n : p[i] \in {"*", s[i]}
MatchSubject(p, s) ==
  \/ Len(p) = Len(s) /\ Matches(p, s, Len(p))
  \/ \E i \in DOMAIN p : p[i] = ">" /\ i <= Len(s) /\ Matches(p, s, i - 1)
MatchAny(ps, s) == ps = {} \/ \E p \in ps : MatchSubject(p, s)
activeSubscriptions(e) == {s \in Subs : active[s] /\ MatchAny(Patterns[s], SubjectOf[e])}

Statuses == {"2xx", "408", "410", "429", "4xx", "5xx", "unreachable"}
Classify(status) ==
  CASE status = "2xx"                                   -> "delivered"
    [] status \in {"408", "429", "5xx", "unreachable"}  -> "transient"
    [] OTHER                                            -> "permanent"
MsgId(j) == j
-----------------------------------------------------------------------------
TypeOK ==
  /\ active \in [Subs -> BOOLEAN] /\ failures \in [Subs -> Nat]
  /\ calls \in [Events -> 0..MaxCalls] /\ fan \in [Events -> SUBSET Subs]
  /\ queue \subseteq Jobs /\ window \subseteq Jobs
  /\ \A w \in Workers : inbox[w] \in Seq(Jobs) /\ Len(inbox[w]) <= Prefetch
  /\ pc \in [Workers -> {"idle", "post", "count", "settle"}]
  /\ class \in [Workers -> {"delivered", "transient", "permanent", None}]
  /\ backoff \in [Workers -> SUBSET Jobs]
  /\ \A p \in Pairs : \A i \in DOMAIN posts[p] : posts[p][i].attempt \in 1..MaxAttempts
  /\ fate \in [Pairs -> SUBSET {"delivered", "permanent", "exhausted", "disabled", "lost"}]
  /\ forgotten \subseteq Pairs
  /\ late \in [Subs -> Nat]
  /\ faults \in 0..MaxFaults

Init ==
  /\ active = [s \in Subs |-> TRUE] /\ failures = [s \in Subs |-> 0]
  /\ calls = [e \in Events |-> 0] /\ fan = [e \in Events |-> {}]
  /\ queue = {} /\ window = {}
  /\ inbox = [w \in Workers |-> <<>>]
  /\ pc = [w \in Workers |-> "idle"] /\ class = [w \in Workers |-> None]
  /\ backoff = [w \in Workers |-> {}]
  /\ posts = [p \in Pairs |-> <<>>] /\ fate = [p \in Pairs |-> {}]
  /\ forgotten = {} /\ late = [s \in Subs |-> 0]
  /\ faults = 0

Ends(j, how) == fate' = [fate EXCEPT ![Pair(j)] = @ \cup {how}]
Lost(S) == fate' = [p \in Pairs |-> IF \E j \in S : Pair(j) = p
                                    THEN fate[p] \cup {"lost"} ELSE fate[p]]
Enqueue(j) ==
  /\ queue' = IF MsgId(j) \in window THEN queue ELSE queue \cup {j}
  /\ window' = window \cup {MsgId(j)}

\* The stream's duplicate window passes.
Forget(id) ==
  /\ id \in window
  /\ Fault
  /\ window' = window \ {id}
  /\ forgotten' = forgotten \cup {Pair(id)}
  /\ UNCHANGED <<row, fanout, queue, inbox, pc, class, backoff, posts, fate, late>>
-----------------------------------------------------------------------------
(***************************************************************************)
(* Dispatcher.FanOut: the rows are read once, the jobs queued one by one.  *)
(***************************************************************************)
FanOut(e) ==
  /\ calls[e] < MaxCalls /\ fan[e] = {}
  /\ calls' = [calls EXCEPT ![e] = @ + 1]
  /\ fan' = [fan EXCEPT ![e] = activeSubscriptions(e)]
  /\ UNCHANGED <<row, queue, window, inbox, pc, class, backoff, history, faults>>

Queue(e, s) ==
  /\ s \in fan[e]
  /\ fan' = [fan EXCEPT ![e] = @ \ {s}]
  /\ Enqueue([sub |-> s, ev |-> e, attempt |-> 1])
  /\ UNCHANGED <<row, calls, inbox, pc, class, backoff, history, faults>>

\* The publish fails: a warning, and the next subscription.
QueueFails(e, s) ==
  /\ s \in fan[e]
  /\ Fault
  /\ fan' = [fan EXCEPT ![e] = @ \ {s}]
  /\ Lost({[sub |-> s, ev |-> e, attempt |-> 1]})
  /\ UNCHANGED <<row, calls, queue, window, inbox, pc, class, backoff, posts, forgotten, late>>
-----------------------------------------------------------------------------
(***************************************************************************)
(* Worker.Run and handle.                                                  *)
(***************************************************************************)
\* Mutant: the durable hands unacknowledged jobs out again.
MutRedelivered(S) == S

\* MaxDeliver is 1.
Redelivered(S) == {}

Pull(w, j) ==
  /\ j \in queue /\ Len(inbox[w]) < Prefetch
  /\ queue' = queue \ {j}
  /\ inbox' = [inbox EXCEPT ![w] = Append(@, j)]
  /\ UNCHANGED <<row, fanout, window, pc, class, backoff, history, faults>>

Finish(w) ==
  /\ inbox' = [inbox EXCEPT ![w] = Tail(@)]
  /\ pc' = [pc EXCEPT ![w] = "idle"]
  /\ class' = [class EXCEPT ![w] = None]

\* Mutant: the row is used whether it is active or not.
MutUsable(s) == TRUE

Usable(s) == active[s]

\* loadSubscription; Term when the tenant or the counter disabled it.
Load(w) ==
  /\ pc[w] = "idle" /\ inbox[w] # <<>>
  /\ LET j == Head(inbox[w]) IN
     IF Usable(j.sub)
     THEN /\ pc' = [pc EXCEPT ![w] = "post"]
          /\ UNCHANGED <<inbox, class, fate>>
     ELSE Ends(j, "disabled") /\ Finish(w)
  /\ UNCHANGED <<row, fanout, queue, window, backoff, posts, forgotten, late, faults>>

\* The query or the decoding of the secret fails: Nak, for a redelivery that
\* MaxDeliver rules out.
LoadFails(w) ==
  /\ pc[w] = "idle" /\ inbox[w] # <<>>
  /\ Fault
  /\ LET j == Head(inbox[w]) IN
     /\ queue' = queue \cup Redelivered({j})
     /\ Lost({j})
  /\ Finish(w)
  /\ UNCHANGED <<row, fanout, window, backoff, posts, forgotten, late>>

\* Deliverer.Deliver up to the answer.
Deliver(w, status) ==
  /\ pc[w] = "post"
  /\ LET j == Head(inbox[w]) IN
     /\ posts' = [posts EXCEPT ![Pair(j)] =
                    Append(@, [attempt |-> j.attempt, class |-> Classify(status)])]
     /\ late' = [late EXCEPT ![j.sub] = IF active[j.sub] THEN @ ELSE @ + 1]
  /\ class' = [class EXCEPT ![w] = Classify(status)]
  /\ pc' = [pc EXCEPT ![w] = "count"]
  /\ UNCHANGED <<row, fanout, queue, window, inbox, backoff, fate, forgotten, faults>>

\* Mutant: the limit is one too high.
MutKept(s) == active[s] /\ failures[s] + 1 <= AutoDisableThreshold

Kept(s) == active[s] /\ failures[s] + 1 < AutoDisableThreshold

\* recordOutcome.  Its UPDATE is one statement; an error of it is ignored.
recordOutcome(w, s) ==
  \/ /\ class[w] = "delivered"
     /\ failures' = [failures EXCEPT ![s] = 0] /\ UNCHANGED active
  \/ /\ class[w] = "permanent"
     /\ active' = [active EXCEPT ![s] = FALSE] /\ UNCHANGED failures
  \/ /\ class[w] = "transient"
     /\ failures' = [failures EXCEPT ![s] = @ + 1]
     /\ active' = [active EXCEPT ![s] = Kept(s)]
Record(w) ==
  /\ pc[w] = "count"
  /\ recordOutcome(w, Head(inbox[w]).sub)
  /\ pc' = [pc EXCEPT ![w] = "settle"]
  /\ UNCHANGED <<fanout, queue, window, inbox, class, backoff, history, faults>>
RecordFails(w) ==
  /\ pc[w] = "count"
  /\ Fault
  /\ pc' = [pc EXCEPT ![w] = "settle"]
  /\ UNCHANGED <<row, fanout, queue, window, inbox, class, backoff, history>>

\* Mutant: the budget is compared before it is raised.
MutExhausted(j) == j.attempt > MaxAttempts

Exhausted(j) == j.attempt + 1 > MaxAttempts

\* Mutant: the job is queued again as it was.
MutBumped(j) == j

Bumped(j) == [j EXCEPT !.attempt = @ + 1]

\* Ack, and for a transient outcome the goroutine that requeues.
Settle(w) ==
  /\ pc[w] = "settle"
  /\ LET j == Head(inbox[w]) IN
     IF class[w] # "transient"
     THEN Ends(j, class[w]) /\ UNCHANGED backoff
     ELSE IF Exhausted(j)
          THEN Ends(j, "exhausted") /\ UNCHANGED backoff
          ELSE backoff' = [backoff EXCEPT ![w] = @ \cup {Bumped(j)}] /\ UNCHANGED fate
  /\ Finish(w)
  /\ UNCHANGED <<row, fanout, queue, window, posts, forgotten, late, faults>>

\* BackoffFor(attempt) has passed.
requeueAfter(w, j) ==
  /\ j \in backoff[w]
  /\ backoff' = [backoff EXCEPT ![w] = @ \ {j}]
  /\ Enqueue(j)
  /\ UNCHANGED <<row, fanout, inbox, pc, class, history, faults>>
RequeueFails(w, j) ==
  /\ j \in backoff[w]
  /\ Fault
  /\ backoff' = [backoff EXCEPT ![w] = @ \ {j}]
  /\ Lost({j})
  /\ UNCHANGED <<row, fanout, queue, window, inbox, pc, class, posts, forgotten, late>>

\* The process dies: what it had pulled is not handed out again, and what
\* waited for its backoff was acknowledged.
Crash(w) ==
  /\ inbox[w] # <<>> \/ backoff[w] # {}
  /\ Fault
  /\ queue' = queue \cup Redelivered(ToSet(inbox[w]))
  /\ Lost(ToSet(inbox[w]) \cup backoff[w])
  /\ inbox' = [inbox EXCEPT ![w] = <<>>]
  /\ backoff' = [backoff EXCEPT ![w] = {}]
  /\ pc' = [pc EXCEPT ![w] = "idle"]
  /\ class' = [class EXCEPT ![w] = None]
  /\ UNCHANGED <<row, fanout, window, posts, forgotten, late>>

Loop(w) ==
  \/ \E j \in queue : Pull(w, j)
  \/ Load(w)
  \/ \E status \in Statuses : Deliver(w, status)
  \/ Record(w)
  \/ Settle(w)

Next ==
  \/ \E e \in Events : \/ FanOut(e)
                       \/ \E s \in Subs : Queue(e, s) \/ QueueFails(e, s)
  \/ \E w \in Workers : \/ Loop(w) \/ LoadFails(w) \/ RecordFails(w) \/ Crash(w)
                        \/ \E j \in backoff[w] : requeueAfter(w, j) \/ RequeueFails(w, j)
  \/ \E id \in window : Forget(id)

Spec == Init /\ [][Next]_vars

\* Workers run until they crash and are then started again; timers fire.
Fairness ==
  /\ \A w \in Workers : WF_vars(Loop(w)) /\ WF_vars(\E j \in Jobs : requeueAfter(w, j))
FairSpec == Spec /\ Fairness
-----------------------------------------------------------------------------
(***************************************************************************)
(* The attempts of a delivery are made one after the other: the endpoint   *)
(* sees attempts 1, 2, ... in this order and never one twice, none after   *)
(* it answered for good, and no two workers have one delivery, even when   *)
(* FanOut runs again for the event.  (Once the stream has forgotten a      *)
(* Msg-Id, a repeated FanOut starts over.)                                 *)
(***************************************************************************)
Copies(p) == Cardinality({j \in queue : Pair(j) = p})
           + Cardinality({x \in Workers \X (1..Prefetch) :
                            x[2] \in DOMAIN inbox[x[1]] /\ Pair(inbox[x[1]][x[2]]) = p})
           + Cardinality({x \in Workers \X Jobs : x[2] \in backoff[x[1]] /\ Pair(x[2]) = p})
OneAttemptAtATime == \A p \in Pairs \ forgotten :
  /\ Copies(p) <= 1
  /\ \A i \in DOMAIN posts[p] : /\ posts[p][i].attempt = i
                                /\ i < Len(posts[p]) => posts[p][i].class = "transient"

(***************************************************************************)
(* A subscription is disabled no later than its AutoDisableThreshold-th    *)
(* consecutive failure, whichever workers count, and then left alone: each *)
(* worker may still have one post for it that it had begun.                *)
(***************************************************************************)
DisabledIsQuiet == \A s \in Subs :
  /\ active[s] => failures[s] < AutoDisableThreshold
  /\ late[s] <= Cardinality(Workers)

(***************************************************************************)
(* Every delivery that was queued ends: delivered, refused for good, given *)
(* up after MaxAttempts, dropped with its subscription, or lost to one of  *)
(* the faults that Nak, the in-memory backoff and the ignored publish      *)
(* errors do not survive.                                                  *)
(***************************************************************************)
EveryDeliveryEnds == []<>(\A p \in Pairs : Copies(p) > 0 \/ posts[p] # <<>> => fate[p] # {})
=============================================================================
