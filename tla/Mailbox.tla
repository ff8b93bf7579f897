------------------------------- MODULE Mailbox -------------------------------
(***************************************************************************)
(* internal/connector/email, inbound: a tenant's mailbox hands over mail   *)
(* by a provider's webhook and by IMAP, which cmd/email-imap polls one     *)
(* mailbox after the other.  Both record (mailbox, Message-ID) in          *)
(* email_webhook_events and publish only what was not there, under the     *)
(* Message-ID as Nats-Msg-Id.                                              *)
(*                                                                         *)
(* A poll is two goroutines: UidFetch sends into a channel of 16, the loop *)
(* receives until the channel is closed or BatchSize mails are processed,  *)
(* then waits for UidFetch to return.  A mailbox that is deleted and       *)
(* connected again is a new row: a new generation.                         *)
(***************************************************************************)
EXTENDS Naturals, Sequences, FiniteSets, SequencesExt

CONSTANTS
  Mails,      \* mails that may arrive
  Order,      \* the tenants' mailboxes, in the order of ListAll
  BoxOf,      \* BoxOf[m]: the mailbox m arrives in
  Mid,        \* Mid[m]: its Message-ID, None if the sender omits it
  Posted,     \* mails whose mailbox also has a provider's webhook
  Batch,      \* PollerConfig.BatchSize
  Buffer,     \* capacity of the poll's channel, 16
  MaxTries,   \* how often a provider posts a mail at most
  MaxFaults,  \* bound on errors, crashes and mailboxes connected again
  None

Boxes == ToSet(Order)
BoxAssumption == Order \in Seq(Boxes) /\ BoxOf \in [Mails -> Boxes] /\ Posted \subseteq Mails
\* A Message-ID names one mail of a mailbox, and is none of those that the
\* connector makes up.
MidAssumption ==
  /\ \A m, n \in Mails : BoxOf[m] = BoxOf[n] /\ Mid[m] = Mid[n] /\ Mid[m] # None => m = n
  /\ \A m \in Mails : Mid[m] \notin ({"imap"} \X Boxes \X Nat) \cup ({"mailgun"} \X Mails \X Nat)
  /\ None \notin Mails
BoundAssumption == {Batch, Buffer, MaxTries} \subseteq Nat \ {0} /\ MaxFaults \in Nat

VARIABLES
  uid,      \* uid[m]: its IMAP UID, 0 until it arrives
  ckpt,     \* ckpt[b]: imap_last_seen_uid
  gen,      \* gen[b]: how often b was connected again
  seen,     \* rows of email_webhook_events
  window,   \* Msg-Ids INGRESS remembers, with the mail that brought them
  copies,   \* copies[m]: messages of INGRESS made of m
  dropped,  \* mails INGRESS took for duplicates of another mailbox's mail
  failed,   \* mails a fault struck after they were read or recorded
  post,     \* post[m]: the provider's and the webhook's step for m
  tries,
  queue,    \* mailboxes this round of pollAll has still to poll
  poll,     \* the poll under way
  faults

vars == <<uid, ckpt, gen, seen, window, copies, dropped, failed, post, tries,
          queue, poll, faults>>
stream == <<window, copies, dropped>>
webhook == <<post, tries>>
poller == <<queue, poll>>

\* Not polling; next: "idle", then "list" while a round is under way.
NoPoll(pc) == [pc |-> pc, box |-> None, gen |-> 0, since |-> 0, todo |-> <<>>,
               chan |-> <<>>, mail |-> None, done |-> 0, highest |-> 0, fetched |-> 0]
Fault == faults < MaxFaults /\ faults' = faults + 1
Arrived(b) == {m \in Mails : BoxOf[m] = b /\ uid[m] > 0}
\* The mails of a mailbox by their UIDs, which count from 1.
ByUid(b) == [u \in 1..Cardinality(Arrived(b)) |-> CHOOSE m \in Arrived(b) : uid[m] = u]

TypeOK ==
  /\ uid \in [Mails -> 0..Cardinality(Mails)]
  /\ ckpt \in [Boxes -> 0..Cardinality(Mails)]
  /\ gen \in [Boxes -> 0..MaxFaults]
  /\ \A r \in seen : r.box \in Boxes /\ r.gen = gen[r.box]
  /\ \A w \in window : w.by \in Mails
  /\ copies \in [Mails -> Nat]
  /\ dropped \subseteq Mails /\ failed \subseteq Mails
  /\ post \in [Mails -> {"none", "due", "recorded", "done"}]
  /\ tries \in [Mails -> 0..MaxTries]
  /\ queue \in Seq(Boxes)
  /\ poll.pc \in {"idle", "list", "loop", "publish", "wait"}
  /\ Len(poll.chan) <= Buffer /\ poll.done <= Batch
  /\ faults \in 0..MaxFaults

Init ==
  /\ uid = [m \in Mails |-> 0]
  /\ ckpt = [b \in Boxes |-> 0]
  /\ gen = [b \in Boxes |-> 0]
  /\ seen = {} /\ window = {} /\ dropped = {} /\ failed = {}
  /\ copies = [m \in Mails |-> 0]
  /\ post = [m \in Mails |-> "none"]
  /\ tries = [m \in Mails |-> 0]
  /\ queue = <<>> /\ poll = NoPoll("idle")
  /\ faults = 0
-----------------------------------------------------------------------------
Arrive(m) ==
  /\ uid[m] = 0
  /\ uid' = [uid EXCEPT ![m] = Cardinality(Arrived(BoxOf[m])) + 1]
  /\ post' = [post EXCEPT ![m] = IF m \in Posted THEN "due" ELSE "none"]
  /\ UNCHANGED <<ckpt, gen, seen, stream, failed, tries, poller, faults>>

\* The row goes, its events with it (CASCADE), and another is created.
Reconnect(b) ==
  /\ Fault
  /\ gen' = [gen EXCEPT ![b] = @ + 1]
  /\ ckpt' = [ckpt EXCEPT ![b] = 0]
  /\ seen' = {r \in seen : r.box # b}
  /\ UNCHANGED <<uid, stream, failed, webhook, poller>>

(***************************************************************************)
(* What both paths share: the Message-ID of a mail without one, the INSERT *)
(* ... ON CONFLICT DO NOTHING, and the publish.                            *)
(***************************************************************************)
MailgunId(m) == IF Mid[m] # None THEN Mid[m] ELSE <<"mailgun", m, tries[m]>>
ImapId(m) == IF Mid[m] # None THEN Mid[m] ELSE <<"imap", BoxOf[m], uid[m]>>
Row(b, g, id) == [box |-> b, gen |-> g, id |-> id]

\* Mutant: the row is looked up and inserted after the publish.
MutRecorded(r) == seen

Recorded(r) == seen \cup {r}

PublishId(m, id) ==
  LET owners == {w.by : w \in {v \in window : v.id = id}} IN
  IF owners = {}
  THEN /\ copies' = [copies EXCEPT ![m] = @ + 1]
       /\ window' = window \cup {[id |-> id, by |-> m]}
       /\ UNCHANGED dropped
  ELSE /\ dropped' = IF m \in owners THEN dropped ELSE dropped \cup {m}
       /\ UNCHANGED <<copies, window>>

Forget(w) ==
  /\ w \in window
  /\ window' = window \ {w}
  /\ UNCHANGED <<uid, ckpt, gen, seen, copies, dropped, failed, webhook, poller, faults>>
-----------------------------------------------------------------------------
(***************************************************************************)
(* The webhook.  Whatever is not a 2xx is posted again.                    *)
(***************************************************************************)
\* handleMailgun or handleJSON up to RecordWebhookSeen; handleJSON refuses a
\* mail without an id.
Accept(m, id) ==
  LET r == Row(BoxOf[m], gen[BoxOf[m]], id) IN
  /\ post[m] = "due" /\ tries[m] < MaxTries
  /\ tries' = [tries EXCEPT ![m] = @ + 1]
  /\ post' = [post EXCEPT ![m] = IF r \in seen THEN "done" ELSE "recorded"]
  /\ seen' = Recorded(r)
  /\ UNCHANGED <<uid, ckpt, gen, stream, failed, poller, faults>>

HandleMailgun(m) == Accept(m, MailgunId(m))
HandleJSON(m) == Mid[m] # None /\ Accept(m, Mid[m])

\* The publish answers in time or the provider posts again: 502, a crash of
\* the gateway before or after it, or a 202 that does not arrive.
Publish(m, published, heard) ==
  LET id == IF Mid[m] # None THEN Mid[m] ELSE <<"mailgun", m, tries[m] - 1>> IN
  /\ post[m] = "recorded"
  /\ (published /\ heard) \/ faults < MaxFaults
  /\ faults' = IF published /\ heard THEN faults ELSE faults + 1
  /\ IF published THEN PublishId(m, id) /\ UNCHANGED failed
     ELSE failed' = failed \cup {m} /\ UNCHANGED stream
  /\ post' = [post EXCEPT ![m] = IF published /\ heard THEN "done" ELSE "due"]
  /\ UNCHANGED <<uid, ckpt, gen, seen, tries, poller>>
-----------------------------------------------------------------------------
(***************************************************************************)
(* The poller: Run, pollAll, pollOne and handleMsg.                        *)
(***************************************************************************)
PollAll ==
  /\ poll.pc = "idle" /\ queue' = Order
  /\ poll' = NoPoll("list")
  /\ UNCHANGED <<uid, ckpt, gen, seen, stream, failed, webhook, faults>>

\* Mutant: the UID after the checkpoint is skipped.
MutSince(b) == ckpt[b] + 2

Since(b) == ckpt[b] + 1
\* UID since:* names the last mail even if its UID is below since.
Fetched(b) ==
  LET last == Len(ByUid(b)) IN
  SubSeq(ByUid(b), IF 0 < last /\ last < Since(b) THEN last ELSE Since(b), last)

\* Dial, login, select, and UidFetch starts.
PollOne ==
  /\ poll.pc = "list" /\ queue # <<>>
  /\ LET b == Head(queue) IN
     poll' = [pc |-> "loop", box |-> b, gen |-> gen[b], since |-> ckpt[b], todo |-> Fetched(b),
              chan |-> <<>>, mail |-> None, done |-> 0, highest |-> ckpt[b],
              fetched |-> Len(Fetched(b))]
  /\ queue' = Tail(queue)
  /\ UNCHANGED <<uid, ckpt, gen, seen, stream, failed, webhook, faults>>

DialFails ==
  /\ poll.pc = "list" /\ queue # <<>>
  /\ Fault
  /\ queue' = Tail(queue)
  /\ UNCHANGED <<uid, ckpt, gen, seen, stream, failed, webhook, poll>>

RoundDone ==
  /\ poll.pc = "list" /\ queue = <<>>
  /\ poll' = NoPoll("idle")
  /\ UNCHANGED <<uid, ckpt, gen, seen, stream, failed, webhook, queue, faults>>

\* UidFetch, in its own goroutine.
FetchSends ==
  /\ poll.pc \in {"loop", "publish", "wait"}
  /\ poll.todo # <<>> /\ Len(poll.chan) < Buffer
  /\ poll' = [poll EXCEPT !.chan = Append(@, Head(poll.todo)), !.todo = Tail(@)]
  /\ UNCHANGED <<uid, ckpt, gen, seen, stream, failed, webhook, queue, faults>>

\* The connection drops: UidFetch returns an error, the rest is not read.
FetchFails ==
  /\ poll.pc \in {"loop", "publish", "wait"} /\ poll.todo # <<>>
  /\ Fault
  /\ poll' = [poll EXCEPT !.todo = <<>>]
  /\ UNCHANGED <<uid, ckpt, gen, seen, stream, failed, webhook, queue>>

\* One more mail processed; at BatchSize the loop breaks.
Counted(p) == [p EXCEPT !.done = @ + 1, !.mail = None,
                        !.pc = IF p.done + 1 >= Batch THEN "wait" ELSE "loop"]
Greater(a, b) == IF a > b THEN a ELSE b
Take == LET m == Head(poll.chan) IN
  [poll EXCEPT !.chan = Tail(@), !.mail = m, !.highest = Greater(@, uid[m])]

\* The mailbox was deleted since ListAll.
Orphaned == poll.pc = "loop" /\ gen[poll.box] # poll.gen

\* handleMsg up to RecordWebhookSeen.
Receive ==
  /\ poll.pc = "loop" /\ poll.chan # <<>> /\ ~Orphaned
  /\ LET p == Take
         r == Row(poll.box, poll.gen, ImapId(p.mail)) IN
     /\ seen' = Recorded(r)
     /\ poll' = IF r \in seen THEN Counted(p) ELSE [p EXCEPT !.pc = "publish"]
  /\ UNCHANGED <<uid, ckpt, gen, stream, failed, webhook, queue, faults>>

\* No body, or RecordWebhookSeen fails, as it does when the mailbox is gone.
ReceiveFails ==
  /\ poll.pc = "loop" /\ poll.chan # <<>>
  /\ IF Orphaned THEN UNCHANGED faults ELSE Fault
  /\ failed' = failed \cup {Head(poll.chan)}
  /\ poll' = [Take EXCEPT !.mail = None]
  /\ UNCHANGED <<uid, ckpt, gen, seen, stream, webhook, queue>>

PublishMail ==
  /\ poll.pc = "publish"
  /\ PublishId(poll.mail, ImapId(poll.mail))
  /\ poll' = Counted(poll)
  /\ UNCHANGED <<uid, ckpt, gen, seen, failed, webhook, queue, faults>>

PublishFails ==
  /\ poll.pc = "publish"
  /\ Fault
  /\ failed' = failed \cup {poll.mail}
  /\ poll' = [poll EXCEPT !.pc = "loop", !.mail = None]
  /\ UNCHANGED <<uid, ckpt, gen, seen, stream, webhook, queue>>

\* The channel is closed and empty: the loop ends.
ChannelClosed ==
  /\ poll.pc = "loop" /\ poll.chan = <<>> /\ poll.todo = <<>>
  /\ poll' = [poll EXCEPT !.pc = "wait"]
  /\ UNCHANGED <<uid, ckpt, gen, seen, stream, failed, webhook, queue, faults>>

\* Mutant: the loop waits until the channel is drained, which nobody does.
MutFetchReturned == poll.todo = <<>> /\ poll.chan = <<>>

\* <-doneCh: UidFetch has sent everything; what is left in the channel is dropped.
FetchReturned == poll.todo = <<>>
AdvanceCheckpoint ==
  /\ poll.pc = "wait" /\ FetchReturned
  /\ ckpt' = [ckpt EXCEPT ![poll.box] =
               IF poll.highest > poll.since /\ gen[poll.box] = poll.gen THEN poll.highest ELSE @]
  /\ poll' = NoPoll("list")
  /\ UNCHANGED <<uid, gen, seen, stream, failed, webhook, queue, faults>>

\* The UPDATE of the checkpoint fails: the next round reads the mails again.
CheckpointFails ==
  /\ poll.pc = "wait" /\ FetchReturned /\ Fault
  /\ poll' = NoPoll("list")
  /\ UNCHANGED <<uid, ckpt, gen, seen, stream, failed, webhook, queue>>

\* The poller's process dies and starts over.
Crash ==
  /\ poll.pc # "idle"
  /\ Fault
  /\ failed' = failed \cup (IF poll.pc = "publish" THEN {poll.mail} ELSE {})
  /\ poll' = NoPoll("idle") /\ queue' = <<>>
  /\ UNCHANGED <<uid, ckpt, gen, seen, stream, webhook>>

\* The steps of the poller that need no fault.
Step == \/ PollOne \/ RoundDone \/ FetchSends \/ Receive \/ PublishMail
        \/ ChannelClosed \/ AdvanceCheckpoint
        \/ Orphaned /\ ReceiveFails

Next ==
  \/ \E m \in Mails : \/ Arrive(m) \/ HandleMailgun(m) \/ HandleJSON(m)
                       \/ \E published, heard \in BOOLEAN : Publish(m, published, heard)
  \/ \E b \in Boxes : Reconnect(b)
  \/ \E w \in window : Forget(w)
  \/ PollAll \/ Step \/ ReceiveFails
  \/ DialFails \/ FetchFails \/ PublishFails \/ CheckpointFails \/ Crash

Spec == Init /\ [][Next]_vars
\* The two goroutines of a poll run.
FairSpec == Spec /\ WF_vars(Step)
-----------------------------------------------------------------------------
(***************************************************************************)
(* A mail with a Message-ID is ingested once per connection of its         *)
(* mailbox, whichever of webhook and poller comes first, however often the *)
(* provider posts it and the poller reads it again.                        *)
(***************************************************************************)
IngestedOnce == \A m \in Mails : Mid[m] # None => copies[m] <= 1 + gen[BoxOf[m]]

(***************************************************************************)
(* The checkpoint passes no mail that was not recorded, and a recorded     *)
(* mail that nobody is working on is in the stream, or was dropped there   *)
(* for another mailbox's mail with the same Message-ID, unless an error    *)
(* struck it after it was read or recorded.                                *)
(***************************************************************************)
NothingSkipped == \A m \in Mails \ failed :
  LET b == BoxOf[m]  r == Row(b, gen[b], ImapId(m)) IN
  /\ uid[m] \in 1..ckpt[b] => r \in seen
  /\ r \in seen /\ post[m] # "recorded" /\ poll.mail # m
       => copies[m] > 0 \/ (m \in dropped /\ \E n \in Mails : BoxOf[n] # b /\ Mid[n] = Mid[m])

(***************************************************************************)
(* Both: a mail is ingested once, by webhook or poller, and none is passed *)
(* over.                                                                   *)
(***************************************************************************)
MailAccountedFor == IngestedOnce /\ NothingSkipped

(***************************************************************************)
(* A poll that fetches no more mails than the batch and the channel hold   *)
(* ends, so that the next mailbox is polled.  (With more, the loop leaves  *)
(* at BatchSize and waits for a UidFetch that waits for it.)               *)
(***************************************************************************)
PollEnds == []<>(poll.pc \in {"list", "idle"} \/ poll.fetched > Batch + Buffer)
=============================================================================
