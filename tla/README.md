# Contact centre: TLA+ models, model checks and proofs

Formal models of the back end of the contact centre in `src/` (Go, Postgres, NATS
JetStream), the TLC runs that check them on small instances, and TLAPS proofs of the
properties that matter most. Every definition is translated from the Go and SQL;
`PROJECT.json` gives the source lines of each (`map`), the hazards the properties are
aimed at, and for each property a mutant of the code that breaks it.

    tlc -config TicketRepoShared.cfg MCTicketRepo.tla      # one of the runs below
    tlapm TicketRepoProofs.tla                             # one of the proof modules

## 1. Inventory

| component | state | operations | hard behaviour | what makes it correct |
|---|---|---|---|---|
| Ticket state machine `internal/ticket/state.go` | none | `Validate`, `CanTransition`, `Transition` | | the edges every writer of `tickets.state` must respect |
| Ticket repository `repo.go`, `bulk.go`, `http.go` | rows of `tickets`; the `OnStateChange` field of a `Repo` all requests of a replica share | `CreateTicket`, `ChangeState`, `BulkAssign`, `BulkState` | concurrent requests; the hook swapped without a lock; a batch that stops half way | legal edges, stamps, the hook comes back, each change announced once |
| Ticket ingress `ingress.go` | customers, conversations, tickets, messages; a durable consumer | `Run`, `handle`, `Handle` | redelivery, crash between commit and ack, slow handler, two replicas, agents at work | nothing lost, nothing twice, one ticket per conversation |
| Routing engine `internal/routing/engine.go`, `escalation.go`, `score.go` | `tickets.assigned_agent_id`, `agent_status.current_load` | `Route`, `Escalate` | unlocked capacity read, row locks in two orders | bounded load, a true assignment history, calls return |
| Re-evaluator `queue.go` | two scan results in memory | `Tick`, `Run`, `ReleaseOnClose` | stale scans, starvation | no routable ticket waits forever |
| Audit ledger `internal/audit` | hash-chained `audit_events`; hash cached per process; a durable consumer | `Publish`, `Run`, `Bootstrap`, `Append`, `Verify` | several gateway replicas, crash, lost commit reply | an unbroken chain, nothing acknowledged is missing |
| Gateway wiring `cmd/gateway/main.go` | hooks set at boot | listeners, audit publishing, realtime fan-out | hooks run on the request goroutine | as above |
| SLA `internal/sla` | deadlines and priority of tickets | `Deadlines`, `Evaluate*`, `scanOnce` | repeated ticks, several replicas | one escalation per breach |
| CSAT `internal/csat` | surveys | `OnResolved`, `Submit`, `Revoke` | check-then-create, crash after create | one survey per ticket, its link sent |
| Outbound workers `cmd/*-outbound` | `outbound_log`, durable consumers | `handle`, `routeForTicket` | retry of a send that succeeded, deliveries used up | at least once, failures recorded |
| Inbound connectors `internal/connector/*` | ids the INGRESS stream remembers, sockets | webhooks, normalisation, tenant lookup, publish | posts repeated, answers lost, Msg-Ids of different things that coincide | what the platform was told is accepted is in the stream, once |
| E-mail inbound `internal/connector/email`, `cmd/email-imap` | `email_webhook_events`, `imap_last_seen_uid` | provider webhook, IMAP poll | recorded before published, webhook against poller, a batch smaller than what is fetched | no mail lost, none twice |
| Channel onboarding `facebook/oauth*.go` | `fb_pages`, `ig_accounts`, `wa_phone_numbers`, Meta's subscriptions | `Start`, `Callback` | a dozen calls and upserts without a transaction, two brands at once | what is shown as connected delivers, to the right tenant |
| Tenant webhooks `internal/webhooks` | subscriptions and their failure counts, in-memory requeue | `FanOut`, `handle`, `Deliver`, `requeueAfter` | ack before retry, crash, counters | attempts in order, every delivery ends, a disabled endpoint is left alone |
| Realtime hub `internal/realtime` | subscribers, channels, pumps | `Subscribe`, `Publish`, `pump`, `unsubscribe`, `Close` | send on a closed channel | no panic, slow clients bounded |
| Data subject requests `internal/dsr`, `internal/meta` | requests | `OpenRequest`, `Assign`, `Resolve`, Meta's deletion callback | officers racing, one tenant of several failing | every tenant asked, closed stays closed |
| Documents `internal/document` | rows, objects | `Upload`, `PresignDownload` | row before object, the client leaves | a clean row has an object, nothing infected is stored |
| Canned replies and tags `internal/cannedreply`, `internal/tag` | replies with macro actions, tags, links | create, update, delete, attach, detach | read, check and write without a transaction | edits keep what they do not name, macros name existing tags |
| Auth, customers, onboarding, analytics, supervisor, shared packages, seed, web, migrations, deployment | | CRUD, parsing, reporting | | |

How they interact: connectors publish to the INGRESS stream; every gateway replica pulls
the durable consumer `ticket-ingress` and writes tickets; agents' requests change the same
tickets through `ticket.Repo`, whose hooks publish `ticket.state_change` to JetStream for
CSAT, webhooks and the realtime hub; the handlers publish audit events to the AUDIT
stream, which every replica pulls through `audit-writer`. Routing writes tickets and agent
loads directly. `Repo.AppendMessage` queues replies on the OUTBOUND stream, where one worker
per channel takes them. Surveys, webhooks and live sockets hang off `ticket.state_change`.

## 2. Modules

    TicketState            the transition table (shared by all)
    TicketRows             abstract: each ticket moves along an edge or not at all
      ^ refined by
    TicketRepo             requests, the hook, batches      MCTicketRepo, TicketRepoProofs
    TicketIngress          consumer against the agents      MCTicketIngress, TicketIngressProofs
    Routing                Route, Escalate, Tick            MCRouting, RoutingProofs
    AuditLedger            stream, writers, hash chain      MCAuditLedger, AuditLedgerProofs

    Outbound               replies to the platforms         \         OutboundProofs
    Connectors             events from the platforms         \ Edges
    Mailbox                webhook and IMAP poller           / MCOutside, EdgesProofs
    Webhooks               posts to the tenants' endpoints  /

    Csat                   surveys                          \         CsatProofs
    Sla                    deadlines and the scheduler       |
    RealtimeHub            hub, pumps, sockets               |
    Dsr                    data subject requests             | Services
    Document               uploads and downloads             | MCServices, ServicesProofs
    Connect                the OAuth callback                |
    Library                canned replies, tags             /

Common conventions. A process takes one step per statement that another process can
observe: a row lock taken, an unlocked read, a commit, an acknowledgement. Row and advisory
locks are variables naming their holder. What a transaction has written but not committed
is in the process's own variables. `pc` names the next statement. Definitions called
`Mut...` are wrong variants used only to show that the properties can fail.

Each module stands alone. Edges, Services, MCRoutingSides and MCConsumers put several of them
side by side without letting them interact: each instance has variables of its own, `side`
says which one an initial state runs, and the others stay where their Init left them (in one
initial state where they have several, so that they add no states). The reachable states are
the union of those of the instances, and a property about one instance holds trivially in the
states of the others. Edges and Services keep the constants open, so that the proofs are about
them; MCOutside and MCServices give them values. Where one component's output is the other's
input (events of the connectors, changes of a ticket), each takes any order of inputs.

In the outer modules one bound covers all faults: `MaxFaults` is the number of crashes,
failed calls, lost answers and expired acknowledgements of a behaviour.

**TicketRepo.** `state`, `assigned`, `resolvedAt`, `closedAt` are columns of `tickets`;
`hook[r]` says that replica r's `Repo.OnStateChange` is not nil. `PatchState` is the PATCH
handler up to `ChangeState`; then `SelectForUpdate` or `Reject`, `UpdateAndCommit`,
`CheckHook` (the nil check) and `FireHook` (the call, which can find the field set to nil
in between: the goroutine then panics and unwinds). `BeginBulkState`, `DetachHook`,
`NextId`, `FinishLoop` and `RestoreHook` are `BulkState`; its save and its detach are two
steps because nothing guards the field. `BulkAssign` and `BulkUnassign` are single SQL
statements. `DbError` is a failing begin, query or commit. `log` is a history variable:
the changes committed, and how often each was announced. `DbErrors` switches failures on;
`MaxCommits` bounds the history, `Bulkers` and `Targets` the requests.

**TicketIngress.** The stream is `published`, `ready`, `acked`, `termed`, `deliveries`; a
message is handed out again after a Nak or when `AckWait` runs out, up to `MaxDeliver`.
`UpsertCustomer`, `UpsertConversation`, `SelectTicket`, `ReopenTicket`, `AppendMessage` and
`Commit` are the statements of `Handle`, `TxFails` and `Crash` may strike at each of
them, `SlowHandler` makes a message overdue while its handler works on. The locks of
`ON CONFLICT DO UPDATE` and of the reopen's `UPDATE` are kept to the commit. `ChangeState`
is one atomic step here; TicketRepo shows that it is one legal step of the row. Messages
prefetched by a pull (16) are those in `ready`. `MaxFaults` and `MaxMoves` bound the
environment.

**Routing.** A router locks the ticket (`SelectForUpdate`), reads the agents without a
lock (`PickAgent` with `Eligible` and `Best`, or `NoAgent`), and waits for the
`agent_status` row of the agent it picked (`CommitRoute`, or `Charge` and then
`CommitEscalate` for the previous agent). `Best` keeps what decides at one priority: more free
slots first; freshness and id break ties, so any of the least loaded may win. Tick is
`ScanUnassigned`, `ScanOffline`, `NextUnassigned`, `NextOrphan`, `TickDone`. The
environment is agents' presence, manual assignment, closing with `ReleaseOnClose` (as its
comment says it is to be wired), and other state changes; `MaxMoves` bounds it.
`BreakDeadlock` is Postgres aborting one transaction of a cycle.

**AuditLedger.** A row is its seq, its event and the hash it chains to; a hash is named by
the seq of its row. `Bootstrap`, `Begin`, `Commit` and `Ack` are the path of an event;
`AppendFails`, `InsertRefused`, `CommitUnknown` (the commit happened, the reply was lost),
`Crash`, `SlowHandler` and `AckWaitExpires` are what can go wrong. `alone` and `told` are
history: no two processes were ever up together, and none missed a commit.

**Outbound.** `AppendMessage` stores a reply (or internal note) and stamps
`first_response_at`; `OnOutbound` publishes its job after the commit, and `LoseJob` is the
gateway failing between the two. `Worker` gives each program of `cmd/*-outbound` its
channels, prefetch, the answers its platform may give and which of them the sender calls
transient; `Handle` is what its `handle` does with an answer: the row of `outbound_log` it writes
and how it settles the job. A worker's path is `Deliver` (into its pull buffer), `Take`,
`Send`, `WriteRow` or `WriteFails`, `Settle`; jobs wait in the buffer with AckWait running
(`Lapse`). An answer of `silent` or `server` leaves open whether the customer has the text.

**Connectors.** A post of an event is one step, `Post`, because a handler shares nothing
between its statements: verification, tenant lookup (`found`), `Normalize` (kind and
Msg-Id, per platform), publish (`bus`), the HTTP answer (`Handle`), and whether the platform
heard it (`heard`). `window` is the stream's memory of Msg-Ids, `Forget` its two minutes.
The widget's frames are posts of a socket, which nobody repeats.

**Mailbox.** `HandleMailgun` and `HandleJSON` record a mail's Message-ID and `Publish` it in a
step of its own. A poll is `PollAll`, `PollOne`, then `FetchSends` (UidFetch's goroutine)
against `Receive`, `PublishMail`, `ChannelClosed`, `FetchReturned` (the loop), and
`AdvanceCheckpoint`. `Reconnect` deletes a mailbox and adds it again, which forgets the ids.

**Webhooks.** `FanOut` reads the matching subscriptions, `Queue` publishes one job each under
the Msg-Id of subscription, event and attempt. A worker does `Pull`, `Load`, `Deliver`
(the HTTP post and `Classify`), `Record` (the counters) and `Settle`, which queues the next attempt with
`requeueAfter` from a goroutine that a `Crash` forgets. MaxDeliver is 1.

**Csat.** `OnStateChange` publishes, `Deliver` hands out; a dispatcher checks `Already`
(surveyExists), then `Create`, then queues the link, then `Ack`; `Fails` and `Lapse` are its errors
and its AckWait. `FindByToken`, `Submit` and `Revoke` are the public endpoint and the agent's.

**Sla.** A `Tick` begins with `scanOnce`, whose query returns what is due (`Found`, its rows in
any order) and then handles one event per step with what the query returned, while `Elapse`, `Answer`, `Resolve` and `Reopen` go on. Time is
counted in units; `MaxTime` bounds it.

**RealtimeHub.** Each critical section of `h.mu` is a step. `PumpCopies` takes the list of
subscribers, `PumpSends` sends to them without the lock, `Forward` moves frames to the socket's
queue, `Write` and `Ping` are the socket's loop. A send on a closed channel sets `panicked`.

**Dsr.** An officer's request locks the row (`Begin`), checks and commits (`Assign`,
`Resolve`) or rolls back. A callback of Meta looks up the tenants (`tenantsForUser`), opens one
request in each (`Open`, `OpenFails`) and answers.

**Document.** `sniff`, `scan`, `insert`, `Put`, and `Undo` when the put fails. `Leave` is the
client cancelling the request, whose context every call uses. `Flip` is an operator's edit.

**Connect.** `todo` holds what the callback's nested loops have left. Each call to Meta and
each upsert is a step that may fail (`Get`, `subscribePage`, `upsertPage`,
`discoverIGForPage`, `upsertIGAccount`, ..., `upsertWAPhone`); where the code logs and goes on, so does the model.
The last three definitions are the lists the channels page shows.

**Library.** `Open` reads the row, `Allowed` decides on it, `verifyActionTargets` looks up the
tags and `Update`, `Create`, `Delete` write: four statements, no transaction. `asked` is
history, the value last asked for by field.

## 3. Runs

| run | instance | shows |
|---|---|---|
| TicketRepoShared | 2 goroutines of one replica, one of which may run batches, 2 tickets, 3 commits, database errors | `LegalHistory` (refines TicketRows), `StampsFollowState`, `NewIsUnassigned`, `ChangesFormAPath`, `HookRestored`, `HeardAtMostOnce` |
| TicketRepoIsolated | 2 replicas with a goroutine each, no database errors, fair | `CommittedIsHeard`, `RequestsFinish` |
| TicketIngressSafety | a retried message, one of a second thread, a receipt and bad JSON, 2 replicas, 2 faults, 2 agent moves | `AckedIsStored`, `PidStoredOnce`, `OneTicketPerConversation`, `CustomersPerRef` |
| Routing | a ticker and a caller, 2 tickets, 2 agents with one slot each; or 2 callers, Route and Escalate both ways with deadlocks that really occur; fair | `OvershootBounded`, `TakenFromHolder`, `RoutingProgresses` |
| Consumers | 2 ledger processes, 4 events (two with one Msg-Id, one without payload), 1 fault; or 2 replicas of the ticket consumer with a message, a receipt and bad JSON; fair | `SoleWriterChain`, `ChainsToARow`, `AckedIsRecorded`, `CommitsInOrder`, `EventsSettle` |
| Outside | one of Outbound (2 replies, a ticket of any of 7 channels), Connectors (2 events of one platform, any two types, 2 accounts, 2 posts each), Mailbox (2 mailboxes, 3 mails, batch and buffer 1), Webhooks (2 subscriptions, 2 events, 2 workers, 2 attempts, disabled at 3); 1 fault, fair | `CopiesExcused`, `LogIsTrue`, `FirstResponseStands`; `EventsAccountedFor`; `MailAccountedFor`; `OneAttemptAtATime`, `DisabledIsQuiet`; `EverythingEnds` |
| Services | one of Csat (a ticket resolved twice, 2 dispatchers, 2 browsers), Sla (a ticket, 2 schedulers, 3 time units), RealtimeHub (2 sockets, 2 channels, a slot in each buffer), Dsr (2 officers, 2 tenants, a callback), Document (a clean and an infected upload), Connect (2 tenants with a common page and number), Library (an admin and an agent on 3 replies); 1 fault, fair | `OneSurvey`; `CalmStaysCalm`; `HubSafe`; `DataProtected`; `DecisionsStand`; `ServicesEnd` |
| TicketRepoTwoBatches | both goroutines may run batches | violates `HookRestored` |
| TicketIngressStaleReopen | one replica, an agent | violates `LegalHistory` |
| TicketIngressDuplicate | one replica, a redelivered message | violates `DuplicateIsNoOp` |
| RoutingTwoTickers | two tickers | violates `AutoRouteTakesNothing` |
| AuditFork | two processes, no fault | violates `ChainVerifies` |

Why the bounds are enough. The hazards need two processes on one row, one hook or one
table, and one fault between two statements; every run has that. Three commits let a
ticket go through resolved, reopened and resolved again while the other goroutine works.
Two deliveries per message give every crash and slow handler a second run; the property
that depends on the exact number of deliveries (`EventsAreRecorded`, in `EventsSettle`) has one fault fewer than
deliveries. One slot per agent makes every assignment reach the limit. Symmetry (replicas,
messages that differ in nothing) is used only in runs without liveness.

The outer modules need two actors and a fault: two workers on one job, the webhook and
the poller on one mail, two brands on one page, two officers on one row. Queues, buffers
and attempt limits are 1 to 3 instead of 8 to 50, so that each is reached.

The composite properties state, per module: `DataProtected` is `Dsr!EveryTenantAsked`,
`Document!CleanIsStored`, `Connect!AccountsFollowPages`, `Connect!ShownIsSubscribed`,
`Library!EditsKeep` and `Library!MacrosResolve`; `DecisionsStand` is `ScoreStands` and
`Dsr!ClosedStaysClosed`; `ServicesEnd` is `EveryResolutionIsSurveyed`,
`Sla!EveryBreachIsAnnounced` and `Hub!GoneSocketsLeave`; `EverythingEnds` is `EveryJobSettles`,
`Mail!PollEnds` and `Hooks!EveryDeliveryEnds`; `RoutingProgresses` is `NoneLeftWaiting` and
`RoutersFinish`; `EventsSettle` is `EventsAreRecorded` and `EveryMessageSettles`.

The runs that pass in spite of a known violation say under which condition the promise
holds: `HookRestored` while one batch at a time runs on a replica, `SoleWriterChain` while
gateways do not overlap, `OneSurvey` for tickets no two dispatchers handled at once,
`EditsKeep` for edits that did not overlap, `PollEnds` for polls that fit. The history variables named in such
an exception (`overlap`, `excuses`, `missed`, `torn`, `forgotten`, ...) are set only by the step that
earns it.

## 4. Fairness

- TicketRepo: `WF` for each goroutine's step, since a request handler runs until it returns;
  `SF` where a row lock is awaited, since Postgres queues the waiters and grants the
  lock in turn. Nothing makes requests arrive.
- TicketIngress: `WF` for a handler's step, `SF` for the conversation's lock (same reason),
  `WF` for the expiry of AckWait (a server timer) and `SF` for delivery to some worker (the
  loop pulls again after every message). No fairness for faults or agents.
- Routing: `SF` for routers' steps, which wait for row locks, `WF` for the scan of `Run`'s
  ticker. None for agents or callers.
- AuditLedger: `WF` for a process's step and for AckWait. With MaxAckPending 1 nobody
  competes long enough to need more.
- Outbound, Mailbox, Webhooks, Csat, Sla, RealtimeHub: `WF` for the loops, goroutines, tickers
  and timers of programs that run until they crash and are then started again. None for
  customers, agents, platforms or faults.

Consumers, Outside and Services assume less: weak fairness of the disjunction of the fair
steps, that is, some fair step is taken as long as one can be. Each module's `FairSpec`
implies it, because the steps that are not fair are bounded, or (resolving and reopening in
Sla) enable and disable the ticks of all idle schedulers together; so what holds under it
holds under `FairSpec`. It is strong enough where the bounds (deliveries,
attempts, posts, time) let no fair step recur for ever. Their liveness properties
have the form `[]<>P`: whenever the environment stops interfering, P is reached.

## 5. What the violations and the models show

1. *Two bulk requests on one replica* (`bulk.go:104-106`). The comment says the swap of the
   hook is "local to the batch". The `Repo` is shared: the second batch saves the nil the
   first put there and, ending last, restores it. From then on that replica announces
   no PATCH any more (batches still are, by a hook of their own): CSAT and webhooks
   hear nothing of those changes.
2. *Stale reopen* (`ingress.go:312-316`). The UPDATE names the ticket's id only; the state
   that justified it was read earlier without a lock. A ticket an agent has already
   reopened and taken up goes from open to reopened.
3. *A duplicate is not a no-op* (`ingress.go:21-24`). The reopen precedes the EXISTS check.
4. *Routers race onto one ticket* (`engine.go:56`). The row lock orders them, but nothing
   under the lock asks whether the ticket still needs an agent.
5. *The chain forks* (`writer.go:62-63`). prev_hash comes from the process's cache, which
   another replica's append makes stale; the deployment runs 2 to 8 gateways.

Thirteen more disagreements of the code with its comments are in `PROJECT.json` (`findings`)
without a run of their own; the passing runs state what does hold:

6. *Nobody stores ticket.state_change* (`csat/dispatcher.go:65`). No stream of `natsx` has the
   subject, so the dispatcher's consumer sees nothing as deployed. Csat models a stream that has it.
7. *A survey without a link* (`dispatcher.go:157`): the row is created first, and the redelivery finds it.
8. *A losing score is answered as stored* (`csat/repo.go:129`): the second UPDATE matches no row.
9. *The scheduler re-emits* (`sla/scheduler.go:153`): it raises the priority on every tick while a
   ticket is breached, twice if both deadlines are.
10. *Ten failed events disable a webhook* (`webhooks/deliver.go:181`), not fifty: attempts are counted.
11. *The hub panics* (`realtime/hub.go:98`): the pump sends to a channel that unsubscribe or Close
    has closed since the copy. `RealtimeHub!NoPanic` states the promise; it does not hold.
12. *Pings see no pong* (`realtime/server.go:96`): nobody reads from the socket.
13. *Presign trusts the row* (`document/service.go:177`), so a flipped row gets a URL.
14. *The deletion status page is always empty* (`meta/data_deletion.go:198`).
15. *Two brands share a page by halves* (`oauth_ig_wa.go:121`), and a WhatsApp account that
    could not be subscribed is shown as subscribed.
16. *Overlapping edits lose fields they do not name* (`cannedreply/repo.go:221`).
17. *A mail recorded but not published is lost* (`email/webhook.go:242`).
18. *A full mailbox hangs the poller* (`email/imap_poller.go:151`): past batch + 16 mails the loop
    waits for a goroutine that waits for it, and no other mailbox is polled again.

Seen while modelling and not made into runs:

- `repo.go:361-369`: a PATCH that commits while a batch of the same replica has the hook
  detached is never announced, and the field is read twice (nil check, then call).
- `bulk.go:118`: a database error in a batch leaves the ids already changed unreported
  (`main.go:237-239` says the batch is announced). Manual assignment and the consumer's
  reopen never fire a hook, so subscribers miss those moves.
- `bulk.go:13-16` says assigning "bumps to open"; the CASE at line 43 does so for `new` only.
- `ingress.go:288-310`: an agent may resolve the ticket between the SELECT and the commit;
  the customer's message then sits on a finished ticket. A new customer who writes on two
  threads at once gets two customer rows. Widget messages carry no platform id and are
  stored again on every redelivery after a commit.
- `queue.go:175-178` calls ReleaseOnClose idempotent; each call decrements. Route never
  gives the previous agent's load back and opens a ticket from any state. Reopened and
  on-hold tickets of offline agents, and open tickets without an agent, are never routed
  again. If the first MaxBatch tickets cannot be routed, the others starve. Nothing under
  `cmd/` starts the engine, the re-evaluator or the SLA scheduler yet.
- `consumer.go:156`: the Msg-Id is correlation id and action, so all audit rows of one bulk
  request but the first are dropped as duplicates, against `http.go:354`; `bulk_unassign`
  publishes no payload and the column is NOT NULL, so its row is never written.
- A lost commit reply forks the chain even with one writer.
- *Streams.* INGRESS sets no duplicate window, so it is JetStream's two minutes; the comments
  `facebook/webhook.go:125` and `whatsapp/webhook.go:92` say five. The statuses of a WhatsApp
  message share its wamid as Msg-Id, so `delivered` is dropped for `sent`. An e-mail's Msg-Id is
  its bare Message-ID: one mail to two mailboxes reaches the first only.
- *Inbound.* A failed publish is answered 200 by the Meta webhooks, voice ignores it; echoes of
  our own Messenger replies are ingested as the customer's. A mail that fails to process still
  advances the IMAP checkpoint, and a Mailgun post without a Message-Id is new on every retry.
- *Outbound.* Transport errors of the Graph API are terminated as failed
  (`facebook/outbound.go:197-200`); a database error in `routeForTicket` is reported as no_route;
  an AUTH failure with a 4xx code is permanent; a connection lost after DATA may send twice; the
  prefetch times the send timeout exceeds AckWait, so buffered jobs lapse. Voice replies go to a subject
  nobody consumes.
- *Csat, Sla.* A second resolution inside the duplicate window is dropped. A reopened ticket keeps
  `resolved_at`, so its resolution deadline never applies again.
- *Webhooks.* A comment says a Nak redelivers; MaxDeliver is 1. No program starts FanOut or Worker.
- *Hub.* A Subscribe after Close writes to a nil map and panics without releasing the mutex.
- *Dsr.* Meta's callback is answered 200 when an INSERT failed; its retries open further
  requests. `Resolve` accepts in_progress as a resolution and `Assign` rebinds a closed request.
- *Connect.* An account whose `ig_accounts` row came by the other login has a row the
  upsert turns into one its CHECK refuses.
- Audit events of `tag.delete` and `canned_reply.delete` carry no payload and are never written.

## 6. Proofs

Every invariant and every action property that a passing run checks is also proved, for any
sets of tickets, messages, processes and any bounds that satisfy the named assumptions of the
modules: the bounds are naturals (`BoundAssumption`), None is nobody and nothing
(`NoneAssumption`, `MidAssumption`, `AssetAssumption`, ...), the constants that are functions and
lists have the right domains (`BoxAssumption`, `ChannelAssumption`, `CallbackAssumption`,
`PolicyAssumption`, `BodyAssumption`). TLC evaluates each of them on the instances. A set is
finite only where a property counts its members: routers, the workers of TicketIngress and
Webhooks, mails, and Sla's tickets and schedulers.

Three conditions are in the statements because the code needs them, and a violating run or
finding shows that: one goroutine per replica runs batches (`OneBulker`, for `HookRestored` and
`HeardAtMostOnce`; TicketRepoTwoBatches violates the first without it), batches have their replica
to themselves and no query fails (`BulkAlone`, `~DbErrors`, for `CommittedIsHeard`), and no two
processes were ever up together (`alone`, in `SoleWriterChain` itself; AuditFork).

| module | theorem | property | argument |
|---|---|---|---|
| TicketRepoProofs | TypeCorrect | TypeOK | inductive together with what a goroutine's arguments are at each label |
| | StampsCorrect | StampsFollowState | the state read under the lock is the row's state until the commit, because every writer of `state` needs the lock |
| | NewUnassigned | NewIsUnassigned | same invariant; no edge leads back to new |
| | RepoImplementsRows | LegalHistory | every step maps to an edge or a stutter of TicketRows |
| | OnePath | ChangesFormAPath | a change is logged from the state the row has, so the changes of a ticket are linked end to end |
| | HookComesBack, HeardOnce | HookRestored, HeardAtMostOnce | the hook is nil exactly while the replica's one bulker is between detach and restore, and what it saved is the hook; until a batch reports, nothing of it was reported |
| | NothingUnheard | CommittedIsHeard | with batches alone, a single request finds the hook in place, and a batch ends with its report |
| TicketIngressProofs | TypeCorrect, OneTicket, PlatformMessageOnce, NothingLost | TypeOK, OneTicketPerConversation, PidStoredOnce, AckedIsStored | a worker past the upsert holds its conversation's lock, so what it read of ticket and messages is still what is committed when it commits |
| | FewCustomers | CustomersPerRef | the rows under a reference and the rows that loops will still insert, having read the table without one, are at most the loops |
| RoutingProofs | TypeCorrect, HistoryTrue | TypeOK, TakenFromHolder | a router past the SELECT holds the ticket's lock, and `prev` is the holder |
| | LoadBounded | OvershootBounded | strengthened to: load plus the routers about to charge the agent is at most max + routers - 1 |
| AuditLedgerProofs | TypeCorrect, OrderedCommits | TypeOK, CommitsInOrder | the advisory lock covers nextval to commit, so a pending seq is above every row |
| | NoDanglingLink, NothingAckedIsLost | ChainsToARow, AckedIsRecorded | a cached hash is genesis or a committed row; an ack follows the commit |
| | SoleWriterVerifies | SoleWriterChain | while `alone` and `told`, the one running process caches the greatest seq |
| OutboundProofs | TypeCorrect | TypeOK (in EdgesTypeOK) | with what a worker holds at each step |
| | CopiesAreExcused | CopiesExcused | a potential: the texts sent and the sends still to come from where the job is (`Weight`) grow only by the excuses |
| | TruthfulLog | LogIsTrue | a worker that is about to write or settle holds the answer to a post it made, and copies and rows are never taken back; a reply nobody routed has no copy without an excuse |
| | ClockStopsOnce | FirstResponseStands | the UPDATE's WHERE keeps the first stamp |
| EdgesProofs | OneAttempt, DisabledStaysQuiet | OneAttemptAtATime, DisabledIsQuiet | a delivery that the stream remembers is in one place, as the attempt its posts call for (`OneInv`); the late posts and the posts under way are at most the workers |
| | Accounting | EventsAccountedFor | a Msg-Id tells the event, so the window's entry for it names an event of the same thing with a copy |
| | MailsAccounted | MailAccountedFor | mails reach the loop by UID without a gap (`Placed`), so all up to the highest are recorded (`Covered`); a row is inserted once per connection and pays for one publish (`Once`), and it is its mail's alone (`RowOwner`), so it stands for a copy (`Standing`) |
| | EdgesTyped, EdgesSafe | EdgesTypeOK and the six above | a step of Edges is a step of one module and leaves the others alone |
| CsatProofs | TypeCorrect, SurveyedOnce, FirstScoreStands | TypeOK (in ServicesTypeOK), OneSurvey, DecisionsStand | while no two dispatchers overlapped on a ticket, the one that found no survey is alone until it has created it; a survey whose link is not queued is the newest of a dispatcher about to queue it |
| ServicesProofs | ServicesTyped | ServicesTypeOK | the invariants below, side by side |
| | TenantDataProtected | DataProtected | Dsr: a callback has one request in each tenant it is done with (`CallOf`). Document: what goes on was scanned clean. Connect: an account follows its page, or a callback is between the two (`Follows`, `ConOf`). Library: what an edit read is what the row holds unless edits overlapped (`UpToDate`, `Alone`) |
| | DecisionsAreFinal | DecisionsStand | an officer holds the row's lock, so the state it checked is the state it changes (`Locked`) |
| | HubStaysSafe | HubSafe | a channel is open while the hub lists its socket and a pump lives while `pubsubs` names it (`Listed`, `Pumped`) |
| | RaisedLateSeldom | CalmStaysCalm | each scheduler spends each kind of deadline at most once on a ticket that has met it (`Spent`) |

The properties themselves are not inductive: they speak of committed rows and say nothing
of what a process in the middle of a transaction holds or has read. The strengthenings add
exactly that, and each proof has one step per action.

The proofs of Edges and Services use the modules' own specifications, without fairness; the
compositions imply each of them (`EdgesSideBySide`, `SideBySide`).

Only model-checked: everything that needs fairness (`RequestsFinish`, `RoutingProgresses`,
`EventsSettle`, `EverythingEnds`, `ServicesEnd`), since liveness is outside what the prover
does; and the violations, which are counterexamples and need no proof.

## 7. Not modelled, and simplifications

- Clocks of replicas that disagree (`ORDER BY ts` at bootstrap); a bootstrap that fails;
  a Msg-Id window that closes over audit events; events published before the durable consumer exists.
- Errors in Route and Escalate other than a deadlock abort; they end in the same rollback.
- Priority, skills and scores are reduced to the order they induce; message bodies,
  attachments, MIME, the IVR's texts and the payloads' JSON are left out. Tenants appear where a row
  may change hands (Connect, Dsr, Connectors' accounts); elsewhere every query is scoped to one.
- Reads and lists, but for those a property speaks of.
- Permission checks of the handlers (`callerLimit` is the `limit` argument of `BulkAssign`;
  Library keeps who may edit whose reply, which decides what is written).
- Authentication and sessions, customers and onboarding, analytics and supervisor views, the
  shared packages (the rate limiter among them), the seed tool, the web front ends, the schema and
  the deployment and recovery scripts. They are requests of one statement, parsing, reporting or
  configuration; the reasons are with the components in `PROJECT.json`.

## 8. Plan

Done: the modules of section 2 and the proofs of every safety property that the runs check. Next:

1. Composition: the hook of TicketRepo in front of Csat and Webhooks, Connectors in front of
   TicketIngress.
2. Abstract specifications of a queue with at-least-once delivery (TicketIngress, Outbound,
   Webhooks) and of an append-only log (AuditLedger), with the refinements proved.
3. Pure algorithms against reference definitions: `Score` and `Pick`, `webhooks.BackoffFor`.
