--------------------------------- MODULE Edges ---------------------------------
(***************************************************************************)
(* The system's edges next to one another: replies to the platforms        *)
(* (Outbound), the events they post (Connectors), inbound e-mail (Mailbox) *)
(* and the tenants' own webhooks (Webhooks).  They meet in the streams,    *)
(* which each of them sees only its own subjects of, and share no state;   *)
(* "side" is the one that moves, and an initial state chooses it.          *)
(***************************************************************************)
EXTENDS Outbound

CONSTANTS
  PlatformEvents, Ids, Accounts, PlatformTries,                     \* Connectors
  Mails, Order, BoxOf, Mid, Posted, Batch, Buffer, ProviderTries,   \* Mailbox
  Subs, DomainEvents, Patterns, SubjectOf, HookWorkers,             \* Webhooks
  MaxAttempts, AutoDisableThreshold, Prefetch, MaxCalls

VARIABLES
  side,
  cShape, cPlatform, cTries, cGreeted, cWindow, cCopies, cDropped, cForgotten, cMissed, cFaults,
  mUid, mCkpt, mGen, mSeen, mWindow, mCopies, mDropped, mFailed, mPost, mTries, mQueue, mPoll, mFaults,
  hActive, hFailures, hCalls, hFan, hQueue, hWindow, hInbox, hPc, hClass, hBackoff, hPosts, hFate,
  hForgotten, hLate, hFaults

cVars == <<cShape, cPlatform, cTries, cGreeted, cWindow, cCopies, cDropped, cForgotten, cMissed, cFaults>>
mVars == <<mUid, mCkpt, mGen, mSeen, mWindow, mCopies, mDropped, mFailed, mPost, mTries, mQueue,
           mPoll, mFaults>>
hVars == <<hActive, hFailures, hCalls, hFan, hQueue, hWindow, hInbox, hPc, hClass, hBackoff, hPosts,
           hFate, hForgotten, hLate, hFaults>>

In == INSTANCE Connectors WITH
  Events <- PlatformEvents, MaxTries <- PlatformTries,
  shape <- cShape, platform <- cPlatform, tries <- cTries, greeted <- cGreeted, window <- cWindow,
  copies <- cCopies, droppedFor <- cDropped, forgotten <- cForgotten, missed <- cMissed, faults <- cFaults

Mail == INSTANCE Mailbox WITH
  MaxTries <- ProviderTries,
  uid <- mUid, ckpt <- mCkpt, gen <- mGen, seen <- mSeen, window <- mWindow, copies <- mCopies,
  dropped <- mDropped, failed <- mFailed, post <- mPost, tries <- mTries, queue <- mQueue,
  poll <- mPoll, faults <- mFaults

Hooks == INSTANCE Webhooks WITH
  Events <- DomainEvents, Workers <- HookWorkers,
  active <- hActive, failures <- hFailures, calls <- hCalls, fan <- hFan, queue <- hQueue,
  window <- hWindow, inbox <- hInbox, pc <- hPc, class <- hClass, backoff <- hBackoff,
  posts <- hPosts, fate <- hFate, forgotten <- hForgotten, late <- hLate, faults <- hFaults

\* What does not run begins in one state.
EdgesInit ==
  /\ side \in {"outbound", "inbound", "mail", "hooks"}
  /\ Init /\ In!Init /\ Mail!Init /\ Hooks!Init
  /\ side # "inbound" => \A e \in PlatformEvents : cShape[e].src = "fb" /\ cShape[e].type = In!Garbage
  /\ side # "outbound" => \A t \in Tickets : channel[t] = "fb"

Sent(A)      == side = "outbound" /\ A /\ UNCHANGED <<side, cVars, mVars, hVars>>
Inbound(A)   == side = "inbound" /\ A /\ UNCHANGED <<side, vars, mVars, hVars>>
Mailed(A)    == side = "mail" /\ A /\ UNCHANGED <<side, vars, cVars, hVars>>
Hooked(A)    == side = "hooks" /\ A /\ UNCHANGED <<side, vars, cVars, mVars>>

EdgesVars == <<side, vars, cVars, mVars, hVars>>
EdgesNext == Sent(Next) \/ Inbound(In!Next) \/ Mailed(Mail!Next) \/ Hooked(Hooks!Next)

\* Less than FairSpec of each module: of the steps that are fair there, some
\* step is taken.  It is enough, because the bounds let none recur for ever.
Fair ==
  \/ Sent(\/ \E p \in Workers : Loop(p)
          \/ \E r \in Replies : AckWaitExpires(r) \/ OnOutbound(r))
  \/ Mailed(Mail!Step)
  \/ Hooked(\E w \in HookWorkers : Hooks!Loop(w) \/ \E j \in Hooks!Jobs : Hooks!requeueAfter(w, j))

EdgesSpec == EdgesInit /\ [][EdgesNext]_EdgesVars /\ WF_EdgesVars(Fair)
-----------------------------------------------------------------------------
\* The type invariants of the modules.
EdgesTypeOK == TypeOK /\ In!TypeOK /\ Mail!TypeOK /\ Hooks!TypeOK

\* An event the platform will not post again is in the stream or has a named
\* excuse, and what the stream drops as a duplicate is one (see Connectors).
EventsAccountedFor == In!EventsAccountedFor

\* A mail is ingested once, by webhook or poller, and none is passed over (see
\* Mailbox).
MailAccountedFor == Mail!MailAccountedFor

\* Attempts of a tenant's webhook come one at a time (see Webhooks).
OneAttemptAtATime == Hooks!OneAttemptAtATime

\* A subscription that was disabled is left alone (see Webhooks).
DisabledIsQuiet == Hooks!DisabledIsQuiet

\* Jobs settle, polls end, deliveries end (see Outbound, Mailbox, Webhooks).
EverythingEnds == EveryJobSettles /\ Mail!PollEnds /\ Hooks!EveryDeliveryEnds
=============================================================================
