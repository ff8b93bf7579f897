------------------------------ MODULE RealtimeHub ------------------------------
(***************************************************************************)
(* internal/realtime and cmd/ws: one hub per process multiplexes Redis     *)
(* channels onto the agents' sockets.  A channel with a subscriber has a   *)
(* pump, which copies the list of subscribers under the lock and sends to  *)
(* them without it.  Each critical section of h.mu is one step.  A socket  *)
(* subscribes once per channel, so a subscription is named <<s, c>>, and a *)
(* pump by the subscription that started it.                               *)
(***************************************************************************)
EXTENDS Naturals, Sequences, FiniteSets

CONSTANTS
  Sockets,
  ChannelsOf,   \* the channels a socket subscribes, in order (the supervisor's last)
  BufferSize,   \* frames a subscription buffers, 16 in the code
  OutSize,      \* frames a socket buffers, 32 in the code
  MaxFrames,    \* bound on frames published
  None

BoundAssumption == BufferSize \in Nat \ {0} /\ OutSize \in Nat \ {0} /\ MaxFrames \in Nat

\* What kills the process is None while nothing did.
NoneAssumption == None \notin Sockets \cup {"send", "close"}

Channels == UNION {{ChannelsOf[s][i] : i \in DOMAIN ChannelsOf[s]} : s \in Sockets}
Subscriptions == {sc \in Sockets \X Channels : \E i \in DOMAIN ChannelsOf[sc[1]] : ChannelsOf[sc[1]][i] = sc[2]}
ChannelAssumption == ChannelsOf \in [Sockets -> Seq(Channels)]

VARIABLES
  subs, pubsubs,  \* by channel: subscribers, and the pump (None when absent)
  chan,           \* a subscription: "none", "open" or "closed"
  frames,         \* what it buffers
  forwarding,     \* subscriptions whose forwardToSocket runs
  pump,           \* [pc, inbox, todo]: pc is "none", "live", "cancelled" or "ended"
  socket,         \* [pc, todo, out, pinged]: pc is "new", "serving" or "returned"
  gone,           \* sockets whose client went away
  closed,         \* the hub was closed
  stuck,          \* a goroutine panicked and was recovered, holding h.mu
  panicked,       \* what killed the process: None, "send" or "close"
  published

vars == <<subs, pubsubs, chan, frames, forwarding, pump, socket, gone, closed,
          stuck, panicked, published>>
hub == <<subs, pubsubs, closed, stuck>>

TypeOK ==
  /\ subs \in [Channels -> SUBSET Sockets]
  /\ \A c \in Channels : pubsubs[c] = None \/ <<pubsubs[c], c>> \in Subscriptions
  /\ chan \in [Subscriptions -> {"none", "open", "closed"}]
  /\ frames \in [Subscriptions -> 0..BufferSize] /\ forwarding \subseteq Subscriptions
  /\ pump \in [Subscriptions -> [pc : {"none", "live", "cancelled", "ended"},
                                 inbox : 0..MaxFrames, todo : SUBSET Sockets]]
  /\ \A s \in Sockets : socket[s].pc \in {"new", "serving", "returned"} /\ socket[s].out \in 0..OutSize
  /\ gone \subseteq Sockets /\ {closed, stuck} \subseteq BOOLEAN
  /\ panicked \in {None, "send", "close"} /\ published \in 0..MaxFrames

Init ==
  /\ subs = [c \in Channels |-> {}] /\ pubsubs = [c \in Channels |-> None]
  /\ chan = [sc \in Subscriptions |-> "none"]
  /\ frames = [sc \in Subscriptions |-> 0] /\ forwarding = {}
  /\ pump = [sc \in Subscriptions |-> [pc |-> "none", inbox |-> 0, todo |-> {}]]
  /\ socket = [s \in Sockets |-> [pc |-> "new", todo |-> <<>>, out |-> 0, pinged |-> FALSE]]
  /\ gone = {} /\ closed = FALSE /\ stuck = FALSE /\ panicked = None /\ published = 0

Up == panicked = None
Lock == Up /\ ~stuck
-----------------------------------------------------------------------------
Accept(s) ==
  /\ Up /\ socket[s].pc = "new"
  /\ socket' = [socket EXCEPT ![s].pc = "serving", ![s].todo = ChannelsOf[s]]
  /\ UNCHANGED <<hub, chan, frames, forwarding, pump, gone, panicked, published>>

Subscribe(s) ==
  /\ Lock /\ ~closed /\ socket[s].pc = "serving" /\ socket[s].todo # <<>>
  /\ LET c == Head(socket[s].todo) IN
     /\ subs' = [subs EXCEPT ![c] = @ \cup {s}]
     /\ chan' = [chan EXCEPT ![<<s, c>>] = "open"]
     /\ forwarding' = forwarding \cup {<<s, c>>}
     /\ pubsubs' = [pubsubs EXCEPT ![c] = IF @ = None THEN s ELSE @]
     /\ pump' = IF pubsubs[c] = None THEN [pump EXCEPT ![<<s, c>>].pc = "live"] ELSE pump
  /\ socket' = [socket EXCEPT ![s].todo = Tail(@)]
  /\ UNCHANGED <<frames, gone, closed, stuck, panicked, published>>

\* The map is nil: the router recovers the panic, and nobody unlocks h.mu.
SubscribeClosed(s) ==
  /\ Lock /\ closed /\ socket[s].pc = "serving" /\ socket[s].todo # <<>>
  /\ stuck' = TRUE
  /\ socket' = [socket EXCEPT ![s].pc = "returned"]
  /\ UNCHANGED <<subs, pubsubs, closed, chan, frames, forwarding, pump, gone, panicked, published>>

\* Publish, by any program: every pump that runs gets the frame from Redis.
Publish(c) ==
  /\ Up /\ published < MaxFrames
  /\ published' = published + 1
  /\ pump' = [sc \in Subscriptions |->
       IF sc[2] = c /\ pump[sc].pc \in {"live", "cancelled"} /\ ~closed
       THEN [pump[sc] EXCEPT !.inbox = @ + 1] ELSE pump[sc]]
  /\ UNCHANGED <<hub, chan, frames, forwarding, socket, gone, panicked>>

\* select may take a frame although the pump was cancelled.
PumpCopies(p) ==
  /\ Lock /\ pump[p].pc \in {"live", "cancelled"} /\ pump[p].todo = {} /\ pump[p].inbox > 0
  /\ pump' = [pump EXCEPT ![p].inbox = @ - 1, ![p].todo = subs[p[2]]]
  /\ UNCHANGED <<hub, chan, frames, forwarding, socket, gone, panicked, published>>

PumpSends(p, s) ==
  /\ Up /\ s \in pump[p].todo
  /\ pump' = [pump EXCEPT ![p].todo = @ \ {s}]
  /\ LET sc == <<s, p[2]>> IN
     IF chan[sc] = "closed"
     THEN panicked' = "send" /\ UNCHANGED frames
     ELSE /\ frames' = [frames EXCEPT ![sc] = IF @ < BufferSize THEN @ + 1 ELSE @]
          /\ UNCHANGED panicked
  /\ UNCHANGED <<hub, chan, forwarding, socket, gone, published>>

PumpEnds(p) ==
  /\ Up /\ pump[p].pc = "cancelled" /\ pump[p].todo = {}
  /\ pump' = [pump EXCEPT ![p].pc = "ended", ![p].inbox = 0]
  /\ UNCHANGED <<hub, chan, frames, forwarding, socket, gone, panicked, published>>
-----------------------------------------------------------------------------
\* forwardToSocket
Forward(sc) ==
  /\ Up /\ sc \in forwarding
  /\ \/ /\ frames[sc] > 0
        /\ frames' = [frames EXCEPT ![sc] = @ - 1]
        /\ socket' = [socket EXCEPT ![sc[1]].out = IF @ < OutSize THEN @ + 1 ELSE @]
        /\ UNCHANGED forwarding
     \/ /\ frames[sc] = 0 /\ chan[sc] = "closed"
        /\ forwarding' = forwarding \ {sc}
        /\ UNCHANGED <<frames, socket>>
  /\ UNCHANGED <<hub, chan, pump, gone, panicked, published>>

Leave(s) ==
  /\ Up /\ socket[s].pc = "serving" /\ s \notin gone
  /\ gone' = gone \cup {s}
  /\ UNCHANGED <<hub, chan, frames, forwarding, pump, socket, panicked, published>>

Result(s) == IF s \in gone THEN "returned" ELSE "serving"

\* The handler's loop: writing to a client that went away fails, and ServeHTTP returns.
Write(s) ==
  /\ Up /\ socket[s].pc = "serving" /\ socket[s].todo = <<>> /\ socket[s].out > 0
  /\ socket' = [socket EXCEPT ![s].out = @ - 1, ![s].pc = Result(s)]
  /\ UNCHANGED <<hub, chan, frames, forwarding, pump, gone, panicked, published>>

\* The heartbeat: nothing reads from the socket, so the first ping that could be
\* written waits for its pong until the handler returns, and is the last.
Ping(s) ==
  /\ Up /\ socket[s].pc = "serving" /\ socket[s].todo = <<>> /\ ~socket[s].pinged
  /\ socket' = [socket EXCEPT ![s].pinged = TRUE, ![s].pc = Result(s)]
  /\ UNCHANGED <<hub, chan, frames, forwarding, pump, gone, panicked, published>>

\* Mutant: a subscription the closed hub already closed is closed again.
MutRemovable(s, c) == closed \/ s \in subs[c]

Removable(s, c) == ~closed /\ s \in subs[c]

\* Mutant: only the channel's last subscriber is told.
MutCloses(s, c) == subs[c] = {s}

Closes(s, c) == TRUE

\* The goroutine Subscribe starts, once the handler has cancelled its context.
unsubscribe(s, c) ==
  /\ Lock /\ socket[s].pc = "returned" /\ Removable(s, c)
  /\ subs' = [subs EXCEPT ![c] = @ \ {s}]
  /\ IF chan[<<s, c>>] = "closed" THEN panicked' = "close" /\ UNCHANGED chan
     ELSE /\ chan' = IF Closes(s, c) THEN [chan EXCEPT ![<<s, c>>] = "closed"] ELSE chan
          /\ UNCHANGED panicked
  /\ IF subs'[c] = {} /\ pubsubs[c] # None
     THEN /\ pubsubs' = [pubsubs EXCEPT ![c] = None]
          /\ pump' = [pump EXCEPT ![<<pubsubs[c], c>>].pc = "cancelled"]
     ELSE UNCHANGED <<pubsubs, pump>>
  /\ UNCHANGED <<frames, forwarding, socket, gone, closed, stuck, published>>

\* The server has shut down; sockets are hijacked connections and still served.
Close ==
  /\ Lock /\ ~closed
  /\ closed' = TRUE
  /\ pump' = [sc \in Subscriptions |->
       IF pump[sc].pc = "live" THEN [pump[sc] EXCEPT !.pc = "cancelled"] ELSE pump[sc]]
  /\ chan' = [sc \in Subscriptions |-> IF sc[1] \in subs[sc[2]] THEN "closed" ELSE chan[sc]]
  /\ subs' = [c \in Channels |-> {}] /\ pubsubs' = [c \in Channels |-> None]
  /\ UNCHANGED <<frames, forwarding, socket, gone, stuck, panicked, published>>

Serve(s) == Subscribe(s) \/ SubscribeClosed(s) \/ Write(s) \/ Ping(s)
Run(p) == PumpCopies(p) \/ PumpEnds(p) \/ \E s \in Sockets : PumpSends(p, s)

Next ==
  \/ \E s \in Sockets : Accept(s) \/ Serve(s) \/ Leave(s)
  \/ \E c \in Channels : Publish(c)
  \/ \E sc \in Subscriptions : Run(sc) \/ Forward(sc) \/ unsubscribe(sc[1], sc[2])
  \/ Close

Spec == Init /\ [][Next]_vars
Fairness ==
  /\ \A s \in Sockets : WF_vars(Serve(s))
  /\ \A sc \in Subscriptions : WF_vars(Run(sc)) /\ WF_vars(Forward(sc)) /\ WF_vars(unsubscribe(sc[1], sc[2]))
FairSpec == Spec /\ Fairness
-----------------------------------------------------------------------------
(***************************************************************************)
(* Close and the goroutines that unsubscribe close a channel once; a       *)
(* channel is open exactly while the hub lists it, and one pump serves the *)
(* list, none an empty one.                                                *)
(***************************************************************************)
HubSafe ==
  /\ panicked # "close"
  /\ \A sc \in Subscriptions : chan[sc] = "open" <=> sc[1] \in subs[sc[2]]
  /\ \A c \in Channels :
       {sc \in Subscriptions : sc[2] = c /\ pump[sc].pc = "live"} =
         IF subs[c] = {} THEN {} ELSE {<<pubsubs[c], c>>}

(***************************************************************************)
(* A socket whose client went away is noticed when a frame is written to   *)
(* it: the hub forgets it and its forwarders end.  (Nothing else notices,  *)
(* after the first ping.)                                                  *)
(***************************************************************************)
GoneSocketsLeave == []<>(\A s \in gone :
  socket[s].out > 0 \/ socket[s].pc = "returned"
    => ~Lock \/ \A sc \in Subscriptions : sc[1] = s => chan[sc] # "open" /\ sc \notin forwarding)

(***************************************************************************)
(* hub.go:79-80 and 145: the pump takes nothing down, and Close is safe on *)
(* shutdown.                                                               *)
(***************************************************************************)
NoPanic == panicked = None
=============================================================================
