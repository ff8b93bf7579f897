------------------------------ MODULE Connectors ------------------------------
(***************************************************************************)
(* internal/connector/*: the webhooks of Messenger, Instagram, WhatsApp, X *)
(* and Africa's Talking and the chat widget's socket, up to the INGRESS    *)
(* stream that TicketIngress consumes.  A platform posts an event until it *)
(* hears a 2xx or 4xx; the handler verifies, resolves the tenant,          *)
(* normalises and publishes with a Nats-Msg-Id, and the stream drops what  *)
(* has a Msg-Id of its duplicate window (natsx leaves it at two minutes).  *)
(*                                                                         *)
(* An event is its source, type, platform id and the account of ours it is *)
(* for; a post that carries several is as many posts, since the handlers'  *)
(* loops treat them alone.  (Mailbox has the e-mail connector.)            *)
(***************************************************************************)
EXTENDS Naturals, FiniteSets

CONSTANTS
  Events,     \* things that happen on the platforms
  Ids,        \* platform message ids
  Accounts,   \* our pages, numbers, sites
  MaxTries,   \* how often a platform posts an event at most
  MaxFaults,  \* bound on lookup errors, failed publishes and lost answers
  None

BoundAssumption == MaxTries \in Nat \ {0} /\ MaxFaults \in Nat

Types == [fb |-> {"message", "postback", "read", "delivery", "other"},
          ig |-> {"dm", "echo", "read", "comment", "mention", "other"},
          wa |-> {"message", "sent", "delivered", "read"},
          x  |-> {"reply", "quote", "mention", "dm", "favorite", "follow"},
          voice  |-> {"ringing", "consent", "ended"},
          widget |-> {"hello", "message", "identify", "typing"}]
Sources == DOMAIN Types
Garbage == "garbage"   \* signed, but no JSON the connector can read
Forged  == "forged"    \* not signed with the secret the connector has
Shapes  == UNION {[src : {s}, type : Types[s] \cup {Garbage, Forged},
                   id : Ids, to : Accounts] : s \in Sources}

VARIABLES
  shape,     \* shape[e]: what the event is
  platform,  \* platform[e]: "idle", "due" (post it again) or "done"
  tries,     \* posts so far
  greeted,   \* visitors whose hello the widget's loop has seen
  window,    \* Msg-Ids the stream remembers, each with the event that set it
  copies,    \* copies[e]: messages of the stream that e's posts made
  droppedFor,\* droppedFor[e]: events in whose favour the stream dropped e
  forgotten, \* events whose Msg-Id left the window
  missed,    \* events a fault kept out of the stream
  faults

vars == <<shape, platform, tries, greeted, window, copies, droppedFor,
          forgotten, missed, faults>>

\* None is neither a kind of event nor a Msg-Id.
NoneAssumption ==
  /\ \A s \in Sources : None \notin Types[s]
  /\ None \notin {"status", "identified"}
  /\ None \notin ({"fb"} \X Ids) \cup ({"ig", "wa", "x"} \X Accounts \X Ids)
                   \cup ({"voice"} \X Accounts \X Ids \X Types.voice)

Nothing == [kind |-> None, key |-> None]
Event(kind, key) == [kind |-> kind, key |-> key]
-----------------------------------------------------------------------------
(***************************************************************************)
(* Normalize and publish: the kind of event and the Msg-Id it travels      *)
(* with; Nothing is what the connector answers and does not publish.       *)
(***************************************************************************)
\* Mutant: a postback travels without its id.
MutFbNormalize(s) ==
  CASE s.type = "message"                         -> Event(s.type, <<"fb", s.id>>)
    [] s.type \in {"postback", "read", "delivery"} -> Event(s.type, None)
    [] OTHER                                      -> Nothing

FbNormalize(s) ==
  CASE s.type \in {"message", "postback"} -> Event(s.type, <<"fb", s.id>>)
    [] s.type \in {"read", "delivery"}    -> Event(s.type, None)
    [] OTHER                              -> Nothing

IgNormalize(s) ==
  CASE s.type \in {"dm", "comment", "mention"} -> Event(s.type, <<"ig", s.to, s.id>>)
    [] s.type \in {"read", "other"}            -> Event(s.type, None)
    [] OTHER                                   -> Nothing  \* our own echo, garbage

\* Every status of one of our messages carries that message's id.
WaNormalize(s) ==
  CASE s.type = "message"                     -> Event("message", <<"wa", s.to, s.id>>)
    [] s.type \in {"sent", "delivered", "read"} -> Event("status", <<"wa", s.to, s.id>>)
    [] OTHER                                  -> Nothing

\* Mutant: without for_user_id, the second subscriber's copy is a duplicate.
MutXNormalize(s) ==
  CASE s.type = "follow"                            -> Event(s.type, None)
    [] s.type \in Types.x \ {"follow"}              -> Event(s.type, <<"x", s.id>>)
    [] OTHER                                        -> Nothing

XNormalize(s) ==
  CASE s.type = "follow"               -> Event(s.type, None)
    [] s.type \in Types.x \ {"follow"} -> Event(s.type, <<"x", s.to, s.id>>)
    [] OTHER                           -> Nothing

\* The id of a call's event is its session and its kind.
VoiceNormalize(s) ==
  IF s.type \in Types.voice THEN Event(s.type, <<"voice", s.to, s.id, s.type>>) ELSE Nothing

\* A frame of the visitor s.id on site s.to; no Msg-Id.
WidgetFrame(s) ==
  IF <<s.to, s.id>> \notin greeted \/ s.type \notin {"identify", "message", "typing"} THEN Nothing
  ELSE Event(IF s.type = "identify" THEN "identified" ELSE s.type, None)

Normalize(s) == CASE s.src = "fb"     -> FbNormalize(s)
                  [] s.src = "ig"     -> IgNormalize(s)
                  [] s.src = "wa"     -> WaNormalize(s)
                  [] s.src = "x"      -> XNormalize(s)
                  [] s.src = "voice"  -> VoiceNormalize(s)
                  [] s.src = "widget" -> WidgetFrame(s)

(***************************************************************************)
(* The handlers' answers.  found: the tenant lookup succeeds.  The Graph   *)
(* webhooks and X treat an error of the lookup like an account that is not *)
(* connected, and one of publish like success: 200 whatever happens, since *)
(* the platforms retry a 5xx.                                              *)
(***************************************************************************)
Answer(code, event) == [code |-> code, event |-> event]
Dropping(s, found) ==
  IF s.type = Forged THEN Answer(401, Nothing)
  ELSE Answer(200, IF found THEN Normalize(s) ELSE Nothing)

FbHandleEvent(s, found) == Dropping(s, found)
IgHandleEvent(s, found) == Dropping(s, found)
WaHandleEvent(s, found) == Dropping(s, found)
XHandleEvent(s, found)  == Dropping(s, found)
VoiceServeHTTP(s, found) ==
  IF s.type = Garbage THEN Answer(400, Nothing)   \* no sessionId
  ELSE IF ~found THEN Answer(503, Nothing)
  ELSE IF s.type = Forged THEN Answer(403, Nothing)
  ELSE Answer(200, Normalize(s))
\* found: Identify's transaction commits; the site was resolved at the upgrade.
WidgetPump(s, found) ==
  Answer(200, IF s.type = "identify" /\ ~found THEN Nothing ELSE Normalize(s))

Handle(s, found) == CASE s.src = "fb"     -> FbHandleEvent(s, found)
                      [] s.src = "ig"     -> IgHandleEvent(s, found)
                      [] s.src = "wa"     -> WaHandleEvent(s, found)
                      [] s.src = "x"      -> XHandleEvent(s, found)
                      [] s.src = "voice"  -> VoiceServeHTTP(s, found)
                      [] s.src = "widget" -> WidgetPump(s, found)
-----------------------------------------------------------------------------
TypeOK ==
  /\ shape \in [Events -> Shapes]
  /\ platform \in [Events -> {"idle", "due", "done"}]
  /\ tries \in [Events -> 0..MaxTries]
  /\ greeted \subseteq Accounts \X Ids
  /\ \A w \in window : w.by \in Events /\ w.key # None
  /\ copies \in [Events -> 0..MaxTries]
  /\ droppedFor \in [Events -> SUBSET Events]
  /\ missed \subseteq Events
  /\ faults \in 0..MaxFaults

\* A platform id names one thing of one account, but that WhatsApp's statuses
\* of a message share its id, X posts one event to every account of ours that
\* is party to it, and a session or a visitor has many events.
SameThing(s, t) == s.src = t.src /\ s.to = t.to /\ s.id = t.id /\ s.type = t.type
Names(sh) == \A e, f \in Events :
  \/ sh[e].src # sh[f].src \/ sh[e].id # sh[f].id
  \/ sh[e].type \in {Garbage, Forged} \/ sh[f].type \in {Garbage, Forged}
  \/ sh[e].src \in {"voice", "widget"}
  \/ sh[e].type = sh[f].type /\ (sh[e].to = sh[f].to \/ sh[e].src = "x")
  \/ {sh[e].type, sh[f].type} \subseteq {"sent", "delivered", "read"} /\ sh[e].to = sh[f].to

Init ==
  /\ shape \in {sh \in [Events -> Shapes] : Names(sh)}
  /\ platform = [e \in Events |-> "idle"]
  /\ tries = [e \in Events |-> 0]
  /\ greeted = {}
  /\ window = {}
  /\ copies = [e \in Events |-> 0]
  /\ droppedFor = [e \in Events |-> {}]
  /\ forgotten = {}
  /\ missed = {}
  /\ faults = 0

Happen(e) ==
  /\ platform[e] = "idle"
  /\ platform' = [platform EXCEPT ![e] = "due"]
  /\ UNCHANGED <<shape, tries, greeted, window, copies, droppedFor, forgotten, missed, faults>>

Owners(key) == {w.by : w \in {v \in window : v.key = key}}

\* What the platform posts again; a browser sends a frame once.
Retried(s, code) == code >= 500 /\ s.src # "widget"

\* One post of e: found, bus and heard say whether the tenant lookup, the
\* publish and the answer's way back to the platform go well.
Post(e, found, bus, heard) ==
  LET s == shape[e]
      a == Handle(s, found)
      publishes == a.event.kind # None
      duplicate == a.event.key # None /\ Owners(a.event.key) # {}
      stored == publishes /\ bus /\ ~duplicate
      failing == (IF found THEN 0 ELSE 1) + (IF bus THEN 0 ELSE 1) + (IF heard THEN 0 ELSE 1) IN
  /\ platform[e] = "due" /\ tries[e] < MaxTries
  /\ faults + failing <= MaxFaults
  /\ faults' = faults + failing
  /\ tries' = [tries EXCEPT ![e] = @ + 1]
  /\ greeted' = IF s.src = "widget" /\ s.type = "hello" THEN greeted \cup {<<s.to, s.id>>} ELSE greeted
  /\ copies' = [copies EXCEPT ![e] = IF stored THEN @ + 1 ELSE @]
  /\ window' = IF stored /\ a.event.key # None
               THEN window \cup {[key |-> a.event.key, by |-> e]} ELSE window
  /\ droppedFor' = [droppedFor EXCEPT ![e] =
                     IF publishes /\ bus /\ duplicate THEN @ \cup Owners(a.event.key) ELSE @]
  /\ missed' = IF ~found \/ ~bus THEN missed \cup {e} ELSE missed
  /\ platform' = [platform EXCEPT ![e] =
                   IF (Retried(s, a.code) \/ (~heard /\ s.src # "widget")) THEN "due" ELSE "done"]
  /\ UNCHANGED <<shape, forgotten>>

\* The duplicate window of the stream passes.
Forget(w) ==
  /\ w \in window
  /\ window' = window \ {w}
  /\ forgotten' = forgotten \cup {w.by}
  /\ UNCHANGED <<shape, platform, tries, greeted, copies, droppedFor, missed, faults>>

Next ==
  \/ \E e \in Events : \/ Happen(e)
                       \/ \E found, bus, heard \in BOOLEAN : Post(e, found, bus, heard)
  \/ \E w \in window : Forget(w)

Spec == Init /\ [][Next]_vars
-----------------------------------------------------------------------------
IsStatus(s) == s.src = "wa" /\ s.type # "message"

(***************************************************************************)
(* What the stream drops as a duplicate is one: the message it keeps is of *)
(* the same thing, for the same account.  (The statuses of a WhatsApp      *)
(* message are not: they share one Msg-Id, so "delivered" is dropped for   *)
(* "sent"; see the README.)                                                *)
(***************************************************************************)
OnlyRetriesAreDropped == \A e \in Events : \A f \in droppedFor[e] :
  SameThing(shape[e], shape[f]) \/ (IsStatus(shape[e]) /\ IsStatus(shape[f]))

Mute == [fb |-> {"read", "delivery", "other"}, ig |-> {"read", "echo", "other"}, wa |-> {},
         x |-> {"follow"}, voice |-> {}, widget |-> Types.widget]
HasId(s) == s.type \in Types[s.src] \ Mute[s.src]

(***************************************************************************)
(* An event with a platform id that the platform will not post again is in *)
(* the stream, or was dropped for one that is, or a fault the handlers     *)
(* deliberately answer with 200 kept it out; and while its Msg-Id is       *)
(* remembered it is there once, however often it was posted.               *)
(***************************************************************************)
AnsweredIsAccounted == \A e \in Events : HasId(shape[e]) =>
  /\ platform[e] = "done" /\ e \notin missed
       => copies[e] > 0 \/ \E f \in droppedFor[e] : copies[f] > 0
  /\ e \notin forgotten => copies[e] <= 1

(***************************************************************************)
(* Both: an event that the platform will not post again is in the stream   *)
(* or has a named excuse, and what is dropped as a duplicate is one.       *)
(***************************************************************************)
EventsAccountedFor == OnlyRetriesAreDropped /\ AnsweredIsAccounted
=============================================================================
