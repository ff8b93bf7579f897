-------------------------------- MODULE Library --------------------------------
(***************************************************************************)
(* internal/cannedreply and internal/tag, for one tenant: canned replies   *)
(* with their macro actions, the tag catalogue the actions name by slug,   *)
(* and the links between tags and tickets.  No request runs in a           *)
(* transaction: what it read may have changed when it writes.              *)
(***************************************************************************)
EXTENDS FiniteSets

CONSTANTS
  Requests,     \* requests of the canned-reply API and of attach
  ActorOf,      \* ActorOf[r]: the agent who sends it
  Admins,       \* agents with the admin role
  Replies,      \* ids of canned replies
  Existing,     \* the canned replies there are, by id
  Rows,         \* the bodies a create may carry
  Patches,      \* the bodies an update may carry: functions on some of Fields
  TagIds, SlugOf,  \* ids of tags, and the slug of each
  Tickets,
  None

Fields == {"shortcut", "channel", "tag"}

Slugs == {SlugOf[t] : t \in TagIds}

\* A body names the shortcut, the channel the reply is for or None, and the
\* slug its add_tag action names or None.
BodyAssumption ==
  /\ \A b \in Rows : DOMAIN b = Fields
  /\ \A p \in Patches : DOMAIN p \subseteq Fields
  /\ DOMAIN Existing \subseteq Replies
  /\ \A i \in DOMAIN Existing : Existing[i].tag \in Slugs \cup {None}

VARIABLES
  replies,   \* canned_replies
  used,      \* ids handed out
  tags,      \* ids of the rows of tags
  links,     \* ticket_tags
  req,       \* where a request is, and what it has read
  asked,     \* the value last asked for, by reply and field, history
  overlap,   \* replies two edits overlapped on, history
  deleted    \* slugs of deleted tags, history

vars == <<replies, used, tags, links, req, asked, overlap, deleted>>
catalogue == <<tags, links, deleted>>

Agents == {ActorOf[r] : r \in Requests} \cup {Existing[i].owner : i \in DOMAIN Existing}
Idle == [pc |-> "idle"]
Done == [pc |-> "done"]
HasTag(slug) == \E t \in tags : SlugOf[t] = slug

TypeOK ==
  /\ \A i \in Replies : replies[i] # None =>
       /\ i \in used
       /\ replies[i].owner \in Agents \cup {None} /\ replies[i].tag \in Slugs \cup {None}
  /\ tags \subseteq TagIds /\ links \subseteq Tickets \X tags
  /\ \A r \in Requests :
       req[r].pc \in {"idle", "verify", "insert", "get", "patch", "update", "delete", "tag", "link", "done"}
  /\ overlap \subseteq Replies /\ deleted \subseteq Slugs

Init ==
  /\ replies = [i \in Replies |-> IF i \in DOMAIN Existing THEN Existing[i] ELSE None]
  /\ used = DOMAIN Existing
  /\ tags = {t \in TagIds : \E i \in used : replies[i].tag = SlugOf[t]} /\ links = {}
  /\ req = [r \in Requests |-> Idle]
  /\ asked = replies /\ overlap = {} /\ deleted = {}

Set(r, v) == req' = [req EXCEPT ![r] = v]
Goto(r, l) == req' = [req EXCEPT ![r].pc = l]
Fresh(i) == i \notin used /\ used' = used \cup {i}
\* The unique index of (tenant, owner, shortcut); one for owner NULL.
Free(i, owner, shortcut) ==
  \A j \in Replies \ {i} : replies[j] # None => replies[j].owner # owner \/ replies[j].shortcut # shortcut
-----------------------------------------------------------------------------
\* The create handler; only an admin may share a reply with the tenant.
create(r, row, owner) ==
  /\ req[r].pc = "idle" /\ owner = None => ActorOf[r] \in Admins
  /\ Set(r, [pc |-> "verify", then |-> "insert", owner |-> owner, body |-> row])
  /\ UNCHANGED <<replies, used, catalogue, asked, overlap>>

\* Mutant: the catalogue is not asked.
MutTargetExists(body) == TRUE

TargetExists(body) == "tag" \in DOMAIN body => body.tag = None \/ HasTag(body.tag)

verifyActionTargets(r) ==
  /\ req[r].pc = "verify"
  /\ IF TargetExists(req[r].body) THEN Goto(r, req[r].then) ELSE Set(r, Done)
  /\ UNCHANGED <<replies, used, catalogue, asked, overlap>>

Create(r, i) ==
  /\ req[r].pc = "insert" /\ Fresh(i)
  /\ LET b == req[r].body
     IN  IF Free(i, req[r].owner, b.shortcut)
         THEN /\ replies' = [replies EXCEPT ![i] =
                   [owner |-> req[r].owner, shortcut |-> b.shortcut, channel |-> b.channel, tag |-> b.tag]]
              /\ asked' = [asked EXCEPT ![i] = b]
         ELSE UNCHANGED <<replies, asked>>
  /\ Set(r, Done)
  /\ UNCHANGED <<catalogue, overlap>>

\* update and delete are told a reply's id.
Open(r, i, pc, body) ==
  /\ req[r].pc = "idle" /\ i \in used
  /\ Set(r, [pc |-> "get", then |-> pc, id |-> i, body |-> body])
  /\ UNCHANGED <<replies, used, catalogue, asked, overlap>>

Editing(r, i) == req[r].pc \in {"patch", "verify", "update"} /\ "id" \in DOMAIN req[r] /\ req[r].id = i
Allowed(r, row) == ActorOf[r] \in Admins \/ row.owner = ActorOf[r]

\* get: a missing reply or one of another agent ends the request.
get(r) ==
  /\ req[r].pc = "get"
  /\ LET row == replies[req[r].id]
     IN  IF row = None \/ ~Allowed(r, row)
         THEN Set(r, Done) /\ UNCHANGED overlap
         ELSE /\ Set(r, [pc |-> req[r].then, id |-> req[r].id, body |-> req[r].body, cur |-> row])
              /\ overlap' = IF req[r].then = "patch" /\ \E s \in Requests \ {r} : Editing(s, req[r].id)
                            THEN overlap \cup {req[r].id} ELSE overlap
  /\ UNCHANGED <<replies, used, catalogue, asked>>

\* Only actions the request carries are verified.
Patch(r) ==
  /\ req[r].pc = "patch"
  /\ req' = [req EXCEPT ![r] = [pc |-> IF "tag" \in DOMAIN @.body THEN "verify" ELSE "update",
                                then |-> "update", id |-> @.id, body |-> @.body, cur |-> @.cur]]
  /\ UNCHANGED <<replies, used, catalogue, asked, overlap>>

\* Mutant: a channel the request leaves out is cleared.
MutKept(cur, body, f) == IF f \in DOMAIN body THEN body[f] ELSE IF f = "channel" THEN None ELSE cur[f]

\* channel and actions are written whatever the request carries, with what get
\* read if it carries none.
Kept(cur, body, f) == IF f \in DOMAIN body THEN body[f] ELSE cur[f]

\* The other columns are COALESCEd with the row as it is by now.
Updated(row, cur, body) ==
  [owner |-> row.owner, shortcut |-> Kept(row, body, "shortcut"),
   channel |-> Kept(cur, body, "channel"), tag |-> Kept(cur, body, "tag")]

Update(r) ==
  /\ req[r].pc = "update"
  /\ LET i == req[r].id  row == replies[i]  new == Updated(row, req[r].cur, req[r].body)
     IN  IF row # None /\ Free(i, row.owner, new.shortcut)
         THEN /\ replies' = [replies EXCEPT ![i] = new]
              /\ asked' = [asked EXCEPT ![i] =
                   [f \in Fields |-> IF f \in DOMAIN req[r].body THEN req[r].body[f] ELSE @[f]]]
         ELSE UNCHANGED <<replies, asked>>
  /\ Set(r, Done)
  /\ UNCHANGED <<used, catalogue, overlap>>

Delete(r) ==
  /\ req[r].pc = "delete"
  /\ replies' = [replies EXCEPT ![req[r].id] = None]
  /\ Set(r, Done)
  /\ UNCHANGED <<used, catalogue, asked, overlap>>
-----------------------------------------------------------------------------
\* Creating a tag; the slug is unique in the tenant.
CreateTag(t) ==
  /\ t \notin tags /\ ~HasTag(SlugOf[t])
  /\ tags' = tags \cup {t}
  /\ UNCHANGED <<replies, used, links, req, asked, overlap, deleted>>

\* ON DELETE CASCADE takes the links; nothing looks at the macros.
DeleteTag(t) ==
  /\ t \in tags
  /\ tags' = tags \ {t} /\ links' = {l \in links : l[2] # t}
  /\ deleted' = deleted \cup {SlugOf[t]}
  /\ UNCHANGED <<replies, used, req, asked, overlap>>

attach(r, k, t) ==
  /\ req[r].pc = "idle"
  /\ Set(r, [pc |-> "tag", ticket |-> k, id |-> t])
  /\ UNCHANGED <<replies, used, catalogue, asked, overlap>>

tagExists(r) ==
  /\ req[r].pc = "tag"
  /\ IF req[r].id \in tags THEN Goto(r, "link") ELSE Set(r, Done)
  /\ UNCHANGED <<replies, used, catalogue, asked, overlap>>

\* The foreign key refuses a tag deleted in the meantime.
Attach(r) ==
  /\ req[r].pc = "link"
  /\ links' = IF req[r].id \in tags THEN links \cup {<<req[r].ticket, req[r].id>>} ELSE links
  /\ Set(r, Done)
  /\ UNCHANGED <<replies, used, tags, deleted, asked, overlap>>

Detach(l) ==
  /\ l \in links
  /\ links' = links \ {l}
  /\ UNCHANGED <<replies, used, tags, req, asked, overlap, deleted>>

\* A statement fails, or the process dies.
Fails(r) ==
  /\ req[r].pc \notin {"idle", "done"}
  /\ Set(r, Done)
  /\ UNCHANGED <<replies, used, catalogue, asked, overlap>>

Step(r) ==
  \/ verifyActionTargets(r) \/ get(r) \/ Patch(r) \/ Update(r) \/ Delete(r)
  \/ tagExists(r) \/ Attach(r) \/ Fails(r)
  \/ \E i \in Replies : Create(r, i)

Next ==
  \/ \E r \in Requests :
       \/ Step(r)
       \/ \E row \in Rows, owner \in {ActorOf[r], None} : create(r, row, owner)
       \/ \E i \in Replies : \/ \E p \in Patches : Open(r, i, "patch", p)
                             \/ Open(r, i, "delete", None)
       \/ \E k \in Tickets, t \in TagIds : attach(r, k, t)
  \/ \E t \in TagIds : CreateTag(t) \/ DeleteTag(t)
  \/ \E l \in links : Detach(l)

Spec == Init /\ [][Next]_vars
-----------------------------------------------------------------------------
(***************************************************************************)
(* A reply says what was last asked of it: an edit leaves alone what it    *)
(* does not carry.  Overlapping edits are the exception, for the channel   *)
(* and the actions: the later UPDATE writes what it read of them before    *)
(* the earlier one.                                                        *)
(***************************************************************************)
EditsKeep == \A i \in Replies, f \in Fields :
  replies[i] # None /\ replies[i][f] # asked[i][f] => i \in overlap /\ f # "shortcut"

\* A macro adds a tag of the catalogue, unless the tag was deleted; a delete
\* and the check that precedes an UPDATE may interleave.
MacrosResolve == \A i \in Replies : replies[i] # None /\ replies[i].tag # None =>
  HasTag(replies[i].tag) \/ replies[i].tag \in deleted
=============================================================================
