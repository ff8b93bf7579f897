---------------------------------- MODULE Dsr ----------------------------------
(***************************************************************************)
(* internal/dsr and internal/meta: data subject requests, which officers   *)
(* assign and resolve in transactions that lock the row, and the callback  *)
(* with which Meta asks for the erasure of one user in every tenant that   *)
(* has a customer of that id.                                              *)
(***************************************************************************)
EXTENDS Naturals, Sequences, FiniteSets

CONSTANTS
  Officers,     \* requests of the DSR API being handled
  Tenants,
  Callbacks,    \* posts of Meta about one user, retries included
  MaxRows,      \* bound on requests opened through the API
  MaxFaults,    \* bound on failed statements
  None

CallbackAssumption == None \notin Callbacks
BoundAssumption == MaxRows \in Nat /\ MaxFaults \in Nat

Fulfilling == {"fulfilled", "partially_fulfilled"}
Terminal == Fulfilling \cup {"rejected", "withdrawn"}
States == Terminal \cup {"received", "in_progress"}

transitions(s) == CASE s = "received"    -> {"in_progress", "rejected", "withdrawn"}
                    [] s = "in_progress" -> Terminal
                    [] OTHER             -> {}

VARIABLES
  requests,  \* rows of dsr_requests: [tenant, state, fulfilled, by]
  lock,      \* lock[o]: the row o's transaction holds, 0 for none
  work,      \* work[o]: the state o was asked for, "assign" for Assign
  read,      \* read[o]: the state SELECT ... FOR UPDATE returned
  held,      \* tenants with a customer row for the user
  call,      \* a callback: [pc, found, left]
  skipped,   \* <<k, t>>: the INSERT for tenant t failed
  faults

vars == <<requests, lock, work, read, held, call, skipped, faults>>
transaction == <<lock, work, read>>

Row(t, by) == [tenant |-> t, state |-> "received", fulfilled |-> FALSE, by |-> by]
Fault == faults < MaxFaults /\ faults' = faults + 1
Asked == States \cup {"assign"}

TypeOK ==
  /\ \A i \in DOMAIN requests : requests[i].tenant \in Tenants /\ requests[i].state \in States
  /\ lock \in [Officers -> 0..Len(requests)]
  /\ \A o \in Officers : lock[o] # 0 => work[o] \in Asked /\ read[o] \in States
  /\ held \subseteq Tenants /\ skipped \subseteq Callbacks \X Tenants
  /\ \A k \in Callbacks : call[k].pc \in {"idle", "open", "answered"} /\ call[k].left \subseteq call[k].found
  /\ faults \in 0..MaxFaults

Init ==
  /\ requests = <<>>
  /\ lock = [o \in Officers |-> 0]
  /\ work = [o \in Officers |-> None] /\ read = [o \in Officers |-> None]
  /\ held = {}
  /\ call = [k \in Callbacks |-> [pc |-> "idle", found |-> {}, left |-> {}]]
  /\ skipped = {} /\ faults = 0
-----------------------------------------------------------------------------
\* POST /: OpenRequest.
OpenRequest(t) ==
  /\ Len(requests) < MaxRows
  /\ requests' = Append(requests, Row(t, None))
  /\ UNCHANGED <<transaction, held, call, skipped, faults>>

\* Mutant: the row is read without FOR UPDATE.
MutRowFree(i) == TRUE

RowFree(i) == \A o \in Officers : lock[o] # i

\* Assign and Resolve begin; an illegal transition, or a rejection without the
\* note it needs, changes nothing.
Begin(o, i, w) ==
  /\ lock[o] = 0 /\ RowFree(i)
  /\ w = "assign" \/ w \in transitions(requests[i].state)
  /\ lock' = [lock EXCEPT ![o] = i]
  /\ work' = [work EXCEPT ![o] = w]
  /\ read' = [read EXCEPT ![o] = requests[i].state]
  /\ UNCHANGED <<requests, held, call, skipped, faults>>

Done(o) == /\ lock' = [lock EXCEPT ![o] = 0]
           /\ work' = [work EXCEPT ![o] = None] /\ read' = [read EXCEPT ![o] = None]

\* A received request is moved; any other only gets another assignee.
Assign(o) ==
  /\ lock[o] # 0 /\ work[o] = "assign"
  /\ requests' = [requests EXCEPT ![lock[o]].state = IF read[o] = "received" THEN "in_progress" ELSE @]
  /\ Done(o)
  /\ UNCHANGED <<held, call, skipped, faults>>

Resolve(o) ==
  /\ lock[o] # 0 /\ work[o] # "assign"
  /\ requests' = [requests EXCEPT ![lock[o]].state = work[o],
                                  ![lock[o]].fulfilled = @ \/ work[o] \in Fulfilling]
  /\ Done(o)
  /\ UNCHANGED <<held, call, skipped, faults>>

Rollback(o) ==
  /\ lock[o] # 0 /\ Fault
  /\ Done(o)
  /\ UNCHANGED <<requests, held, call, skipped>>
-----------------------------------------------------------------------------
\* Ingress stores the user as a customer of a tenant.
Arrive(t) ==
  /\ held' = held \cup {t} /\ held' # held
  /\ UNCHANGED <<requests, transaction, call, skipped, faults>>

\* handle, once the signature is verified.  When the lookup fails the answer is
\* a 500 and nothing is done: Meta's next post is another callback.
tenantsForUser(k) ==
  /\ call[k].pc = "idle"
  /\ call' = [call EXCEPT ![k] = [pc |-> "open", found |-> held, left |-> held]]
  /\ UNCHANGED <<requests, transaction, held, skipped, faults>>

Open(k, t) ==
  /\ t \in call[k].left
  /\ requests' = Append(requests, Row(t, k))
  /\ call' = [call EXCEPT ![k].left = @ \ {t}]
  /\ UNCHANGED <<transaction, held, skipped, faults>>

\* Mutant: the first failure ends the loop.
MutRest(k, t) == {}

Rest(k, t) == call[k].left \ {t}

OpenFails(k, t) ==
  /\ t \in call[k].left /\ Fault
  /\ skipped' = skipped \cup {<<k, t>>}
  /\ call' = [call EXCEPT ![k].left = Rest(k, t)]
  /\ UNCHANGED <<requests, transaction, held>>

Answer(k) ==
  /\ call[k].pc = "open" /\ call[k].left = {}
  /\ call' = [call EXCEPT ![k].pc = "answered"]
  /\ UNCHANGED <<requests, transaction, held, skipped, faults>>

Next ==
  \/ \E t \in Tenants : OpenRequest(t) \/ Arrive(t)
  \/ \E o \in Officers :
       \/ Assign(o) \/ Resolve(o) \/ Rollback(o)
       \/ \E i \in DOMAIN requests, w \in Asked : Begin(o, i, w)
  \/ \E k \in Callbacks : \/ tenantsForUser(k) \/ Answer(k)
                          \/ \E t \in Tenants : Open(k, t) \/ OpenFails(k, t)

Spec == Init /\ [][Next]_vars
-----------------------------------------------------------------------------
(***************************************************************************)
(* A callback that was answered opened one request in every tenant that    *)
(* held the user when it looked, but for those whose INSERT failed; and a  *)
(* request is stamped fulfilled exactly when it was, whoever resolves it   *)
(* meanwhile.                                                              *)
(***************************************************************************)
EveryTenantAsked ==
  /\ \A k \in Callbacks, t \in Tenants :
       call[k].pc = "answered" /\ t \in call[k].found /\ <<k, t>> \notin skipped =>
         Cardinality({i \in DOMAIN requests : requests[i].tenant = t /\ requests[i].by = k}) = 1
  /\ \A i \in DOMAIN requests : requests[i].fulfilled <=> requests[i].state \in Fulfilling

(***************************************************************************)
(* A closed request stays as it was closed, whoever resolves it meanwhile. *)
(***************************************************************************)
ClosedStaysClosed == [][\A i \in DOMAIN requests :
  requests[i].state \in Terminal => requests'[i].state = requests[i].state]_vars
=============================================================================
