------------------------------ MODULE TicketRepo ------------------------------
(***************************************************************************)
(* internal/ticket: Repo.CreateTicket, ChangeState, BulkAssign and         *)
(* BulkState as executed by the request goroutines of one or more gateway  *)
(* replicas against one Postgres, with the OnStateChange listener that     *)
(* every replica keeps in a field of its shared Repo.                      *)
(*                                                                         *)
(* A goroutine takes one step per statement that another goroutine can     *)
(* observe: the row lock of SELECT ... FOR UPDATE, the commit, the nil     *)
(* check of the listener field, its call, and the field's save, detach and *)
(* restore by BulkState.                                                   *)
(***************************************************************************)
EXTENDS TicketState, Naturals, Sequences, FiniteSets

CONSTANTS
  Tickets,     \* ids a request may name
  Agents,      \* agents a ticket may be assigned to
  Procs,       \* request goroutines
  Replicas,    \* gateway processes, one *ticket.Repo each
  Rep,         \* Rep[p]: the replica that serves goroutine p
  Bulkers,     \* the goroutines that may serve a bulk state request
  Targets,     \* states a request may ask for
  DbErrors,    \* TRUE: begin, query or commit may fail
  MaxCommits,  \* bound on the state changes committed through ChangeState
  None

ASSUME RepAssumption == Rep \in [Procs -> Replicas]
ASSUME BulkersAssumption == Bulkers \subseteq Procs
ASSUME NoneAssumption == None \notin Tickets \cup Agents \cup Procs
ASSUME BoundAssumption == MaxCommits \in Nat

VARIABLES
  state,       \* tickets.state, Absent before the INSERT
  assigned,    \* tickets.assigned_agent_id
  resolvedAt,  \* tickets.resolved_at IS NOT NULL
  closedAt,    \* tickets.closed_at IS NOT NULL
  lock,        \* holder of the row lock
  hook,        \* hook[r]: r's Repo.OnStateChange is not nil
  pc,          \* next statement of each goroutine
  tkt, to,     \* arguments of the goroutine's ChangeState or BulkState
  current,     \* state ChangeState read under the lock
  inBatch,     \* the goroutine is inside BulkState
  ids,         \* ids BulkState has still to visit
  succeeded,   \* changes BulkState committed (indexes of log)
  saved,       \* BulkState's copy of the listener
  log          \* the changes ChangeState committed, oldest first

rows  == <<state, assigned, resolvedAt, closedAt, lock>>
batch == <<inBatch, ids, succeeded, saved>>
args  == <<tkt, to, current>>
vars  == <<rows, hook, pc, args, batch, log>>

PCs == {"idle", "lock", "commit", "check", "fire",
        "detach", "loop", "restore"}

\* A committed change: heard counts the listener calls that reported it.
Change == [ticket : Tickets, from : States, to : States, by : Procs, heard : Nat]

TypeOK ==
  /\ state \in [Tickets -> States \cup {Absent}]
  /\ assigned \in [Tickets -> Agents \cup {None}]
  /\ resolvedAt \in [Tickets -> BOOLEAN]
  /\ closedAt \in [Tickets -> BOOLEAN]
  /\ lock \in [Tickets -> Procs \cup {None}]
  /\ hook \in [Replicas -> BOOLEAN]
  /\ pc \in [Procs -> PCs]
  /\ tkt \in [Procs -> Tickets \cup {None}]
  /\ to \in [Procs -> States \cup {None}]
  /\ current \in [Procs -> States \cup {None}]
  /\ inBatch \in [Procs -> BOOLEAN]
  /\ ids \in [Procs -> SUBSET Tickets]
  /\ succeeded \in [Procs -> SUBSET Nat]
  /\ saved \in [Procs -> BOOLEAN]
  /\ log \in Seq(Change)

Init ==
  /\ state = [t \in Tickets |-> Absent]
  /\ assigned = [t \in Tickets |-> None]
  /\ resolvedAt = [t \in Tickets |-> FALSE]
  /\ closedAt = [t \in Tickets |-> FALSE]
  /\ lock = [t \in Tickets |-> None]
  /\ hook = [r \in Replicas |-> TRUE]
  /\ pc = [p \in Procs |-> "idle"]
  /\ tkt = [p \in Procs |-> None]
  /\ to = [p \in Procs |-> None]
  /\ current = [p \in Procs |-> None]
  /\ inBatch = [p \in Procs |-> FALSE]
  /\ ids = [p \in Procs |-> {}]
  /\ succeeded = [p \in Procs |-> {}]
  /\ saved = [p \in Procs |-> FALSE]
  /\ log = <<>>

Goto(p, label) == pc' = [pc EXCEPT ![p] = label]
-----------------------------------------------------------------------------
(***************************************************************************)
(* Repo.CreateTicket: one INSERT.                                          *)
(***************************************************************************)
CreateTicket(t) ==
  /\ state[t] = Absent
  /\ state' = [state EXCEPT ![t] = "new"]
  /\ UNCHANGED <<assigned, resolvedAt, closedAt, lock, hook, pc, args, batch, log>>

(***************************************************************************)
(* Repo.ChangeState, called by PATCH /tickets/{id}/state or by BulkState.  *)
(***************************************************************************)
PatchState(p, t, s) ==
  /\ pc[p] = "idle"
  /\ Len(log) < MaxCommits
  /\ Validate(s)
  /\ tkt' = [tkt EXCEPT ![p] = t]
  /\ to' = [to EXCEPT ![p] = s]
  /\ Goto(p, "lock")
  /\ UNCHANGED <<rows, hook, current, batch, log>>

\* ChangeState returns: its locals are gone, BulkState continues at the given
\* label, a single request is over.
ReturnTo(p, label) ==
  /\ Goto(p, IF inBatch[p] THEN label ELSE "idle")
  /\ tkt' = [tkt EXCEPT ![p] = None]
  /\ current' = [current EXCEPT ![p] = None]
  /\ to' = [to EXCEPT ![p] = IF inBatch[p] THEN @ ELSE None]
  /\ succeeded' = [succeeded EXCEPT ![p] = IF inBatch[p] THEN @ ELSE {}]

Return(p) == ReturnTo(p, "loop")

\* An error BulkState does not collect, or a panic: BulkState returns at once,
\* through its deferred restore.
Unwind(p) == ReturnTo(p, "restore")

\* Mutant: the row is read without FOR UPDATE, so a holder is not waited for.
MutRowFree(p) == TRUE

RowFree(p) == lock[tkt[p]] = None

\* Mutant: only the target is validated, any edge passes.
MutLegal(p) == state[tkt[p]] \in States /\ Validate(to[p])

Legal(p) == state[tkt[p]] \in States /\ Transition(state[tkt[p]], to[p])

SelectForUpdate(p) ==
  /\ pc[p] = "lock"
  /\ RowFree(p)
  /\ Legal(p)
  /\ lock' = [lock EXCEPT ![tkt[p]] = p]
  /\ current' = [current EXCEPT ![p] = state[tkt[p]]]
  /\ Goto(p, "commit")
  /\ UNCHANGED <<state, assigned, resolvedAt, closedAt, hook, tkt, to, batch, log>>

\* No row, an illegal edge, or "ticket: begin tx": an error BulkState collects.
Reject(p) ==
  /\ pc[p] = "lock"
  /\ \/ DbErrors
     \/ RowFree(p) /\ ~Legal(p)
  /\ Return(p)
  /\ UNCHANGED <<rows, hook, inBatch, ids, saved, log>>

\* Mutant: the stamps are those of the state the ticket leaves.
MutStamped(stamp, p, s) == [stamp EXCEPT ![tkt[p]] = @ \/ current[p] = s]

\* resolved_at / closed_at: COALESCE(now if the target is s, the old value).
Stamped(stamp, p, s) == [stamp EXCEPT ![tkt[p]] = @ \/ to[p] = s]

\* Mutant: the transaction is left open, its connection keeps the lock.
MutReleased(p) == lock

\* The end of p's transaction releases its row locks.
Released(p) == [t \in Tickets |-> IF lock[t] = p THEN None ELSE lock[t]]

UpdateAndCommit(p) ==
  /\ pc[p] = "commit"
  /\ state' = [state EXCEPT ![tkt[p]] = to[p]]
  /\ resolvedAt' = Stamped(resolvedAt, p, "resolved")
  /\ closedAt' = Stamped(closedAt, p, "closed")
  /\ lock' = Released(p)
  /\ log' = Append(log, [ticket |-> tkt[p], from |-> current[p], to |-> to[p],
                         by |-> p, heard |-> 0])
  /\ succeeded' = [succeeded EXCEPT ![p] = @ \cup {Len(log) + 1}]
  /\ Goto(p, "check")
  /\ UNCHANGED <<assigned, hook, args, inBatch, ids, saved>>

\* A query or the commit fails with a raw pgx error: the transaction rolls back.
DbError(p) ==
  /\ DbErrors
  /\ pc[p] \in {"lock", "commit"}
  /\ lock' = Released(p)
  /\ Unwind(p)
  /\ UNCHANGED <<state, assigned, resolvedAt, closedAt, hook, inBatch, ids, saved, log>>

\* Change c, reported n more times.
Heard(c, n) ==
  [ticket |-> c.ticket, from |-> c.from, to |-> c.to, by |-> c.by, heard |-> c.heard + n]

\* All the changes of the request are reported n more times.
Report(p, n) ==
  [i \in DOMAIN log |-> IF i \in succeeded[p] THEN Heard(log[i], n) ELSE log[i]]

\* The listener reports the goroutine's newest change.
Newest(S) == CHOOSE i \in S : \A j \in S : j <= i

HeardByHook(p) ==
  [i \in DOMAIN log |-> IF i = Newest(succeeded[p]) THEN Heard(log[i], 1) ELSE log[i]]

\* "if r.OnStateChange != nil": with a nil listener ChangeState just returns.
CheckHook(p) ==
  /\ pc[p] = "check"
  /\ \/ /\ hook[Rep[p]]
        /\ Goto(p, "fire")
        /\ UNCHANGED <<args, succeeded>>
     \/ /\ ~hook[Rep[p]]
        /\ Return(p)
  /\ UNCHANGED <<rows, hook, inBatch, ids, saved, log>>

\* "r.OnStateChange(...)": the field is read again; nil by now is a panic,
\* which unwinds the request without an answer.
FireHook(p) ==
  /\ pc[p] = "fire"
  /\ \/ /\ hook[Rep[p]]
        /\ log' = HeardByHook(p)
        /\ Return(p)
     \/ /\ ~hook[Rep[p]]
        /\ Unwind(p)
        /\ UNCHANGED log
  /\ UNCHANGED <<rows, hook, inBatch, ids, saved>>
-----------------------------------------------------------------------------
(***************************************************************************)
(* Repo.BulkState, called by POST /tickets/bulk with resolve, close or     *)
(* reopen.                                                                 *)
(***************************************************************************)
BulkTargets == {"resolved", "closed", "reopened"}

BeginBulkState(p, S, s) ==
  /\ pc[p] = "idle"
  /\ p \in Bulkers
  /\ Len(log) < MaxCommits
  /\ inBatch' = [inBatch EXCEPT ![p] = TRUE]
  /\ ids' = [ids EXCEPT ![p] = S]
  /\ to' = [to EXCEPT ![p] = s]
  /\ saved' = [saved EXCEPT ![p] = hook[Rep[p]]]
  /\ Goto(p, "detach")
  /\ UNCHANGED <<rows, hook, tkt, current, succeeded, log>>

\* Mutant: the listener stays attached during the batch.
MutDetached(p) == hook[Rep[p]]

\* r.OnStateChange = nil.
Detached(p) == FALSE

DetachHook(p) ==
  /\ pc[p] = "detach"
  /\ hook' = [hook EXCEPT ![Rep[p]] = Detached(p)]
  /\ Goto(p, "loop")
  /\ UNCHANGED <<rows, args, batch, log>>

\* The loop over ids, in whatever order the caller listed them.
NextId(p) ==
  /\ pc[p] = "loop"
  /\ \E t \in ids[p] :
       /\ tkt' = [tkt EXCEPT ![p] = t]
       /\ ids' = [ids EXCEPT ![p] = @ \ {t}]
  /\ Goto(p, "lock")
  /\ UNCHANGED <<rows, hook, to, current, inBatch, succeeded, saved, log>>

\* Mutant: the batched publish is forgotten.
MutBulkReports(p) == 0

\* OnBulkStateChange reports every id that transitioned, once.
BulkReports(p) == 1

FinishLoop(p) ==
  /\ pc[p] = "loop"
  /\ ids[p] = {}
  /\ log' = Report(p, BulkReports(p))
  /\ Goto(p, "restore")
  /\ UNCHANGED <<rows, hook, args, batch>>

\* Mutant: the deferred restore is missing, the listener stays detached.
MutRestored(p) == FALSE

Restored(p) == saved[p]

RestoreHook(p) ==
  /\ pc[p] = "restore"
  /\ hook' = [hook EXCEPT ![Rep[p]] = Restored(p)]
  /\ inBatch' = [inBatch EXCEPT ![p] = FALSE]
  /\ ids' = [ids EXCEPT ![p] = {}]
  /\ succeeded' = [succeeded EXCEPT ![p] = {}]
  /\ to' = [to EXCEPT ![p] = None]
  /\ saved' = [saved EXCEPT ![p] = FALSE]
  /\ Goto(p, "idle")
  /\ UNCHANGED <<rows, tkt, current, log>>
-----------------------------------------------------------------------------
(***************************************************************************)
(* Repo.BulkAssign: one UPDATE over the ids.  Its WHERE clause is          *)
(* re-evaluated on each row once the row's lock is free, so the statement  *)
(* is one step.  limit is None for a supervisor or admin and the caller    *)
(* for a plain agent, who may only name himself.                           *)
(***************************************************************************)
InScope(t, limit) ==
  /\ state[t] \notin {Absent, "resolved", "closed"}
  /\ limit = None \/ assigned[t] \in {None, limit}

\* Mutant: assigning writes a label the ticket_state enum does not have.
MutAssignedLabel(t) == IF state[t] = "new" THEN "assigned" ELSE state[t]

\* Mutant: assigning never moves the state.
MutAssignedState(t) == state[t]

AssignedState(t) == IF state[t] = "new" THEN "open" ELSE state[t]

BulkAssign(S, agent, limit) ==
  LET updated == {t \in S : InScope(t, limit)}
  IN /\ limit \in {None, agent}
     /\ \A t \in updated : lock[t] = None
     /\ assigned' = [t \in Tickets |-> IF t \in updated THEN agent ELSE assigned[t]]
     /\ state' = [t \in Tickets |-> IF t \in updated THEN AssignedState(t) ELSE state[t]]
     /\ UNCHANGED <<resolvedAt, closedAt, lock, hook, pc, args, batch, log>>

BulkUnassign(S) ==
  LET updated == {t \in S : InScope(t, None)}
  IN /\ \A t \in updated : lock[t] = None
     /\ assigned' = [t \in Tickets |-> IF t \in updated THEN None ELSE assigned[t]]
     /\ UNCHANGED <<state, resolvedAt, closedAt, lock, hook, pc, args, batch, log>>
-----------------------------------------------------------------------------
\* A goroutine runs its request to the end.
Step(p) ==
  \/ SelectForUpdate(p) \/ Reject(p) \/ UpdateAndCommit(p) \/ DbError(p)
  \/ CheckHook(p) \/ FireHook(p)
  \/ DetachHook(p) \/ NextId(p) \/ FinishLoop(p) \/ RestoreHook(p)

\* Nothing is left to do within the bound.
Finished ==
  /\ Len(log) >= MaxCommits
  /\ \A p \in Procs : pc[p] = "idle"
  /\ UNCHANGED vars

Next ==
  \/ \E t \in Tickets : CreateTicket(t)
  \/ \E p \in Procs, t \in Tickets, s \in Targets : PatchState(p, t, s)
  \/ \E p \in Procs, S \in SUBSET Tickets \ {{}}, s \in BulkTargets \cap Targets : BeginBulkState(p, S, s)
  \/ \E p \in Procs : Step(p)
  \/ \E S \in SUBSET Tickets \ {{}}, a \in Agents, l \in Agents \cup {None} : BulkAssign(S, a, l)
  \/ \E S \in SUBSET Tickets \ {{}} : BulkUnassign(S)
  \/ Finished

Spec == Init /\ [][Next]_vars

(***************************************************************************)
(* Goroutines keep running while their request is unfinished.  Waiters for *)
(* a row lock are served in turn by Postgres, hence strong fairness where  *)
(* the lock is awaited: another request may take it again and again.       *)
(***************************************************************************)
FairSpec ==
  /\ Spec
  /\ \A p \in Procs : WF_vars(Step(p))
  /\ \A p \in Procs : SF_vars(SelectForUpdate(p) \/ Reject(p))
-----------------------------------------------------------------------------
Rows == INSTANCE TicketRows

\* Whatever the interleaving of PATCH, bulk and assign requests on any number
\* of replicas, a ticket only ever moves along the edges of state.go's table.
LegalHistory == Rows!Spec

\* The stamps tell the ticket's past: a ticket that was ever resolved has
\* resolved_at (no request clears it), a closed one has closed_at too, and
\* nothing is closed that was never resolved (the UPDATE of ChangeState).
StampsFollowState ==
  \A t \in Tickets :
    /\ state[t] \in {"resolved", "closed", "reopened"} => resolvedAt[t]
    /\ state[t] = "closed" => closedAt[t]
    /\ closedAt[t] => resolvedAt[t]

\* The (from, to) pairs handed to the listener for a ticket form one path that
\* ends in the row's state: ChangeState captures "from" under the row lock, so
\* two requests never both claim the same predecessor.
ChangesFormAPath ==
  \A j \in DOMAIN log :
    LET later == {k \in DOMAIN log : k > j /\ log[k].ticket = log[j].ticket}
    IN IF later = {}
       THEN state[log[j].ticket] = log[j].to
       ELSE log[CHOOSE k \in later : \A l \in later : k <= l].from = log[j].to

\* A ticket nobody has opened has no assignee: BulkAssign opens what it
\* assigns and no request leads back to "new".
NewIsUnassigned ==
  \A t \in Tickets : state[t] \in {Absent, "new"} => assigned[t] = None

\* Outside a bulk request the replica's listener is in place (bulk.go: "the
\* hook is set once at boot, so this swap is local to the batch").
HookRestored ==
  \A r \in Replicas :
    (\A p \in Procs : Rep[p] = r => ~inBatch[p]) => hook[r]

\* No committed change is reported to a listener twice, once per row and once
\* more with the batch (BulkState "suppresses the per-row realtime publish").
HeardAtMostOnce == \A i \in DOMAIN log : log[i].heard <= 1

\* Once a request is over, answered or failed, the changes it committed were
\* reported: "one ticket.state_change JetStream message per id".
CommittedIsHeard ==
  \A i \in DOMAIN log : i \notin succeeded[log[i].by] => log[i].heard >= 1

\* Every request ends: the row locks it waits for are released.
RequestsFinish == \A p \in Procs : pc[p] # "idle" ~> pc[p] = "idle"
=============================================================================
