--------------------------- MODULE TicketRepoProofs ---------------------------
(***************************************************************************)
(* Proofs about TicketRepo for any number of tickets, agents, goroutines   *)
(* and replicas, with or without database errors: type correctness, that   *)
(* the rows implement TicketRows, the two row invariants, that the log of  *)
(* changes is one path per ticket, and what becomes of the hook and the    *)
(* announcements where one goroutine per replica runs batches.             *)
(***************************************************************************)
EXTENDS TicketRepo, SequenceTheorems, TLAPS

(***************************************************************************)
(* What the state machine's table says, in the form the proofs use.        *)
(***************************************************************************)
\* Facts about a legal edge: nothing returns to "new", "closed" is entered
\* from "resolved" and "reopened" from one of these two.
LEMMA EdgeFacts ==
  ASSUME NEW from \in States, NEW target \in States, Transition(from, target)
  PROVE  /\ target # "new"
         /\ target = "closed" => from = "resolved"
         /\ target = "reopened" => from \in {"resolved", "closed"}
BY DEF Transition, CanTransition, transitions, States

\* The edge BulkAssign takes on its own is one of the table's.
LEMMA AssignEdge == Transition("new", "open")
BY DEF Transition, Validate, CanTransition, transitions, States

\* "absent" is not a value of the enum.
LEMMA AbsentIsNoState == Absent \notin States
BY DEF Absent, States
-----------------------------------------------------------------------------
(***************************************************************************)
(* Type correctness needs to know that a goroutine inside ChangeState has  *)
(* its arguments, and that a batch has its target.                         *)
(***************************************************************************)
InChange(p) == pc[p] \in {"lock", "commit", "check", "fire"}

ArgsOK ==
  \A p \in Procs :
    /\ InChange(p) => tkt[p] \in Tickets /\ to[p] \in States
    /\ pc[p] = "commit" => current[p] \in States
    /\ pc[p] \in {"detach", "loop", "restore"} => inBatch[p]
    /\ inBatch[p] => to[p] \in States

\* Updating entries of the log in place leaves a log.
LEMMA LogUpdate ==
  ASSUME log \in Seq(Change), NEW f,
         DOMAIN f = DOMAIN log,
         f = [i \in DOMAIN log |-> f[i]],
         \A i \in DOMAIN log : f[i] \in Change
  PROVE  f \in Seq(Change)
<1>1. DOMAIN log = 1..Len(log) /\ Len(log) \in Nat
  OBVIOUS
<1>2. f \in [1..Len(log) -> Change]
  BY <1>1
<1>. QED
  BY <1>1, <1>2, IsASeq

LEMMA TypeInit == Init => TypeOK /\ ArgsOK
<1>1. Init => TypeOK
  BY DEF Init, TypeOK, PCs
<1>2. Init => ArgsOK
  BY DEF Init, ArgsOK, InChange
<1>. QED
  BY <1>1, <1>2

\* The change UpdateAndCommit logs is well-typed, and so is the log after it.
LEMMA CommitLog ==
  ASSUME TypeOK, ArgsOK, NEW p \in Procs, UpdateAndCommit(p)
  PROVE  log' \in Seq(Change)
<1>. DEFINE entry == [ticket |-> tkt[p], from |-> current[p], to |-> to[p],
                      by |-> p, heard |-> 0]
<1>1. log' = Append(log, entry)
  BY DEF UpdateAndCommit
<1>2. entry \in Change
  BY DEF UpdateAndCommit, ArgsOK, InChange, Change
<1>. QED
  BY <1>1, <1>2, AppendProperties DEF TypeOK

\* So is the log after a listener reported changes.
LEMMA ReportLog ==
  ASSUME TypeOK, NEW p \in Procs, NEW n \in Nat
  PROVE  /\ Report(p, n) \in Seq(Change)
         /\ HeardByHook(p) \in Seq(Change)
<1>1. \A i \in DOMAIN log : log[i] \in Change
  BY ElementOfSeq DEF TypeOK
<1>2. \A i \in DOMAIN log : Report(p, n)[i] \in Change
  BY <1>1 DEF Report, Heard, Change
<1>3. \A i \in DOMAIN log : HeardByHook(p)[i] \in Change
  <2>1. inBatch[p] \in BOOLEAN
    BY DEF TypeOK
  <2>2. \A i \in DOMAIN log : Heard(log[i], 1) \in Change
    BY <1>1, <2>1 DEF Heard, Change
  <2>. QED
    BY <1>1, <2>2 DEF HeardByHook
<1>4. /\ DOMAIN Report(p, n) = DOMAIN log
      /\ Report(p, n) = [i \in DOMAIN log |-> Report(p, n)[i]]
  BY DEF Report
<1>5. /\ DOMAIN HeardByHook(p) = DOMAIN log
      /\ HeardByHook(p) = [i \in DOMAIN log |-> HeardByHook(p)[i]]
  BY DEF HeardByHook
<1>6. log \in Seq(Change)
  BY DEF TypeOK
<1>. QED
  BY <1>2, <1>3, <1>4, <1>5, <1>6, LogUpdate

\* ReturnTo leaves well-typed locals behind.
LEMMA ReturnTypes ==
  ASSUME TypeOK, NEW p \in Procs, NEW label \in {"loop", "restore"},
         ReturnTo(p, label)
  PROVE  /\ pc' \in [Procs -> PCs]
         /\ tkt' \in [Procs -> Tickets \cup {None}]
         /\ current' \in [Procs -> States \cup {None}]
         /\ to' \in [Procs -> States \cup {None}]
         /\ succeeded' \in [Procs -> SUBSET Nat]
BY DEF TypeOK, ReturnTo, Goto, PCs

\* One step of a goroutine keeps the types.
LEMMA StepType ==
  ASSUME TypeOK, ArgsOK, NEW p \in Procs, Step(p)
  PROVE  TypeOK'
<1>. USE DEF TypeOK, PCs, Goto
<1>1. CASE SelectForUpdate(p)
  BY <1>1 DEF SelectForUpdate, RowFree, Legal, ArgsOK, InChange, batch
<1>2. CASE Reject(p)
  BY <1>2, ReturnTypes DEF Reject, Return, rows
<1>3. CASE UpdateAndCommit(p)
  <2>1. log' \in Seq(Change)
    BY <1>3, CommitLog
  <2>2. Len(log) + 1 \in Nat
    BY LenProperties
  <2>3. state' \in [Tickets -> States \cup {Absent}]
    BY <1>3 DEF UpdateAndCommit, ArgsOK, InChange
  <2>4. resolvedAt' \in [Tickets -> BOOLEAN] /\ closedAt' \in [Tickets -> BOOLEAN]
    BY <1>3 DEF UpdateAndCommit, Stamped
  <2>5. lock' \in [Tickets -> Procs \cup {None}]
    BY <1>3 DEF UpdateAndCommit, Released
  <2>6. succeeded' \in [Procs -> SUBSET Nat]
    BY <1>3, <2>2 DEF UpdateAndCommit
  <2>. QED
    BY <1>3, <2>1, <2>3, <2>4, <2>5, <2>6 DEF UpdateAndCommit, args
<1>4. CASE DbError(p)
  <2>1. lock' \in [Tickets -> Procs \cup {None}]
    BY <1>4 DEF DbError, Released
  <2>. QED
    BY <1>4, <2>1, ReturnTypes DEF DbError, Unwind
<1>5. CASE CheckHook(p)
  <2>1. log' \in Seq(Change)
    BY <1>5, ReportLog DEF CheckHook
  <2>2. CASE hook[Rep[p]]
    BY <1>5, <2>1, <2>2 DEF CheckHook, rows, args
  <2>3. CASE ~hook[Rep[p]]
    BY <1>5, <2>1, <2>3, ReturnTypes DEF CheckHook, Return, rows
  <2>. QED
    BY <2>2, <2>3
<1>6. CASE FireHook(p)
  <2>1. log' \in Seq(Change)
    BY <1>6, ReportLog DEF FireHook
  <2>2. \E label \in {"loop", "restore"} : ReturnTo(p, label)
    BY <1>6 DEF FireHook, Return, Unwind
  <2>. QED
    BY <1>6, <2>1, <2>2, ReturnTypes DEF FireHook, rows
<1>7. CASE DetachHook(p)
  BY <1>7 DEF DetachHook, Detached, rows, args, batch
<1>8. CASE NextId(p)
  BY <1>8 DEF NextId, rows
<1>9. CASE FinishLoop(p)
  <2>1. log' \in Seq(Change)
    BY <1>9, ReportLog DEF FinishLoop, BulkReports
  <2>. QED
    BY <1>9, <2>1 DEF FinishLoop, rows, args, batch
<1>10. CASE RestoreHook(p)
  BY <1>10 DEF RestoreHook, Restored, rows
<1>. QED
  BY <1>1, <1>2, <1>3, <1>4, <1>5, <1>6, <1>7, <1>8, <1>9, <1>10 DEF Step

\* The requests that are one statement, and those that start.
LEMMA RequestType ==
  ASSUME TypeOK,
         \/ \E t \in Tickets : CreateTicket(t)
         \/ \E p \in Procs, t \in Tickets, s \in Targets : PatchState(p, t, s)
         \/ \E p \in Procs, S \in SUBSET Tickets \ {{}}, s \in BulkTargets \cap Targets :
              BeginBulkState(p, S, s)
         \/ \E S \in SUBSET Tickets \ {{}}, a \in Agents, l \in Agents \cup {None} :
              BulkAssign(S, a, l)
         \/ \E S \in SUBSET Tickets \ {{}} : BulkUnassign(S)
  PROVE  TypeOK'
<1>. USE DEF TypeOK, PCs, Goto
<1>1. ASSUME NEW t \in Tickets, CreateTicket(t) PROVE TypeOK'
  BY <1>1 DEF CreateTicket, args, batch, States
<1>2. ASSUME NEW p \in Procs, NEW t \in Tickets, NEW s \in Targets, PatchState(p, t, s)
      PROVE  TypeOK'
  BY <1>2 DEF PatchState, Validate, rows, batch
<1>3. ASSUME NEW p \in Procs, NEW S \in SUBSET Tickets \ {{}},
             NEW s \in BulkTargets \cap Targets, BeginBulkState(p, S, s)
      PROVE  TypeOK'
  <2>1. s \in States
    BY DEF BulkTargets, States
  <2>2. saved' \in [Procs -> BOOLEAN]
    BY <1>3, RepAssumption DEF BeginBulkState
  <2>. QED
    BY <1>3, <2>1, <2>2 DEF BeginBulkState, rows
<1>4. ASSUME NEW S \in SUBSET Tickets \ {{}}, NEW a \in Agents,
             NEW l \in Agents \cup {None}, BulkAssign(S, a, l)
      PROVE  TypeOK'
  <2>1. \A t \in Tickets : AssignedState(t) \in States \cup {Absent}
    BY DEF AssignedState, States
  <2>. QED
    BY <1>4, <2>1 DEF BulkAssign, args, batch
<1>5. ASSUME NEW S \in SUBSET Tickets \ {{}}, BulkUnassign(S) PROVE TypeOK'
  BY <1>5 DEF BulkUnassign, args, batch
<1>. QED
  BY <1>1, <1>2, <1>3, <1>4, <1>5

\* The locals a goroutine needs are there when it needs them.
LEMMA ArgsStep == TypeOK /\ ArgsOK /\ [Next]_vars => ArgsOK'
<1>. SUFFICES ASSUME TypeOK, ArgsOK, [Next]_vars PROVE ArgsOK'
  OBVIOUS
<1>. USE DEF TypeOK, ArgsOK, InChange, Goto
<1>1. ASSUME NEW p \in Procs, NEW t \in Tickets, NEW s \in Targets, PatchState(p, t, s)
      PROVE  ArgsOK'
  BY <1>1 DEF PatchState, Validate, batch
<1>2. ASSUME NEW p \in Procs, NEW S \in SUBSET Tickets \ {{}},
             NEW s \in BulkTargets \cap Targets, BeginBulkState(p, S, s)
      PROVE  ArgsOK'
  BY <1>2 DEF BeginBulkState, BulkTargets, States
<1>3. ASSUME NEW p \in Procs, SelectForUpdate(p) PROVE ArgsOK'
  BY <1>3 DEF SelectForUpdate, Legal, batch
<1>4. ASSUME NEW p \in Procs, UpdateAndCommit(p) PROVE ArgsOK'
  BY <1>4 DEF UpdateAndCommit, args
<1>5. ASSUME NEW p \in Procs, NEW label \in {"loop", "restore"}, ReturnTo(p, label),
             UNCHANGED inBatch
      PROVE  ArgsOK'
  BY <1>5 DEF ReturnTo
<1>6. ASSUME NEW p \in Procs, Reject(p) PROVE ArgsOK'
  BY <1>5, <1>6 DEF Reject, Return
<1>7. ASSUME NEW p \in Procs, DbError(p) PROVE ArgsOK'
  BY <1>5, <1>7 DEF DbError, Unwind
<1>8. ASSUME NEW p \in Procs, CheckHook(p) PROVE ArgsOK'
  <2>1. CASE hook[Rep[p]]
    BY <1>8, <2>1 DEF CheckHook, args
  <2>2. CASE ~hook[Rep[p]]
    BY <1>5, <1>8, <2>2 DEF CheckHook, Return
  <2>. QED
    BY <2>1, <2>2
<1>9. ASSUME NEW p \in Procs, FireHook(p) PROVE ArgsOK'
  BY <1>5, <1>9 DEF FireHook, Return, Unwind
<1>10. ASSUME NEW p \in Procs, DetachHook(p) PROVE ArgsOK'
  BY <1>10 DEF DetachHook, args, batch
<1>11. ASSUME NEW p \in Procs, NextId(p) PROVE ArgsOK'
  BY <1>11 DEF NextId
<1>12. ASSUME NEW p \in Procs, FinishLoop(p) PROVE ArgsOK'
  BY <1>12 DEF FinishLoop, args, batch
<1>13. ASSUME NEW p \in Procs, RestoreHook(p) PROVE ArgsOK'
  BY <1>13 DEF RestoreHook
<1>14. ASSUME UNCHANGED <<pc, args, inBatch>> PROVE ArgsOK'
  BY <1>14 DEF args
<1>15. ASSUME NEW p \in Procs, Step(p) PROVE ArgsOK'
  BY <1>3, <1>4, <1>6, <1>7, <1>8, <1>9, <1>10, <1>11, <1>12, <1>13, <1>15 DEF Step
<1>16. CASE \/ \E t \in Tickets : CreateTicket(t)
            \/ \E S \in SUBSET Tickets \ {{}}, a \in Agents, l \in Agents \cup {None} :
                 BulkAssign(S, a, l)
            \/ \E S \in SUBSET Tickets \ {{}} : BulkUnassign(S)
            \/ UNCHANGED vars
  BY <1>14, <1>16 DEF CreateTicket, BulkAssign, BulkUnassign, vars, batch
<1>. QED
  BY <1>1, <1>2, <1>15, <1>16 DEF Next, Finished

LEMMA TypesInductive == Spec => [](TypeOK /\ ArgsOK)
<1>1. TypeOK /\ ArgsOK /\ [Next]_vars => TypeOK'
  <2>. SUFFICES ASSUME TypeOK, ArgsOK, [Next]_vars PROVE TypeOK'
    OBVIOUS
  <2>1. CASE \E p \in Procs : Step(p)
    BY <2>1, StepType
  <2>2. CASE UNCHANGED vars
    BY <2>2 DEF vars, rows, args, batch, TypeOK
  <2>. QED
    BY <2>1, <2>2, RequestType DEF Next, Finished
<1>. QED
  BY <1>1, TypeInit, ArgsStep, PTL DEF Spec

\* The variables of TicketRepo keep their types whatever requests the replicas
\* serve, in any interleaving.
THEOREM TypeCorrect == Spec => []TypeOK
BY TypesInductive, PTL
-----------------------------------------------------------------------------
(***************************************************************************)
(* The row lock.  A goroutine about to commit holds the lock of its row,   *)
(* and what it read under it is still the row's state: this is what makes  *)
(* check-then-update legal, and the heart of every other row property.     *)
(***************************************************************************)
LockInv ==
  \A p \in Procs :
    pc[p] = "commit" => /\ lock[tkt[p]] = p
                        /\ current[p] = state[tkt[p]]
                        /\ Transition(current[p], to[p])

RowsInv == StampsFollowState /\ NewIsUnassigned

RowsIInv == TypeOK /\ ArgsOK /\ LockInv /\ RowsInv

\* The steps that write neither a row nor what LockInv speaks of for a
\* goroutine that stays at "commit".
Quiet(p) == UNCHANGED rows /\ (\A q \in Procs \ {p} : /\ pc'[q] = pc[q]
                                                   /\ tkt'[q] = tkt[q]
                                                   /\ to'[q] = to[q]
                                                   /\ current'[q] = current[q])
            /\ pc'[p] # "commit"

LEMMA QuietKeeps ==
  ASSUME TypeOK, LockInv, RowsInv, NEW p \in Procs, Quiet(p)
  PROVE  LockInv' /\ RowsInv'
<1>1. LockInv'
  BY DEF Quiet, LockInv, rows
<1>2. RowsInv'
  BY DEF Quiet, RowsInv, StampsFollowState, NewIsUnassigned, rows
<1>. QED
  BY <1>1, <1>2

\* Which steps are quiet.
LEMMA QuietSteps ==
  ASSUME TypeOK, NEW p \in Procs,
         \/ \E t \in Tickets, s \in Targets : PatchState(p, t, s)
         \/ \E S \in SUBSET Tickets \ {{}}, s \in BulkTargets \cap Targets :
              BeginBulkState(p, S, s)
         \/ Reject(p) \/ CheckHook(p) \/ FireHook(p) \/ DetachHook(p)
         \/ NextId(p) \/ FinishLoop(p) \/ RestoreHook(p)
  PROVE  Quiet(p)
<1>. USE DEF Quiet, TypeOK, Goto
<1>1. ASSUME NEW t \in Tickets, NEW s \in Targets, PatchState(p, t, s) PROVE Quiet(p)
  BY <1>1 DEF PatchState
<1>2. ASSUME NEW S \in SUBSET Tickets \ {{}}, NEW s \in BulkTargets \cap Targets,
             BeginBulkState(p, S, s)
      PROVE  Quiet(p)
  BY <1>2 DEF BeginBulkState
<1>3. ASSUME NEW label \in {"loop", "restore"}, ReturnTo(p, label), UNCHANGED rows
      PROVE  Quiet(p)
  BY <1>3 DEF ReturnTo
<1>4. CASE Reject(p)
  BY <1>3, <1>4 DEF Reject, Return
<1>5. CASE CheckHook(p)
  <2>1. CASE hook[Rep[p]]
    BY <1>5, <2>1 DEF CheckHook, args
  <2>2. CASE ~hook[Rep[p]]
    BY <1>3, <1>5, <2>2 DEF CheckHook, Return
  <2>. QED
    BY <2>1, <2>2
<1>6. CASE FireHook(p)
  BY <1>3, <1>6 DEF FireHook, Return, Unwind
<1>7. CASE DetachHook(p)
  BY <1>7 DEF DetachHook, args
<1>8. CASE NextId(p)
  BY <1>8 DEF NextId
<1>9. CASE FinishLoop(p)
  BY <1>9 DEF FinishLoop, args
<1>10. CASE RestoreHook(p)
  BY <1>10 DEF RestoreHook
<1>. QED
  BY <1>1, <1>2, <1>4, <1>5, <1>6, <1>7, <1>8, <1>9, <1>10

\* The step that writes a row through the state machine.
LEMMA CommitKeeps ==
  ASSUME TypeOK, ArgsOK, LockInv, RowsInv, NEW p \in Procs, UpdateAndCommit(p)
  PROVE  LockInv' /\ RowsInv'
<1>1. /\ tkt[p] \in Tickets /\ current[p] \in States /\ to[p] \in States
      /\ current[p] = state[tkt[p]] /\ Transition(current[p], to[p])
      /\ lock[tkt[p]] = p
  BY DEF UpdateAndCommit, ArgsOK, InChange, LockInv
<1>2. LockInv'
  <2>. SUFFICES ASSUME NEW q \in Procs, pc'[q] = "commit"
                PROVE  /\ lock'[tkt'[q]] = q
                       /\ current'[q] = state'[tkt'[q]]
                       /\ Transition(current'[q], to'[q])
    BY DEF LockInv
  <2>1. q # p /\ pc[q] = "commit"
    BY DEF UpdateAndCommit, Goto, TypeOK
  <2>2. lock[tkt[q]] = q /\ tkt[q] \in Tickets /\ tkt[q] # tkt[p]
    BY <1>1, <2>1 DEF LockInv, ArgsOK, InChange
  <2>3. lock'[tkt[q]] = q
    BY <2>1, <2>2 DEF UpdateAndCommit, Released, TypeOK
  <2>4. state'[tkt[q]] = state[tkt[q]]
    BY <2>2 DEF UpdateAndCommit, TypeOK
  <2>. QED
    BY <2>1, <2>3, <2>4 DEF UpdateAndCommit, args, LockInv
<1>3. /\ to[p] # "new" /\ to[p] # Absent
      /\ to[p] = "closed" => current[p] = "resolved"
      /\ to[p] = "reopened" => current[p] \in {"resolved", "closed"}
  BY <1>1, EdgeFacts, AbsentIsNoState
<1>4. StampsFollowState'
  <2>. SUFFICES ASSUME NEW t \in Tickets
                PROVE  /\ state'[t] \in {"resolved", "closed", "reopened"} => resolvedAt'[t]
                       /\ state'[t] = "closed" => closedAt'[t]
                       /\ closedAt'[t] => resolvedAt'[t]
    BY DEF StampsFollowState
  <2>1. CASE t # tkt[p]
    BY <2>1 DEF UpdateAndCommit, Stamped, TypeOK, RowsInv, StampsFollowState
  <2>2. CASE t = tkt[p]
    <3>1. /\ state'[t] = to[p]
          /\ resolvedAt'[t] = (resolvedAt[t] \/ to[p] = "resolved")
          /\ closedAt'[t] = (closedAt[t] \/ to[p] = "closed")
      BY <2>2 DEF UpdateAndCommit, Stamped, TypeOK
    <3>2. to[p] \in {"closed", "reopened"} => resolvedAt[t]
      BY <1>1, <1>3, <2>2 DEF RowsInv, StampsFollowState
    <3>3. closedAt[t] => resolvedAt[t]
      BY DEF RowsInv, StampsFollowState
    <3>. QED
      BY <3>1, <3>2, <3>3
  <2>. QED
    BY <2>1, <2>2
<1>5. NewIsUnassigned'
  BY <1>1, <1>3 DEF UpdateAndCommit, TypeOK, RowsInv, NewIsUnassigned
<1>. QED
  BY <1>2, <1>4, <1>5 DEF RowsInv

\* The other steps that touch a row or its lock.
LEMMA RowStepsKeep ==
  ASSUME TypeOK, ArgsOK, LockInv, RowsInv,
         \/ \E t \in Tickets : CreateTicket(t)
         \/ \E p \in Procs : SelectForUpdate(p) \/ DbError(p)
         \/ \E S \in SUBSET Tickets \ {{}}, a \in Agents, l \in Agents \cup {None} :
              BulkAssign(S, a, l)
         \/ \E S \in SUBSET Tickets \ {{}} : BulkUnassign(S)
  PROVE  LockInv' /\ RowsInv'
<1>. USE DEF TypeOK, RowsInv
<1>1. ASSUME NEW t \in Tickets, CreateTicket(t) PROVE LockInv' /\ RowsInv'
  <2>1. LockInv'
    BY <1>1, AbsentIsNoState DEF CreateTicket, LockInv, ArgsOK, InChange, args
  <2>2. RowsInv'
    BY <1>1 DEF CreateTicket, StampsFollowState, NewIsUnassigned
  <2>. QED
    BY <2>1, <2>2
<1>2. ASSUME NEW p \in Procs, SelectForUpdate(p) PROVE LockInv' /\ RowsInv'
  <2>1. LockInv'
    BY <1>2, NoneAssumption DEF SelectForUpdate, RowFree, Legal, LockInv, ArgsOK, InChange, Goto
  <2>2. RowsInv'
    BY <1>2 DEF SelectForUpdate, StampsFollowState, NewIsUnassigned
  <2>. QED
    BY <2>1, <2>2
<1>3. ASSUME NEW p \in Procs, DbError(p) PROVE LockInv' /\ RowsInv'
  <2>1. LockInv'
    BY <1>3 DEF DbError, Unwind, ReturnTo, Goto, Released, LockInv, ArgsOK, InChange
  <2>2. RowsInv'
    BY <1>3 DEF DbError, StampsFollowState, NewIsUnassigned
  <2>. QED
    BY <2>1, <2>2
<1>4. ASSUME NEW S \in SUBSET Tickets \ {{}}, NEW a \in Agents,
             NEW l \in Agents \cup {None}, BulkAssign(S, a, l)
      PROVE  LockInv' /\ RowsInv'
  <2>1. LockInv'
    BY <1>4, NoneAssumption DEF BulkAssign, LockInv, ArgsOK, InChange, args
  <2>2. RowsInv'
    BY <1>4, AbsentIsNoState
    DEF BulkAssign, InScope, AssignedState, StampsFollowState, NewIsUnassigned, States
  <2>. QED
    BY <2>1, <2>2
<1>5. ASSUME NEW S \in SUBSET Tickets \ {{}}, BulkUnassign(S) PROVE LockInv' /\ RowsInv'
  <2>1. LockInv'
    BY <1>5 DEF BulkUnassign, LockInv, args
  <2>2. RowsInv'
    BY <1>5 DEF BulkUnassign, StampsFollowState, NewIsUnassigned
  <2>. QED
    BY <2>1, <2>2
<1>. QED
  BY <1>1, <1>2, <1>3, <1>4, <1>5

LEMMA RowsInductive == Spec => []RowsIInv
<1>1. Init => LockInv /\ RowsInv
  BY DEF Init, LockInv, RowsInv, StampsFollowState, NewIsUnassigned, Absent
<1>2. TypeOK /\ ArgsOK /\ LockInv /\ RowsInv /\ [Next]_vars => LockInv' /\ RowsInv'
  <2>. SUFFICES ASSUME TypeOK, ArgsOK, LockInv, RowsInv, [Next]_vars
                PROVE  LockInv' /\ RowsInv'
    OBVIOUS
  <2>1. CASE \E p \in Procs : Step(p)
    BY <2>1, QuietSteps, QuietKeeps, CommitKeeps, RowStepsKeep DEF Step
  <2>2. CASE \E p \in Procs, t \in Tickets, s \in Targets : PatchState(p, t, s)
    BY <2>2, QuietSteps, QuietKeeps
  <2>3. CASE \E p \in Procs, S \in SUBSET Tickets \ {{}}, s \in BulkTargets \cap Targets :
               BeginBulkState(p, S, s)
    BY <2>3, QuietSteps, QuietKeeps
  <2>4. CASE UNCHANGED vars
    BY <2>4 DEF vars, rows, args, LockInv, RowsInv, StampsFollowState, NewIsUnassigned
  <2>. QED
    BY <2>1, <2>2, <2>3, <2>4, RowStepsKeep DEF Next, Finished
<1>. QED
  BY <1>1, <1>2, TypesInductive, PTL DEF Spec, RowsIInv

\* The resolved_at and closed_at stamps never contradict the ticket's state,
\* for any number of concurrent requests and failures.
THEOREM StampsCorrect == Spec => []StampsFollowState
BY RowsInductive, PTL DEF RowsIInv, RowsInv

\* No request leaves a ticket in "new" with an assignee.
THEOREM NewUnassigned == Spec => []NewIsUnassigned
BY RowsInductive, PTL DEF RowsIInv, RowsInv
-----------------------------------------------------------------------------
(***************************************************************************)
(* Refinement: under LockInv the only writes to the state column are the   *)
(* INSERT, the locked check-and-update and BulkAssign's new -> open, and   *)
(* each of them is a step of TicketRows.                                   *)
(***************************************************************************)
\* TicketRows speaks of the same table.
LEMMA SameTable ==
  /\ Rows!States = States
  /\ Rows!Absent = Absent
  /\ \A from, target : Rows!Transition(from, target) <=> Transition(from, target)
BY DEF Rows!States, States, Rows!Absent, Absent, Rows!Transition, Transition,
       Rows!Validate, Validate, Rows!CanTransition, CanTransition,
       Rows!transitions, transitions

LEMMA StateWrites ==
  ASSUME TypeOK, ArgsOK, LockInv, [Next]_vars
  PROVE  [Rows!Next]_state
<1>. USE SameTable DEF TypeOK, Rows!Next, Rows!Edge
<1>1. ASSUME NEW t \in Tickets, CreateTicket(t) PROVE Rows!Next
  BY <1>1 DEF CreateTicket, States
<1>2. ASSUME NEW p \in Procs, UpdateAndCommit(p) PROVE Rows!Next
  BY <1>2 DEF UpdateAndCommit, LockInv, ArgsOK, InChange
<1>3. ASSUME NEW S \in SUBSET Tickets \ {{}}, NEW a \in Agents,
             NEW l \in Agents \cup {None}, BulkAssign(S, a, l)
      PROVE  Rows!Next
  BY <1>3, AssignEdge DEF BulkAssign, AssignedState, States
<1>4. ASSUME NEW p \in Procs, Step(p) PROVE UNCHANGED state \/ UpdateAndCommit(p)
  BY <1>4
  DEF Step, SelectForUpdate, Reject, DbError, CheckHook, FireHook,
      DetachHook, NextId, FinishLoop, RestoreHook, rows
<1>5. ASSUME NEW p \in Procs, NEW t \in Tickets, NEW s \in Targets, PatchState(p, t, s)
      PROVE  UNCHANGED state
  BY <1>5 DEF PatchState, rows
<1>6. ASSUME NEW p \in Procs, NEW S \in SUBSET Tickets \ {{}},
             NEW s \in BulkTargets \cap Targets, BeginBulkState(p, S, s)
      PROVE  UNCHANGED state
  BY <1>6 DEF BeginBulkState, rows
<1>7. ASSUME NEW S \in SUBSET Tickets \ {{}}, BulkUnassign(S) PROVE UNCHANGED state
  BY <1>7 DEF BulkUnassign
<1>8. UNCHANGED vars => UNCHANGED state
  BY DEF vars, rows
<1>. QED
  BY <1>1, <1>2, <1>3, <1>4, <1>5, <1>6, <1>7, <1>8 DEF Next, Finished

\* Concurrent PATCH, bulk and assign requests together implement TicketRows:
\* no interleaving moves a ticket along an edge that is not in the table.
THEOREM RepoImplementsRows == Spec => LegalHistory
<1>1. Init => Rows!Init
  BY SameTable DEF Init, Rows!Init
<1>. QED
  BY <1>1, StateWrites, RowsInductive, PTL DEF Spec, LegalHistory, Rows!Spec, RowsIInv
-----------------------------------------------------------------------------
(***************************************************************************)
(* The log.  A commit appends one change, a report rewrites counts in      *)
(* place; who changed which ticket from what to what never changes.        *)
(***************************************************************************)
SameChanges ==
  /\ DOMAIN log' = DOMAIN log
  /\ \A i \in DOMAIN log : /\ log'[i].ticket = log[i].ticket
                           /\ log'[i].from = log[i].from
                           /\ log'[i].to = log[i].to
                           /\ log'[i].by = log[i].by

\* What p's commit adds.
Entry(p) == [ticket |-> tkt[p], from |-> current[p], to |-> to[p], by |-> p, heard |-> 0]

LEMMA CommitAppends ==
  ASSUME TypeOK, ArgsOK, NEW p \in Procs, UpdateAndCommit(p)
  PROVE  \E n \in Nat :
           /\ n = Len(log) + 1 /\ DOMAIN log = 1..(n - 1) /\ DOMAIN log' = 1..n
           /\ \A i \in DOMAIN log : log'[i] = log[i]
           /\ log'[n] = Entry(p)
<1>1. log' = Append(log, Entry(p)) /\ log \in Seq(Change)
  BY DEF UpdateAndCommit, Entry, TypeOK
<1>2. Entry(p) \in Change
  BY DEF UpdateAndCommit, ArgsOK, InChange, Change, Entry
<1>3. Len(log) \in Nat /\ DOMAIN log = 1..Len(log)
  BY <1>1, LenProperties
<1>4. log' \in Seq(Change) /\ Len(log') = Len(log) + 1
  BY <1>1, <1>2, AppendProperties
<1>5. DOMAIN log' = 1..(Len(log) + 1)
  BY <1>4, LenProperties
<1>6. /\ \A i \in DOMAIN log : log'[i] = log[i]
      /\ log'[Len(log) + 1] = Entry(p)
  BY <1>1, <1>2, <1>3, AppendProperties
<1>. WITNESS Len(log) + 1 \in Nat
<1>. QED
  BY <1>3, <1>5, <1>6

\* What a change in the log is made of.
LEMMA LogEntries ==
  ASSUME TypeOK
  PROVE  \A j \in DOMAIN log : /\ log[j].ticket \in Tickets /\ log[j].to \in States
                               /\ log[j].by \in Procs /\ log[j].heard \in Nat
<1>1. \A j \in DOMAIN log : log[j] \in Change
  BY ElementOfSeq DEF TypeOK
<1>. QED
  BY <1>1 DEF Change

LEMMA ReportKeepsChanges ==
  ASSUME NEW p \in Procs, \/ log' = HeardByHook(p)
                          \/ \E n \in Nat : log' = Report(p, n)
  PROVE  SameChanges
BY DEF SameChanges, HeardByHook, Report, Heard

\* A step commits one change, or leaves the changes as they were.
LEMMA LogSteps ==
  ASSUME [Next]_vars
  PROVE  SameChanges \/ \E p \in Procs : UpdateAndCommit(p)
<1>1. UNCHANGED log => SameChanges
  BY DEF SameChanges
<1>2. ASSUME NEW p \in Procs, Step(p), ~UpdateAndCommit(p) PROVE SameChanges
  <2>1. CASE FireHook(p)
    BY <1>1, <2>1, ReportKeepsChanges DEF FireHook
  <2>2. CASE FinishLoop(p)
    BY <2>2, ReportKeepsChanges DEF FinishLoop, BulkReports
  <2>. QED
    BY <1>1, <1>2, <2>1, <2>2
    DEF Step, SelectForUpdate, Reject, DbError, CheckHook, DetachHook, NextId, RestoreHook
<1>3. ASSUME Next, ~(\E p \in Procs : Step(p)) PROVE UNCHANGED log
  BY <1>3 DEF Next, CreateTicket, PatchState, BeginBulkState, BulkAssign, BulkUnassign,
              Finished, vars
<1>. QED
  BY <1>1, <1>2, <1>3 DEF Next, vars
-----------------------------------------------------------------------------
(***************************************************************************)
(* ChangesFormAPath.  The first later change of a ticket is given as a     *)
(* witness rather than chosen, and no logged change leads to "new", so     *)
(* that BulkAssign, which moves only new tickets, leaves the ends alone.   *)
(***************************************************************************)
Later(j) == {k \in DOMAIN log : k > j /\ log[k].ticket = log[j].ticket}
First(S) == {m \in S : \A l \in S : m <= l}

PathInv ==
  \A j \in DOMAIN log :
    /\ log[j].to # "new"
    /\ Later(j) = {} => state[log[j].ticket] = log[j].to
    /\ Later(j) # {} => \E m \in First(Later(j)) : log[m].from = log[j].to

LEMMA PathInit == Init => PathInv
BY DEF Init, PathInv

\* The witness is what ChangesFormAPath chooses.
LEMMA PathMeans == TypeOK /\ PathInv => ChangesFormAPath
<1>. SUFFICES ASSUME TypeOK, PathInv, NEW j \in DOMAIN log
              PROVE  LET later == {k \in DOMAIN log : k > j /\ log[k].ticket = log[j].ticket}
                     IN IF later = {}
                        THEN state[log[j].ticket] = log[j].to
                        ELSE log[CHOOSE k \in later : \A l \in later : k <= l].from = log[j].to
  BY DEF ChangesFormAPath
<1>1. CASE Later(j) = {}
  BY <1>1 DEF PathInv, Later
<1>2. CASE Later(j) # {}
  <2>1. PICK m \in First(Later(j)) : log[m].from = log[j].to
    BY <1>2 DEF PathInv
  <2>. DEFINE c == CHOOSE k \in Later(j) : \A l \in Later(j) : k <= l
  <2>2. c \in Later(j) /\ \A l \in Later(j) : c <= l
    BY <2>1 DEF First
  <2>3. Later(j) \subseteq Nat
    BY LenProperties DEF TypeOK, Later
  <2>4. c = m
    BY <2>1, <2>2, <2>3 DEF First
  <2>. QED
    BY <1>2, <2>1, <2>4 DEF Later
<1>. QED
  BY <1>1, <1>2

\* The committed change continues the path from where the row was.
LEMMA PathCommit ==
  ASSUME TypeOK, ArgsOK, LockInv, PathInv, NEW p \in Procs, UpdateAndCommit(p)
  PROVE  PathInv'
<1>1. PICK n \in Nat : /\ DOMAIN log = 1..(n - 1) /\ DOMAIN log' = 1..n
                       /\ \A i \in DOMAIN log : log'[i] = log[i]
                       /\ log'[n] = Entry(p)
  BY CommitAppends
<1>2. /\ tkt[p] \in Tickets /\ to[p] \in States /\ current[p] = state[tkt[p]]
      /\ current[p] \in States /\ Transition(current[p], to[p])
  BY DEF UpdateAndCommit, ArgsOK, InChange, LockInv
<1>3. \A t \in Tickets : state'[t] = IF t = tkt[p] THEN to[p] ELSE state[t]
  BY DEF UpdateAndCommit, TypeOK
<1>4. \A j \in DOMAIN log : log[j].ticket \in Tickets
  BY LogEntries
<1>5. ASSUME NEW j \in DOMAIN log
      PROVE  Later(j)' = IF log[j].ticket = tkt[p] THEN Later(j) \cup {n} ELSE Later(j)
  BY <1>1, <1>5 DEF Later, Entry
<1>6. Later(n)' = {}
  BY <1>1 DEF Later
<1>. SUFFICES ASSUME NEW j \in DOMAIN log'
              PROVE  /\ log'[j].to # "new"
                     /\ Later(j)' = {} => state'[log'[j].ticket] = log'[j].to
                     /\ Later(j)' # {} => \E m \in First(Later(j)') : log'[m].from = log'[j].to
  BY DEF PathInv, First
<1>7. CASE j = n
  BY <1>1, <1>2, <1>3, <1>6, <1>7, EdgeFacts DEF Entry
<1>8. CASE j \in DOMAIN log /\ log[j].ticket # tkt[p]
  <2>1. Later(j)' = Later(j) /\ log'[j] = log[j]
    BY <1>1, <1>5, <1>8
  <2>2. \A m \in Later(j) : log'[m] = log[m]
    BY <1>1 DEF Later
  <2>. QED
    BY <1>3, <1>4, <1>8, <2>1, <2>2 DEF PathInv, First
<1>9. CASE j \in DOMAIN log /\ log[j].ticket = tkt[p]
  <2>1. Later(j)' = Later(j) \cup {n} /\ log'[j] = log[j] /\ log'[n].from = current[p]
    BY <1>1, <1>5, <1>9 DEF Entry
  <2>2. CASE Later(j) = {}
    <3>1. n \in First(Later(j)')
      BY <1>1, <2>1, <2>2 DEF First
    <3>2. log'[n].from = log'[j].to
      BY <1>2, <1>9, <2>1, <2>2 DEF PathInv
    <3>. QED
      BY <1>9, <2>1, <3>1, <3>2 DEF PathInv
  <2>3. CASE Later(j) # {}
    <3>1. PICK m \in First(Later(j)) : log[m].from = log[j].to
      BY <1>9, <2>3 DEF PathInv
    <3>2. m \in DOMAIN log /\ m <= n
      BY <1>1, <3>1 DEF First, Later
    <3>3. m \in First(Later(j)') /\ log'[m] = log[m]
      BY <1>1, <2>1, <3>1, <3>2 DEF First
    <3>. QED
      BY <1>9, <2>1, <3>1, <3>3 DEF PathInv
  <2>. QED
    BY <2>2, <2>3
<1>. QED
  BY <1>1, <1>7, <1>8, <1>9

\* Every other step writes the state of new tickets only, if any.
LEMMA PathOther ==
  ASSUME TypeOK, PathInv, SameChanges,
         \A t \in Tickets : state[t] \notin {Absent, "new"} => state'[t] = state[t]
  PROVE  PathInv'
<1>1. \A j \in DOMAIN log : log[j].ticket \in Tickets /\ log[j].to \in States
  BY LogEntries
<1>2. \A j \in DOMAIN log : Later(j)' = Later(j)
  BY DEF Later, SameChanges
<1>. SUFFICES ASSUME NEW j \in DOMAIN log
              PROVE  /\ log'[j].to # "new"
                     /\ Later(j)' = {} => state'[log'[j].ticket] = log'[j].to
                     /\ Later(j)' # {} => \E m \in First(Later(j)') : log'[m].from = log'[j].to
  BY DEF PathInv, SameChanges, First
<1>3. log'[j].to = log[j].to /\ log'[j].ticket = log[j].ticket /\ Later(j)' = Later(j)
  BY <1>2 DEF SameChanges
<1>4. \A m \in Later(j) : log'[m].from = log[m].from
  BY DEF Later, SameChanges
<1>5. log[j].to \notin {Absent, "new"}
  BY <1>1, AbsentIsNoState DEF PathInv
<1>. QED
  BY <1>1, <1>3, <1>4, <1>5 DEF PathInv, First

LEMMA PathStep ==
  ASSUME TypeOK, ArgsOK, LockInv, PathInv, [Next]_vars
  PROVE  PathInv'
<1>1. CASE \E p \in Procs : UpdateAndCommit(p)
  BY <1>1, PathCommit
<1>2. CASE ~\E p \in Procs : UpdateAndCommit(p)
  <2>1. SameChanges
    BY <1>2, LogSteps
  <2>2. ASSUME NEW t \in Tickets, state[t] \notin {Absent, "new"} PROVE state'[t] = state[t]
    <3>1. CASE \E u \in Tickets : CreateTicket(u)
      BY <2>2, <3>1 DEF CreateTicket, TypeOK
    <3>2. CASE \E S \in SUBSET Tickets \ {{}}, a \in Agents, l \in Agents \cup {None} :
                 BulkAssign(S, a, l)
      BY <2>2, <3>2 DEF BulkAssign, AssignedState
    <3>3. CASE \E p \in Procs : Step(p)
      BY <1>2, <3>3
      DEF Step, SelectForUpdate, Reject, DbError, CheckHook, FireHook,
          DetachHook, NextId, FinishLoop, RestoreHook, rows
    <3>. QED
      BY <3>1, <3>2, <3>3
      DEF Next, PatchState, BeginBulkState, BulkUnassign, Finished, vars, rows
  <2>. QED
    BY <2>1, <2>2, PathOther
<1>. QED
  BY <1>1, <1>2

\* The changes announced for a ticket form one path that ends in its row's
\* state: no two requests, on whichever replicas, claim one predecessor.
THEOREM OnePath == Spec => []ChangesFormAPath
<1>1. Spec => [](TypeOK /\ ArgsOK /\ LockInv)
  BY RowsInductive, PTL DEF RowsIInv
<1>2. TypeOK /\ ArgsOK /\ LockInv /\ PathInv /\ [Next]_vars => PathInv'
  BY PathStep
<1>. QED
  BY <1>1, <1>2, PathInit, PathMeans, PTL DEF Spec
-----------------------------------------------------------------------------
(***************************************************************************)
(* The listener.  With at most one goroutine per replica that serves bulk  *)
(* requests, the field is nil exactly while that goroutine is between      *)
(* detach and restore, and what it saved is the listener.  A change is     *)
(* then reported by the listener or with the batch, never by both.         *)
(***************************************************************************)
OneBulker == \A p, q \in Bulkers : Rep[p] = Rep[q] => p = q

HookInv ==
  \A p \in Procs :
    inBatch[p] => /\ p \in Bulkers
                  /\ saved[p]
                  /\ pc[p] \notin {"idle", "fire"}
                  /\ hook[Rep[p]] <=> pc[p] = "detach"

\* What a request has committed and not yet given up is its own; a single
\* request has one change, from its commit to the end of its listener call.
OwnInv ==
  \A p \in Procs :
    /\ \A i \in succeeded[p] : i \in DOMAIN log /\ log[i].by = p
    /\ ~inBatch[p] /\ pc[p] \in {"check", "fire"} => \E i \in Nat : succeeded[p] = {i}
    /\ ~inBatch[p] /\ pc[p] \notin {"check", "fire"} => succeeded[p] = {}

\* Until a batch reports, nothing of the request was reported.
UnheardInv ==
  \A p \in Procs : pc[p] # "restore" => \A i \in succeeded[p] : log[i].heard = 0

LEMMA ListenerInit == Init => HookInv /\ HookRestored /\ OwnInv /\ UnheardInv /\ HeardAtMostOnce
BY RepAssumption DEF Init, HookInv, HookRestored, OwnInv, UnheardInv, HeardAtMostOnce

\* The steps that leave the field and who is in a batch alone.
LEMMA HookKept ==
  ASSUME TypeOK, ArgsOK, HookInv, HookRestored, UNCHANGED <<hook, inBatch, saved>>,
         \A p \in Procs : inBatch[p] /\ pc'[p] # pc[p] =>
            pc[p] # "detach" /\ pc'[p] \notin {"idle", "fire", "detach"}
  PROVE  HookInv' /\ HookRestored'
BY DEF HookInv, HookRestored

LEMMA HookStep ==
  ASSUME OneBulker, TypeOK, ArgsOK, HookInv, HookRestored, [Next]_vars
  PROVE  HookInv' /\ HookRestored'
<1>. USE DEF TypeOK, Goto
<1>1. ASSUME NEW p \in Procs, NEW S \in SUBSET Tickets \ {{}},
             NEW s \in BulkTargets \cap Targets, BeginBulkState(p, S, s)
      PROVE  HookInv' /\ HookRestored'
  <2>1. ~inBatch[p] /\ p \in Bulkers
    BY <1>1 DEF BeginBulkState, HookInv
  <2>2. \A q \in Procs : inBatch[q] => Rep[q] # Rep[p]
    BY <2>1 DEF HookInv, OneBulker
  <2>3. hook[Rep[p]]
    BY <2>2, RepAssumption DEF HookRestored
  <2>. QED
    BY <1>1, <2>1, <2>2, <2>3, RepAssumption DEF BeginBulkState, HookInv, HookRestored
<1>2. ASSUME NEW p \in Procs, DetachHook(p) PROVE HookInv' /\ HookRestored'
  <2>1. inBatch[p] /\ p \in Bulkers
    BY <1>2 DEF DetachHook, ArgsOK, HookInv
  <2>2. \A q \in Procs : inBatch[q] /\ q # p => Rep[q] # Rep[p]
    BY <2>1 DEF HookInv, OneBulker
  <2>. QED
    BY <1>2, <2>1, <2>2, RepAssumption
    DEF DetachHook, Detached, HookInv, HookRestored, batch
<1>3. ASSUME NEW p \in Procs, RestoreHook(p) PROVE HookInv' /\ HookRestored'
  <2>1. inBatch[p] /\ p \in Bulkers /\ saved[p]
    BY <1>3 DEF RestoreHook, ArgsOK, HookInv
  <2>2. \A q \in Procs : inBatch[q] /\ q # p => Rep[q] # Rep[p]
    BY <2>1 DEF HookInv, OneBulker
  <2>. QED
    BY <1>3, <2>1, <2>2, RepAssumption DEF RestoreHook, Restored, HookInv, HookRestored
<1>4. ASSUME NEW p \in Procs, NEW label \in {"loop", "restore"}, ReturnTo(p, label),
             pc[p] # "detach", UNCHANGED <<hook, inBatch, saved>>
      PROVE  HookInv' /\ HookRestored'
  BY <1>4, HookKept DEF ReturnTo
<1>5. ASSUME NEW p \in Procs, Step(p) PROVE HookInv' /\ HookRestored'
  <2>1. CASE SelectForUpdate(p)
    BY <2>1, HookKept DEF SelectForUpdate, batch
  <2>2. CASE Reject(p)
    BY <1>4, <2>2 DEF Reject, Return
  <2>3. CASE UpdateAndCommit(p)
    BY <2>3, HookKept DEF UpdateAndCommit
  <2>4. CASE DbError(p)
    BY <1>4, <2>4 DEF DbError, Unwind
  <2>5. CASE CheckHook(p)
    <3>1. CASE hook[Rep[p]]
      <4>1. ~inBatch[p]
        BY <2>5, <3>1 DEF CheckHook, HookInv
      <4>. QED
        BY <2>5, <3>1, <4>1, HookKept DEF CheckHook
    <3>2. CASE ~hook[Rep[p]]
      BY <1>4, <2>5, <3>2 DEF CheckHook, Return
    <3>. QED
      BY <3>1, <3>2
  <2>6. CASE FireHook(p)
    BY <1>4, <2>6 DEF FireHook, Return, Unwind
  <2>7. CASE NextId(p)
    BY <2>7, HookKept DEF NextId
  <2>8. CASE FinishLoop(p)
    BY <2>8, HookKept DEF FinishLoop, batch
  <2>. QED
    BY <1>2, <1>3, <1>5, <2>1, <2>2, <2>3, <2>4, <2>5, <2>6, <2>7, <2>8 DEF Step
<1>6. ASSUME NEW p \in Procs, NEW t \in Tickets, NEW s \in Targets, PatchState(p, t, s)
      PROVE  HookInv' /\ HookRestored'
  BY <1>6, HookKept DEF PatchState, HookInv, batch
<1>7. ASSUME UNCHANGED <<hook, pc, batch>> PROVE HookInv' /\ HookRestored'
  BY <1>7, HookKept DEF batch
<1>. QED
  BY <1>1, <1>5, <1>6, <1>7
  DEF Next, CreateTicket, BulkAssign, BulkUnassign, Finished, vars

\* Outside a bulk request the listener is in place, whatever fails, as long as
\* no two goroutines of a replica serve bulk requests.  (With two it is not:
\* the run TicketRepoTwoBatches.)
THEOREM HookComesBack ==
  ASSUME OneBulker
  PROVE  Spec => []HookRestored
<1>1. TypeOK /\ ArgsOK /\ HookInv /\ HookRestored /\ [Next]_vars => (HookInv /\ HookRestored)'
  BY HookStep
<1>. QED
  BY <1>1, TypesInductive, ListenerInit, PTL DEF Spec
-----------------------------------------------------------------------------
(***************************************************************************)
(* What is reported.  The steps are sorted by what they do to the log and  *)
(* to the changes a request still answers for: they keep both, drop the    *)
(* request's changes, commit one, or report.                               *)
(***************************************************************************)
\* Neither the log nor who answers for what changes.
LEMMA HeardKept ==
  ASSUME OwnInv, UnheardInv, HeardAtMostOnce, UNCHANGED <<log, succeeded>>,
         \A q \in Procs :
           /\ pc[q] = "restore" /\ pc'[q] # "restore" => succeeded[q] = {}
           /\ \/ UNCHANGED <<pc[q], inBatch[q]>>
              \/ inBatch'[q] /\ inBatch[q]
              \/ pc[q] \in {"check", "fire"} /\ pc'[q] \in {"check", "fire"} /\ UNCHANGED inBatch[q]
              \/ succeeded[q] = {} /\ pc'[q] \notin {"check", "fire"}
  PROVE  OwnInv' /\ UnheardInv' /\ HeardAtMostOnce'
<1>1. OwnInv'
  BY DEF OwnInv
<1>2. UnheardInv'
  BY DEF UnheardInv
<1>. QED
  BY <1>1, <1>2 DEF HeardAtMostOnce

\* ChangeState returns without a report.
LEMMA HeardReturn ==
  ASSUME TypeOK, OwnInv, UnheardInv, HeardAtMostOnce,
         NEW p \in Procs, NEW label \in {"loop", "restore"}, ReturnTo(p, label),
         pc[p] # "restore", UNCHANGED <<log, inBatch>>
  PROVE  OwnInv' /\ UnheardInv' /\ HeardAtMostOnce'
<1>1. \A q \in Procs : q # p => UNCHANGED <<pc[q], succeeded[q]>>
  BY DEF ReturnTo, Goto, TypeOK
<1>2. /\ pc'[p] \notin {"check", "fire"}
      /\ succeeded'[p] = IF inBatch[p] THEN succeeded[p] ELSE {}
  BY DEF ReturnTo, Goto, TypeOK
<1>3. OwnInv'
  BY <1>1, <1>2 DEF OwnInv
<1>4. UnheardInv'
  BY <1>1, <1>2 DEF UnheardInv
<1>. QED
  BY <1>3, <1>4 DEF HeardAtMostOnce

LEMMA HeardCommit ==
  ASSUME TypeOK, ArgsOK, OwnInv, UnheardInv, HeardAtMostOnce,
         NEW p \in Procs, UpdateAndCommit(p)
  PROVE  OwnInv' /\ UnheardInv' /\ HeardAtMostOnce'
<1>1. PICK n \in Nat : /\ n = Len(log) + 1
                       /\ DOMAIN log = 1..(n - 1) /\ DOMAIN log' = 1..n
                       /\ \A i \in DOMAIN log : log'[i] = log[i]
                       /\ log'[n] = Entry(p)
  BY CommitAppends
<1>2. log'[n].by = p /\ log'[n].heard = 0 /\ n \in DOMAIN log'
  BY <1>1 DEF Entry
<1>3. \A q \in Procs : q # p => UNCHANGED <<pc[q], succeeded[q], inBatch[q]>>
  BY DEF UpdateAndCommit, Goto, TypeOK
<1>4. /\ pc[p] = "commit" /\ pc'[p] = "check" /\ UNCHANGED inBatch[p]
      /\ succeeded'[p] = succeeded[p] \cup {n}
  BY <1>1 DEF UpdateAndCommit, Goto, TypeOK
<1>5. \A q \in Procs : \A i \in succeeded[q] : i \in DOMAIN log /\ i \in DOMAIN log' /\ log'[i] = log[i]
  BY <1>1 DEF OwnInv
<1>6. OwnInv'
  BY <1>1, <1>2, <1>3, <1>4, <1>5 DEF OwnInv
<1>7. UnheardInv'
  BY <1>2, <1>3, <1>4, <1>5 DEF UnheardInv
<1>8. HeardAtMostOnce'
  BY <1>1, <1>2 DEF HeardAtMostOnce
<1>. QED
  BY <1>6, <1>7, <1>8

\* The listener call: a single request's one change, reported here only.
LEMMA HeardFire ==
  ASSUME TypeOK, HookInv, OwnInv, UnheardInv, HeardAtMostOnce,
         NEW p \in Procs, FireHook(p), hook[Rep[p]]
  PROVE  /\ OwnInv' /\ UnheardInv' /\ HeardAtMostOnce'
         /\ \A i \in DOMAIN log : log'[i].heard = IF i \in succeeded[p] THEN 1 ELSE log[i].heard
<1>1. pc[p] = "fire" /\ ~inBatch[p] /\ log' = HeardByHook(p) /\ Return(p) /\ UNCHANGED inBatch
  BY DEF FireHook, HookInv
<1>2. PICK i \in Nat : succeeded[p] = {i}
  BY <1>1 DEF OwnInv
<1>3. Newest(succeeded[p]) = i
  BY <1>2 DEF Newest
<1>4. i \in DOMAIN log /\ log[i].heard = 0 /\ log[i].by = p
  BY <1>1, <1>2 DEF OwnInv, UnheardInv
<1>5. /\ log'[i].heard = 1
      /\ \A j \in DOMAIN log : j # i => log'[j] = log[j]
  BY <1>1, <1>3, <1>4 DEF HeardByHook, Heard
<1>6. SameChanges
  BY <1>1, ReportKeepsChanges
<1>7. \A q \in Procs : q # p => UNCHANGED <<pc[q], succeeded[q]>> /\ i \notin succeeded[q]
  BY <1>1, <1>4 DEF Return, ReturnTo, Goto, TypeOK, OwnInv
<1>8. pc'[p] = "idle" /\ succeeded'[p] = {}
  BY <1>1 DEF Return, ReturnTo, Goto, TypeOK
<1>9. OwnInv'
  BY <1>1, <1>6, <1>7, <1>8 DEF OwnInv, SameChanges
<1>10. UnheardInv'
  BY <1>5, <1>7, <1>8 DEF UnheardInv, OwnInv
<1>11. HeardAtMostOnce'
  BY <1>5, <1>6 DEF HeardAtMostOnce, SameChanges
<1>. QED
  BY <1>2, <1>4, <1>5, <1>9, <1>10, <1>11

\* The batched report: the changes of this batch, none of them reported yet.
LEMMA HeardBatch ==
  ASSUME TypeOK, OwnInv, UnheardInv, HeardAtMostOnce, NEW p \in Procs, FinishLoop(p)
  PROVE  /\ OwnInv' /\ UnheardInv' /\ HeardAtMostOnce'
         /\ \A i \in DOMAIN log : log'[i].heard = IF i \in succeeded[p] THEN 1 ELSE log[i].heard
<1>1. /\ pc[p] = "loop" /\ pc'[p] = "restore" /\ log' = Report(p, 1)
      /\ UNCHANGED <<inBatch, succeeded>>
      /\ \A q \in Procs : q # p => UNCHANGED pc[q]
  BY DEF FinishLoop, BulkReports, Goto, TypeOK, batch
<1>2. \A i \in succeeded[p] : i \in DOMAIN log /\ log[i].heard = 0 /\ log[i].by = p
  BY <1>1 DEF OwnInv, UnheardInv
<1>3. \A i \in DOMAIN log : log'[i].heard = IF i \in succeeded[p] THEN 1 ELSE log[i].heard
  BY <1>1, <1>2 DEF Report, Heard
<1>4. SameChanges
  BY <1>1, ReportKeepsChanges
<1>5. \A q \in Procs : q # p => \A i \in succeeded[q] : i \in DOMAIN log /\ i \notin succeeded[p]
  BY <1>2 DEF OwnInv
<1>6. OwnInv'
  BY <1>1, <1>4 DEF OwnInv, SameChanges
<1>7. UnheardInv'
  BY <1>1, <1>3, <1>5 DEF UnheardInv
<1>8. HeardAtMostOnce'
  BY <1>3, <1>4 DEF HeardAtMostOnce, SameChanges
<1>. QED
  BY <1>3, <1>6, <1>7, <1>8

LEMMA HeardStep ==
  ASSUME TypeOK, ArgsOK, HookInv, OwnInv, UnheardInv, HeardAtMostOnce, [Next]_vars
  PROVE  OwnInv' /\ UnheardInv' /\ HeardAtMostOnce'
<1>1. ASSUME NEW p \in Procs, NEW label \in {"loop", "restore"}, ReturnTo(p, label),
             pc[p] # "restore", UNCHANGED <<log, inBatch>>
      PROVE  OwnInv' /\ UnheardInv' /\ HeardAtMostOnce'
  BY <1>1, HeardReturn
<1>2. ASSUME NEW p \in Procs, RestoreHook(p)
      PROVE  OwnInv' /\ UnheardInv' /\ HeardAtMostOnce'
  <2>1. \A q \in Procs : q # p => UNCHANGED <<pc[q], succeeded[q], inBatch[q]>>
    BY <1>2 DEF RestoreHook, Goto, TypeOK
  <2>2. pc'[p] = "idle" /\ succeeded'[p] = {} /\ UNCHANGED log
    BY <1>2 DEF RestoreHook, Goto, TypeOK
  <2>. QED
    BY <2>1, <2>2 DEF OwnInv, UnheardInv, HeardAtMostOnce
<1>3. ASSUME NEW p \in Procs, Step(p) PROVE OwnInv' /\ UnheardInv' /\ HeardAtMostOnce'
  <2>. USE DEF TypeOK, Goto
  <2>1. CASE SelectForUpdate(p)
    <3>1. UNCHANGED <<log, succeeded, inBatch>> /\ pc[p] = "lock" /\ pc'[p] = "commit"
      BY <2>1 DEF SelectForUpdate, batch
    <3>2. \A q \in Procs : q # p => UNCHANGED pc[q]
      BY <2>1 DEF SelectForUpdate
    <3>. QED
      BY <3>1, <3>2, HeardKept DEF OwnInv
  <2>2. CASE Reject(p)
    BY <1>1, <2>2 DEF Reject, Return
  <2>3. CASE UpdateAndCommit(p)
    BY <2>3, HeardCommit
  <2>4. CASE DbError(p)
    BY <1>1, <2>4 DEF DbError, Unwind
  <2>5. CASE CheckHook(p)
    <3>1. CASE hook[Rep[p]]
      <4>1. \/ Goto(p, "fire") /\ UNCHANGED <<log, succeeded, inBatch>>
            \/ Return(p) /\ UNCHANGED <<log, inBatch>>
        BY <2>5 DEF CheckHook, args
      <4>2. CASE Goto(p, "fire") /\ UNCHANGED <<log, succeeded, inBatch>>
        BY <2>5, <4>2, HeardKept DEF CheckHook
      <4>. QED
        BY <1>1, <2>5, <4>1, <4>2 DEF CheckHook, Return
    <3>2. CASE ~hook[Rep[p]]
      BY <1>1, <2>5, <3>2 DEF CheckHook, Return
    <3>. QED
      BY <3>1, <3>2
  <2>6. CASE FireHook(p)
    <3>1. CASE hook[Rep[p]]
      BY <2>6, <3>1, HeardFire
    <3>2. CASE ~hook[Rep[p]]
      BY <1>1, <2>6, <3>2 DEF FireHook, Unwind
    <3>. QED
      BY <3>1, <3>2
  <2>7. CASE DetachHook(p)
    <3>1. inBatch[p]
      BY <2>7 DEF DetachHook, ArgsOK
    <3>. QED
      BY <2>7, <3>1, HeardKept DEF DetachHook, batch
  <2>8. CASE NextId(p)
    <3>1. inBatch[p]
      BY <2>8 DEF NextId, ArgsOK
    <3>. QED
      BY <2>8, <3>1, HeardKept DEF NextId
  <2>9. CASE FinishLoop(p)
    BY <2>9, HeardBatch
  <2>. QED
    BY <1>2, <1>3, <2>1, <2>2, <2>3, <2>4, <2>5, <2>6, <2>7, <2>8, <2>9 DEF Step
<1>4. ASSUME NEW p \in Procs, pc[p] = "idle", NEW label \in {"lock", "detach"}, Goto(p, label),
             UNCHANGED <<log, succeeded>>, \A q \in Procs : q # p => UNCHANGED inBatch[q]
      PROVE  OwnInv' /\ UnheardInv' /\ HeardAtMostOnce'
  <2>1. ~inBatch[p]
    BY <1>4 DEF HookInv
  <2>2. succeeded[p] = {}
    BY <1>4, <2>1 DEF OwnInv
  <2>3. pc'[p] \notin {"check", "fire"} /\ \A q \in Procs : q # p => UNCHANGED pc[q]
    BY <1>4 DEF Goto, TypeOK
  <2>. QED
    BY <1>4, <2>2, <2>3, HeardKept
<1>5. ASSUME NEW p \in Procs, NEW t \in Tickets, NEW s \in Targets, PatchState(p, t, s)
      PROVE  OwnInv' /\ UnheardInv' /\ HeardAtMostOnce'
  BY <1>4, <1>5 DEF PatchState, batch
<1>6. ASSUME NEW p \in Procs, NEW S \in SUBSET Tickets \ {{}},
             NEW s \in BulkTargets \cap Targets, BeginBulkState(p, S, s)
      PROVE  OwnInv' /\ UnheardInv' /\ HeardAtMostOnce'
  BY <1>4, <1>6 DEF BeginBulkState, TypeOK
<1>7. ASSUME UNCHANGED <<pc, batch, log>> PROVE OwnInv' /\ UnheardInv' /\ HeardAtMostOnce'
  BY <1>7, HeardKept DEF batch
<1>. QED
  BY <1>3, <1>5, <1>6, <1>7
  DEF Next, CreateTicket, BulkAssign, BulkUnassign, Finished, vars

\* As long as no two goroutines of a replica serve bulk requests, no change is
\* reported twice: a batch member is never at the listener call, and a single
\* request's change belongs to no batch.
THEOREM HeardOnce ==
  ASSUME OneBulker
  PROVE  Spec => []HeardAtMostOnce
<1>. DEFINE HInv == HookInv /\ HookRestored /\ OwnInv /\ UnheardInv /\ HeardAtMostOnce
<1>1. TypeOK /\ ArgsOK /\ HInv /\ [Next]_vars => HInv'
  BY HookStep, HeardStep
<1>. QED
  BY <1>1, TypesInductive, ListenerInit, PTL DEF Spec
-----------------------------------------------------------------------------
(***************************************************************************)
(* What is never lost.  A goroutine that serves bulk requests has its      *)
(* replica to itself, the others may share theirs, and the database does   *)
(* not fail: then every committed change is reported by the end of its     *)
(* request.  (With a batch next to a single request on one replica it is   *)
(* not: the run TicketRepoShared.)                                         *)
(***************************************************************************)
BulkAlone == \A p \in Bulkers, q \in Procs : Rep[p] = Rep[q] => p = q

\* A batch that is about to restore the field has reported its changes.
BatchReported ==
  \A p \in Procs : pc[p] = "restore" => \A i \in succeeded[p] : log[i].heard >= 1

LEMMA AloneIsOne == BulkAlone => OneBulker
BY BulkersAssumption DEF BulkAlone, OneBulker

\* A single request finds the listener in place.
LEMMA HookThere ==
  ASSUME BulkAlone, HookInv, HookRestored, NEW p \in Procs, ~inBatch[p]
  PROVE  hook[Rep[p]]
BY RepAssumption DEF BulkAlone, HookInv, HookRestored

LEMMA ReportedKept ==
  ASSUME TypeOK, BatchReported, CommittedIsHeard, UNCHANGED <<log, succeeded>>,
         \A q \in Procs : pc'[q] = "restore" => pc[q] = "restore"
  PROVE  BatchReported' /\ CommittedIsHeard'
BY DEF BatchReported, CommittedIsHeard

\* ChangeState gives up only changes that were reported, if any.
LEMMA ReportedReturn ==
  ASSUME TypeOK, OwnInv, BatchReported, CommittedIsHeard, NEW p \in Procs, Return(p),
         SameChanges,
         \A i \in DOMAIN log : log'[i].heard >= 1 \/ log'[i].heard = log[i].heard,
         ~inBatch[p] => \A i \in succeeded[p] : log'[i].heard >= 1
  PROVE  BatchReported' /\ CommittedIsHeard'
<1>1. \A i \in DOMAIN log : log[i].heard \in Nat /\ log[i].by \in Procs
  BY LogEntries
<1>2. \A q \in Procs : q # p => UNCHANGED <<pc[q], succeeded[q]>>
  BY DEF Return, ReturnTo, Goto, TypeOK
<1>3. pc'[p] # "restore" /\ succeeded'[p] = IF inBatch[p] THEN succeeded[p] ELSE {}
  BY DEF Return, ReturnTo, Goto, TypeOK
<1>4. BatchReported'
  BY <1>1, <1>2, <1>3 DEF BatchReported, OwnInv
<1>5. CommittedIsHeard'
  BY <1>1, <1>2, <1>3 DEF CommittedIsHeard, SameChanges, OwnInv
<1>. QED
  BY <1>4, <1>5

LEMMA ReportedStep ==
  ASSUME BulkAlone, ~DbErrors, TypeOK, ArgsOK, HookInv, HookRestored, OwnInv, UnheardInv,
         HeardAtMostOnce, BatchReported, CommittedIsHeard, [Next]_vars
  PROVE  BatchReported' /\ CommittedIsHeard'
<1>1. ASSUME NEW p \in Procs, UpdateAndCommit(p) PROVE BatchReported' /\ CommittedIsHeard'
  <2>1. PICK n \in Nat : /\ n = Len(log) + 1
                         /\ DOMAIN log = 1..(n - 1) /\ DOMAIN log' = 1..n
                         /\ \A i \in DOMAIN log : log'[i] = log[i]
                         /\ log'[n] = Entry(p)
    BY <1>1, CommitAppends
  <2>2. \A q \in Procs : q # p => UNCHANGED <<pc[q], succeeded[q]>>
    BY <1>1 DEF UpdateAndCommit, Goto, TypeOK
  <2>3. pc'[p] = "check" /\ succeeded'[p] = succeeded[p] \cup {n}
    BY <1>1, <2>1 DEF UpdateAndCommit, Goto, TypeOK
  <2>4. BatchReported'
    BY <2>1, <2>2, <2>3 DEF BatchReported, OwnInv
  <2>5. CommittedIsHeard'
    BY <2>1, <2>2, <2>3, LogEntries DEF CommittedIsHeard, Entry
  <2>. QED
    BY <2>4, <2>5
<1>2. ASSUME NEW p \in Procs, FinishLoop(p) PROVE BatchReported' /\ CommittedIsHeard'
  <2>1. /\ SameChanges
        /\ \A i \in DOMAIN log : log'[i].heard = IF i \in succeeded[p] THEN 1 ELSE log[i].heard
    BY <1>2, HeardBatch, ReportKeepsChanges DEF FinishLoop, BulkReports
  <2>2. \A q \in Procs : q # p => UNCHANGED pc[q]
    BY <1>2 DEF FinishLoop, Goto, TypeOK
  <2>3. UNCHANGED succeeded
    BY <1>2 DEF FinishLoop, batch
  <2>4. BatchReported'
    BY <2>1, <2>2, <2>3 DEF BatchReported, OwnInv
  <2>5. CommittedIsHeard'
    BY <2>1, <2>3 DEF CommittedIsHeard, SameChanges
  <2>. QED
    BY <2>4, <2>5
<1>3. ASSUME NEW p \in Procs, RestoreHook(p) PROVE BatchReported' /\ CommittedIsHeard'
  <2>1. pc[p] = "restore" /\ UNCHANGED log
    BY <1>3 DEF RestoreHook
  <2>2. \A q \in Procs : q # p => UNCHANGED <<pc[q], succeeded[q]>>
    BY <1>3 DEF RestoreHook, Goto, TypeOK
  <2>3. succeeded'[p] = {}
    BY <1>3 DEF RestoreHook, TypeOK
  <2>4. BatchReported'
    BY <2>1, <2>2, <2>3 DEF BatchReported
  <2>5. CommittedIsHeard'
    BY <2>1, <2>2, <2>3, LogEntries DEF CommittedIsHeard, BatchReported
  <2>. QED
    BY <2>4, <2>5
<1>4. ASSUME NEW p \in Procs, Reject(p) PROVE BatchReported' /\ CommittedIsHeard'
  <2>1. Return(p) /\ UNCHANGED log /\ SameChanges
    BY <1>4 DEF Reject, SameChanges
  <2>2. ~inBatch[p] => succeeded[p] = {}
    BY <1>4 DEF Reject, OwnInv
  <2>. QED
    BY <2>1, <2>2, ReportedReturn
<1>5. ASSUME NEW p \in Procs, CheckHook(p) PROVE BatchReported' /\ CommittedIsHeard'
  <2>1. CASE hook[Rep[p]]
    BY <1>5, <2>1, ReportedKept DEF CheckHook, TypeOK, Goto
  <2>2. CASE ~hook[Rep[p]]
    <3>1. Return(p) /\ UNCHANGED log /\ SameChanges
      BY <1>5, <2>2 DEF CheckHook, SameChanges
    <3>2. inBatch[p]
      BY <2>2, HookThere
    <3>. QED
      BY <3>1, <3>2, ReportedReturn
  <2>. QED
    BY <2>1, <2>2
<1>6. ASSUME NEW p \in Procs, FireHook(p) PROVE BatchReported' /\ CommittedIsHeard'
  <2>1. hook[Rep[p]]
    BY <1>6, HookThere DEF FireHook, HookInv
  <2>2. Return(p) /\ SameChanges
    BY <1>6, <2>1, ReportKeepsChanges DEF FireHook
  <2>3. \A i \in DOMAIN log : log'[i].heard = IF i \in succeeded[p] THEN 1 ELSE log[i].heard
    BY <1>6, <2>1, HeardFire
  <2>. QED
    BY <2>2, <2>3, ReportedReturn DEF OwnInv
<1>7. ASSUME NEW p \in Procs, Step(p) PROVE BatchReported' /\ CommittedIsHeard'
  <2>. USE DEF TypeOK, Goto
  <2>1. CASE SelectForUpdate(p)
    BY <2>1, ReportedKept DEF SelectForUpdate, batch
  <2>2. ~DbError(p)
    BY DEF DbError
  <2>3. CASE DetachHook(p)
    BY <2>3, ReportedKept DEF DetachHook, batch
  <2>4. CASE NextId(p)
    BY <2>4, ReportedKept DEF NextId
  <2>. QED
    BY <1>1, <1>2, <1>3, <1>4, <1>5, <1>6, <1>7, <2>1, <2>2, <2>3, <2>4 DEF Step
<1>8. ASSUME NEW p \in Procs, NEW t \in Tickets, NEW s \in Targets, PatchState(p, t, s)
      PROVE  BatchReported' /\ CommittedIsHeard'
  BY <1>8, ReportedKept DEF PatchState, batch, Goto, TypeOK
<1>9. ASSUME NEW p \in Procs, NEW S \in SUBSET Tickets \ {{}},
             NEW s \in BulkTargets \cap Targets, BeginBulkState(p, S, s)
      PROVE  BatchReported' /\ CommittedIsHeard'
  BY <1>9, ReportedKept DEF BeginBulkState, Goto, TypeOK
<1>10. ASSUME UNCHANGED <<pc, batch, log>> PROVE BatchReported' /\ CommittedIsHeard'
  BY <1>10, ReportedKept DEF batch
<1>. QED
  BY <1>7, <1>8, <1>9, <1>10
  DEF Next, CreateTicket, BulkAssign, BulkUnassign, Finished, vars

\* Where the batches have their replica to themselves and the database does
\* not fail, no committed change goes unreported.
THEOREM NothingUnheard ==
  ASSUME BulkAlone, ~DbErrors
  PROVE  Spec => []CommittedIsHeard
<1>. DEFINE HInv == HookInv /\ HookRestored /\ OwnInv /\ UnheardInv /\ HeardAtMostOnce
                    /\ BatchReported /\ CommittedIsHeard
<1>1. Init => BatchReported /\ CommittedIsHeard
  BY DEF Init, BatchReported, CommittedIsHeard
<1>2. TypeOK /\ ArgsOK /\ HInv /\ [Next]_vars => HInv'
  BY HookStep, HeardStep, ReportedStep, AloneIsOne
<1>. QED
  BY <1>1, <1>2, TypesInductive, ListenerInit, PTL DEF Spec
=============================================================================
