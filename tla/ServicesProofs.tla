---------------------------- MODULE ServicesProofs ----------------------------
(***************************************************************************)
(* Proofs about the services around a ticket, each for any number of its   *)
(* actors, rows and faults, and about all of them side by side.            *)
(*                                                                         *)
(* The arguments: an upload that goes on was scanned clean (Document); a   *)
(* row stays as the officer who locks it read it, and a callback has one   *)
(* request in each tenant it is done with (Dsr: Locked, CallOf); an        *)
(* Instagram account follows its page, but while a callback is between the *)
(* two (Connect: Follows, Between); a channel is open while the hub lists  *)
(* its socket, a pump lives while pubsubs names it (RealtimeHub: Listed,   *)
(* Pumped); each scheduler spends each kind of deadline at most once on a  *)
(* ticket that has met it (Sla: Spent); what an edit has read is what the  *)
(* row holds, unless the row is gone or edits overlapped (Library:         *)
(* UpToDate, Alone).                                                       *)
(***************************************************************************)
EXTENDS Services, CsatProofs
-----------------------------------------------------------------------------
(***************************************************************************)
(* Document: an upload is in the store only if it was scanned clean, and   *)
(* clamd says so only of what is clean.                                    *)
(***************************************************************************)
DocumentInv ==
  /\ Document!TypeOK
  /\ \A u \in Uploads :
       /\ uScanned[u] = "clean" => u \notin Infected
       /\ u \in uStored => uScanned[u] = "clean"
       /\ uPc[u] \in {"sniff", "scan"} => u \notin uStored
       /\ uPc[u] \in {"sniff", "scan", "insert"} => uStatus[u] = "none"
       /\ uPc[u] = "put" => uScanned[u] = "clean"
       /\ uStatus[u] = "clean" =>
            u \in uStored \/ uPc[u] \in {"put", "undo"} \/ u \in uDangling \/ u \in uFlipped

LEMMA DocumentInit == Document!BoundAssumption /\ Document!Init => DocumentInv
BY DEF Document!BoundAssumption, Document!Init, DocumentInv, Document!TypeOK, Document!Statuses

LEMMA DocumentStep ==
  ASSUME Document!BoundAssumption, DocumentInv, [Document!Next]_Document!vars
  PROVE  DocumentInv'
<1>. USE DEF DocumentInv, Document!TypeOK, Document!Statuses, Document!BoundAssumption,
             Document!Goto, Document!Alive, Document!Fault
<1>1. ASSUME NEW u \in Uploads, NEW accepted \in BOOLEAN, Document!sniff(u, accepted)
      PROVE  DocumentInv'
  BY <1>1 DEF Document!sniff
<1>2. ASSUME NEW u \in Uploads, Document!scan(u) PROVE DocumentInv'
  <2>1. /\ Document!Verdict(u, TRUE) \in {"clean", "infected", "scan_failed"}
        /\ Document!Verdict(u, FALSE) \in {"clean", "infected", "scan_failed"}
        /\ Document!Verdict(u, TRUE) = "clean" => u \notin Infected
        /\ Document!Verdict(u, FALSE) # "clean"
    BY Zenon DEF Document!Verdict
  <2>2. PICK v : /\ v \in {"clean", "infected", "scan_failed"} /\ (v = "clean" => u \notin Infected)
                 /\ uScanned' = [uScanned EXCEPT ![u] = v]
    BY <1>2, <2>1, Zenon DEF Document!scan
  <2>3. /\ uPc[u] = "scan" /\ uPc' = [uPc EXCEPT ![u] = "insert"]
        /\ UNCHANGED <<uStatus, uStored, uLeft, uDangling, uFlipped, uSigned>>
        /\ UNCHANGED uFaults \/ Document!Fault
    BY <1>2, Zenon DEF Document!scan
  <2>. QED
    BY <2>2, <2>3
<1>3. ASSUME NEW u \in Uploads, Document!insert(u) PROVE DocumentInv'
  BY <1>3 DEF Document!insert
<1>4. ASSUME NEW u \in Uploads, Document!Put(u) PROVE DocumentInv'
  BY <1>4 DEF Document!Put, Document!OnFailure
<1>5. ASSUME NEW u \in Uploads, Document!Undo(u) PROVE DocumentInv'
  BY <1>5 DEF Document!Undo
<1>6. ASSUME NEW u \in Uploads, Document!Leave(u) PROVE DocumentInv'
  BY <1>6 DEF Document!Leave
<1>7. ASSUME NEW u \in Uploads, Document!Crash(u) PROVE DocumentInv'
  BY <1>7 DEF Document!Crash
<1>8. ASSUME NEW u \in Uploads, Document!Flip(u) PROVE DocumentInv'
  BY <1>8 DEF Document!Flip
<1>9. ASSUME NEW u \in Uploads, Document!PresignDownload(u) PROVE DocumentInv'
  BY <1>9 DEF Document!PresignDownload
<1>10. CASE UNCHANGED Document!vars
  BY <1>10 DEF Document!vars
<1>. QED
  BY <1>1, <1>2, <1>3, <1>4, <1>5, <1>6, <1>7, <1>8, <1>9, <1>10 DEF Document!Next, Document!Upload

\* An upload that is stored was scanned and found clean, and a document listed
\* as clean is stored, or its put failed or is not over, or an operator says so.
LEMMA DocumentClean ==
  ASSUME Document!BoundAssumption
  PROVE  Document!Spec => [](Document!TypeOK /\ Document!CleanIsStored)
<1>1. DocumentInv => Document!TypeOK /\ Document!CleanIsStored
  BY DEF DocumentInv, Document!TypeOK, Document!CleanIsStored
<1>. QED
  BY DocumentInit, DocumentStep, <1>1, PTL DEF Document!Spec

-----------------------------------------------------------------------------
(***************************************************************************)
(* Dsr: while a transaction has a row locked, the row is as it was read,   *)
(* so what the transaction writes is a legal transition of what is there.  *)
(* A callback opened one request for each tenant it has dealt with, and    *)
(* none for those it has left.                                             *)
(***************************************************************************)
DsrRows == [tenant : Tenants, state : Dsr!States, fulfilled : BOOLEAN, by : Erasures \cup {None}]
DsrCalls == [pc : {"idle", "open", "answered"}, found : SUBSET Tenants, left : SUBSET Tenants]

DsrTyped ==
  /\ dRequests \in Seq(DsrRows)
  /\ dLock \in [Officers -> 0..Len(dRequests)]
  /\ dWork \in [Officers -> Dsr!Asked \cup {None}] /\ dRead \in [Officers -> Dsr!States \cup {None}]
  /\ dHeld \subseteq Tenants /\ dSkipped \subseteq Erasures \X Tenants
  /\ dCall \in [Erasures -> DsrCalls]
  /\ dFaults \in 0..MaxFaults

Locked == \A o \in Officers : dLock[o] # 0 =>
  /\ dRead[o] = dRequests[dLock[o]].state
  /\ dWork[o] = "assign" \/ dWork[o] \in Dsr!transitions(dRead[o])
  /\ \A p \in Officers : dLock[p] = dLock[o] => p = o

Stamped == \A i \in DOMAIN dRequests : dRequests[i].fulfilled <=> dRequests[i].state \in Dsr!Fulfilling

AskedBy(i, k, t) == dRequests[i].tenant = t /\ dRequests[i].by = k

CallOf(k) ==
  /\ dCall[k].left \subseteq dCall[k].found
  /\ dCall[k].pc = "idle" => dCall[k].left = {} /\ dCall[k].found = {}
  /\ dCall[k].pc = "answered" => dCall[k].left = {}
  /\ \A t \in Tenants :
       /\ t \in dCall[k].left \/ t \notin dCall[k].found =>
            <<k, t>> \notin dSkipped /\ \A i \in DOMAIN dRequests : ~AskedBy(i, k, t)
       /\ \A i, j \in DOMAIN dRequests : AskedBy(i, k, t) /\ AskedBy(j, k, t) => i = j
       /\ t \in dCall[k].found \ dCall[k].left /\ <<k, t>> \notin dSkipped =>
            \E i \in DOMAIN dRequests : AskedBy(i, k, t)

DsrInv == DsrTyped /\ Locked /\ Stamped /\ \A k \in Erasures : CallOf(k)

\* The cardinality an instance takes from FiniteSets is the one of FiniteSets.
LEMMA DsrCardinality == \A S : Dsr!Cardinality(S) = Cardinality(S)
BY DEF Dsr!Cardinality, Cardinality

\* A request is closed for good, and is closed from what is not.
LEMMA Transitions ==
  /\ \A s : Dsr!transitions(s) \subseteq Dsr!States \ {"received"}
  /\ \A s \in Dsr!Terminal : Dsr!transitions(s) = {}
  /\ \A s \in Dsr!Fulfilling : s \in Dsr!Terminal
  /\ Dsr!Terminal \subseteq Dsr!States /\ {"received", "in_progress"} \subseteq Dsr!States \ Dsr!Terminal
  /\ Dsr!Asked = Dsr!States \cup {"assign"} /\ "assign" \notin Dsr!States
<1>1. \A s \in Dsr!Terminal : s # "received" /\ s # "in_progress"
  BY DEF Dsr!Terminal, Dsr!Fulfilling
<1>2. \A s : \/ s = "received" /\ Dsr!transitions(s) = {"in_progress", "rejected", "withdrawn"}
             \/ s = "in_progress" /\ Dsr!transitions(s) = Dsr!Terminal
             \/ s # "received" /\ s # "in_progress" /\ Dsr!transitions(s) = {}
  BY Zenon DEF Dsr!transitions
<1>. QED
  BY <1>1, <1>2 DEF Dsr!Terminal, Dsr!Fulfilling, Dsr!States, Dsr!Asked

LEMMA DsrInit == Dsr!BoundAssumption /\ Dsr!Init => DsrInv
<1>. SUFFICES ASSUME Dsr!BoundAssumption, Dsr!Init PROVE DsrInv
  OBVIOUS
<1>1. dRequests = <<>> /\ dRequests \in Seq(DsrRows) /\ Len(dRequests) = 0 /\ DOMAIN dRequests = {}
  BY DEF Dsr!Init
<1>2. \A k \in Erasures : /\ dCall[k].pc = "idle" /\ dCall[k].found = {} /\ dCall[k].left = {}
                          /\ dCall[k] \in DsrCalls
  BY DEF Dsr!Init, DsrCalls
<1>3. DsrTyped
  BY <1>1, <1>2 DEF Dsr!Init, DsrTyped, Dsr!BoundAssumption
<1>4. Locked /\ Stamped
  BY <1>1 DEF Dsr!Init, Locked, Stamped
<1>. QED
  BY <1>1, <1>2, <1>3, <1>4 DEF Dsr!Init, DsrInv, CallOf

\* A request that is opened comes last, and leaves the others as they are.
LEMMA Appended ==
  ASSUME DsrInv, NEW row \in DsrRows, dRequests' = Append(dRequests, row), row.state = "received",
         row.fulfilled = FALSE, UNCHANGED <<dLock, dWork, dRead>>
  PROVE  /\ dRequests' \in Seq(DsrRows) /\ DOMAIN dRequests' = DOMAIN dRequests \cup {Len(dRequests) + 1}
         /\ Len(dRequests) \in Nat /\ Len(dRequests) + 1 \notin DOMAIN dRequests
         /\ dRequests'[Len(dRequests) + 1] = row
         /\ \A i \in DOMAIN dRequests : dRequests'[i] = dRequests[i]
         /\ dLock' \in [Officers -> 0..Len(dRequests')] /\ Locked' /\ Stamped'
<1>1. dRequests \in Seq(DsrRows)
  BY DEF DsrInv, DsrTyped
<1>2. /\ dRequests' \in Seq(DsrRows) /\ Len(dRequests') = Len(dRequests) + 1 /\ Len(dRequests) \in Nat
      /\ DOMAIN dRequests = 1..Len(dRequests) /\ DOMAIN dRequests' = 1..(Len(dRequests) + 1)
      /\ \A i \in 1..Len(dRequests) : dRequests'[i] = dRequests[i]
      /\ dRequests'[Len(dRequests) + 1] = row
  BY <1>1, AppendProperties, LenProperties
<1>3. dLock' \in [Officers -> 0..Len(dRequests')]
  BY <1>2 DEF DsrInv, DsrTyped
<1>4. \A o \in Officers : dLock[o] # 0 => dLock[o] \in 1..Len(dRequests)
  BY <1>2 DEF DsrInv, DsrTyped
<1>5. Locked'
  BY <1>2, <1>4 DEF DsrInv, Locked
<1>6. "received" \notin Dsr!Fulfilling
  BY DEF Dsr!Fulfilling
<1>7. ASSUME NEW i \in DOMAIN dRequests'
      PROVE  dRequests'[i].fulfilled <=> dRequests'[i].state \in Dsr!Fulfilling
  <2>1. CASE i \in DOMAIN dRequests
    BY <1>2, <2>1 DEF DsrInv, Stamped
  <2>2. CASE i = Len(dRequests) + 1
    BY <1>2, <1>6, <2>2
  <2>. QED
    BY <1>2, <2>1, <2>2
<1>8. Stamped'
  BY <1>7 DEF Stamped
<1>9. Len(dRequests) + 1 \notin DOMAIN dRequests /\ DOMAIN dRequests' = DOMAIN dRequests \cup {Len(dRequests) + 1}
  BY <1>2
<1>. QED
  BY <1>2, <1>3, <1>5, <1>8, <1>9

\* What the callbacks asked for stays, if requests keep their tenants and callers.
LEMMA CallsFrame ==
  ASSUME DsrInv, UNCHANGED <<dCall, dSkipped>>, DOMAIN dRequests \subseteq DOMAIN dRequests',
         \A i \in DOMAIN dRequests : /\ dRequests'[i].tenant = dRequests[i].tenant
                                     /\ dRequests'[i].by = dRequests[i].by,
         \A i \in DOMAIN dRequests' \ DOMAIN dRequests : dRequests'[i].by \notin Erasures
  PROVE  \A k \in Erasures : CallOf(k)'
<1>1. \A k \in Erasures, i \in DOMAIN dRequests' : \A t : AskedBy(i, k, t)' <=> i \in DOMAIN dRequests /\ AskedBy(i, k, t)
  BY DEF AskedBy
<1>. QED
  BY <1>1 DEF DsrInv, CallOf


\* A row that is written keeps its place, its tenant and its caller.
LEMMA RowWritten ==
  ASSUME NEW s \in Seq(DsrRows), NEW n \in DOMAIN s, NEW r \in DsrRows, NEW q, q = [s EXCEPT ![n] = r]
  PROVE  /\ q \in Seq(DsrRows) /\ Len(q) = Len(s) /\ DOMAIN q = DOMAIN s
         /\ q[n] = r /\ \A i \in DOMAIN s : i # n => q[i] = s[i]
<1>1. n \in 1..Len(s) /\ DOMAIN s = 1..Len(s)
  BY LenProperties
<1>2. q \in Seq(DsrRows) /\ Len(q) = Len(s)
  BY <1>1, ExceptSeq
<1>. QED
  BY <1>1, <1>2, LenProperties

\* What a transaction finds.
LEMMA Reads ==
  ASSUME DsrInv, NEW o \in Officers, dLock[o] # 0
  PROVE  /\ dLock[o] \in DOMAIN dRequests /\ dRequests[dLock[o]] \in DsrRows
         /\ dRead[o] = dRequests[dLock[o]].state
         /\ dWork[o] = "assign" \/ dWork[o] \in Dsr!transitions(dRead[o])
         /\ dRequests[dLock[o]].fulfilled <=> dRead[o] \in Dsr!Fulfilling
         /\ \A p \in Officers \ {o} : dLock[p] # dLock[o]
         /\ dRequests \in Seq(DsrRows)
<1>1. dRequests \in Seq(DsrRows) /\ dLock[o] \in 0..Len(dRequests)
  BY DEF DsrInv, DsrTyped
<1>2. dLock[o] \in 1..Len(dRequests) /\ DOMAIN dRequests = 1..Len(dRequests)
  BY <1>1, LenProperties
<1>. QED
  BY <1>1, <1>2, ElementOfSeq DEF DsrInv, Locked, Stamped

\* The end of a transaction that changed its row to r.
LEMMA Ends ==
  ASSUME DsrInv, NEW o \in Officers, dLock[o] # 0, Dsr!Done(o), NEW r \in DsrRows,
         r.tenant = dRequests[dLock[o]].tenant, r.by = dRequests[dLock[o]].by,
         r.fulfilled <=> r.state \in Dsr!Fulfilling,
         dRequests' = [dRequests EXCEPT ![dLock[o]] = r],
         UNCHANGED <<dHeld, dCall, dSkipped>>, dFaults' \in 0..MaxFaults
  PROVE  DsrInv'
<1>1. /\ dRequests' \in Seq(DsrRows) /\ Len(dRequests') = Len(dRequests) /\ DOMAIN dRequests' = DOMAIN dRequests
      /\ dRequests'[dLock[o]] = r /\ \A i \in DOMAIN dRequests : i # dLock[o] => dRequests'[i] = dRequests[i]
  BY Reads, RowWritten
<1>2. /\ dLock' = [dLock EXCEPT ![o] = 0] /\ dWork' = [dWork EXCEPT ![o] = None]
      /\ dRead' = [dRead EXCEPT ![o] = None]
  BY DEF Dsr!Done
<1>3. DsrTyped'
  BY <1>1, <1>2 DEF DsrInv, DsrTyped
<1>4. ASSUME NEW p \in Officers, dLock'[p] # 0
      PROVE  /\ dRead'[p] = dRequests'[dLock'[p]].state
             /\ dWork'[p] = "assign" \/ dWork'[p] \in Dsr!transitions(dRead'[p])
             /\ \A x \in Officers : dLock'[x] = dLock'[p] => x = p
  <2>1. p # o /\ dLock'[p] = dLock[p] /\ dWork'[p] = dWork[p] /\ dRead'[p] = dRead[p]
    BY <1>2, <1>4 DEF DsrInv, DsrTyped
  <2>2. dLock[p] # dLock[o] /\ dLock[p] \in DOMAIN dRequests
    BY <1>4, <2>1, Reads
  <2>3. dRequests'[dLock[p]] = dRequests[dLock[p]]
    BY <1>1, <2>2
  <2>4. dRead[p] = dRequests[dLock[p]].state /\ (dWork[p] = "assign" \/ dWork[p] \in Dsr!transitions(dRead[p]))
    BY <1>4, <2>1, Reads
  <2>5. \A x \in Officers : dLock'[x] = dLock'[p] => x = p
    BY <1>2, <1>4, <2>1 DEF DsrInv, DsrTyped, Locked
  <2>. QED
    BY <2>1, <2>3, <2>4, <2>5
<1>5. Locked'
  BY <1>4 DEF Locked
<1>6. Stamped'
  BY <1>1 DEF DsrInv, Stamped
<1>7. \A k \in Erasures : CallOf(k)'
  BY <1>1, CallsFrame
<1>. QED
  BY <1>3, <1>5, <1>6, <1>7 DEF DsrInv

\* Assign writes one state, Resolve a state and the stamp.
LEMMA Writes ==
  ASSUME DsrInv, NEW o \in Officers, Dsr!Assign(o) \/ Dsr!Resolve(o)
  PROVE  \E r \in DsrRows :
           /\ r.tenant = dRequests[dLock[o]].tenant /\ r.by = dRequests[dLock[o]].by
           /\ r.fulfilled <=> r.state \in Dsr!Fulfilling
           /\ dRequests[dLock[o]].state \in Dsr!Terminal => r.state = dRequests[dLock[o]].state
           /\ dRequests' = [dRequests EXCEPT ![dLock[o]] = r]
<1>. DEFINE n == dLock[o]  old == dRequests[n]
<1>1. /\ n \in DOMAIN dRequests /\ old \in DsrRows /\ dRead[o] = old.state
      /\ dWork[o] = "assign" \/ dWork[o] \in Dsr!transitions(dRead[o])
      /\ old.fulfilled <=> old.state \in Dsr!Fulfilling
      /\ dRequests \in Seq(DsrRows)
  BY Reads DEF Dsr!Assign, Dsr!Resolve
<1>2. CASE Dsr!Assign(o)
  <2>. DEFINE v == IF dRead[o] = "received" THEN "in_progress" ELSE old.state
              r == [old EXCEPT !.state = v]
  <2>1. dRequests' = [dRequests EXCEPT ![n] = r]
    BY <1>2, Zenon DEF Dsr!Assign
  <2>2. v \in Dsr!States /\ (old.state \in Dsr!Terminal => v = old.state)
        /\ (v \in Dsr!Fulfilling <=> old.state \in Dsr!Fulfilling)
    BY <1>1, Transitions DEF DsrRows, Dsr!States, Dsr!Terminal, Dsr!Fulfilling
  <2>. HIDE DEF v
  <2>3. /\ r \in DsrRows /\ r.state = v /\ r.tenant = old.tenant /\ r.by = old.by
        /\ r.fulfilled = old.fulfilled
    BY <1>1, <2>2 DEF DsrRows
  <2>. QED
    BY <1>1, <2>1, <2>2, <2>3
<1>3. CASE Dsr!Resolve(o)
  <2>. DEFINE w == dWork[o]  b == old.fulfilled \/ w \in Dsr!Fulfilling
              r == [[old EXCEPT !.state = w] EXCEPT !.fulfilled = b]
  <2>1. dRequests' = [dRequests EXCEPT ![n] = r]
    BY <1>1, <1>3, Zenon DEF Dsr!Resolve
  <2>2. w \in Dsr!States /\ old.state \notin Dsr!Terminal /\ ~old.fulfilled
    BY <1>1, <1>3, Transitions DEF Dsr!Resolve
  <2>3. b \in BOOLEAN /\ (b <=> w \in Dsr!Fulfilling)
    BY <2>2
  <2>. HIDE DEF b, w
  <2>4. /\ r \in DsrRows /\ r.state = w /\ r.tenant = old.tenant /\ r.by = old.by
        /\ r.fulfilled = b
    BY <1>1, <2>2, <2>3 DEF DsrRows
  <2>. QED
    BY <1>1, <2>1, <2>2, <2>3, <2>4
<1>. QED
  BY <1>2, <1>3


LEMMA TransactionStep ==
  ASSUME DsrInv, Dsr!BoundAssumption, NEW o \in Officers,
         Dsr!Assign(o) \/ Dsr!Resolve(o) \/ Dsr!Rollback(o)
  PROVE  DsrInv'
<1>1. dLock[o] # 0 /\ Dsr!Done(o) /\ UNCHANGED <<dHeld, dCall, dSkipped>> /\ dFaults' \in 0..MaxFaults
  BY DEF Dsr!Assign, Dsr!Resolve, Dsr!Rollback, Dsr!Fault, DsrInv, DsrTyped, Dsr!BoundAssumption
<1>2. CASE Dsr!Assign(o) \/ Dsr!Resolve(o)
  BY <1>1, <1>2, Writes, Ends
<1>3. CASE Dsr!Rollback(o)
  <2>. DEFINE r == dRequests[dLock[o]]
  <2>1. /\ r \in DsrRows /\ (r.fulfilled <=> r.state \in Dsr!Fulfilling)
        /\ dRequests \in Seq(DsrRows) /\ dLock[o] \in DOMAIN dRequests
    BY <1>1, Reads
  <2>2. dRequests' = [dRequests EXCEPT ![dLock[o]] = r]
    BY <1>3, <2>1 DEF Dsr!Rollback
  <2>. HIDE DEF r
  <2>3. r.tenant = dRequests[dLock[o]].tenant /\ r.by = dRequests[dLock[o]].by
    BY DEF r
  <2>. QED
    BY <1>1, <2>1, <2>2, <2>3, Ends
<1>. QED
  BY <1>2, <1>3

LEMMA BeginStep ==
  ASSUME DsrInv, NEW o \in Officers, NEW i \in DOMAIN dRequests, NEW w \in Dsr!Asked, Dsr!Begin(o, i, w)
  PROVE  DsrInv'
<1>1. /\ \A p \in Officers : dLock[p] # i
      /\ w = "assign" \/ w \in Dsr!transitions(dRequests[i].state)
      /\ dLock' = [dLock EXCEPT ![o] = i] /\ dWork' = [dWork EXCEPT ![o] = w]
      /\ dRead' = [dRead EXCEPT ![o] = dRequests[i].state]
      /\ UNCHANGED <<dRequests, dHeld, dCall, dSkipped, dFaults>>
  BY DEF Dsr!Begin, Dsr!RowFree
<1>2. dRequests \in Seq(DsrRows) /\ i \in 1..Len(dRequests) /\ dRequests[i].state \in Dsr!States
  <2>1. dRequests \in Seq(DsrRows)
    BY DEF DsrInv, DsrTyped
  <2>2. dRequests[i] \in DsrRows /\ i \in 1..Len(dRequests)
    BY <2>1, ElementOfSeq, LenProperties
  <2>. QED
    BY <2>1, <2>2 DEF DsrRows
<1>3. DsrTyped'
  BY <1>1, <1>2 DEF DsrInv, DsrTyped
<1>4. ASSUME NEW p \in Officers, dLock'[p] # 0
      PROVE  /\ dRead'[p] = dRequests'[dLock'[p]].state
             /\ dWork'[p] = "assign" \/ dWork'[p] \in Dsr!transitions(dRead'[p])
             /\ \A x \in Officers : dLock'[x] = dLock'[p] => x = p
  <2>1. CASE p = o
    BY <1>1, <2>1 DEF DsrInv, DsrTyped
  <2>2. CASE p # o
    BY <1>1, <1>4, <2>2 DEF DsrInv, DsrTyped, Locked
  <2>. QED
    BY <2>1, <2>2
<1>5. Locked' /\ Stamped'
  BY <1>1, <1>4 DEF Locked, DsrInv, Stamped
<1>6. \A k \in Erasures : CallOf(k)'
  BY <1>1, CallsFrame
<1>. QED
  BY <1>3, <1>5, <1>6 DEF DsrInv

LEMMA NewRow ==
  \A t \in Tenants, k \in Erasures \cup {None} :
    /\ Dsr!Row(t, k) \in DsrRows /\ Dsr!Row(t, k).state = "received" /\ Dsr!Row(t, k).fulfilled = FALSE
    /\ Dsr!Row(t, k).tenant = t /\ Dsr!Row(t, k).by = k
BY Transitions DEF Dsr!Row, DsrRows

LEMMA OpenRequestStep ==
  ASSUME DsrInv, Dsr!CallbackAssumption, NEW t \in Tenants, Dsr!OpenRequest(t)
  PROVE  DsrInv'
<1>. DEFINE row == Dsr!Row(t, None)
<1>1. /\ row \in DsrRows /\ row.state = "received" /\ row.fulfilled = FALSE /\ row.by = None
      /\ None \notin Erasures
  BY NewRow DEF Dsr!CallbackAssumption
<1>2. /\ dRequests' = Append(dRequests, row)
      /\ UNCHANGED <<dLock, dWork, dRead, dHeld, dCall, dSkipped, dFaults>>
  BY DEF Dsr!OpenRequest, Dsr!transaction
<1>. HIDE DEF row
<1>3. /\ dRequests' \in Seq(DsrRows) /\ DOMAIN dRequests' = DOMAIN dRequests \cup {Len(dRequests) + 1}
      /\ dRequests'[Len(dRequests) + 1] = row
      /\ \A i \in DOMAIN dRequests : dRequests'[i] = dRequests[i]
      /\ dLock' \in [Officers -> 0..Len(dRequests')] /\ Locked' /\ Stamped'
  BY <1>1, <1>2, Appended
<1>4. DsrTyped'
  BY <1>2, <1>3 DEF DsrInv, DsrTyped
<1>5. \A k \in Erasures : CallOf(k)'
  BY <1>1, <1>2, <1>3, CallsFrame
<1>. QED
  BY <1>3, <1>4, <1>5 DEF DsrInv

\* A callback's loop opens the request of a tenant that is left, or fails to.
LEMMA OpenStep ==
  ASSUME DsrInv, Dsr!CallbackAssumption, NEW k \in Erasures, NEW t \in Tenants, Dsr!Open(k, t)
  PROVE  DsrInv'
<1>. DEFINE row == Dsr!Row(t, k)  n == Len(dRequests) + 1
<1>1. /\ row \in DsrRows /\ row.state = "received" /\ row.fulfilled = FALSE
      /\ row.by = k /\ row.tenant = t
  BY NewRow
<1>2. /\ dRequests' = Append(dRequests, row) /\ t \in dCall[k].left
      /\ dCall' = [dCall EXCEPT ![k].left = dCall[k].left \ {t}]
      /\ UNCHANGED <<dLock, dWork, dRead, dHeld, dSkipped, dFaults>>
  BY DEF Dsr!Open, Dsr!transaction
<1>. HIDE DEF row
<1>3. /\ dRequests' \in Seq(DsrRows) /\ DOMAIN dRequests' = DOMAIN dRequests \cup {n}
      /\ dRequests'[n] = row /\ n \notin DOMAIN dRequests
      /\ \A i \in DOMAIN dRequests : dRequests'[i] = dRequests[i]
      /\ dLock' \in [Officers -> 0..Len(dRequests')] /\ Locked' /\ Stamped'
  BY <1>1, <1>2, Appended
<1>4. /\ dCall' \in [Erasures -> DsrCalls] /\ dCall'[k].left = dCall[k].left \ {t}
      /\ dCall'[k].found = dCall[k].found /\ dCall'[k].pc = dCall[k].pc
      /\ \A x \in Erasures \ {k} : dCall'[x] = dCall[x]
  <2>1. dCall[k] \in DsrCalls /\ DOMAIN dCall = Erasures
    BY DEF DsrInv, DsrTyped
  <2>. QED
    BY <1>2, <2>1 DEF DsrInv, DsrTyped, DsrCalls
<1>5. DsrTyped'
  BY <1>2, <1>3, <1>4 DEF DsrInv, DsrTyped
<1>. HIDE DEF n
<1>6. \A x \in Erasures : \A u \in Tenants, i \in DOMAIN dRequests' :
        AskedBy(i, x, u)' <=> \/ i \in DOMAIN dRequests /\ AskedBy(i, x, u)
                              \/ i = n /\ x = k /\ u = t
  BY <1>1, <1>3 DEF AskedBy
<1>7. ASSUME NEW x \in Erasures PROVE CallOf(x)'
  <2>1. CallOf(x)
    BY DEF DsrInv
  <2>2. CASE x # k
    BY <1>2, <1>3, <1>4, <1>6, <2>1, <2>2 DEF CallOf
  <2>3. CASE x = k
    <3>1. /\ dCall'[k].left \subseteq dCall'[k].found
          /\ dCall'[k].pc # "idle" /\ dCall'[k].pc # "answered"
      BY <1>2, <1>4, <2>1, <2>3 DEF CallOf
    <3>2. ASSUME NEW u \in Tenants
          PROVE  /\ u \in dCall'[k].left \/ u \notin dCall'[k].found =>
                      <<k, u>> \notin dSkipped' /\ \A i \in DOMAIN dRequests' : ~AskedBy(i, k, u)'
                 /\ \A i, j \in DOMAIN dRequests' : AskedBy(i, k, u)' /\ AskedBy(j, k, u)' => i = j
                 /\ u \in dCall'[k].found \ dCall'[k].left /\ <<k, u>> \notin dSkipped' =>
                      \E i \in DOMAIN dRequests' : AskedBy(i, k, u)'
      <4>1. CASE u = t
        BY <1>2, <1>3, <1>4, <1>6, <2>1, <2>3, <4>1 DEF CallOf
      <4>2. CASE u # t
        BY <1>2, <1>3, <1>4, <1>6, <2>1, <2>3, <4>2 DEF CallOf
      <4>. QED
        BY <4>1, <4>2
    <3>. QED
      BY <2>3, <3>1, <3>2 DEF CallOf
  <2>. QED
    BY <2>2, <2>3
<1>. QED
  BY <1>3, <1>5, <1>7 DEF DsrInv

LEMMA OpenFailsStep ==
  ASSUME DsrInv, Dsr!BoundAssumption, NEW k \in Erasures, NEW t \in Tenants, Dsr!OpenFails(k, t)
  PROVE  DsrInv'
<1>1. /\ dCall' = [dCall EXCEPT ![k].left = dCall[k].left \ {t}] /\ dSkipped' = dSkipped \cup {<<k, t>>}
      /\ UNCHANGED <<dRequests, dLock, dWork, dRead, dHeld>> /\ t \in dCall[k].left
      /\ dFaults' \in 0..MaxFaults
  BY DEF Dsr!OpenFails, Dsr!transaction, Dsr!Rest, Dsr!Fault, DsrInv, DsrTyped, Dsr!BoundAssumption
<1>2. /\ dCall' \in [Erasures -> DsrCalls] /\ dCall'[k].left = dCall[k].left \ {t}
      /\ dCall'[k].found = dCall[k].found /\ dCall'[k].pc = dCall[k].pc
      /\ \A x \in Erasures \ {k} : dCall'[x] = dCall[x]
  <2>1. dCall[k] \in DsrCalls /\ DOMAIN dCall = Erasures
    BY DEF DsrInv, DsrTyped
  <2>. QED
    BY <1>1, <2>1 DEF DsrInv, DsrTyped, DsrCalls
<1>3. DsrTyped' /\ Locked' /\ Stamped'
  BY <1>1, <1>2 DEF DsrInv, DsrTyped, Locked, Stamped
<1>4. ASSUME NEW x \in Erasures PROVE CallOf(x)'
  <2>1. CallOf(x) /\ \A i, u : AskedBy(i, x, u)' <=> AskedBy(i, x, u)
    BY <1>1 DEF DsrInv, AskedBy
  <2>2. \A u \in Tenants : <<x, u>> \in dSkipped' <=> <<x, u>> \in dSkipped \/ (x = k /\ u = t)
    BY <1>1
  <2>3. CASE x # k
    BY <1>1, <1>2, <2>1, <2>2, <2>3 DEF CallOf
  <2>4. CASE x = k
    BY <1>1, <1>2, <2>1, <2>2, <2>4 DEF CallOf
  <2>. QED
    BY <2>3, <2>4
<1>. QED
  BY <1>3, <1>4 DEF DsrInv

LEMMA LooksUp ==
  ASSUME DsrInv, NEW k \in Erasures, Dsr!tenantsForUser(k) \/ Dsr!Answer(k)
  PROVE  DsrInv'
<1>1. UNCHANGED <<dRequests, dLock, dWork, dRead, dHeld, dSkipped, dFaults>>
  BY DEF Dsr!tenantsForUser, Dsr!Answer, Dsr!transaction
<1>2. dCall[k] \in DsrCalls /\ DOMAIN dCall = Erasures /\ dHeld \subseteq Tenants
  BY DEF DsrInv, DsrTyped
<1>3. /\ dCall' \in [Erasures -> DsrCalls] /\ \A x \in Erasures \ {k} : dCall'[x] = dCall[x]
      /\ \/ /\ dCall[k].pc = "idle" /\ dCall'[k].pc = "open" /\ dCall'[k].found = dHeld /\ dCall'[k].left = dHeld
         \/ /\ dCall[k].pc = "open" /\ dCall'[k].pc = "answered" /\ dCall[k].left = {}
            /\ dCall'[k].found = dCall[k].found /\ dCall'[k].left = {}
  <2>1. CASE Dsr!tenantsForUser(k)
    BY <1>2, <2>1 DEF Dsr!tenantsForUser, DsrInv, DsrTyped, DsrCalls
  <2>2. CASE Dsr!Answer(k)
    BY <1>2, <2>2 DEF Dsr!Answer, DsrInv, DsrTyped, DsrCalls
  <2>. QED
    BY <2>1, <2>2
<1>4. DsrTyped' /\ Locked' /\ Stamped'
  BY <1>1, <1>3 DEF DsrInv, DsrTyped, Locked, Stamped
<1>5. ASSUME NEW x \in Erasures PROVE CallOf(x)'
  <2>1. CallOf(x) /\ \A i, u : AskedBy(i, x, u)' <=> AskedBy(i, x, u)
    BY <1>1 DEF DsrInv, AskedBy
  <2>3. CASE x # k
    BY <1>1, <1>3, <2>1, <2>3 DEF CallOf
  <2>4. CASE x = k
    BY <1>1, <1>3, <2>1, <2>4 DEF CallOf
  <2>. QED
    BY <2>3, <2>4
<1>. QED
  BY <1>4, <1>5 DEF DsrInv

LEMMA DsrStep ==
  ASSUME Dsr!CallbackAssumption, Dsr!BoundAssumption, DsrInv, [Dsr!Next]_Dsr!vars
  PROVE  DsrInv'
<1>1. ASSUME NEW t \in Tenants, Dsr!Arrive(t) PROVE DsrInv'
  <2>1. dHeld' \subseteq Tenants /\ UNCHANGED <<dRequests, dLock, dWork, dRead, dCall, dSkipped, dFaults>>
    BY <1>1 DEF Dsr!Arrive, Dsr!transaction, DsrInv, DsrTyped
  <2>2. DsrTyped' /\ Locked' /\ Stamped'
    BY <2>1 DEF DsrInv, DsrTyped, Locked, Stamped
  <2>3. \A k \in Erasures : CallOf(k)'
    BY <2>1, CallsFrame
  <2>. QED
    BY <2>2, <2>3 DEF DsrInv
<1>2. CASE UNCHANGED Dsr!vars
  <2>1. UNCHANGED <<dRequests, dLock, dWork, dRead, dHeld, dCall, dSkipped, dFaults>>
    BY <1>2 DEF Dsr!vars
  <2>2. DsrTyped' /\ Locked' /\ Stamped'
    BY <2>1 DEF DsrInv, DsrTyped, Locked, Stamped
  <2>3. \A k \in Erasures : CallOf(k)'
    BY <2>1, CallsFrame
  <2>. QED
    BY <2>2, <2>3 DEF DsrInv
<1>. QED
  BY <1>1, <1>2, TransactionStep, BeginStep, OpenRequestStep, OpenStep, OpenFailsStep, LooksUp DEF Dsr!Next

LEMMA DsrTypes == DsrInv => Dsr!TypeOK
<1>. SUFFICES ASSUME DsrInv PROVE Dsr!TypeOK
  OBVIOUS
<1>1. \A i \in DOMAIN dRequests : dRequests[i] \in DsrRows
  BY ElementOfSeq, LenProperties DEF DsrInv, DsrTyped
<1>2. \A o \in Officers : dLock[o] # 0 => dWork[o] \in Dsr!Asked /\ dRead[o] \in Dsr!States
  <2>. SUFFICES ASSUME NEW o \in Officers, dLock[o] # 0
                PROVE  dWork[o] \in Dsr!Asked /\ dRead[o] \in Dsr!States
    OBVIOUS
  <2>. QED
    BY Reads, Transitions DEF DsrRows
<1>. QED
  BY <1>1, <1>2 DEF DsrInv, DsrTyped, DsrRows, DsrCalls, CallOf, Dsr!TypeOK

\* A callback that was answered has asked every tenant it found, once, but for
\* those whose INSERT failed; a request is stamped exactly when it is fulfilled.
LEMMA DsrAsked == DsrInv => Dsr!EveryTenantAsked
<1>. SUFFICES ASSUME DsrInv PROVE Dsr!EveryTenantAsked
  OBVIOUS
<1>1. ASSUME NEW k \in Erasures, NEW t \in Tenants, dCall[k].pc = "answered", t \in dCall[k].found,
             <<k, t>> \notin dSkipped
      PROVE  Dsr!Cardinality({i \in DOMAIN dRequests : dRequests[i].tenant = t /\ dRequests[i].by = k}) = 1
  <2>1. CallOf(k)
    BY DEF DsrInv
  <2>2. PICK i \in DOMAIN dRequests : AskedBy(i, k, t)
    BY <1>1, <2>1 DEF CallOf
  <2>0. \A j \in DOMAIN dRequests : AskedBy(j, k, t) => j = i
    BY <2>1, <2>2 DEF CallOf
  <2>3. {j \in DOMAIN dRequests : dRequests[j].tenant = t /\ dRequests[j].by = k} = {i}
    BY <2>0, <2>2 DEF AskedBy
  <2>4. Cardinality({i}) = 1
    BY FS_Singleton
  <2>. QED
    BY <2>3, <2>4, DsrCardinality
<1>. QED
  BY <1>1 DEF Dsr!EveryTenantAsked, DsrInv, Stamped

\* A closed request stays as it was closed.
LEMMA DsrClosed ==
  ASSUME DsrInv, [Dsr!Next]_Dsr!vars
  PROVE  [\A i \in DOMAIN dRequests :
            dRequests[i].state \in Dsr!Terminal => dRequests'[i].state = dRequests[i].state]_Dsr!vars
<1>. SUFFICES ASSUME Dsr!Next, NEW i \in DOMAIN dRequests, dRequests[i].state \in Dsr!Terminal
              PROVE  dRequests'[i].state = dRequests[i].state
  OBVIOUS
<1>0. dRequests \in Seq(DsrRows) /\ i \in 1..Len(dRequests)
  BY LenProperties DEF DsrInv, DsrTyped
<1>1. ASSUME NEW o \in Officers, Dsr!Assign(o) \/ Dsr!Resolve(o)
      PROVE  dRequests'[i].state = dRequests[i].state
  <2>1. PICK r \in DsrRows :
           /\ dRequests[dLock[o]].state \in Dsr!Terminal => r.state = dRequests[dLock[o]].state
           /\ dRequests' = [dRequests EXCEPT ![dLock[o]] = r]
    BY <1>1, Writes
  <2>. QED
    BY <1>0, <2>1
<1>2. ASSUME NEW row, dRequests' = Append(dRequests, row) PROVE dRequests'[i].state = dRequests[i].state
  BY <1>0, <1>2
<1>3. ASSUME UNCHANGED dRequests PROVE dRequests'[i].state = dRequests[i].state
  BY <1>3
<1>. QED
  BY <1>1, <1>2, <1>3
     DEF Dsr!Next, Dsr!OpenRequest, Dsr!Arrive, Dsr!Rollback, Dsr!Begin, Dsr!tenantsForUser, Dsr!Answer,
         Dsr!Open, Dsr!OpenFails

LEMMA DsrSound ==
  ASSUME Dsr!CallbackAssumption, Dsr!BoundAssumption
  PROVE  Dsr!Spec => [](Dsr!TypeOK /\ Dsr!EveryTenantAsked) /\ Dsr!ClosedStaysClosed
<1>1. Dsr!Init => DsrInv
  BY DsrInit
<1>2. DsrInv /\ [Dsr!Next]_Dsr!vars => DsrInv'
  BY DsrStep
<1>3. DsrInv => Dsr!TypeOK /\ Dsr!EveryTenantAsked
  BY DsrTypes, DsrAsked
<1>4. DsrInv /\ [Dsr!Next]_Dsr!vars =>
        [\A i \in DOMAIN dRequests :
           dRequests[i].state \in Dsr!Terminal => dRequests'[i].state = dRequests[i].state]_Dsr!vars
  BY DsrClosed
<1>. QED
  BY <1>1, <1>2, <1>3, <1>4, PTL DEF Dsr!Spec, Dsr!ClosedStaysClosed

-----------------------------------------------------------------------------
(***************************************************************************)
(* Connect: a page's row is written after its subscription, a number's     *)
(* after its account's was tried; an Instagram account has one page, whose *)
(* row its own follows, or the page is torn, or a callback is between the  *)
(* two (Follows).  A callback there finds the page's row its own unless    *)
(* the page is torn, so what it writes next agrees (ConOf).                *)
(***************************************************************************)
ConTodo == [pages : Seq(Pages), businesses : Seq(Seq(Connect!Wabas)),
            wabas : Seq(Connect!Wabas), phones : Seq(Numbers)]
ConSteps == {"start", "exchange", "extend", "list", "page", "upsert", "ig", "igrow",
             "businesses", "business", "waba", "phones", "phone", "done"}

ConTyped ==
  /\ cPc \in [Consents -> ConSteps] /\ cTodo \in [Consents -> ConTodo]
  /\ cPage \in [Pages -> Connect!Brands \cup {None}]
  /\ cIg \in [IgAccounts -> [tenant : Connect!Brands, page : Pages] \cup {None}]
  /\ cPhone \in [Numbers -> [tenant : Connect!Brands, waba : Connect!Wabas] \cup {None}]
  /\ cSubscribed \subseteq Pages \cup Connect!Wabas /\ cRefused \subseteq Connect!Wabas
  /\ cTorn \subseteq Pages
  /\ cFaults \in 0..MaxFaults

ConOf(c) ==
  /\ cPc[c] \in {"page", "upsert", "ig", "igrow"} => cTodo[c].pages # <<>>
  /\ cPc[c] \in {"waba", "phones", "phone"} => cTodo[c].wabas # <<>>
  /\ cPc[c] = "phone" => cTodo[c].phones # <<>>
  /\ cPc[c] = "upsert" => Connect!Page(c) \in cSubscribed
  /\ cPc[c] \in {"phones", "phone"} => Connect!Waba(c) \in cSubscribed \cup cRefused
  /\ cPc[c] = "igrow" => IgOf[Connect!Page(c)] # None
  /\ cPc[c] \in {"ig", "igrow"} => cPage[Connect!Page(c)] = TenantOf[c] \/ Connect!Page(c) \in cTorn

Between(c, p) == cPc[c] \in {"ig", "igrow"} /\ Connect!Page(c) = p

Follows(i) == cIg[i] # None =>
  /\ IgOf[cIg[i].page] = i
  /\ \/ cPage[cIg[i].page] = cIg[i].tenant
     \/ cIg[i].page \in cTorn
     \/ \E c \in Consents : Between(c, cIg[i].page)

ShownRows ==
  /\ \A p \in Pages : cPage[p] # None => p \in cSubscribed
  /\ \A n \in Numbers : cPhone[n] # None => cPhone[n].waba \in cSubscribed \cup cRefused

ConInv ==
  /\ ConTyped /\ ShownRows
  /\ \A c \in Consents : ConOf(c)
  /\ \A i \in IgAccounts : Follows(i)

LEMMA ConInit == Connect!BoundAssumption /\ Connect!Init => ConInv
<1>. SUFFICES ASSUME Connect!BoundAssumption, Connect!Init PROVE ConInv
  OBVIOUS
<1>1. Connect!NothingToDo \in ConTodo
  BY DEF Connect!NothingToDo, ConTodo
<1>2. ConTyped
  BY <1>1 DEF Connect!BoundAssumption, Connect!Init, ConTyped, ConSteps
<1>. QED
  BY <1>2 DEF Connect!Init, ConInv, ConOf, Follows, ShownRows

\* What a callback has at hand.
LEMMA AtHand ==
  ASSUME Connect!AssetAssumption, ConInv, NEW c \in Consents
  PROVE  /\ cTodo[c] \in ConTodo /\ ConOf(c) /\ TenantOf[c] \in Connect!Brands
         /\ TenantOf[c] # None
         /\ cTodo[c].pages # <<>> =>
              /\ Connect!Page(c) \in Pages /\ Tail(cTodo[c].pages) \in Seq(Pages)
              /\ IgOf[Connect!Page(c)] \in IgAccounts \cup {None}
              /\ Len(cTodo[c].pages) # 1 => Tail(cTodo[c].pages) # <<>>
         /\ cTodo[c].wabas # <<>> =>
              /\ Connect!Waba(c) \in Connect!Wabas /\ Tail(cTodo[c].wabas) \in Seq(Connect!Wabas)
              /\ PhonesOf[Connect!Waba(c)] \in Seq(Numbers)
              /\ Len(cTodo[c].wabas) # 1 => Tail(cTodo[c].wabas) # <<>>
         /\ cTodo[c].phones # <<>> =>
              /\ Head(cTodo[c].phones) \in Numbers /\ Tail(cTodo[c].phones) \in Seq(Numbers)
              /\ Len(cTodo[c].phones) # 1 => Tail(cTodo[c].phones) # <<>>
         /\ cTodo[c].businesses # <<>> =>
              /\ Head(cTodo[c].businesses) \in Seq(Connect!Wabas)
              /\ Tail(cTodo[c].businesses) \in Seq(Seq(Connect!Wabas))
<1>1. cTodo[c] \in ConTodo /\ ConOf(c)
  BY DEF ConInv, ConTyped
<1>2. /\ cTodo[c].pages \in Seq(Pages) /\ cTodo[c].wabas \in Seq(Connect!Wabas)
      /\ cTodo[c].phones \in Seq(Numbers) /\ cTodo[c].businesses \in Seq(Seq(Connect!Wabas))
  BY <1>1 DEF ConTodo
<1>3. ASSUME NEW S, NEW s \in Seq(S), s # <<>>
      PROVE  Head(s) \in S /\ Tail(s) \in Seq(S) /\ (Len(s) # 1 => Tail(s) # <<>>)
  <2>1. Len(s) \in Nat \ {0} /\ Tail(s) \in Seq(S) /\ Len(Tail(s)) = Len(s) - 1 /\ Head(s) = s[1]
    BY <1>3, HeadTailProperties, EmptySeq, LenProperties
  <2>2. s[1] \in S
    BY <2>1, ElementOfSeq
  <2>3. Tail(s) = <<>> <=> Len(Tail(s)) = 0
    BY <2>1, EmptySeq
  <2>. QED
    BY <2>1, <2>2, <2>3
<1>4. TenantOf[c] \in Connect!Brands /\ TenantOf[c] # None
  BY DEF Connect!Brands, Connect!AssetAssumption
<1>5. cTodo[c].pages # <<>> =>
        /\ Connect!Page(c) \in Pages /\ Tail(cTodo[c].pages) \in Seq(Pages)
        /\ IgOf[Connect!Page(c)] \in IgAccounts \cup {None}
        /\ Len(cTodo[c].pages) # 1 => Tail(cTodo[c].pages) # <<>>
  <2>. SUFFICES ASSUME cTodo[c].pages # <<>>
                PROVE  /\ Connect!Page(c) \in Pages /\ Tail(cTodo[c].pages) \in Seq(Pages)
                       /\ IgOf[Connect!Page(c)] \in IgAccounts \cup {None}
                       /\ Len(cTodo[c].pages) # 1 => Tail(cTodo[c].pages) # <<>>
    OBVIOUS
  <2>1. /\ Head(cTodo[c].pages) \in Pages /\ Tail(cTodo[c].pages) \in Seq(Pages)
        /\ Len(cTodo[c].pages) # 1 => Tail(cTodo[c].pages) # <<>>
    BY <1>2, <1>3
  <2>. QED
    BY <2>1 DEF Connect!Page, Connect!AssetAssumption
<1>6. cTodo[c].wabas # <<>> =>
        /\ Connect!Waba(c) \in Connect!Wabas /\ Tail(cTodo[c].wabas) \in Seq(Connect!Wabas)
        /\ PhonesOf[Connect!Waba(c)] \in Seq(Numbers)
        /\ Len(cTodo[c].wabas) # 1 => Tail(cTodo[c].wabas) # <<>>
  <2>. SUFFICES ASSUME cTodo[c].wabas # <<>>
                PROVE  /\ Connect!Waba(c) \in Connect!Wabas /\ Tail(cTodo[c].wabas) \in Seq(Connect!Wabas)
                       /\ PhonesOf[Connect!Waba(c)] \in Seq(Numbers)
                       /\ Len(cTodo[c].wabas) # 1 => Tail(cTodo[c].wabas) # <<>>
    OBVIOUS
  <2>1. /\ Head(cTodo[c].wabas) \in Connect!Wabas /\ Tail(cTodo[c].wabas) \in Seq(Connect!Wabas)
        /\ Len(cTodo[c].wabas) # 1 => Tail(cTodo[c].wabas) # <<>>
    BY <1>2, <1>3
  <2>. QED
    BY <2>1 DEF Connect!Waba, Connect!AssetAssumption
<1>7. cTodo[c].phones # <<>> =>
        /\ Head(cTodo[c].phones) \in Numbers /\ Tail(cTodo[c].phones) \in Seq(Numbers)
        /\ Len(cTodo[c].phones) # 1 => Tail(cTodo[c].phones) # <<>>
  BY <1>2, <1>3
<1>8. cTodo[c].businesses # <<>> =>
        /\ Head(cTodo[c].businesses) \in Seq(Connect!Wabas)
        /\ Tail(cTodo[c].businesses) \in Seq(Seq(Connect!Wabas))
  BY <1>2, <1>3
<1>. QED
  BY <1>1, <1>4, <1>5, <1>6, <1>7, <1>8

\* A field of what a callback has left is set.
LEMMA TodoSet ==
  ASSUME NEW d \in ConTodo
  PROVE  /\ \A s \in Seq(Pages) : LET e == [d EXCEPT !.pages = s] IN
              /\ e \in ConTodo /\ e.pages = s
              /\ e.businesses = d.businesses /\ e.wabas = d.wabas /\ e.phones = d.phones
         /\ \A s \in Seq(Seq(Connect!Wabas)) : LET e == [d EXCEPT !.businesses = s] IN
              /\ e \in ConTodo /\ e.businesses = s
              /\ e.pages = d.pages /\ e.wabas = d.wabas /\ e.phones = d.phones
         /\ \A s \in Seq(Connect!Wabas) : LET e == [d EXCEPT !.wabas = s] IN
              /\ e \in ConTodo /\ e.wabas = s
              /\ e.pages = d.pages /\ e.businesses = d.businesses /\ e.phones = d.phones
         /\ \A s \in Seq(Numbers) : LET e == [d EXCEPT !.phones = s] IN
              /\ e \in ConTodo /\ e.phones = s
              /\ e.pages = d.pages /\ e.businesses = d.businesses /\ e.wabas = d.wabas
<1>1. ASSUME NEW s \in Seq(Pages)
      PROVE  LET e == [d EXCEPT !.pages = s] IN
              /\ e \in ConTodo /\ e.pages = s
              /\ e.businesses = d.businesses /\ e.wabas = d.wabas /\ e.phones = d.phones
  BY DEF ConTodo
<1>2. ASSUME NEW s \in Seq(Seq(Connect!Wabas))
      PROVE  LET e == [d EXCEPT !.businesses = s] IN
              /\ e \in ConTodo /\ e.businesses = s
              /\ e.pages = d.pages /\ e.wabas = d.wabas /\ e.phones = d.phones
  BY DEF ConTodo
<1>3. ASSUME NEW s \in Seq(Connect!Wabas)
      PROVE  LET e == [d EXCEPT !.wabas = s] IN
              /\ e \in ConTodo /\ e.wabas = s
              /\ e.pages = d.pages /\ e.businesses = d.businesses /\ e.phones = d.phones
  BY DEF ConTodo
<1>4. ASSUME NEW s \in Seq(Numbers)
      PROVE  LET e == [d EXCEPT !.phones = s] IN
              /\ e \in ConTodo /\ e.phones = s
              /\ e.pages = d.pages /\ e.businesses = d.businesses /\ e.wabas = d.wabas
  BY DEF ConTodo
<1>. QED
  BY <1>1, <1>2, <1>3, <1>4


\* On to the next page, or the next WhatsApp account.
LEMMA NextPageFacts ==
  ASSUME Connect!AssetAssumption, ConInv, NEW c \in Consents, cTodo[c].pages # <<>>, Connect!NextPage(c)
  PROVE  /\ cTodo' \in [Consents -> ConTodo] /\ cPc' \in [Consents -> ConSteps]
         /\ \A d \in Consents \ {c} : cTodo'[d] = cTodo[d] /\ cPc'[d] = cPc[d]
         /\ cPc'[c] \in {"businesses", "page"}
         /\ cPc'[c] = "page" => cTodo'[c].pages # <<>>
<1>. DEFINE e == [cTodo[c] EXCEPT !.pages = Tail(cTodo[c].pages)]
            l == IF Len(cTodo[c].pages) = 1 THEN "businesses" ELSE "page"
<1>1. cTodo' = [cTodo EXCEPT ![c] = e] /\ cPc' = [cPc EXCEPT ![c] = l]
  BY DEF Connect!NextPage, Connect!Goto
<1>2. e \in ConTodo /\ e.pages = Tail(cTodo[c].pages)
  <2>1. cTodo[c] \in ConTodo /\ Tail(cTodo[c].pages) \in Seq(Pages)
    BY AtHand
  <2>. QED
    BY <2>1, TodoSet
<1>3. l \in {"businesses", "page"} /\ (l = "page" => Tail(cTodo[c].pages) # <<>>)
  BY AtHand
<1>. HIDE DEF e, l
<1>. QED
  BY <1>1, <1>2, <1>3 DEF ConInv, ConTyped, ConSteps

LEMMA NextWabaFacts ==
  ASSUME Connect!AssetAssumption, ConInv, NEW c \in Consents, cTodo[c].wabas # <<>>, Connect!NextWaba(c)
  PROVE  /\ cTodo' \in [Consents -> ConTodo] /\ cPc' \in [Consents -> ConSteps]
         /\ \A d \in Consents \ {c} : cTodo'[d] = cTodo[d] /\ cPc'[d] = cPc[d]
         /\ cPc'[c] \in {"business", "waba"}
         /\ cPc'[c] = "waba" => cTodo'[c].wabas # <<>>
<1>. DEFINE e == [cTodo[c] EXCEPT !.wabas = Tail(cTodo[c].wabas)]
            f == [e EXCEPT !.phones = <<>>]
            l == IF Len(cTodo[c].wabas) = 1 THEN "business" ELSE "waba"
<1>1. cTodo' = [cTodo EXCEPT ![c] = f] /\ cPc' = [cPc EXCEPT ![c] = l]
  BY DEF Connect!NextWaba, Connect!Goto
<1>2. e \in ConTodo /\ e.wabas = Tail(cTodo[c].wabas)
  <2>1. cTodo[c] \in ConTodo /\ Tail(cTodo[c].wabas) \in Seq(Connect!Wabas)
    BY AtHand
  <2>. QED
    BY <2>1, TodoSet
<1>. HIDE DEF e
<1>3. f \in ConTodo /\ f.wabas = e.wabas
  <2>1. <<>> \in Seq(Numbers)
    OBVIOUS
  <2>. QED
    BY <1>2, <2>1, TodoSet
<1>4. l \in {"business", "waba"} /\ (l = "waba" => Tail(cTodo[c].wabas) # <<>>)
  BY AtHand
<1>. HIDE DEF f, l
<1>. QED
  BY <1>1, <1>2, <1>3, <1>4 DEF ConInv, ConTyped, ConSteps

\* A callback that writes no row goes on; when it leaves a page it was between
\* the two rows of, the page is torn or has no account.
LEMMA GoesOn ==
  ASSUME Connect!AssetAssumption, ConInv, NEW c \in Consents,
         cTodo' \in [Consents -> ConTodo], cPc' \in [Consents -> ConSteps],
         \A d \in Consents \ {c} : cTodo'[d] = cTodo[d] /\ cPc'[d] = cPc[d],
         UNCHANGED <<cPage, cIg, cPhone>>, cFaults' \in 0..MaxFaults,
         cSubscribed \subseteq cSubscribed', cSubscribed' \subseteq Pages \cup Connect!Wabas,
         cRefused \subseteq cRefused', cRefused' \subseteq Connect!Wabas,
         cTorn \subseteq cTorn', cTorn' \subseteq Pages,
         ConOf(c)',
         \A p : Between(c, p) => Between(c, p)' \/ p \in cTorn' \/ IgOf[p] = None
  PROVE  ConInv'
<1>1. ConTyped' /\ ShownRows'
  BY DEF ConInv, ConTyped, ShownRows
<1>2. ASSUME NEW d \in Consents PROVE ConOf(d)'
  <2>1. CASE d = c
    BY <2>1
  <2>2. CASE d # c
    <3>1. cTodo'[d] = cTodo[d] /\ cPc'[d] = cPc[d] /\ ConOf(d)
      BY <2>2 DEF ConInv
    <3>2. Connect!Page(d)' = Connect!Page(d) /\ Connect!Waba(d)' = Connect!Waba(d)
      BY <3>1 DEF Connect!Page, Connect!Waba
    <3>. QED
      BY <3>1, <3>2 DEF ConOf
  <2>. QED
    BY <2>1, <2>2
<1>3. ASSUME NEW i \in IgAccounts PROVE Follows(i)'
  <2>. SUFFICES ASSUME cIg[i] # None
                PROVE  /\ IgOf[cIg[i].page] = i
                       /\ \/ cPage[cIg[i].page] = cIg[i].tenant
                          \/ cIg[i].page \in cTorn'
                          \/ \E d \in Consents : Between(d, cIg[i].page)'
    BY DEF Follows
  <2>1. Follows(i)
    BY DEF ConInv
  <2>2. IgOf[cIg[i].page] = i /\ i # None
    BY <2>1 DEF Follows, Connect!AssetAssumption
  <2>3. ASSUME NEW d \in Consents, Between(d, cIg[i].page)
        PROVE  cIg[i].page \in cTorn' \/ Between(d, cIg[i].page)'
    <3>1. CASE d = c
      BY <2>2, <2>3, <3>1
    <3>2. CASE d # c
      BY <2>3, <3>2 DEF Between, Connect!Page
    <3>. QED
      BY <3>1, <3>2
  <2>. QED
    BY <2>1, <2>2, <2>3 DEF Follows
<1>. QED
  BY <1>1, <1>2, <1>3 DEF ConInv

\* The consent screen and the lists that a callback asks for.
LEMMA GetStep ==
  ASSUME Connect!AssetAssumption, Connect!BoundAssumption, ConInv, NEW c \in Consents,
         \/ Connect!Start(c) \/ Connect!exchangeCode(c) \/ Connect!extendToken(c)
         \/ Connect!listPages(c) \/ Connect!listBusinesses(c)
  PROVE  ConInv'
<1>. DEFINE e == [cTodo[c] EXCEPT !.pages = PagesOf[c]]
            f == [cTodo[c] EXCEPT !.businesses = BusinessesOf[c]]
<1>1. cTodo[c] \in ConTodo /\ PagesOf[c] \in Seq(Pages) /\ BusinessesOf[c] \in Seq(Seq(Connect!Wabas))
  BY AtHand DEF Connect!AssetAssumption
<1>2. e \in ConTodo /\ e.pages = PagesOf[c] /\ f \in ConTodo
  BY <1>1, TodoSet
<1>3. /\ cTodo' \in {cTodo, [cTodo EXCEPT ![c] = e], [cTodo EXCEPT ![c] = f]}
      /\ UNCHANGED <<cPage, cIg, cPhone, cSubscribed, cRefused, cTorn>>
      /\ cFaults' = cFaults \/ (cFaults < MaxFaults /\ cFaults' = cFaults + 1)
      /\ cPc[c] \notin {"ig", "igrow"}
  BY DEF Connect!Start, Connect!exchangeCode, Connect!extendToken, Connect!listPages,
         Connect!listBusinesses, Connect!Get, Connect!Goto, Connect!Fault, Connect!rows
<1>4. \E l \in {"exchange", "extend", "list", "done", "business", "page"} :
        /\ cPc' = [cPc EXCEPT ![c] = l]
        /\ l = "page" => PagesOf[c] # <<>> /\ cTodo' = [cTodo EXCEPT ![c] = e]
  BY DEF Connect!Start, Connect!exchangeCode, Connect!extendToken, Connect!listPages,
         Connect!listBusinesses, Connect!Get, Connect!Goto
<1>. HIDE DEF e, f
<1>5. /\ cTodo' \in [Consents -> ConTodo] /\ cPc' \in [Consents -> ConSteps]
      /\ \A d \in Consents \ {c} : cTodo'[d] = cTodo[d] /\ cPc'[d] = cPc[d]
      /\ cFaults' \in 0..MaxFaults
      /\ cPc'[c] \in {"exchange", "extend", "list", "done", "business", "page"}
      /\ cPc'[c] = "page" => cTodo'[c].pages # <<>>
  BY <1>2, <1>3, <1>4 DEF ConInv, ConTyped, ConSteps, Connect!BoundAssumption
<1>6. ConOf(c)'
  BY <1>5 DEF ConOf
<1>7. /\ cSubscribed \subseteq cSubscribed' /\ cSubscribed' \subseteq Pages \cup Connect!Wabas
      /\ cRefused \subseteq cRefused' /\ cRefused' \subseteq Connect!Wabas
      /\ cTorn \subseteq cTorn' /\ cTorn' \subseteq Pages
  BY <1>3 DEF ConInv, ConTyped
<1>8. \A p : ~Between(c, p)
  BY <1>3 DEF Between
<1>. QED
  BY <1>3, <1>5, <1>6, <1>7, <1>8, GoesOn


\* The page is subscribed, or left.
LEMMA SubscribePageStep ==
  ASSUME Connect!AssetAssumption, Connect!BoundAssumption, ConInv, NEW c \in Consents, Connect!subscribePage(c)
  PROVE  ConInv'
<1>1. /\ cPc[c] = "page" /\ cTodo[c].pages # <<>> /\ Connect!Page(c) \in Pages
      /\ UNCHANGED <<cPage, cIg, cPhone, cRefused, cTorn>>
  BY AtHand DEF Connect!subscribePage, Connect!rows, ConOf
<1>2. \A p : ~Between(c, p)
  BY <1>1 DEF Between
<1>3. /\ cSubscribed \subseteq cSubscribed' /\ cSubscribed' \subseteq Pages \cup Connect!Wabas
      /\ cFaults' \in 0..MaxFaults
  BY <1>1 DEF Connect!subscribePage, Connect!Fault, ConInv, ConTyped, Connect!BoundAssumption
<1>4. /\ cRefused \subseteq cRefused' /\ cRefused' \subseteq Connect!Wabas
      /\ cTorn \subseteq cTorn' /\ cTorn' \subseteq Pages
  BY <1>1 DEF ConInv, ConTyped
<1>5. CASE Connect!Page(c) \in cSubscribed' /\ cPc' = [cPc EXCEPT ![c] = "upsert"] /\ UNCHANGED cTodo
  <2>1. /\ cTodo' \in [Consents -> ConTodo] /\ cPc' \in [Consents -> ConSteps] /\ cPc'[c] = "upsert"
        /\ \A d \in Consents \ {c} : cTodo'[d] = cTodo[d] /\ cPc'[d] = cPc[d]
    BY <1>5 DEF ConInv, ConTyped, ConSteps
  <2>2. Connect!Page(c)' = Connect!Page(c)
    BY <1>5 DEF Connect!Page
  <2>3. ConOf(c)'
    BY <1>1, <1>5, <2>1, <2>2 DEF ConOf
  <2>. QED
    BY <1>1, <1>2, <1>3, <1>4, <2>1, <2>3, GoesOn
<1>6. CASE Connect!NextPage(c)
  <2>1. /\ cTodo' \in [Consents -> ConTodo] /\ cPc' \in [Consents -> ConSteps]
        /\ \A d \in Consents \ {c} : cTodo'[d] = cTodo[d] /\ cPc'[d] = cPc[d]
        /\ cPc'[c] \in {"businesses", "page"} /\ (cPc'[c] = "page" => cTodo'[c].pages # <<>>)
    BY <1>1, <1>6, NextPageFacts
  <2>2. ConOf(c)'
    BY <2>1 DEF ConOf
  <2>. QED
    BY <1>1, <1>2, <1>3, <1>4, <2>1, <2>2, GoesOn
<1>. QED
  BY <1>5, <1>6 DEF Connect!subscribePage, Connect!Goto

\* The page's account is looked up.
LEMMA DiscoverStep ==
  ASSUME Connect!AssetAssumption, Connect!BoundAssumption, ConInv, NEW c \in Consents,
         Connect!discoverIGForPage(c)
  PROVE  ConInv'
<1>1. /\ cPc[c] = "ig" /\ cTodo[c].pages # <<>> /\ Connect!Page(c) \in Pages
      /\ UNCHANGED <<cPage, cIg, cPhone, cSubscribed, cRefused>>
      /\ cPage[Connect!Page(c)] = TenantOf[c] \/ Connect!Page(c) \in cTorn
  BY AtHand DEF Connect!discoverIGForPage, Connect!rows, ConOf
<1>2. /\ cSubscribed \subseteq cSubscribed' /\ cSubscribed' \subseteq Pages \cup Connect!Wabas
      /\ cRefused \subseteq cRefused' /\ cRefused' \subseteq Connect!Wabas
      /\ cTorn \subseteq cTorn' /\ cTorn' \subseteq Pages /\ cFaults' \in 0..MaxFaults
  BY <1>1 DEF Connect!discoverIGForPage, Connect!Fault, ConInv, ConTyped, Connect!BoundAssumption
<1>3. CASE IgOf[Connect!Page(c)] # None /\ cPc' = [cPc EXCEPT ![c] = "igrow"] /\ UNCHANGED <<cTodo, cTorn>>
  <2>1. /\ cTodo' \in [Consents -> ConTodo] /\ cPc' \in [Consents -> ConSteps] /\ cPc'[c] = "igrow"
        /\ \A d \in Consents \ {c} : cTodo'[d] = cTodo[d] /\ cPc'[d] = cPc[d]
    BY <1>3 DEF ConInv, ConTyped, ConSteps
  <2>2. Connect!Page(c)' = Connect!Page(c)
    BY <1>3 DEF Connect!Page
  <2>3. ConOf(c)' /\ \A p : Between(c, p) => Between(c, p)'
    BY <1>1, <1>3, <2>1, <2>2 DEF ConOf, Between
  <2>. QED
    BY <1>1, <1>2, <2>1, <2>3, GoesOn
<1>4. CASE Connect!NextPage(c) /\ (IgOf[Connect!Page(c)] = None \/ Connect!Page(c) \in cTorn')
  <2>1. /\ cTodo' \in [Consents -> ConTodo] /\ cPc' \in [Consents -> ConSteps]
        /\ \A d \in Consents \ {c} : cTodo'[d] = cTodo[d] /\ cPc'[d] = cPc[d]
        /\ cPc'[c] \in {"businesses", "page"} /\ (cPc'[c] = "page" => cTodo'[c].pages # <<>>)
    BY <1>1, <1>4, NextPageFacts
  <2>2. ConOf(c)'
    BY <2>1 DEF ConOf
  <2>3. \A p : Between(c, p) => p \in cTorn' \/ IgOf[p] = None
    BY <1>4 DEF Between
  <2>. QED
    BY <1>1, <1>2, <2>1, <2>2, <2>3, GoesOn
<1>. QED
  BY <1>3, <1>4 DEF Connect!discoverIGForPage, Connect!Goto

\* The businesses' accounts, and the subscription and the numbers of one.
LEMMA WabaStep ==
  ASSUME Connect!AssetAssumption, Connect!BoundAssumption, ConInv, NEW c \in Consents,
         Connect!listWABAs(c) \/ Connect!subscribeWABA(c) \/ Connect!listPhones(c)
  PROVE  ConInv'
<1>1. /\ UNCHANGED <<cPage, cIg, cPhone, cTorn>> /\ cPc[c] \in {"business", "waba", "phones"}
      /\ cPc[c] \in {"waba", "phones"} => cTodo[c].wabas # <<>> /\ Connect!Waba(c) \in Connect!Wabas
      /\ cFaults' \in 0..MaxFaults
  BY AtHand DEF Connect!listWABAs, Connect!subscribeWABA, Connect!listPhones, Connect!rows, ConOf,
                Connect!Fault, ConInv, ConTyped, Connect!BoundAssumption
<1>2. \A p : ~Between(c, p)
  BY <1>1 DEF Between
<1>3. /\ cSubscribed \subseteq cSubscribed' /\ cSubscribed' \subseteq Pages \cup Connect!Wabas
      /\ cRefused \subseteq cRefused' /\ cRefused' \subseteq Connect!Wabas
      /\ cTorn \subseteq cTorn' /\ cTorn' \subseteq Pages
  BY <1>1 DEF Connect!listWABAs, Connect!subscribeWABA, Connect!listPhones, ConInv, ConTyped
<1>4. CASE Connect!listWABAs(c)
  <2>. DEFINE bs == cTodo[c].businesses
              e == [cTodo[c] EXCEPT !.businesses = Tail(bs)]
              f == [e EXCEPT !.wabas = Head(bs)]
              l == IF Head(bs) = <<>> THEN "business" ELSE "waba"
  <2>1. \/ cPc' = [cPc EXCEPT ![c] = "done"] /\ UNCHANGED cTodo
        \/ /\ bs # <<>> /\ cTodo' = [cTodo EXCEPT ![c] = f]
           /\ cPc' = [cPc EXCEPT ![c] = l]
        \/ bs # <<>> /\ cTodo' = [cTodo EXCEPT ![c] = e] /\ UNCHANGED cPc /\ cPc[c] = "business"
    BY <1>4 DEF Connect!listWABAs, Connect!Goto
  <2>2. /\ bs # <<>> => e \in ConTodo
        /\ bs # <<>> => f \in ConTodo /\ f.wabas = Head(bs)
    <3>1. cTodo[c] \in ConTodo /\ (bs # <<>> => Head(bs) \in Seq(Connect!Wabas) /\ Tail(bs) \in Seq(Seq(Connect!Wabas)))
      BY AtHand
    <3>2. bs # <<>> => e \in ConTodo
      BY <3>1, TodoSet
    <3>. HIDE DEF e
    <3>3. bs # <<>> => f \in ConTodo /\ f.wabas = Head(bs)
      BY <3>1, <3>2, TodoSet
    <3>. QED
      BY <3>2, <3>3
  <2>3. l \in {"business", "waba"} /\ (l = "waba" => Head(bs) # <<>>)
    OBVIOUS
  <2>. HIDE DEF e, f, l
  <2>4. /\ cTodo' \in [Consents -> ConTodo] /\ cPc' \in [Consents -> ConSteps]
        /\ \A d \in Consents \ {c} : cTodo'[d] = cTodo[d] /\ cPc'[d] = cPc[d]
        /\ cPc'[c] \in {"done", "business", "waba"} /\ (cPc'[c] = "waba" => cTodo'[c].wabas # <<>>)
    BY <2>1, <2>2, <2>3 DEF ConInv, ConTyped, ConSteps
  <2>5. ConOf(c)'
    BY <2>4 DEF ConOf
  <2>. QED
    BY <1>1, <1>2, <1>3, <2>4, <2>5, GoesOn
<1>5. CASE Connect!subscribeWABA(c)
  <2>1. cPc' = [cPc EXCEPT ![c] = "phones"] /\ UNCHANGED cTodo /\ Connect!Waba(c) \in cSubscribed' \cup cRefused'
    BY <1>5 DEF Connect!subscribeWABA, Connect!Goto
  <2>2. /\ cTodo' \in [Consents -> ConTodo] /\ cPc' \in [Consents -> ConSteps] /\ cPc'[c] = "phones"
        /\ \A d \in Consents \ {c} : cTodo'[d] = cTodo[d] /\ cPc'[d] = cPc[d]
    BY <2>1 DEF ConInv, ConTyped, ConSteps
  <2>3. Connect!Waba(c)' = Connect!Waba(c) /\ cTodo'[c].wabas # <<>>
    BY <1>1, <1>5, <2>1 DEF Connect!Waba, Connect!subscribeWABA
  <2>4. ConOf(c)'
    BY <2>1, <2>2, <2>3 DEF ConOf
  <2>. QED
    BY <1>1, <1>2, <1>3, <2>2, <2>4, GoesOn
<1>6. CASE Connect!listPhones(c)
  <2>. DEFINE ns == PhonesOf[Connect!Waba(c)]
              e == [cTodo[c] EXCEPT !.phones = ns]
  <2>1. \/ ns # <<>> /\ cTodo' = [cTodo EXCEPT ![c] = e] /\ cPc' = [cPc EXCEPT ![c] = "phone"]
        \/ Connect!NextWaba(c)
    BY <1>6 DEF Connect!listPhones, Connect!Goto
  <2>2. cPc[c] = "phones" /\ cTodo[c].wabas # <<>> /\ UNCHANGED <<cSubscribed, cRefused>>
    BY <1>1, <1>6 DEF Connect!listPhones
  <2>3. CASE Connect!NextWaba(c)
    <3>1. /\ cTodo' \in [Consents -> ConTodo] /\ cPc' \in [Consents -> ConSteps]
          /\ \A d \in Consents \ {c} : cTodo'[d] = cTodo[d] /\ cPc'[d] = cPc[d]
          /\ cPc'[c] \in {"business", "waba"} /\ (cPc'[c] = "waba" => cTodo'[c].wabas # <<>>)
      BY <2>2, <2>3, NextWabaFacts
    <3>2. ConOf(c)'
      BY <3>1 DEF ConOf
    <3>. QED
      BY <1>1, <1>2, <1>3, <3>1, <3>2, GoesOn
  <2>4. CASE ns # <<>> /\ cTodo' = [cTodo EXCEPT ![c] = e] /\ cPc' = [cPc EXCEPT ![c] = "phone"]
    <3>1. cTodo[c] \in ConTodo /\ ns \in Seq(Numbers)
          /\ Connect!Waba(c) \in cSubscribed \cup cRefused
      BY <2>2, AtHand DEF ConOf
    <3>. HIDE DEF ns
    <3>2. e \in ConTodo /\ e.phones = ns /\ e.wabas = cTodo[c].wabas
      BY <3>1, TodoSet
    <3>. HIDE DEF e
    <3>3. /\ cTodo' \in [Consents -> ConTodo] /\ cPc' \in [Consents -> ConSteps] /\ cPc'[c] = "phone"
          /\ \A d \in Consents \ {c} : cTodo'[d] = cTodo[d] /\ cPc'[d] = cPc[d]
          /\ cTodo'[c] = e
      BY <2>4, <3>2 DEF ConInv, ConTyped, ConSteps
    <3>4. Connect!Waba(c)' = Connect!Waba(c)
      BY <3>2, <3>3 DEF Connect!Waba
    <3>5. ConOf(c)'
      BY <2>2, <2>4, <3>1, <3>2, <3>3, <3>4 DEF ConOf
    <3>. QED
      BY <1>1, <1>2, <1>3, <3>3, <3>5, GoesOn
  <2>. QED
    BY <2>1, <2>3, <2>4
<1>. QED
  BY <1>4, <1>5, <1>6

LEMMA ConCrash ==
  ASSUME Connect!AssetAssumption, Connect!BoundAssumption, ConInv, NEW c \in Consents, Connect!Crash(c)
  PROVE  ConInv'
<1>1. /\ UNCHANGED <<cTodo, cPage, cIg, cPhone, cSubscribed, cRefused>>
      /\ cPc' = [cPc EXCEPT ![c] = "done"] /\ cFaults' \in 0..MaxFaults
      /\ cTorn' = IF cPc[c] \in {"ig", "igrow"} THEN cTorn \cup {Connect!Page(c)} ELSE cTorn
  BY DEF Connect!Crash, Connect!Goto, Connect!Fault, Connect!rows, ConInv, ConTyped, Connect!BoundAssumption
<1>2. cPc[c] \in {"ig", "igrow"} => Connect!Page(c) \in Pages
  BY AtHand DEF ConOf
<1>3. /\ cTodo' \in [Consents -> ConTodo] /\ cPc' \in [Consents -> ConSteps] /\ cPc'[c] = "done"
      /\ \A d \in Consents \ {c} : cTodo'[d] = cTodo[d] /\ cPc'[d] = cPc[d]
      /\ cSubscribed \subseteq cSubscribed' /\ cSubscribed' \subseteq Pages \cup Connect!Wabas
      /\ cRefused \subseteq cRefused' /\ cRefused' \subseteq Connect!Wabas
      /\ cTorn \subseteq cTorn' /\ cTorn' \subseteq Pages
  BY <1>1, <1>2 DEF ConInv, ConTyped, ConSteps
<1>4. ConOf(c)' /\ \A p : Between(c, p) => p \in cTorn'
  BY <1>1, <1>3 DEF ConOf, Between
<1>. QED
  BY <1>1, <1>3, <1>4, GoesOn


\* The page's row, after which the callback is between the two rows.
LEMMA UpsertPageStep ==
  ASSUME Connect!AssetAssumption, Connect!BoundAssumption, ConInv, NEW c \in Consents, Connect!upsertPage(c)
  PROVE  ConInv'
<1>. DEFINE p == Connect!Page(c)
<1>1. /\ cPc[c] = "upsert" /\ cTodo[c].pages # <<>> /\ p \in Pages /\ p \in cSubscribed
      /\ TenantOf[c] \in Connect!Brands
      /\ UNCHANGED <<cIg, cPhone, cSubscribed, cRefused>>
  BY AtHand DEF Connect!upsertPage, ConOf
<1>2. \A q : ~Between(c, q)
  BY <1>1 DEF Between
<1>3. cFaults' \in 0..MaxFaults
  BY DEF Connect!upsertPage, Connect!Fault, ConInv, ConTyped, Connect!BoundAssumption
<1>4. CASE Connect!NextPage(c) /\ UNCHANGED <<cPage, cTorn>>
  <2>1. /\ cTodo' \in [Consents -> ConTodo] /\ cPc' \in [Consents -> ConSteps]
        /\ \A d \in Consents \ {c} : cTodo'[d] = cTodo[d] /\ cPc'[d] = cPc[d]
        /\ cPc'[c] \in {"businesses", "page"} /\ (cPc'[c] = "page" => cTodo'[c].pages # <<>>)
    BY <1>1, <1>4, NextPageFacts
  <2>2. ConOf(c)'
    BY <2>1 DEF ConOf
  <2>3. /\ cSubscribed \subseteq cSubscribed' /\ cSubscribed' \subseteq Pages \cup Connect!Wabas
        /\ cRefused \subseteq cRefused' /\ cRefused' \subseteq Connect!Wabas
        /\ cTorn \subseteq cTorn' /\ cTorn' \subseteq Pages
    BY <1>1, <1>4 DEF ConInv, ConTyped
  <2>. QED
    BY <1>1, <1>2, <1>3, <1>4, <2>1, <2>2, <2>3, GoesOn
<1>5. CASE /\ cPage' = [cPage EXCEPT ![p] = TenantOf[c]]
           /\ cTorn' = IF Connect!Halfway(c) THEN cTorn \cup {p} ELSE cTorn \ {p}
           /\ cPc' = [cPc EXCEPT ![c] = "ig"] /\ UNCHANGED cTodo
  <2>. HIDE DEF p
  <2>1. /\ cPage'[p] = TenantOf[c] /\ \A q \in Pages \ {p} : cPage'[q] = cPage[q]
        /\ cPage' \in [Pages -> Connect!Brands \cup {None}]
        /\ \A q \in Pages \ {p} : q \in cTorn' <=> q \in cTorn
        /\ cTorn' \subseteq Pages
        /\ cPc' \in [Consents -> ConSteps] /\ cPc'[c] = "ig" /\ \A d \in Consents \ {c} : cPc'[d] = cPc[d]
    BY <1>1, <1>5 DEF ConInv, ConTyped, ConSteps
  <2>2. \A d \in Consents : Connect!Page(d)' = Connect!Page(d) /\ Connect!Waba(d)' = Connect!Waba(d)
    BY <1>5 DEF Connect!Page, Connect!Waba
  <2>3. \A d \in Consents \ {c} : Between(d, p) => p \in cTorn'
    BY <1>5 DEF Between, Connect!Halfway, p
  <2>4. ConTyped' /\ ShownRows'
    BY <1>1, <1>3, <1>5, <2>1 DEF ConInv, ConTyped, ShownRows
  <2>5. ASSUME NEW d \in Consents PROVE ConOf(d)'
    <3>1. CASE d = c
      BY <1>1, <1>5, <2>1, <2>2, <3>1 DEF ConOf, p
    <3>2. CASE d # c
      <4>1. /\ ConOf(d) /\ cPc'[d] = cPc[d] /\ cTodo'[d] = cTodo[d]
            /\ Connect!Page(d)' = Connect!Page(d) /\ Connect!Waba(d)' = Connect!Waba(d)
        BY <1>5, <2>1, <2>2, <3>2 DEF ConInv
      <4>2. cPc[d] \in {"ig", "igrow"} => Connect!Page(d) \in Pages
        BY AtHand DEF ConOf
      <4>3. cPc[d] \in {"ig", "igrow"} => cPage'[Connect!Page(d)] = TenantOf[d] \/ Connect!Page(d) \in cTorn'
        BY <2>1, <2>3, <3>2, <4>1, <4>2 DEF ConOf, Between
      <4>. QED
        BY <1>1, <4>1, <4>3 DEF ConOf
    <3>. QED
      BY <3>1, <3>2
  <2>6. ASSUME NEW i \in IgAccounts PROVE Follows(i)'
    <3>. SUFFICES ASSUME cIg[i] # None
                  PROVE  /\ IgOf[cIg[i].page] = i
                         /\ \/ cPage'[cIg[i].page] = cIg[i].tenant
                            \/ cIg[i].page \in cTorn'
                            \/ \E d \in Consents : Between(d, cIg[i].page)'
      BY <1>1 DEF Follows
    <3>1. Follows(i) /\ cIg[i].page \in Pages
      BY DEF ConInv, ConTyped
    <3>2. IgOf[cIg[i].page] = i
      BY <3>1 DEF Follows
    <3>3. CASE cIg[i].page = p
      <4>1. Connect!Page(c)' = cIg[i].page /\ cIg' = cIg
        BY <1>1, <2>2, <3>3 DEF p
      <4>2. Between(c, cIg[i].page)'
        BY <2>1, <4>1 DEF Between
      <4>. QED
        BY <3>2, <4>2
    <3>4. CASE cIg[i].page # p
      <4>. DEFINE q == cIg[i].page
      <4>1. q \in Pages \ {p} /\ cPage'[q] = cPage[q] /\ (q \in cTorn' <=> q \in cTorn)
        BY <2>1, <3>1, <3>4
      <4>2. \/ cPage[q] = cIg[i].tenant
            \/ q \in cTorn
            \/ \E d \in Consents : Between(d, q)
        BY <3>1 DEF Follows
      <4>3. ASSUME NEW d \in Consents, Between(d, q) PROVE Between(d, q)'
        <5>1. d # c
          BY <1>2, <4>3
        <5>2. cPc'[d] = cPc[d] /\ Connect!Page(d)' = Connect!Page(d) /\ q' = q
          BY <1>1, <2>1, <2>2, <5>1
        <5>. QED
          BY <4>3, <5>2 DEF Between
      <4>. HIDE DEF q
      <4>. QED
        BY <3>2, <4>1, <4>2, <4>3 DEF q
    <3>. QED
      BY <3>3, <3>4
  <2>. QED
    BY <2>4, <2>5, <2>6 DEF ConInv
<1>. QED
  BY <1>4, <1>5 DEF Connect!upsertPage, Connect!Goto

\* The account's row, with the tenant the page has by then, unless it is torn.
LEMMA UpsertIGStep ==
  ASSUME Connect!AssetAssumption, Connect!BoundAssumption, ConInv, NEW c \in Consents,
         Connect!upsertIGAccount(c)
  PROVE  ConInv'
<1>. DEFINE p == Connect!Page(c)  i == IgOf[p]  row == [tenant |-> TenantOf[c], page |-> p]
<1>1. /\ cPc[c] = "igrow" /\ cTodo[c].pages # <<>> /\ p \in Pages /\ i \in IgAccounts /\ i # None
      /\ TenantOf[c] \in Connect!Brands /\ (cPage[p] = TenantOf[c] \/ p \in cTorn)
      /\ UNCHANGED <<cPage, cPhone, cSubscribed, cRefused>> /\ Connect!NextPage(c)
  BY AtHand DEF Connect!upsertIGAccount, ConOf
<1>2. cFaults' \in 0..MaxFaults
  BY DEF Connect!upsertIGAccount, Connect!Fault, ConInv, ConTyped, Connect!BoundAssumption
<1>3. /\ cTodo' \in [Consents -> ConTodo] /\ cPc' \in [Consents -> ConSteps]
      /\ \A d \in Consents \ {c} : cTodo'[d] = cTodo[d] /\ cPc'[d] = cPc[d]
      /\ cPc'[c] \in {"businesses", "page"} /\ (cPc'[c] = "page" => cTodo'[c].pages # <<>>)
  BY <1>1, NextPageFacts
<1>4. ConOf(c)'
  BY <1>3 DEF ConOf
<1>5. CASE cTorn' = cTorn \cup {p} /\ UNCHANGED cIg
  <2>1. /\ cSubscribed \subseteq cSubscribed' /\ cSubscribed' \subseteq Pages \cup Connect!Wabas
        /\ cRefused \subseteq cRefused' /\ cRefused' \subseteq Connect!Wabas
        /\ cTorn \subseteq cTorn' /\ cTorn' \subseteq Pages
    BY <1>1, <1>5 DEF ConInv, ConTyped
  <2>2. \A q : Between(c, q) => q \in cTorn'
    BY <1>5 DEF Between
  <2>. QED
    BY <1>1, <1>2, <1>3, <1>4, <1>5, <2>1, <2>2, GoesOn
<1>6. CASE cIg' = [cIg EXCEPT ![i] = row] /\ UNCHANGED cTorn
  <2>1. row \in [tenant : Connect!Brands, page : Pages] /\ row.page = p /\ row.tenant = TenantOf[c]
    BY <1>1
  <2>. HIDE DEF row
  <2>2. /\ cIg' \in [IgAccounts -> [tenant : Connect!Brands, page : Pages] \cup {None}]
        /\ cIg'[i] = row /\ \A j \in IgAccounts \ {i} : cIg'[j] = cIg[j]
    BY <1>1, <1>6, <2>1 DEF ConInv, ConTyped
  <2>3. ConTyped' /\ ShownRows'
    BY <1>1, <1>2, <1>3, <1>6, <2>2 DEF ConInv, ConTyped, ShownRows
  <2>4. \A d \in Consents \ {c} : Connect!Page(d)' = Connect!Page(d) /\ Connect!Waba(d)' = Connect!Waba(d)
    BY <1>3 DEF Connect!Page, Connect!Waba
  <2>5. ASSUME NEW d \in Consents PROVE ConOf(d)'
    <3>1. CASE d = c
      BY <1>4, <3>1
    <3>2. CASE d # c
      BY <1>1, <1>3, <1>6, <2>4, <3>2 DEF ConInv, ConOf
    <3>. QED
      BY <3>1, <3>2
  <2>6. ASSUME NEW j \in IgAccounts PROVE Follows(j)'
    <3>1. CASE j = i
      BY <1>1, <1>6, <2>1, <2>2, <3>1 DEF Follows
    <3>2. CASE j # i
      <4>1. Follows(j) /\ cIg'[j] = cIg[j]
        BY <2>2, <3>2 DEF ConInv
      <4>2. cIg[j] # None => cIg[j].page # p
        BY <3>2, <4>1 DEF Follows
      <4>3. \A d \in Consents : cIg[j] # None /\ Between(d, cIg[j].page) => Between(d, cIg[j].page)'
        BY <1>3, <2>2, <2>4, <4>1, <4>2 DEF Between
      <4>. QED
        BY <1>1, <1>6, <4>1, <4>3 DEF Follows
    <3>. QED
      BY <3>1, <3>2
  <2>. QED
    BY <2>3, <2>5, <2>6 DEF ConInv
<1>. QED
  BY <1>5, <1>6 DEF Connect!upsertIGAccount, Connect!IgUpsert

\* The row of a number.
LEMMA UpsertPhoneStep ==
  ASSUME Connect!AssetAssumption, Connect!BoundAssumption, ConInv, NEW c \in Consents, Connect!upsertWAPhone(c)
  PROVE  ConInv'
<1>. DEFINE n == Head(cTodo[c].phones)  row == [tenant |-> TenantOf[c], waba |-> Connect!Waba(c)]
            e == [cTodo[c] EXCEPT !.phones = Tail(cTodo[c].phones)]
<1>1. /\ cPc[c] = "phone" /\ cTodo[c].wabas # <<>> /\ cTodo[c].phones # <<>>
      /\ Connect!Waba(c) \in cSubscribed \cup cRefused /\ Connect!Waba(c) \in Connect!Wabas
      /\ TenantOf[c] \in Connect!Brands /\ n \in Numbers
      /\ cTodo[c] \in ConTodo /\ Tail(cTodo[c].phones) \in Seq(Numbers)
      /\ Len(cTodo[c].phones) # 1 => Tail(cTodo[c].phones) # <<>>
      /\ UNCHANGED <<cPage, cIg, cSubscribed, cRefused, cTorn>>
  BY AtHand DEF Connect!upsertWAPhone, ConOf
<1>2. cFaults' \in 0..MaxFaults
  BY DEF Connect!upsertWAPhone, Connect!Fault, ConInv, ConTyped, Connect!BoundAssumption
<1>3. /\ cTodo' \in [Consents -> ConTodo] /\ cPc' \in [Consents -> ConSteps]
      /\ \A d \in Consents \ {c} : cTodo'[d] = cTodo[d] /\ cPc'[d] = cPc[d]
      /\ ConOf(c)' /\ cPc'[c] \notin {"ig", "igrow"}
  <2>1. CASE Len(cTodo[c].phones) = 1
    <3>1. Connect!NextWaba(c)
      BY <2>1 DEF Connect!upsertWAPhone
    <3>2. /\ cTodo' \in [Consents -> ConTodo] /\ cPc' \in [Consents -> ConSteps]
          /\ \A d \in Consents \ {c} : cTodo'[d] = cTodo[d] /\ cPc'[d] = cPc[d]
          /\ cPc'[c] \in {"business", "waba"} /\ (cPc'[c] = "waba" => cTodo'[c].wabas # <<>>)
      BY <1>1, <3>1, NextWabaFacts
    <3>3. ConOf(c)'
      BY <3>2 DEF ConOf
    <3>. QED
      BY <3>2, <3>3
  <2>2. CASE Len(cTodo[c].phones) # 1
    <3>1. cTodo' = [cTodo EXCEPT ![c] = e] /\ UNCHANGED cPc
      BY <2>2 DEF Connect!upsertWAPhone
    <3>2. /\ e \in ConTodo /\ e.phones = Tail(cTodo[c].phones) /\ e.wabas = cTodo[c].wabas
      BY <1>1, TodoSet
    <3>. HIDE DEF e
    <3>3. /\ cTodo' \in [Consents -> ConTodo] /\ cPc' \in [Consents -> ConSteps] /\ cPc'[c] = "phone"
          /\ \A d \in Consents \ {c} : cTodo'[d] = cTodo[d] /\ cPc'[d] = cPc[d]
          /\ cTodo'[c] = e
      BY <1>1, <3>1, <3>2 DEF ConInv, ConTyped, ConSteps
    <3>4. Connect!Waba(c)' = Connect!Waba(c)
      BY <3>2, <3>3 DEF Connect!Waba
    <3>5. ConOf(c)'
      BY <1>1, <2>2, <3>2, <3>3, <3>4 DEF ConOf
    <3>. QED
      BY <3>3, <3>5
  <2>. QED
    BY <2>1, <2>2
<1>4. \A q : ~Between(c, q)
  BY <1>1 DEF Between
<1>. HIDE DEF n, e
<1>5. /\ row \in [tenant : Connect!Brands, waba : Connect!Wabas]
      /\ row.waba \in cSubscribed \cup cRefused
  BY <1>1
<1>6. \/ cPhone' = [cPhone EXCEPT ![n] = row]
      \/ UNCHANGED cPhone
  BY DEF Connect!upsertWAPhone, n
<1>. HIDE DEF row
<1>7. ConTyped' /\ ShownRows'
  BY <1>1, <1>2, <1>3, <1>5, <1>6 DEF ConInv, ConTyped, ShownRows
<1>8. \A d \in Consents \ {c} : Connect!Page(d)' = Connect!Page(d) /\ Connect!Waba(d)' = Connect!Waba(d)
  BY <1>3 DEF Connect!Page, Connect!Waba
<1>9. ASSUME NEW d \in Consents PROVE ConOf(d)'
  <2>1. CASE d = c
    BY <1>3, <2>1
  <2>2. CASE d # c
    BY <1>1, <1>3, <1>8, <2>2 DEF ConInv, ConOf
  <2>. QED
    BY <2>1, <2>2
<1>10. ASSUME NEW i \in IgAccounts PROVE Follows(i)'
  <2>1. Follows(i) /\ \A d \in Consents : \A q : Between(d, q) => Between(d, q)'
    BY <1>3, <1>4, <1>8 DEF ConInv, Between
  <2>. QED
    BY <1>1, <2>1 DEF Follows
<1>. QED
  BY <1>7, <1>9, <1>10 DEF ConInv

LEMMA ConStep ==
  ASSUME Connect!AssetAssumption, Connect!BoundAssumption, ConInv, [Connect!Next]_Connect!vars
  PROVE  ConInv'
<1>1. CASE UNCHANGED Connect!vars
  <2>1. UNCHANGED <<cPc, cTodo, cPage, cIg, cPhone, cSubscribed, cRefused, cTorn, cFaults>>
    BY <1>1 DEF Connect!vars
  <2>2. ConTyped' /\ ShownRows'
    BY <2>1 DEF ConInv, ConTyped, ShownRows
  <2>3. \A c \in Consents : ConOf(c)'
    BY <2>1 DEF ConInv, ConOf, Connect!Page, Connect!Waba
  <2>4. \A i \in IgAccounts : Follows(i)'
    BY <2>1 DEF ConInv, Follows, Between, Connect!Page
  <2>. QED
    BY <2>2, <2>3, <2>4 DEF ConInv
<1>. QED
  BY <1>1, GetStep, SubscribePageStep, UpsertPageStep, DiscoverStep, UpsertIGStep, WabaStep,
     UpsertPhoneStep, ConCrash
     DEF Connect!Next, Connect!Callback, Connect!discoverAndPersistWA

\* What is shown as subscribed is, or was refused; an account follows its page.
LEMMA ConShown ==
  ASSUME Connect!AssetAssumption, ConInv
  PROVE  Connect!TypeOK /\ Connect!AccountsFollowPages /\ Connect!ShownIsSubscribed
<1>1. None \notin Connect!Brands
  BY DEF Connect!AssetAssumption
<1>2. Connect!TypeOK
  <2>1. \A c \in Consents : cTodo[c] \in ConTodo /\ ConOf(c)
    BY DEF ConInv, ConTyped
  <2>. QED
    BY <2>1 DEF ConInv, ConTyped, ConTodo, ConSteps, ConOf, Connect!TypeOK
<1>3. Connect!ShownIsSubscribed
  BY <1>1 DEF ConInv, ConTyped, ShownRows, Connect!ShownIsSubscribed, Connect!ListConnected, Connect!ListConnectedWA
<1>4. Connect!AccountsFollowPages
  <2>. SUFFICES ASSUME NEW i \in IgAccounts, cIg[i] # None
                PROVE  \/ cPage[cIg[i].page] = cIg[i].tenant
                       \/ cIg[i].page \in cTorn
                       \/ \E c \in Consents : cPc[c] \in {"ig", "igrow"} /\ Connect!Page(c) = cIg[i].page
    BY DEF Connect!AccountsFollowPages, Connect!ListConnected, Connect!ListConnectedIG, ConInv, ConTyped
  <2>. QED
    BY DEF ConInv, Follows, Between
<1>. QED
  BY <1>2, <1>3, <1>4

LEMMA ConSound ==
  ASSUME Connect!AssetAssumption, Connect!BoundAssumption
  PROVE  Connect!Spec => [](Connect!TypeOK /\ Connect!AccountsFollowPages /\ Connect!ShownIsSubscribed)
<1>1. Connect!Init => ConInv
  BY ConInit
<1>2. ConInv /\ [Connect!Next]_Connect!vars => ConInv'
  BY ConStep
<1>3. ConInv => Connect!TypeOK /\ Connect!AccountsFollowPages /\ Connect!ShownIsSubscribed
  BY ConShown
<1>. QED
  BY <1>1, <1>2, <1>3, PTL DEF Connect!Spec

-----------------------------------------------------------------------------
(***************************************************************************)
(* Live sockets: a subscription is open exactly while the hub lists it,    *)
(* and the pump of a channel is the subscription pubsubs names.            *)
(***************************************************************************)
HubPump == [pc : {"none", "live", "cancelled", "ended"}, inbox : 0..MaxFrames, todo : SUBSET Sockets]
HubSocket == [pc : {"new", "serving", "returned"}, todo : Seq(Hub!Channels), out : 0..OutSize,
              pinged : BOOLEAN]

HubTyped ==
  /\ hSubs \in [Hub!Channels -> SUBSET Sockets]
  /\ hPubsubs \in [Hub!Channels -> Sockets \cup {None}]
  /\ hChan \in [Hub!Subscriptions -> {"none", "open", "closed"}]
  /\ hFrames \in [Hub!Subscriptions -> 0..BufferSize] /\ hForwarding \subseteq Hub!Subscriptions
  /\ hPump \in [Hub!Subscriptions -> HubPump]
  /\ hSocket \in [Sockets -> HubSocket]
  /\ hGone \subseteq Sockets /\ hClosed \in BOOLEAN /\ hStuck \in BOOLEAN
  /\ hPanicked \in {None, "send"} /\ hPublished \in 0..MaxFrames

\* A socket waits for channels of its own.
Listens(s) == \A i \in DOMAIN hSocket[s].todo : <<s, hSocket[s].todo[i]>> \in Hub!Subscriptions

Listed(sc) ==
  /\ hChan[sc] = "open" <=> sc[1] \in hSubs[sc[2]]
  /\ hPump[sc].pc = "live" <=> hPubsubs[sc[2]] = sc[1]
  /\ hPump[sc].inbox <= hPublished

Pumped(c) ==
  /\ hPubsubs[c] = None <=> hSubs[c] = {}
  /\ hPubsubs[c] # None => <<hPubsubs[c], c>> \in Hub!Subscriptions

HubInv ==
  /\ HubTyped
  /\ \A s \in Sockets : Listens(s)
  /\ \A sc \in Hub!Subscriptions : Listed(sc)
  /\ \A c \in Hub!Channels : Pumped(c)

LEMMA SubscriptionPair ==
  \A sc \in Hub!Subscriptions :
    /\ sc[1] \in Sockets /\ sc[2] \in Hub!Channels /\ sc = <<sc[1], sc[2]>>
    /\ \A d \in Hub!Subscriptions : d[1] = sc[1] /\ d[2] = sc[2] => d = sc
BY DEF Hub!Subscriptions

LEMMA OwnSubscriptions ==
  ASSUME Hub!ChannelAssumption, NEW s \in Sockets
  PROVE  /\ ChannelsOf[s] \in Seq(Hub!Channels)
         /\ \A i \in DOMAIN ChannelsOf[s] : <<s, ChannelsOf[s][i]>> \in Hub!Subscriptions
<1>1. ChannelsOf[s] \in Seq(Hub!Channels)
  BY DEF Hub!ChannelAssumption
<1>2. ASSUME NEW i \in DOMAIN ChannelsOf[s] PROVE <<s, ChannelsOf[s][i]>> \in Hub!Subscriptions
  <2>1. ChannelsOf[s][i] \in Hub!Channels
    BY <1>1
  <2>. QED
    BY <2>1 DEF Hub!Subscriptions
<1>. QED
  BY <1>1, <1>2

LEMMA HubInit ==
  ASSUME Hub!NoneAssumption, Hub!ChannelAssumption, Hub!BoundAssumption, Hub!Init
  PROVE  HubInv
<1>1. HubTyped
  <2>1. [pc |-> "none", inbox |-> 0, todo |-> {}] \in HubPump
    BY DEF Hub!BoundAssumption, HubPump
  <2>2. [pc |-> "new", todo |-> <<>>, out |-> 0, pinged |-> FALSE] \in HubSocket
    BY DEF Hub!BoundAssumption, HubSocket
  <2>3. 0 \in 0..BufferSize /\ 0 \in 0..MaxFrames
    BY DEF Hub!BoundAssumption
  <2>. QED
    BY <2>1, <2>2, <2>3 DEF Hub!Init, HubTyped
<1>2. \A s \in Sockets : Listens(s)
  BY DEF Hub!Init, Listens
<1>3. ASSUME NEW sc \in Hub!Subscriptions PROVE Listed(sc)
  BY <1>3, SubscriptionPair DEF Hub!Init, Listed, Hub!NoneAssumption
<1>4. \A c \in Hub!Channels : Pumped(c)
  BY DEF Hub!Init, Pumped
<1>. QED
  BY <1>1, <1>2, <1>3, <1>4 DEF HubInv

\* What the hub has shown, from the invariant.
LEMMA HubShown ==
  ASSUME Hub!NoneAssumption, HubInv
  PROVE  Hub!TypeOK /\ Hub!HubSafe
<1>1. Hub!TypeOK
  <2>1. \A c \in Hub!Channels : hPubsubs[c] = None \/ <<hPubsubs[c], c>> \in Hub!Subscriptions
    BY DEF HubInv, Pumped
  <2>2. \A s \in Sockets : hSocket[s].pc \in {"new", "serving", "returned"} /\ hSocket[s].out \in 0..OutSize
    BY DEF HubInv, HubTyped, HubSocket
  <2>3. hPump \in [Hub!Subscriptions -> [pc : {"none", "live", "cancelled", "ended"},
                                         inbox : 0..MaxFrames, todo : SUBSET Sockets]]
    BY DEF HubInv, HubTyped, HubPump
  <2>. QED
    BY <2>1, <2>2, <2>3 DEF HubInv, HubTyped, Hub!TypeOK
<1>2. ASSUME NEW c \in Hub!Channels
      PROVE  {sc \in Hub!Subscriptions : sc[2] = c /\ hPump[sc].pc = "live"} =
               IF hSubs[c] = {} THEN {} ELSE {<<hPubsubs[c], c>>}
  <2>1. \A sc \in Hub!Subscriptions : sc[2] = c /\ hPump[sc].pc = "live" <=> sc = <<hPubsubs[c], c>> /\ hPubsubs[c] # None
    <3>. SUFFICES ASSUME NEW sc \in Hub!Subscriptions
                  PROVE  sc[2] = c /\ hPump[sc].pc = "live" <=> sc = <<hPubsubs[c], c>> /\ hPubsubs[c] # None
      OBVIOUS
    <3>1. sc[1] # None
      BY SubscriptionPair DEF Hub!NoneAssumption
    <3>2. (hPump[sc].pc = "live" <=> hPubsubs[sc[2]] = sc[1])
      BY DEF HubInv, Listed
    <3>. QED
      BY <3>1, <3>2, SubscriptionPair
  <2>. QED
    BY <2>1 DEF HubInv, Pumped
<1>3. \A sc \in Hub!Subscriptions : hChan[sc] = "open" <=> sc[1] \in hSubs[sc[2]]
  BY DEF HubInv, Listed
<1>4. hPanicked # "close"
  BY DEF HubInv, HubTyped, Hub!NoneAssumption
<1>. QED
  BY <1>1, <1>2, <1>3, <1>4 DEF Hub!HubSafe


\* A field of a pump or of a socket is set.
LEMMA PumpSet ==
  ASSUME NEW d \in HubPump
  PROVE  /\ \A l \in {"none", "live", "cancelled", "ended"} : LET e == [d EXCEPT !.pc = l] IN
              e \in HubPump /\ e.pc = l /\ e.inbox = d.inbox /\ e.todo = d.todo
         /\ \A n \in 0..MaxFrames : LET e == [d EXCEPT !.inbox = n] IN
              e \in HubPump /\ e.pc = d.pc /\ e.inbox = n /\ e.todo = d.todo
         /\ \A S \in SUBSET Sockets : LET e == [d EXCEPT !.todo = S] IN
              e \in HubPump /\ e.pc = d.pc /\ e.inbox = d.inbox /\ e.todo = S
<1>1. ASSUME NEW l \in {"none", "live", "cancelled", "ended"}
      PROVE  LET e == [d EXCEPT !.pc = l] IN
              e \in HubPump /\ e.pc = l /\ e.inbox = d.inbox /\ e.todo = d.todo
  BY DEF HubPump
<1>2. ASSUME NEW n \in 0..MaxFrames
      PROVE  LET e == [d EXCEPT !.inbox = n] IN
              e \in HubPump /\ e.pc = d.pc /\ e.inbox = n /\ e.todo = d.todo
  BY DEF HubPump
<1>3. ASSUME NEW S \in SUBSET Sockets
      PROVE  LET e == [d EXCEPT !.todo = S] IN
              e \in HubPump /\ e.pc = d.pc /\ e.inbox = d.inbox /\ e.todo = S
  BY DEF HubPump
<1>. QED
  BY <1>1, <1>2, <1>3

LEMMA SocketSet ==
  ASSUME NEW d \in HubSocket
  PROVE  /\ \A l \in {"new", "serving", "returned"} : LET e == [d EXCEPT !.pc = l] IN
              e \in HubSocket /\ e.todo = d.todo
         /\ \A q \in Seq(Hub!Channels) : LET e == [d EXCEPT !.todo = q] IN
              e \in HubSocket /\ e.todo = q
         /\ \A n \in 0..OutSize : LET e == [d EXCEPT !.out = n] IN
              e \in HubSocket /\ e.todo = d.todo
         /\ LET e == [d EXCEPT !.pinged = TRUE] IN
              e \in HubSocket /\ e.todo = d.todo
<1>1. ASSUME NEW l \in {"new", "serving", "returned"}
      PROVE  LET e == [d EXCEPT !.pc = l] IN e \in HubSocket /\ e.todo = d.todo
  BY DEF HubSocket
<1>2. ASSUME NEW q \in Seq(Hub!Channels)
      PROVE  LET e == [d EXCEPT !.todo = q] IN e \in HubSocket /\ e.todo = q
  BY DEF HubSocket
<1>3. ASSUME NEW n \in 0..OutSize
      PROVE  LET e == [d EXCEPT !.out = n] IN e \in HubSocket /\ e.todo = d.todo
  BY DEF HubSocket
<1>4. LET e == [d EXCEPT !.pinged = TRUE] IN e \in HubSocket /\ e.todo = d.todo
  BY DEF HubSocket
<1>. QED
  BY <1>1, <1>2, <1>3, <1>4

\* A step that leaves the hub's lists alone, and starts and cancels no pump.
LEMMA ListsStay ==
  ASSUME HubInv, UNCHANGED <<hSubs, hPubsubs, hChan>>,
         hFrames' \in [Hub!Subscriptions -> 0..BufferSize], hForwarding' \subseteq Hub!Subscriptions,
         hPump' \in [Hub!Subscriptions -> HubPump], hSocket' \in [Sockets -> HubSocket],
         hGone' \subseteq Sockets, hClosed' \in BOOLEAN, hStuck' \in BOOLEAN,
         hPanicked' \in {None, "send"}, hPublished' \in 0..MaxFrames,
         \A sc \in Hub!Subscriptions : hPump'[sc].pc = "live" <=> hPump[sc].pc = "live",
         \A sc \in Hub!Subscriptions : hPump'[sc].inbox <= hPublished',
         \A s \in Sockets : Listens(s)'
  PROVE  HubInv'
<1>1. HubTyped'
  BY DEF HubInv, HubTyped
<1>2. \A sc \in Hub!Subscriptions : Listed(sc)'
  BY DEF HubInv, Listed
<1>3. \A c \in Hub!Channels : Pumped(c)'
  BY DEF HubInv, Pumped
<1>. QED
  BY <1>1, <1>2, <1>3 DEF HubInv

\* A step of a socket that subscribes nothing.
LEMMA SocketStep ==
  ASSUME Hub!ChannelAssumption, Hub!BoundAssumption, HubInv, NEW s \in Sockets,
         Hub!Accept(s) \/ Hub!SubscribeClosed(s) \/ Hub!Leave(s) \/ Hub!Write(s) \/ Hub!Ping(s)
  PROVE  HubInv'
<1>1. /\ UNCHANGED <<hSubs, hPubsubs, hChan, hFrames, hForwarding, hPump, hClosed, hPanicked, hPublished>>
      /\ hStuck' \in BOOLEAN /\ hGone' \subseteq Sockets
  BY DEF Hub!Accept, Hub!SubscribeClosed, Hub!Leave, Hub!Write, Hub!Ping, Hub!hub, HubInv, HubTyped
<1>2. /\ hSocket[s] \in HubSocket /\ Hub!Result(s) \in {"new", "serving", "returned"}
      /\ hSocket \in [Sockets -> HubSocket] /\ \A t \in Sockets : Listens(t)
  BY DEF HubInv, HubTyped, Hub!Result
<1>3. \E d \in HubSocket : /\ hSocket' = [hSocket EXCEPT ![s] = d]
                           /\ d.todo = hSocket[s].todo \/ d.todo = ChannelsOf[s]
  <2>1. CASE Hub!Accept(s)
    <3>. DEFINE a == [hSocket[s] EXCEPT !.pc = "serving"]  b == [a EXCEPT !.todo = ChannelsOf[s]]
    <3>1. hSocket' = [hSocket EXCEPT ![s] = b]
      BY <2>1 DEF Hub!Accept
    <3>2. a \in HubSocket
      BY <1>2, SocketSet
    <3>. HIDE DEF a
    <3>3. b \in HubSocket /\ b.todo = ChannelsOf[s]
      BY <3>2, SocketSet, OwnSubscriptions
    <3>. QED
      BY <3>1, <3>3
  <2>2. CASE Hub!SubscribeClosed(s)
    <3>. DEFINE a == [hSocket[s] EXCEPT !.pc = "returned"]
    <3>1. hSocket' = [hSocket EXCEPT ![s] = a]
      BY <2>2 DEF Hub!SubscribeClosed
    <3>2. a \in HubSocket /\ a.todo = hSocket[s].todo
      BY <1>2, SocketSet
    <3>. QED
      BY <3>1, <3>2
  <2>3. CASE Hub!Leave(s)
    BY <1>2, <2>3 DEF Hub!Leave
  <2>4. CASE Hub!Write(s)
    <3>. DEFINE a == [hSocket[s] EXCEPT !.out = hSocket[s].out - 1]  b == [a EXCEPT !.pc = Hub!Result(s)]
    <3>1. hSocket' = [hSocket EXCEPT ![s] = b]
      BY <2>4 DEF Hub!Write
    <3>2. hSocket[s].out - 1 \in 0..OutSize
      BY <1>2, <2>4 DEF Hub!Write, HubSocket, Hub!BoundAssumption
    <3>3. a \in HubSocket /\ a.todo = hSocket[s].todo
      BY <1>2, <3>2, SocketSet
    <3>. HIDE DEF a
    <3>4. b \in HubSocket /\ b.todo = a.todo
      BY <1>2, <3>3, SocketSet
    <3>. QED
      BY <3>1, <3>3, <3>4
  <2>5. CASE Hub!Ping(s)
    <3>. DEFINE a == [hSocket[s] EXCEPT !.pinged = TRUE]  b == [a EXCEPT !.pc = Hub!Result(s)]
    <3>1. hSocket' = [hSocket EXCEPT ![s] = b]
      BY <2>5 DEF Hub!Ping
    <3>2. a \in HubSocket /\ a.todo = hSocket[s].todo
      BY <1>2, SocketSet
    <3>. HIDE DEF a
    <3>3. b \in HubSocket /\ b.todo = a.todo
      BY <1>2, <3>2, SocketSet
    <3>. QED
      BY <3>1, <3>2, <3>3
  <2>. QED
    BY <2>1, <2>2, <2>3, <2>4, <2>5
<1>4. PICK d \in HubSocket : /\ hSocket' = [hSocket EXCEPT ![s] = d]
                             /\ d.todo = hSocket[s].todo \/ d.todo = ChannelsOf[s]
  BY <1>3
<1>5. /\ hSocket' \in [Sockets -> HubSocket]
      /\ hSocket'[s] = d /\ \A t \in Sockets \ {s} : hSocket'[t] = hSocket[t]
  BY <1>2, <1>4
<1>6. \A t \in Sockets : Listens(t)'
  BY <1>1, <1>2, <1>4, <1>5, OwnSubscriptions DEF Listens
<1>7. \A sc \in Hub!Subscriptions : hPump'[sc].inbox <= hPublished'
  BY <1>1 DEF HubInv, Listed
<1>. QED
  BY <1>1, <1>5, <1>6, <1>7, ListsStay DEF HubInv, HubTyped

\* A frame is published, copied or sent, or a cancelled pump ends.
LEMMA PumpStep ==
  ASSUME Hub!BoundAssumption, HubInv, NEW p \in Hub!Subscriptions,
         Hub!PumpCopies(p) \/ Hub!PumpEnds(p) \/ \E s \in Sockets : Hub!PumpSends(p, s)
  PROVE  HubInv'
<1>1. /\ UNCHANGED <<hSubs, hPubsubs, hChan, hForwarding, hSocket, hGone, hClosed, hStuck, hPublished>>
      /\ hPanicked' \in {None, "send"}
  BY DEF Hub!PumpCopies, Hub!PumpEnds, Hub!PumpSends, Hub!hub, HubInv, HubTyped
<1>2. /\ hPump[p] \in HubPump /\ hPump[p].inbox <= hPublished /\ hPublished \in 0..MaxFrames
      /\ hPump \in [Hub!Subscriptions -> HubPump]
      /\ \A sc \in Hub!Subscriptions : hPump[sc].inbox <= hPublished
  BY DEF HubInv, HubTyped, Listed
<1>3. \E d \in HubPump : /\ hPump' = [hPump EXCEPT ![p] = d] /\ d.inbox <= hPump[p].inbox
                         /\ d.pc = "live" <=> hPump[p].pc = "live"
  <2>1. CASE Hub!PumpCopies(p)
    <3>. DEFINE n == hPump[p].inbox - 1
                a == [hPump[p] EXCEPT !.inbox = n]  b == [a EXCEPT !.todo = hSubs[p[2]]]
    <3>1. hPump' = [hPump EXCEPT ![p] = b]
      BY <2>1 DEF Hub!PumpCopies
    <3>2. n \in 0..MaxFrames /\ n <= hPump[p].inbox
      BY <1>2, <2>1 DEF Hub!PumpCopies, HubPump, Hub!BoundAssumption
    <3>. HIDE DEF n
    <3>3. hSubs[p[2]] \in SUBSET Sockets
      BY SubscriptionPair DEF HubInv, HubTyped
    <3>4. a \in HubPump /\ a.inbox = n /\ a.pc = hPump[p].pc
      <4>1. hPump[p] \in HubPump
        BY <1>2
      <4>2. n \in 0..MaxFrames
        BY <3>2
      <4>. QED
        BY <4>1, <4>2 DEF HubPump
    <3>. HIDE DEF a
    <3>5. b \in HubPump /\ b.inbox = a.inbox /\ b.pc = a.pc
      BY <3>3, <3>4, PumpSet
    <3>. QED
      BY <3>1, <3>2, <3>4, <3>5
  <2>2. CASE Hub!PumpEnds(p)
    <3>. DEFINE a == [hPump[p] EXCEPT !.pc = "ended"]  b == [a EXCEPT !.inbox = 0]
    <3>1. hPump' = [hPump EXCEPT ![p] = b] /\ hPump[p].pc = "cancelled"
      BY <2>2 DEF Hub!PumpEnds
    <3>2. 0 \in 0..MaxFrames /\ 0 <= hPump[p].inbox
      BY <1>2 DEF HubPump, Hub!BoundAssumption
    <3>3. a \in HubPump /\ a.pc = "ended"
      BY <1>2, PumpSet
    <3>. HIDE DEF a
    <3>4. b \in HubPump /\ b.inbox = 0 /\ b.pc = a.pc
      BY <3>2, <3>3, PumpSet
    <3>. QED
      BY <3>1, <3>2, <3>3, <3>4
  <2>3. ASSUME NEW s \in Sockets, Hub!PumpSends(p, s)
        PROVE  \E d \in HubPump : /\ hPump' = [hPump EXCEPT ![p] = d] /\ d.inbox <= hPump[p].inbox
                                  /\ d.pc = "live" <=> hPump[p].pc = "live"
    <3>. DEFINE S == hPump[p].todo \ {s}  a == [hPump[p] EXCEPT !.todo = S]
    <3>1. hPump' = [hPump EXCEPT ![p] = a]
      BY <2>3 DEF Hub!PumpSends
    <3>2. S \in SUBSET Sockets /\ hPump[p].inbox <= hPump[p].inbox
      BY <1>2 DEF HubPump, Hub!BoundAssumption
    <3>. HIDE DEF S
    <3>3. a \in HubPump /\ a.pc = hPump[p].pc /\ a.inbox = hPump[p].inbox
      <4>1. hPump[p] \in HubPump
        BY <1>2
      <4>2. S \in SUBSET Sockets
        BY <3>2
      <4>. QED
        BY <4>1, <4>2, PumpSet, Zenon
    <3>. QED
      BY <3>1, <3>2, <3>3
  <2>. QED
    BY <2>1, <2>2, <2>3
<1>4. PICK d \in HubPump : /\ hPump' = [hPump EXCEPT ![p] = d] /\ d.inbox <= hPump[p].inbox
                           /\ d.pc = "live" <=> hPump[p].pc = "live"
  BY <1>3
<1>5. /\ hPump' \in [Hub!Subscriptions -> HubPump]
      /\ hPump'[p] = d /\ \A sc \in Hub!Subscriptions \ {p} : hPump'[sc] = hPump[sc]
  BY <1>2, <1>4
<1>6. d.inbox <= hPublished
  BY <1>2, <1>4 DEF HubPump
<1>7. hFrames' \in [Hub!Subscriptions -> 0..BufferSize]
  <2>1. CASE UNCHANGED hFrames
    BY <2>1 DEF HubInv, HubTyped
  <2>2. ASSUME NEW sc, hFrames' = [hFrames EXCEPT ![sc] = IF @ < BufferSize THEN @ + 1 ELSE @]
        PROVE  hFrames' \in [Hub!Subscriptions -> 0..BufferSize]
    <3>1. hFrames \in [Hub!Subscriptions -> 0..BufferSize]
      BY DEF HubInv, HubTyped
    <3>2. sc \in Hub!Subscriptions =>
            (IF hFrames[sc] < BufferSize THEN hFrames[sc] + 1 ELSE hFrames[sc]) \in 0..BufferSize
      BY <3>1 DEF Hub!BoundAssumption
    <3>. QED
      BY <2>2, <3>1, <3>2
  <2>. QED
    BY <2>1, <2>2 DEF Hub!PumpCopies, Hub!PumpEnds, Hub!PumpSends
<1>8. \A t \in Sockets : Listens(t)'
  BY <1>1 DEF HubInv, Listens
<1>. QED
  BY <1>1, <1>2, <1>4, <1>5, <1>6, <1>7, <1>8, ListsStay DEF HubInv, HubTyped

LEMMA PublishStep ==
  ASSUME Hub!BoundAssumption, HubInv, NEW c \in Hub!Channels, Hub!Publish(c)
  PROVE  HubInv'
<1>1. /\ UNCHANGED <<hSubs, hPubsubs, hChan, hFrames, hForwarding, hSocket, hGone, hClosed, hStuck, hPanicked>>
      /\ hPublished' = hPublished + 1 /\ hPublished' \in 0..MaxFrames
  BY DEF Hub!Publish, Hub!hub, HubInv, HubTyped, Hub!BoundAssumption
<1>2. ASSUME NEW sc \in Hub!Subscriptions
      PROVE  /\ hPump'[sc] \in HubPump /\ hPump'[sc].pc = hPump[sc].pc
             /\ hPump'[sc].inbox <= hPublished'
  <2>. DEFINE n == hPump[sc].inbox + 1  a == [hPump[sc] EXCEPT !.inbox = n]
  <2>1. hPump'[sc] = a \/ hPump'[sc] = hPump[sc]
    BY DEF Hub!Publish
  <2>2. hPump[sc] \in HubPump /\ hPump[sc].inbox <= hPublished /\ hPublished \in Nat
    BY DEF HubInv, HubTyped, Listed
  <2>3. n \in 0..MaxFrames /\ n <= hPublished' /\ hPump[sc].inbox <= hPublished'
    BY <1>1, <2>2 DEF HubPump, Hub!BoundAssumption
  <2>. HIDE DEF n
  <2>4. a \in HubPump /\ a.pc = hPump[sc].pc /\ a.inbox = n
    <3>1. hPump[sc] \in HubPump
      BY <2>2
    <3>2. n \in 0..MaxFrames
      BY <2>3
    <3>. QED
      BY <3>1, <3>2 DEF HubPump
  <2>. QED
    BY <2>1, <2>2, <2>3, <2>4
<1>3. hPump' \in [Hub!Subscriptions -> HubPump]
  BY <1>2 DEF Hub!Publish
<1>4. \A t \in Sockets : Listens(t)'
  BY <1>1 DEF HubInv, Listens
<1>. QED
  BY <1>1, <1>2, <1>3, <1>4, ListsStay DEF HubInv, HubTyped

LEMMA ForwardStep ==
  ASSUME Hub!BoundAssumption, HubInv, NEW p \in Hub!Subscriptions, Hub!Forward(p)
  PROVE  HubInv'
<1>1. /\ UNCHANGED <<hSubs, hPubsubs, hChan, hPump, hGone, hClosed, hStuck, hPanicked, hPublished>>
      /\ hForwarding' \subseteq Hub!Subscriptions
      /\ hFrames \in [Hub!Subscriptions -> 0..BufferSize] /\ hSocket \in [Sockets -> HubSocket]
      /\ p[1] \in Sockets
  BY SubscriptionPair DEF Hub!Forward, Hub!hub, HubInv, HubTyped
<1>. DEFINE s == p[1]
            n == IF hSocket[s].out < OutSize THEN hSocket[s].out + 1 ELSE hSocket[s].out
            a == [hSocket[s] EXCEPT !.out = n]
<1>2. hFrames' \in [Hub!Subscriptions -> 0..BufferSize]
  <2>1. CASE UNCHANGED hFrames
    BY <1>1, <2>1
  <2>2. CASE hFrames[p] > 0 /\ hFrames' = [hFrames EXCEPT ![p] = hFrames[p] - 1]
    <3>1. hFrames[p] - 1 \in 0..BufferSize
      BY <1>1, <2>2 DEF Hub!BoundAssumption
    <3>. QED
      BY <1>1, <2>2, <3>1
  <2>. QED
    BY <2>1, <2>2 DEF Hub!Forward
<1>3. hSocket' = hSocket \/ hSocket' = [hSocket EXCEPT ![s] = a]
  BY DEF Hub!Forward
<1>4. a \in HubSocket /\ a.todo = hSocket[s].todo
  <2>1. n \in 0..OutSize /\ hSocket[s] \in HubSocket
    BY <1>1 DEF HubSocket, Hub!BoundAssumption
  <2>. HIDE DEF n
  <2>. QED
    BY <2>1, SocketSet
<1>. HIDE DEF a
<1>5. hSocket' \in [Sockets -> HubSocket] /\ \A t \in Sockets : hSocket'[t].todo = hSocket[t].todo
  BY <1>1, <1>3, <1>4
<1>6. \A t \in Sockets : Listens(t)'
  BY <1>1, <1>5 DEF HubInv, Listens
<1>7. \A sc \in Hub!Subscriptions : hPump'[sc].inbox <= hPublished'
  BY <1>1 DEF HubInv, Listed
<1>. QED
  BY <1>1, <1>2, <1>5, <1>6, <1>7, ListsStay DEF HubInv, HubTyped


\* The first subscriber of a channel starts its pump, under its own name.
LEMMA SubscribeStep ==
  ASSUME Hub!NoneAssumption, HubInv, NEW s \in Sockets, Hub!Subscribe(s)
  PROVE  HubInv'
<1>. DEFINE q == hSocket[s].todo
            c == Head(q)  sc == <<s, c>>
            a == [hPump[sc] EXCEPT !.pc = "live"]
            d == [hSocket[s] EXCEPT !.todo = Tail(q)]
            o == IF hPubsubs[c] = None THEN s ELSE hPubsubs[c]
            S == hSubs[c] \cup {s}
<1>1. /\ hSubs' = [hSubs EXCEPT ![c] = S] /\ hChan' = [hChan EXCEPT ![sc] = "open"]
      /\ hForwarding' = hForwarding \cup {sc} /\ hPubsubs' = [hPubsubs EXCEPT ![c] = o]
      /\ hPump' = IF hPubsubs[c] = None THEN [hPump EXCEPT ![sc] = a] ELSE hPump
      /\ hSocket' = [hSocket EXCEPT ![s] = d]
      /\ UNCHANGED <<hFrames, hGone, hClosed, hStuck, hPanicked, hPublished>> /\ q # <<>>
  BY DEF Hub!Subscribe
<1>2. /\ HubTyped /\ hSocket[s] \in HubSocket /\ q \in Seq(Hub!Channels) /\ Listens(s)
      /\ s # None
  BY DEF HubInv, HubTyped, HubSocket, Hub!NoneAssumption
<1>3. sc \in Hub!Subscriptions /\ c \in Hub!Channels /\ Tail(q) \in Seq(Hub!Channels)
      /\ \A i \in DOMAIN Tail(q) : <<s, Tail(q)[i]>> \in Hub!Subscriptions
  <2>1. c = q[1] /\ 1 \in DOMAIN q
    BY <1>1, <1>2
  <2>2. \A i \in DOMAIN Tail(q) : i + 1 \in DOMAIN q /\ Tail(q)[i] = q[i + 1]
    BY <1>1, <1>2
  <2>. QED
    <3>1. \A i \in DOMAIN q : <<s, q[i]>> \in Hub!Subscriptions
      BY <1>2 DEF Listens
    <3>2. c \in Hub!Channels /\ Tail(q) \in Seq(Hub!Channels)
      BY <1>1, <1>2
    <3>3. sc \in Hub!Subscriptions
      BY <2>1, <3>1
    <3>. HIDE DEF q, c
    <3>4. \A i \in DOMAIN Tail(q) : <<s, Tail(q)[i]>> \in Hub!Subscriptions
      BY <2>2, <3>1
    <3>. QED
      BY <3>2, <3>3, <3>4
<1>4. a \in HubPump /\ a.pc = "live" /\ a.inbox = hPump[sc].inbox
  <2>1. hPump[sc] \in HubPump
    BY <1>3 DEF HubInv, HubTyped
  <2>. QED
    BY <2>1, PumpSet
<1>5. d \in HubSocket /\ d.todo = Tail(q)
  BY <1>2, <1>3, SocketSet
<1>. HIDE DEF a, d, q, c
<1>6. /\ hSubs' \in [Hub!Channels -> SUBSET Sockets] /\ hSubs'[c] = S
      /\ \A x \in Hub!Channels \ {c} : hSubs'[x] = hSubs[x]
      /\ hPubsubs' \in [Hub!Channels -> Sockets \cup {None}] /\ hPubsubs'[c] = o
      /\ \A x \in Hub!Channels \ {c} : hPubsubs'[x] = hPubsubs[x]
  BY <1>1, <1>2, <1>3 DEF HubTyped
<1>7. /\ hChan' \in [Hub!Subscriptions -> {"none", "open", "closed"}] /\ hChan'[sc] = "open"
      /\ \A x \in Hub!Subscriptions \ {sc} : hChan'[x] = hChan[x]
      /\ hPump' \in [Hub!Subscriptions -> HubPump]
      /\ hPump'[sc] = IF hPubsubs[c] = None THEN a ELSE hPump[sc]
      /\ \A x \in Hub!Subscriptions \ {sc} : hPump'[x] = hPump[x]
  BY <1>1, <1>2, <1>3, <1>4 DEF HubTyped
<1>8. /\ hSocket' \in [Sockets -> HubSocket] /\ hSocket'[s] = d
      /\ \A x \in Sockets \ {s} : hSocket'[x] = hSocket[x]
  BY <1>1, <1>2, <1>5 DEF HubTyped
<1>9. HubTyped'
  BY <1>1, <1>2, <1>3, <1>6, <1>7, <1>8 DEF HubTyped
<1>10. \A x \in Sockets : Listens(x)'
  BY <1>3, <1>5, <1>8 DEF HubInv, Listens
<1>11. /\ hPubsubs[c] # None => hPubsubs[c] \in Sockets /\ <<hPubsubs[c], c>> \in Hub!Subscriptions
       /\ hPubsubs[c] = None => hSubs[c] = {}
  BY <1>2, <1>3 DEF HubInv, HubTyped, Pumped
<1>12. ASSUME NEW x \in Hub!Subscriptions PROVE Listed(x)'
  <2>1. Listed(x) /\ x[1] \in Sockets /\ x[2] \in Hub!Channels /\ x = <<x[1], x[2]>>
    BY SubscriptionPair DEF HubInv
  <2>2. CASE x = sc
    BY <1>1, <1>2, <1>4, <1>6, <1>7, <2>1, <2>2 DEF Listed
  <2>3. CASE x # sc /\ x[2] = c
    <3>1. x[1] # s
      BY <2>1, <2>3
    <3>2. x[1] # None
      BY <2>1 DEF Hub!NoneAssumption
    <3>3. hPump'[x] = hPump[x] /\ hChan'[x] = hChan[x] /\ hPublished' = hPublished
      BY <1>1, <1>7, <2>3
    <3>4. hPubsubs'[c] = x[1] <=> hPubsubs[c] = x[1]
      BY <1>6, <3>1, <3>2
    <3>5. x[1] \in hSubs'[c] <=> x[1] \in hSubs[c]
      BY <1>6, <3>1
    <3>. QED
      BY <2>1, <2>3, <3>3, <3>4, <3>5 DEF Listed
  <2>4. CASE x[2] # c
    <3>1. hPump'[x] = hPump[x] /\ hChan'[x] = hChan[x] /\ hPublished' = hPublished
      BY <1>1, <1>7, <2>4
    <3>. QED
      BY <1>6, <2>1, <2>4, <3>1 DEF Listed
  <2>. QED
    BY <2>2, <2>3, <2>4
<1>13. ASSUME NEW x \in Hub!Channels PROVE Pumped(x)'
  <2>1. CASE x = c
    BY <1>2, <1>3, <1>6, <1>11, <2>1 DEF Pumped
  <2>2. CASE x # c
    BY <1>6, <2>2 DEF HubInv, Pumped
  <2>. QED
    BY <2>1, <2>2
<1>. QED
  BY <1>9, <1>10, <1>12, <1>13 DEF HubInv

\* The last subscriber of a channel cancels its pump; no channel is closed twice.
LEMMA UnsubscribeStep ==
  ASSUME Hub!NoneAssumption, HubInv, NEW sc \in Hub!Subscriptions, Hub!unsubscribe(sc[1], sc[2])
  PROVE  HubInv'
<1>. DEFINE s == sc[1]  c == sc[2]  o == <<hPubsubs[c], c>>
            a == [hPump[o] EXCEPT !.pc = "cancelled"]
            S == hSubs[c] \ {s}
<1>1. s \in Sockets /\ c \in Hub!Channels /\ sc = <<s, c>> /\ s \in hSubs[c]
  BY SubscriptionPair DEF Hub!unsubscribe, Hub!Removable
<1>2. hChan[sc] = "open"
  BY <1>1 DEF HubInv, Listed
<1>3. /\ hSubs' = [hSubs EXCEPT ![c] = S] /\ hChan' = [hChan EXCEPT ![sc] = "closed"]
      /\ UNCHANGED <<hFrames, hForwarding, hSocket, hGone, hClosed, hStuck, hPublished, hPanicked>>
  BY <1>1, <1>2 DEF Hub!unsubscribe, Hub!Closes
<1>4. /\ HubTyped
      /\ hPubsubs[c] # None => hPubsubs[c] \in Sockets /\ o \in Hub!Subscriptions
      /\ hPubsubs[c] # None
  BY <1>1 DEF HubInv, HubTyped, Pumped
<1>5. a \in HubPump /\ a.pc = "cancelled" /\ a.inbox = hPump[o].inbox
  <2>1. hPump[o] \in HubPump
    BY <1>4 DEF HubTyped
  <2>. QED
    BY <2>1, PumpSet
<1>. HIDE DEF a
<1>6. /\ hSubs' \in [Hub!Channels -> SUBSET Sockets] /\ hSubs'[c] = S
      /\ \A x \in Hub!Channels \ {c} : hSubs'[x] = hSubs[x]
  BY <1>1, <1>3, <1>4 DEF HubTyped
<1>7. /\ hChan' \in [Hub!Subscriptions -> {"none", "open", "closed"}] /\ hChan'[sc] = "closed"
      /\ \A x \in Hub!Subscriptions \ {sc} : hChan'[x] = hChan[x]
  BY <1>3, <1>4 DEF HubTyped
<1>8. IF S = {} THEN hPubsubs' = [hPubsubs EXCEPT ![c] = None] /\ hPump' = [hPump EXCEPT ![o] = a]
                ELSE UNCHANGED <<hPubsubs, hPump>>
  BY <1>4, <1>6 DEF Hub!unsubscribe, a
<1>9. /\ hPubsubs' \in [Hub!Channels -> Sockets \cup {None}]
      /\ hPubsubs'[c] = IF S = {} THEN None ELSE hPubsubs[c]
      /\ \A x \in Hub!Channels \ {c} : hPubsubs'[x] = hPubsubs[x]
      /\ hPump' \in [Hub!Subscriptions -> HubPump]
      /\ hPump'[o] = IF S = {} THEN a ELSE hPump[o]
      /\ \A x \in Hub!Subscriptions \ {o} : hPump'[x] = hPump[x]
  BY <1>1, <1>4, <1>5, <1>8 DEF HubTyped
<1>10. HubTyped'
  BY <1>3, <1>4, <1>6, <1>7, <1>9 DEF HubTyped
<1>11. \A x \in Sockets : Listens(x)'
  BY <1>3 DEF HubInv, Listens
<1>12. ASSUME NEW x \in Hub!Subscriptions PROVE Listed(x)'
  <2>1. Listed(x) /\ x[1] \in Sockets /\ x[2] \in Hub!Channels /\ x = <<x[1], x[2]>> /\ x[1] # None
    BY SubscriptionPair DEF HubInv, Hub!NoneAssumption
  <2>2. hChan'[x] = "open" <=> x[1] \in hSubs'[x[2]]
    <3>1. CASE x = sc
      BY <1>6, <1>7, <3>1
    <3>2. CASE x # sc /\ x[2] = c
      <4>1. x[1] # s
        BY <1>1, <2>1, <3>2
      <4>. QED
        BY <1>6, <1>7, <2>1, <3>2, <4>1 DEF Listed
    <3>3. CASE x[2] # c
      BY <1>6, <1>7, <2>1, <3>3 DEF Listed
    <3>. QED
      BY <3>1, <3>2, <3>3
  <2>3. hPump'[x].pc = "live" <=> hPubsubs'[x[2]] = x[1]
    <3>1. CASE x[2] # c
      <4>1. x # o
        BY <3>1
      <4>. QED
        BY <1>9, <2>1, <3>1, <4>1 DEF Listed
    <3>2. CASE x[2] = c /\ x # o
      <4>1. hPubsubs[c] # x[1]
        BY <2>1, <3>2
      <4>2. hPump'[x] = hPump[x]
        BY <1>9, <3>2
      <4>. QED
        BY <1>9, <2>1, <3>2, <4>1, <4>2 DEF Listed
    <3>3. CASE x[2] = c /\ x = o
      <4>1. hPubsubs[c] = x[1]
        BY <2>1, <3>3
      <4>. QED
        BY <1>5, <1>9, <2>1, <3>3, <4>1 DEF Listed
    <3>. QED
      BY <3>1, <3>2, <3>3
  <2>4. hPump'[x].inbox <= hPublished'
    <3>1. hPump'[x].inbox = hPump[x].inbox
      BY <1>5, <1>9
    <3>. QED
      BY <1>3, <2>1, <3>1 DEF Listed
  <2>. QED
    BY <2>2, <2>3, <2>4 DEF Listed
<1>13. ASSUME NEW x \in Hub!Channels PROVE Pumped(x)'
  <2>1. CASE x = c
    BY <1>4, <1>6, <1>9, <2>1 DEF Pumped
  <2>2. CASE x # c
    BY <1>6, <1>9, <2>2 DEF HubInv, Pumped
  <2>. QED
    BY <2>1, <2>2
<1>. QED
  BY <1>10, <1>11, <1>12, <1>13 DEF HubInv

\* Close closes what is listed, and cancels every pump.
LEMMA CloseStep ==
  ASSUME Hub!NoneAssumption, HubInv, Hub!Close
  PROVE  HubInv'
<1>1. /\ UNCHANGED <<hFrames, hForwarding, hSocket, hGone, hStuck, hPanicked, hPublished>>
      /\ hClosed' = TRUE
      /\ hChan' = [sc \in Hub!Subscriptions |-> IF sc[1] \in hSubs[sc[2]] THEN "closed" ELSE hChan[sc]]
      /\ hSubs' = [c \in Hub!Channels |-> {}] /\ hPubsubs' = [c \in Hub!Channels |-> None]
  BY DEF Hub!Close
<1>2. HubTyped /\ \A sc \in Hub!Subscriptions : Listed(sc)
  BY DEF HubInv
<1>3. ASSUME NEW sc \in Hub!Subscriptions
      PROVE  hPump'[sc] \in HubPump /\ hPump'[sc].pc # "live" /\ hPump'[sc].inbox = hPump[sc].inbox
  <2>. DEFINE a == [hPump[sc] EXCEPT !.pc = "cancelled"]
  <2>1. hPump[sc] \in HubPump
    BY <1>2 DEF HubTyped
  <2>2. a \in HubPump /\ a.pc = "cancelled" /\ a.inbox = hPump[sc].inbox
    BY <2>1, PumpSet
  <2>3. hPump'[sc] = IF hPump[sc].pc = "live" THEN a ELSE hPump[sc]
    BY DEF Hub!Close
  <2>. HIDE DEF a
  <2>. QED
    BY <2>1, <2>2, <2>3
<1>4. hPump' \in [Hub!Subscriptions -> HubPump]
  BY <1>3 DEF Hub!Close
<1>5. hChan' \in [Hub!Subscriptions -> {"none", "open", "closed"}]
  BY <1>1, <1>2 DEF HubTyped
<1>6. HubTyped'
  BY <1>1, <1>2, <1>4, <1>5 DEF HubTyped
<1>7. ASSUME NEW sc \in Hub!Subscriptions PROVE Listed(sc)'
  <2>1. sc[1] \in Sockets /\ sc[2] \in Hub!Channels /\ sc[1] # None
    BY SubscriptionPair DEF Hub!NoneAssumption
  <2>2. hChan'[sc] # "open" /\ hSubs'[sc[2]] = {} /\ hPubsubs'[sc[2]] = None
    BY <1>1, <1>2, <2>1 DEF Listed
  <2>3. hPump'[sc].inbox <= hPublished'
    BY <1>1, <1>2, <1>3 DEF Listed
  <2>. QED
    BY <1>3, <2>1, <2>2, <2>3 DEF Listed
<1>8. \A c \in Hub!Channels : Pumped(c)'
  BY <1>1 DEF Pumped
<1>9. \A s \in Sockets : Listens(s)'
  BY <1>1 DEF HubInv, Listens
<1>. QED
  BY <1>6, <1>7, <1>8, <1>9 DEF HubInv

\* No channel is closed twice and every list has its pump, in every run.
LEMMA HubSound ==
  ASSUME Hub!NoneAssumption, Hub!ChannelAssumption, Hub!BoundAssumption
  PROVE  Hub!Spec => [](Hub!TypeOK /\ Hub!HubSafe)
<1>1. Hub!Init => HubInv
  BY HubInit
<1>2. HubInv /\ [Hub!Next]_Hub!vars => HubInv'
  <2>. SUFFICES ASSUME HubInv, [Hub!Next]_Hub!vars PROVE HubInv'
    OBVIOUS
  <2>1. CASE UNCHANGED Hub!vars
    BY <2>1 DEF HubInv, HubTyped, Listens, Listed, Pumped, Hub!vars
  <2>2. ASSUME NEW s \in Sockets, Hub!Accept(s) \/ Hub!Serve(s) \/ Hub!Leave(s) PROVE HubInv'
    BY <2>2, SocketStep, SubscribeStep DEF Hub!Serve
  <2>3. ASSUME NEW sc \in Hub!Subscriptions,
               Hub!Run(sc) \/ Hub!Forward(sc) \/ Hub!unsubscribe(sc[1], sc[2])
        PROVE  HubInv'
    BY <2>3, PumpStep, ForwardStep, UnsubscribeStep DEF Hub!Run
  <2>. QED
    BY <2>1, <2>2, <2>3, PublishStep, CloseStep DEF Hub!Next
<1>3. HubInv => Hub!TypeOK /\ Hub!HubSafe
  BY HubShown
<1>. QED
  BY <1>1, <1>2, <1>3, PTL DEF Hub!Spec

-----------------------------------------------------------------------------
(***************************************************************************)
(* SLA ticks: a tick has read an event before the deadline was met, holds  *)
(* it once, and is done with it when it has raised the ticket; so what a   *)
(* ticket was raised too late is at most what has met deadlines and no     *)
(* longer waits in a tick.                                                 *)
(***************************************************************************)
Waits(s, t, k) == \E i \in DOMAIN sTodo[s] :
  sTodo[s][i].ticket = t /\ sTodo[s][i].kind = k /\ (i = 1 => sPc[s] # "publish")

Spent(t) == {sk \in Schedulers \X Sla!Kinds : sk[2] \in sMet[t] /\ ~Waits(sk[1], t, sk[2])}

SlaTyped ==
  /\ sNow \in 0..MaxTime /\ sFaults \in 0..MaxFaults
  /\ sPriority \in [SlaTickets -> Sla!Priorities]
  /\ sMet \in [SlaTickets -> SUBSET Sla!Kinds]
  /\ sTodo \in [Schedulers -> Seq(Sla!Events)]
  /\ sPc \in [Schedulers -> {"idle", "handle", "publish"}]
  /\ sEmitted \subseteq SlaTickets \X Sla!Kinds \X {"at_risk", "breached"}
  /\ sOpen \subseteq SlaTickets
  /\ sLate \in [SlaTickets -> Nat]

TickOf(s) ==
  /\ sPc[s] = "idle" <=> sTodo[s] = <<>>
  /\ \A i, j \in DOMAIN sTodo[s] :
       sTodo[s][i].ticket = sTodo[s][j].ticket /\ sTodo[s][i].kind = sTodo[s][j].kind => i = j

SlaInv ==
  /\ SlaTyped
  /\ \A s \in Schedulers : TickOf(s)
  /\ \A t \in SlaTickets : sLate[t] <= Cardinality(Spent(t))

LEMMA SlaSets ==
  /\ \A S : Sla!Cardinality(S) = Cardinality(S)
  /\ \A S : Sla!IsFiniteSet(S) <=> IsFiniteSet(S)
<1>1. \A S : Sla!Cardinality(S) = Cardinality(S)
  BY DEF Sla!Cardinality, Cardinality
<1>2. \A S : Sla!IsFiniteSet(S) <=> IsFiniteSet(S)
  BY DEF Sla!IsFiniteSet, IsFiniteSet
<1>. QED
  BY <1>1, <1>2

LEMMA KindsFinite == IsFiniteSet(Sla!Kinds) /\ Cardinality(Sla!Kinds) \in Nat
<1>1. IsFiniteSet({}) /\ IsFiniteSet({} \cup {"first_response"})
  BY FS_EmptySet, FS_AddElement
<1>2. IsFiniteSet(({} \cup {"first_response"}) \cup {"resolution"})
  BY <1>1, FS_AddElement
<1>3. Sla!Kinds = ({} \cup {"first_response"}) \cup {"resolution"}
  BY DEF Sla!Kinds
<1>. QED
  BY <1>2, <1>3, FS_CardinalityType

\* Sets of pairs of a scheduler and a kind can be counted.
LEMMA Pairs ==
  ASSUME Sla!FiniteAssumption, NEW B, B \subseteq Schedulers \X Sla!Kinds
  PROVE  /\ IsFiniteSet(B) /\ Cardinality(B) \in Nat
         /\ Cardinality(B) <= Cardinality(Schedulers) * Cardinality(Sla!Kinds)
         /\ \A A \in SUBSET B : Cardinality(A) \in Nat /\ Cardinality(A) <= Cardinality(B)
<1>1. IsFiniteSet(Schedulers)
  BY SlaSets DEF Sla!FiniteAssumption
<1>2. /\ IsFiniteSet(Schedulers \X Sla!Kinds)
      /\ Cardinality(Schedulers \X Sla!Kinds) = Cardinality(Schedulers) * Cardinality(Sla!Kinds)
  BY <1>1, KindsFinite, FS_Product
<1>3. IsFiniteSet(B) /\ Cardinality(B) <= Cardinality(Schedulers \X Sla!Kinds)
  BY <1>2, FS_Subset
<1>4. ASSUME NEW A \in SUBSET B PROVE Cardinality(A) \in Nat /\ Cardinality(A) <= Cardinality(B)
  BY <1>3, FS_Subset, FS_CardinalityType
<1>. QED
  BY <1>2, <1>3, <1>4, FS_CardinalityType

LEMMA SlaInitial ==
  ASSUME Sla!FiniteAssumption, Sla!BoundAssumption, Sla!Init
  PROVE  SlaInv
<1>1. SlaTyped
  BY DEF Sla!Init, SlaTyped, Sla!BoundAssumption
<1>2. \A s \in Schedulers : TickOf(s)
  BY DEF Sla!Init, TickOf
<1>3. ASSUME NEW t \in SlaTickets PROVE sLate[t] <= Cardinality(Spent(t))
  <2>1. Spent(t) \subseteq Schedulers \X Sla!Kinds
    BY DEF Spent
  <2>2. Cardinality(Spent(t)) \in Nat
    BY <2>1, Pairs
  <2>. QED
    BY <2>2 DEF Sla!Init
<1>. QED
  BY <1>1, <1>2, <1>3 DEF SlaInv

LEMMA SlaShown ==
  ASSUME Sla!FiniteAssumption, SlaInv
  PROVE  Sla!TypeOK /\ Sla!CalmStaysCalm
<1>1. Sla!TypeOK
  BY DEF SlaInv, SlaTyped, TickOf, Sla!TypeOK
<1>2. ASSUME NEW t \in SlaTickets
      PROVE  sLate[t] <= Cardinality(Schedulers) * Cardinality(Sla!Kinds)
  <2>1. Spent(t) \subseteq Schedulers \X Sla!Kinds /\ Spent(t) \subseteq Spent(t)
    BY DEF Spent
  <2>2. /\ Cardinality(Spent(t)) \in Nat
        /\ Cardinality(Spent(t)) <= Cardinality(Schedulers) * Cardinality(Sla!Kinds)
    BY <2>1, Pairs
  <2>3. sLate[t] \in Nat /\ sLate[t] <= Cardinality(Spent(t))
    BY DEF SlaInv, SlaTyped
  <2>4. Cardinality(Schedulers) * Cardinality(Sla!Kinds) \in Nat
    <3>1. Cardinality(Schedulers) \in Nat
      BY SlaSets, FS_CardinalityType DEF Sla!FiniteAssumption
    <3>. QED
      BY <3>1, KindsFinite
  <2>. DEFINE m == Cardinality(Schedulers) * Cardinality(Sla!Kinds)  n == Cardinality(Spent(t))
  <2>. HIDE DEF m, n
  <2>5. n \in Nat /\ n <= m /\ m \in Nat /\ sLate[t] \in Nat /\ sLate[t] <= n
    BY <2>2, <2>3, <2>4 DEF m, n
  <2>6. sLate[t] <= m
    BY <2>5
  <2>. QED
    BY <2>6 DEF m
<1>3. Sla!CalmStaysCalm
  BY <1>2, SlaSets DEF Sla!CalmStaysCalm
<1>. QED
  BY <1>1, <1>3

\* A step that raises nothing too late, and after which no tick waits for more.
LEMMA SpentGrows ==
  ASSUME Sla!FiniteAssumption, SlaInv, SlaTyped', \A s \in Schedulers : TickOf(s)',
         UNCHANGED sLate, \A t \in SlaTickets : sMet[t] \subseteq sMet'[t],
         \A s \in Schedulers, t \in SlaTickets, k \in Sla!Kinds :
            k \in sMet[t] /\ ~Waits(s, t, k) => ~Waits(s, t, k)'
  PROVE  SlaInv'
<1>1. ASSUME NEW t \in SlaTickets PROVE sLate'[t] <= Cardinality(Spent(t)')
  <2>1. Spent(t) \subseteq Spent(t)' /\ Spent(t)' \subseteq Schedulers \X Sla!Kinds
    BY DEF Spent
  <2>2. /\ Cardinality(Spent(t)) \in Nat /\ Cardinality(Spent(t)') \in Nat
        /\ Cardinality(Spent(t)) <= Cardinality(Spent(t)')
    BY <2>1, Pairs
  <2>3. sLate'[t] \in Nat /\ sLate'[t] <= Cardinality(Spent(t))
    BY DEF SlaInv, SlaTyped
  <2>. QED
    BY <2>2, <2>3
<1>. QED
  BY <1>1 DEF SlaInv


\* The clock and the agents.
LEMMA AgentStep ==
  ASSUME Sla!FiniteAssumption, Sla!BoundAssumption, SlaInv,
         \/ Sla!Elapse
         \/ \E t \in SlaTickets : Sla!Answer(t) \/ Sla!Resolve(t) \/ Sla!Reopen(t)
  PROVE  SlaInv'
<1>1. SlaTyped' /\ UNCHANGED <<sTodo, sPc, sLate>>
  <2>1. CASE Sla!Elapse
    BY <2>1 DEF SlaInv, SlaTyped, Sla!Elapse, Sla!BoundAssumption
  <2>2. ASSUME NEW t \in SlaTickets, Sla!Answer(t) \/ Sla!Resolve(t) \/ Sla!Reopen(t)
        PROVE  SlaTyped' /\ UNCHANGED <<sTodo, sPc, sLate>>
    <3>1. /\ UNCHANGED <<sNow, sPriority, sTodo, sPc, sEmitted, sLate, sFaults>>
          /\ sOpen' \in {sOpen, sOpen \ {t}, sOpen \cup {t}}
      BY <2>2 DEF Sla!Answer, Sla!Resolve, Sla!Reopen
    <3>2. \E m \in SUBSET Sla!Kinds : sMet' = [sMet EXCEPT ![t] = sMet[t] \cup m]
      <4>1. CASE Sla!Answer(t)
        BY <4>1 DEF Sla!Answer, Sla!Kinds
      <4>2. CASE Sla!Resolve(t)
        BY <4>2 DEF Sla!Resolve, Sla!Kinds
      <4>3. CASE Sla!Reopen(t)
        <5>1. sMet' = [sMet EXCEPT ![t] = sMet[t] \cup {}]
          BY <4>3 DEF Sla!Reopen, SlaInv, SlaTyped
        <5>. QED
          BY <5>1
      <4>. QED
        BY <2>2, <4>1, <4>2, <4>3
    <3>3. sMet' \in [SlaTickets -> SUBSET Sla!Kinds]
      BY <3>2 DEF SlaInv, SlaTyped
    <3>4. sOpen' \subseteq SlaTickets
      BY <3>1 DEF SlaInv, SlaTyped
    <3>. QED
      BY <3>1, <3>3, <3>4 DEF SlaInv, SlaTyped
  <2>. QED
    BY <2>1, <2>2
<1>2. \A t \in SlaTickets : sMet[t] \subseteq sMet'[t]
  BY DEF SlaInv, SlaTyped, Sla!Elapse, Sla!Answer, Sla!Resolve, Sla!Reopen
<1>3. \A s \in Schedulers : TickOf(s)'
  BY <1>1 DEF SlaInv, TickOf
<1>4. \A s \in Schedulers, t \in SlaTickets, k \in Sla!Kinds : Waits(s, t, k)' <=> Waits(s, t, k)
  BY <1>1 DEF Waits
<1>. QED
  BY <1>1, <1>2, <1>3, <1>4, SpentGrows

LEMMA EventAtHand ==
  ASSUME SlaInv, NEW s \in Schedulers, sPc[s] \in {"handle", "publish"}
  PROVE  /\ sTodo[s] \in Seq(Sla!Events) /\ sTodo[s] # <<>> /\ 1 \in DOMAIN sTodo[s]
         /\ Head(sTodo[s]) = sTodo[s][1] /\ Head(sTodo[s]) \in Sla!Events
         /\ Head(sTodo[s]).ticket \in SlaTickets /\ Head(sTodo[s]).kind \in Sla!Kinds
         /\ Head(sTodo[s]).risk \in {"at_risk", "breached"}
         /\ Tail(sTodo[s]) \in Seq(Sla!Events)
         /\ \A i \in DOMAIN Tail(sTodo[s]) :
              i + 1 \in DOMAIN sTodo[s] /\ i + 1 # 1 /\ Tail(sTodo[s])[i] = sTodo[s][i + 1]
<1>1. sTodo[s] \in Seq(Sla!Events) /\ sTodo[s] # <<>>
  BY DEF SlaInv, SlaTyped, TickOf
<1>2. /\ Head(sTodo[s]) = sTodo[s][1] /\ Head(sTodo[s]) \in Sla!Events /\ 1 \in DOMAIN sTodo[s]
      /\ Tail(sTodo[s]) \in Seq(Sla!Events)
  BY <1>1
<1>3. \A i \in DOMAIN Tail(sTodo[s]) :
        i + 1 \in DOMAIN sTodo[s] /\ i + 1 # 1 /\ Tail(sTodo[s])[i] = sTodo[s][i + 1]
  BY <1>1
<1>4. \A e \in Sla!Events : e.ticket \in SlaTickets /\ e.kind \in Sla!Kinds /\ e.risk \in {"at_risk", "breached"}
  BY DEF Sla!Events
<1>. QED
  BY <1>1, <1>2, <1>3, <1>4

\* An event leaves the tick, published or not.
LEMMA DropStep ==
  ASSUME Sla!FiniteAssumption, Sla!BoundAssumption, SlaInv, NEW s \in Schedulers,
         Sla!publish(s) \/ Sla!HandleFails(s)
  PROVE  SlaInv'
<1>1. /\ sPc[s] \in {"handle", "publish"} /\ UNCHANGED <<sNow, sPriority, sOpen, sMet, sLate>>
      /\ sTodo' = [sTodo EXCEPT ![s] = Tail(sTodo[s])]
      /\ sPc' = [sPc EXCEPT ![s] = IF Tail(sTodo[s]) = <<>> THEN "idle" ELSE "handle"]
  BY DEF Sla!publish, Sla!HandleFails, Sla!After
<1>2. sFaults' \in 0..MaxFaults /\ sEmitted' \subseteq SlaTickets \X Sla!Kinds \X {"at_risk", "breached"}
  <2>1. /\ sEmitted \subseteq SlaTickets \X Sla!Kinds \X {"at_risk", "breached"}
        /\ sFaults \in 0..MaxFaults /\ MaxFaults \in Nat
    BY DEF SlaInv, SlaTyped, Sla!BoundAssumption
  <2>2. CASE Sla!publish(s)
    <3>1. PICK e : /\ e = Head(sTodo[s]) /\ e.ticket \in SlaTickets /\ e.kind \in Sla!Kinds
                   /\ e.risk \in {"at_risk", "breached"}
      BY <1>1, EventAtHand
    <3>2. sEmitted' = sEmitted \cup {<<e.ticket, e.kind, e.risk>>} /\ sFaults' = sFaults
      BY <2>2, <3>1 DEF Sla!publish
    <3>. QED
      BY <2>1, <3>1, <3>2
  <2>3. CASE Sla!HandleFails(s)
    BY <2>1, <2>3 DEF Sla!HandleFails, Sla!Fault
  <2>. QED
    BY <2>2, <2>3
<1>. DEFINE q == Tail(sTodo[s])  l == IF q = <<>> THEN "idle" ELSE "handle"
<1>3. q \in Seq(Sla!Events) /\ l \in {"idle", "handle"} /\ (l = "idle" <=> q = <<>>)
  BY <1>1, EventAtHand
<1>4. \A i \in DOMAIN q : i + 1 \in DOMAIN sTodo[s] /\ i + 1 # 1 /\ q[i] = sTodo[s][i + 1]
  BY <1>1, EventAtHand
<1>5. DOMAIN q \subseteq Int
  BY <1>3
<1>. HIDE DEF q, l
<1>6. /\ sTodo' \in [Schedulers -> Seq(Sla!Events)] /\ sTodo'[s] = q
      /\ sPc' \in [Schedulers -> {"idle", "handle", "publish"}] /\ sPc'[s] = l
      /\ \A r \in Schedulers \ {s} : sTodo'[r] = sTodo[r] /\ sPc'[r] = sPc[r]
  BY <1>1, <1>3 DEF SlaInv, SlaTyped, q, l
<1>7. SlaTyped'
  BY <1>1, <1>2, <1>6 DEF SlaInv, SlaTyped
<1>8. TickOf(s)'
  <2>1. ASSUME NEW i \in DOMAIN q, NEW j \in DOMAIN q, q[i].ticket = q[j].ticket, q[i].kind = q[j].kind
        PROVE  i = j
    <3>1. i + 1 = j + 1
      BY <1>4, <2>1 DEF SlaInv, TickOf
    <3>. QED
      BY <1>5, <3>1
  <2>. QED
    BY <1>3, <1>6, <2>1 DEF TickOf
<1>9. ASSUME NEW r \in Schedulers PROVE TickOf(r)'
  <2>1. CASE r = s
    BY <1>8, <2>1
  <2>2. CASE r # s
    BY <1>6, <2>2 DEF SlaInv, TickOf
  <2>. QED
    BY <2>1, <2>2
<1>10. ASSUME NEW r \in Schedulers, NEW t \in SlaTickets, NEW k \in Sla!Kinds, Waits(r, t, k)'
       PROVE  Waits(r, t, k)
  <2>1. CASE r = s
    BY <1>4, <1>6, <1>10, <2>1 DEF Waits
  <2>2. CASE r # s
    BY <1>6, <1>10, <2>2 DEF Waits
  <2>. QED
    BY <2>1, <2>2
<1>. QED
  BY <1>1, <1>7, <1>9, <1>10, SpentGrows

\* A tick reads what is at risk; nothing of it has been met.
LEMMA ScanStep ==
  ASSUME Sla!PolicyAssumption, Sla!FiniteAssumption, SlaInv, NEW s \in Schedulers, Sla!scanOnce(s)
  PROVE  SlaInv'
<1>1. /\ sPc[s] = "idle" /\ Sla!AtRisk # {} /\ UNCHANGED <<sNow, sPriority, sOpen, sMet, sEmitted, sLate, sFaults>>
      /\ sPc' = [sPc EXCEPT ![s] = "handle"]
  BY DEF Sla!scanOnce
<1>2. PICK q \in Sla!SetToSeqs(Sla!AtRisk) : sTodo' = [sTodo EXCEPT ![s] = q]
  BY DEF Sla!scanOnce
<1>3. ASSUME NEW e \in Sla!AtRisk
      PROVE  e \in Sla!Events /\ e.kind \notin sMet[e.ticket] /\ e = Sla!Event(e.ticket, e.kind)
  <2>1. PICK t \in sOpen, k \in Sla!Kinds : Sla!Risk(t, k) # "ok" /\ e = Sla!Event(t, k)
    BY DEF Sla!AtRisk, Sla!Found
  <2>2. t \in SlaTickets
    BY DEF SlaInv, SlaTyped
  <2>3. Sla!Risk(t, k) \in {"ok", "at_risk", "breached"} /\ (k \in sMet[t] => Sla!Risk(t, k) = "ok")
    BY Zenon DEF Sla!Risk
  <2>4. sPriority[t] \in Nat
    BY <2>2 DEF SlaInv, SlaTyped, Sla!PolicyAssumption
  <2>5. e.ticket = t /\ e.kind = k /\ e \in Sla!Events
    BY <2>1, <2>2, <2>3, <2>4 DEF Sla!Event, Sla!Events
  <2>. QED
    BY <2>1, <2>3, <2>5
<1>4. IsFiniteSet(Sla!AtRisk)
  <2>. DEFINE B == SlaTickets \X Sla!Kinds  A == {tk \in B : Sla!Event(tk[1], tk[2]) \in Sla!AtRisk}
              f == [tk \in A |-> Sla!Event(tk[1], tk[2])]
  <2>1. IsFiniteSet(B)
    BY SlaSets, KindsFinite, FS_Product DEF Sla!FiniteAssumption
  <2>2. IsFiniteSet(A)
    BY <2>1, FS_Subset
  <2>3. f \in Surjection(A, Sla!AtRisk)
    <3>1. f \in [A -> Sla!AtRisk]
      OBVIOUS
    <3>2. ASSUME NEW e \in Sla!AtRisk PROVE \E tk \in A : f[tk] = e
      <4>1. <<e.ticket, e.kind>> \in B
        BY <1>3 DEF Sla!Events
      <4>2. Sla!Event(e.ticket, e.kind) = e
        BY <1>3
      <4>3. <<e.ticket, e.kind>> \in A /\ f[<<e.ticket, e.kind>>] = e
        BY <4>1, <4>2
      <4>. QED
        BY <4>3
    <3>. QED
      BY <3>1, <3>2 DEF Surjection
  <2>. QED
    BY <2>2, <2>3, FS_Surjection
<1>5. /\ q \in Seq(Sla!Events) /\ q # <<>>
      /\ \A i \in DOMAIN q : q[i] \in Sla!AtRisk
      /\ \A i, j \in DOMAIN q : q[i] = q[j] => i = j
  <2>. DEFINE n == Cardinality(Sla!AtRisk)
  <2>1. n \in Nat /\ n # 0
    BY <1>1, <1>4, FS_CardinalityType, FS_EmptySet
  <2>2. q \in [1..n -> Sla!AtRisk] /\ \A i, j \in 1..n : i # j => q[i] # q[j]
    BY <1>2, SlaSets DEF Sla!SetToSeqs
  <2>. HIDE DEF n
  <2>3. q \in Seq(Sla!AtRisk) /\ DOMAIN q = 1..n /\ Len(q) = n
    BY <2>1, <2>2
  <2>4. q \in Seq(Sla!Events) /\ q # <<>>
    BY <1>3, <2>1, <2>2, <2>3
  <2>. QED
    BY <2>2, <2>3, <2>4
<1>6. \A i, j \in DOMAIN q : q[i].ticket = q[j].ticket /\ q[i].kind = q[j].kind => i = j
  <2>. SUFFICES ASSUME NEW i \in DOMAIN q, NEW j \in DOMAIN q, q[i].ticket = q[j].ticket, q[i].kind = q[j].kind
                PROVE  q[i] = q[j]
    BY <1>5
  <2>. QED
    BY <1>3, <1>5
<1>7. \A i \in DOMAIN q : q[i].kind \notin sMet[q[i].ticket]
  BY <1>3, <1>5
<1>8. /\ sTodo' \in [Schedulers -> Seq(Sla!Events)] /\ sTodo'[s] = q
      /\ sPc' \in [Schedulers -> {"idle", "handle", "publish"}] /\ sPc'[s] = "handle"
      /\ \A r \in Schedulers \ {s} : sTodo'[r] = sTodo[r] /\ sPc'[r] = sPc[r]
  BY <1>1, <1>2, <1>5 DEF SlaInv, SlaTyped
<1>9. SlaTyped'
  BY <1>1, <1>8 DEF SlaInv, SlaTyped
<1>10. ASSUME NEW r \in Schedulers PROVE TickOf(r)'
  <2>1. CASE r = s
    BY <1>5, <1>6, <1>8, <2>1 DEF TickOf
  <2>2. CASE r # s
    BY <1>8, <2>2 DEF SlaInv, TickOf
  <2>. QED
    BY <2>1, <2>2
<1>11. ASSUME NEW r \in Schedulers, NEW t \in SlaTickets, NEW k \in Sla!Kinds, k \in sMet[t], Waits(r, t, k)'
       PROVE  Waits(r, t, k)
  <2>1. CASE r = s
    BY <1>7, <1>8, <1>11, <2>1 DEF Waits
  <2>2. CASE r # s
    BY <1>8, <1>11, <2>2 DEF Waits
  <2>. QED
    BY <2>1, <2>2
<1>. QED
  BY <1>1, <1>9, <1>10, <1>11, SpentGrows

\* A priority stays one.
LEMMA RaisedPriority ==
  ASSUME Sla!PolicyAssumption, NEW p \in Sla!Priorities
  PROVE  Sla!Raised(p) \in Sla!Priorities
BY DEF Sla!PolicyAssumption, Sla!Raised

\* A tick raises a ticket, too late at most once for what it read.
LEMMA HandleStep ==
  ASSUME Sla!PolicyAssumption, Sla!FiniteAssumption, SlaInv, NEW s \in Schedulers, Sla!handle(s)
  PROVE  SlaInv'
<1>1. /\ sPc[s] = "handle" /\ UNCHANGED <<sNow, sOpen, sMet, sTodo, sEmitted, sFaults>>
      /\ sPc' = [sPc EXCEPT ![s] = "publish"]
  BY DEF Sla!handle
<1>2. PICK e \in Sla!Events : e = Head(sTodo[s]) /\ e = sTodo[s][1] /\ 1 \in DOMAIN sTodo[s]
  BY <1>1, EventAtHand
<1>3. PICK x \in SlaTickets, k \in Sla!Kinds : x = e.ticket /\ k = e.kind
  BY DEF Sla!Events
<1>. DEFINE up == IF Sla!Raises(e) THEN Sla!Raised(sPriority[x]) ELSE sPriority[x]
            n == IF Sla!Raises(e) /\ k \in sMet[x] THEN sLate[x] + 1 ELSE sLate[x]
<1>4. sPriority' = [sPriority EXCEPT ![x] = up] /\ sLate' = [sLate EXCEPT ![x] = n]
  BY <1>2, <1>3 DEF Sla!handle
<1>5. up \in Sla!Priorities
  BY RaisedPriority DEF SlaInv, SlaTyped
<1>6. n \in Nat /\ (n = sLate[x] \/ (n = sLate[x] + 1 /\ k \in sMet[x]))
  BY DEF SlaInv, SlaTyped
<1>. HIDE DEF up, n
<1>7. /\ sPc' \in [Schedulers -> {"idle", "handle", "publish"}] /\ sPc'[s] = "publish"
      /\ \A r \in Schedulers \ {s} : sPc'[r] = sPc[r]
      /\ sLate' \in [SlaTickets -> Nat] /\ sLate'[x] = n /\ \A t \in SlaTickets \ {x} : sLate'[t] = sLate[t]
      /\ sPriority' \in [SlaTickets -> Sla!Priorities]
  BY <1>1, <1>4, <1>5, <1>6 DEF SlaInv, SlaTyped
<1>8. SlaTyped'
  BY <1>1, <1>7 DEF SlaInv, SlaTyped
<1>9. ASSUME NEW r \in Schedulers PROVE TickOf(r)'
  <2>1. CASE r = s
    BY <1>1, <1>2, <1>7, <2>1 DEF SlaInv, TickOf
  <2>2. CASE r # s
    BY <1>1, <1>7, <2>2 DEF SlaInv, TickOf
  <2>. QED
    BY <2>1, <2>2
<1>10. ASSUME NEW r \in Schedulers, NEW t \in SlaTickets, NEW j \in Sla!Kinds, Waits(r, t, j)'
       PROVE  Waits(r, t, j)
  <2>1. CASE r = s
    BY <1>1, <1>10, <2>1 DEF Waits
  <2>2. CASE r # s
    BY <1>1, <1>7, <1>10, <2>2 DEF Waits
  <2>. QED
    BY <2>1, <2>2
<1>11. Waits(s, x, k) /\ ~Waits(s, x, k)'
  <2>1. Waits(s, x, k)
    BY <1>1, <1>2, <1>3 DEF Waits
  <2>2. \A i \in DOMAIN sTodo[s] : sTodo[s][i].ticket = x /\ sTodo[s][i].kind = k => i = 1
    BY <1>2, <1>3 DEF SlaInv, TickOf
  <2>3. ~Waits(s, x, k)'
    BY <1>1, <1>7, <2>2 DEF Waits
  <2>. QED
    BY <2>1, <2>3
<1>12. ASSUME NEW t \in SlaTickets PROVE sLate'[t] <= Cardinality(Spent(t)')
  <2>1. Spent(t) \subseteq Spent(t)' /\ Spent(t)' \subseteq Schedulers \X Sla!Kinds
    BY <1>1, <1>10 DEF Spent
  <2>2. /\ Cardinality(Spent(t)) \in Nat /\ Cardinality(Spent(t)') \in Nat
        /\ Cardinality(Spent(t)) <= Cardinality(Spent(t)') /\ IsFiniteSet(Spent(t))
    BY <2>1, Pairs
  <2>3. sLate[t] \in Nat /\ sLate[t] <= Cardinality(Spent(t))
    BY DEF SlaInv, SlaTyped
  <2>4. CASE t # x \/ n = sLate[x]
    <3>1. sLate'[t] = sLate[t]
      BY <1>7, <2>4
    <3>. QED
      BY <2>2, <2>3, <3>1
  <2>5. CASE t = x /\ n = sLate[x] + 1 /\ k \in sMet[x]
    <3>1. <<s, k>> \notin Spent(t) /\ <<s, k>> \in Spent(t)'
      BY <1>1, <1>11, <2>5 DEF Spent
    <3>2. Spent(t) \cup {<<s, k>>} \in SUBSET (Spent(t)')
      BY <2>1, <3>1
    <3>3. Cardinality(Spent(t) \cup {<<s, k>>}) = Cardinality(Spent(t)) + 1
      BY <2>2, <3>1, FS_AddElement
    <3>4. Cardinality(Spent(t) \cup {<<s, k>>}) <= Cardinality(Spent(t)')
      BY <2>1, <3>2, Pairs
    <3>5. sLate'[t] = sLate[t] + 1
      BY <1>7, <2>5
    <3>. QED
      BY <2>2, <2>3, <3>3, <3>4, <3>5
  <2>. QED
    BY <1>6, <2>4, <2>5
<1>. QED
  BY <1>8, <1>9, <1>12 DEF SlaInv

\* A ticket is raised too late once per scheduler and kind at most, in every run.
LEMMA SlaSound ==
  ASSUME Sla!PolicyAssumption, Sla!FiniteAssumption, Sla!BoundAssumption
  PROVE  Sla!Spec => [](Sla!TypeOK /\ Sla!CalmStaysCalm)
<1>1. Sla!Init => SlaInv
  BY SlaInitial
<1>2. SlaInv /\ [Sla!Next]_Sla!vars => SlaInv'
  <2>. SUFFICES ASSUME SlaInv, [Sla!Next]_Sla!vars PROVE SlaInv'
    OBVIOUS
  <2>1. CASE UNCHANGED Sla!vars
    <3>1. SlaTyped' /\ \A s \in Schedulers : TickOf(s)'
      BY <2>1 DEF SlaInv, SlaTyped, TickOf, Sla!vars
    <3>2. sMet' = sMet /\ sTodo' = sTodo /\ sPc' = sPc /\ sLate' = sLate
      BY <2>1 DEF Sla!vars
    <3>3. \A s \in Schedulers, t \in SlaTickets, k \in Sla!Kinds : Waits(s, t, k)' <=> Waits(s, t, k)
      BY <3>2 DEF Waits
    <3>. QED
      BY <3>1, <3>2, <3>3, SpentGrows
  <2>2. ASSUME NEW s \in Schedulers, Sla!Tick(s) \/ Sla!HandleFails(s) PROVE SlaInv'
    BY <2>2, ScanStep, HandleStep, DropStep DEF Sla!Tick
  <2>. QED
    BY <2>1, <2>2, AgentStep DEF Sla!Next
<1>3. SlaInv => Sla!TypeOK /\ Sla!CalmStaysCalm
  BY SlaShown
<1>. QED
  BY <1>1, <1>2, <1>3, PTL DEF Sla!Spec

-----------------------------------------------------------------------------
(***************************************************************************)
(* Canned replies: an edit carries the row it read, and while nobody else  *)
(* edits the reply the row is still that in the channel and the actions.   *)
(***************************************************************************)
LibTexts == {b[f] : b \in Rows \cup Patches, f \in Library!Fields}
              \cup {Existing[i][f] : i \in DOMAIN Existing, f \in Library!Fields}
LibRows == [owner : Library!Agents \cup {None}, shortcut : LibTexts, channel : LibTexts,
            tag : Library!Slugs \cup {None}]
LibDrafts == LibRows \cup {Existing[i] : i \in DOMAIN Existing}

\* What a request carries, by what it asks for.
CreateReqs == [pc : {"verify", "insert"}, then : {"insert"}, owner : Library!Agents \cup {None}, body : Rows]
OpenReqs == [pc : {"get"}, then : {"patch", "delete"}, id : Replies, body : Patches \cup {None}]
GotReqs == [pc : {"patch", "delete"}, id : Replies, body : Patches \cup {None}, cur : LibDrafts]
PatchReqs == [pc : {"verify", "update"}, then : {"update"}, id : Replies, body : Patches, cur : LibDrafts]
TagReqs == [pc : {"tag", "link"}, ticket : TaggedTickets, id : TagIds]
LibReqs == {Library!Idle, Library!Done} \cup CreateReqs \cup OpenReqs \cup GotReqs \cup PatchReqs \cup TagReqs

\* What an action may name: a tag of the catalogue, or a deleted one.
LiveSlugs == {None} \cup {SlugOf[t] : t \in lTags} \cup lDeleted

LibTyped ==
  /\ lReplies \in [Replies -> LibDrafts \cup {None}] /\ DOMAIN lAsked = Replies
  /\ lTags \subseteq TagIds /\ lLinks \subseteq TaggedTickets \X lTags
  /\ lReq \in [Requests -> LibReqs]
  /\ lOverlap \subseteq Replies /\ lDeleted \subseteq Library!Slugs

ReplyOf(i) == lReplies[i] # None =>
  /\ i \in lUsed /\ lReplies[i].tag \in LiveSlugs
  /\ lReplies[i].shortcut = lAsked[i].shortcut
  /\ i \in lOverlap \/ (lReplies[i].channel = lAsked[i].channel /\ lReplies[i].tag = lAsked[i].tag)

Edits(r) == lReq[r].pc \in {"patch", "verify", "update"} /\ "id" \in DOMAIN lReq[r]

Sound(r) ==
  /\ lReq[r].pc = "insert" => lReq[r].body.tag \in LiveSlugs
  /\ lReq[r].pc = "get" => lReq[r].id \in lUsed /\ (lReq[r].then = "patch" => lReq[r].body \in Patches)
  /\ lReq[r].pc = "patch" => lReq[r].body \in Patches
  /\ lReq[r].pc = "update" /\ "tag" \in DOMAIN lReq[r].body => lReq[r].body.tag \in LiveSlugs
  /\ Edits(r) => lReq[r].id \in lUsed /\ lReq[r].cur.tag \in LiveSlugs

UpToDate(r) == Edits(r) =>
  \/ lReq[r].id \in lOverlap
  \/ lReplies[lReq[r].id] = None
  \/ /\ lReq[r].cur.channel = lReplies[lReq[r].id].channel
     /\ lReq[r].cur.tag = lReplies[lReq[r].id].tag

Alone(r, s) == Edits(r) /\ Edits(s) /\ lReq[r].id = lReq[s].id => r = s \/ lReq[r].id \in lOverlap

LibInv ==
  /\ LibTyped
  /\ \A i \in Replies : ReplyOf(i)
  /\ \A r \in Requests : Sound(r) /\ UpToDate(r)
  /\ \A r, s \in Requests : Alone(r, s)

LEMMA DraftFields ==
  ASSUME Library!BodyAssumption, NEW x \in LibDrafts
  PROVE  /\ x.owner \in Library!Agents \cup {None} /\ x.tag \in Library!Slugs \cup {None}
         /\ x.shortcut \in LibTexts /\ x.channel \in LibTexts
<1>1. CASE x \in LibRows
  BY <1>1 DEF LibRows
<1>2. ASSUME NEW i \in DOMAIN Existing, x = Existing[i]
      PROVE  /\ x.owner \in Library!Agents \cup {None} /\ x.tag \in Library!Slugs \cup {None}
             /\ x.shortcut \in LibTexts /\ x.channel \in LibTexts
  <2>1. x.owner \in Library!Agents
    BY <1>2 DEF Library!Agents
  <2>2. x.tag \in Library!Slugs \cup {None}
    BY <1>2 DEF Library!BodyAssumption
  <2>3. x["shortcut"] \in LibTexts /\ x["channel"] \in LibTexts
    BY <1>2 DEF LibTexts, Library!Fields
  <2>. QED
    BY <2>1, <2>2, <2>3
<1>. QED
  BY <1>1, <1>2 DEF LibDrafts

LEMMA BodyTexts ==
  ASSUME NEW b \in Rows \cup Patches, NEW f \in Library!Fields
  PROVE  b[f] \in LibTexts
BY DEF LibTexts

\* Where a request is tells what it carries.
LEMMA ReqKinds ==
  ASSUME NEW x \in LibReqs
  PROVE  /\ x.pc = "get" => x \in OpenReqs
         /\ x.pc \in {"patch", "delete"} => x \in GotReqs
         /\ x.pc = "update" => x \in PatchReqs
         /\ x.pc = "insert" => x \in CreateReqs
         /\ x.pc = "verify" => x \in CreateReqs \/ x \in PatchReqs
         /\ x.pc \in {"tag", "link"} => x \in TagReqs
         /\ x.pc \in {"idle", "verify", "insert", "get", "patch", "update", "delete", "tag", "link", "done"}
         /\ x \in CreateReqs => "id" \notin DOMAIN x
         /\ x \in GotReqs \cup PatchReqs => "id" \in DOMAIN x /\ x.id \in Replies /\ x.cur \in LibDrafts
         /\ x.pc \in {"patch", "verify", "update"} /\ "id" \in DOMAIN x => x \in GotReqs \cup PatchReqs
<1>1. CASE x \in {Library!Idle, Library!Done}
  <2>1. x.pc \in {"idle", "done"}
    BY <1>1 DEF Library!Idle, Library!Done
  <2>2. x \notin CreateReqs \cup GotReqs \cup PatchReqs
    BY <2>1 DEF CreateReqs, GotReqs, PatchReqs
  <2>. QED
    BY <2>1, <2>2
<1>2. CASE x \in CreateReqs
  BY <1>2 DEF CreateReqs, GotReqs, PatchReqs
<1>3. CASE x \in OpenReqs
  BY <1>3 DEF OpenReqs, CreateReqs, GotReqs, PatchReqs
<1>4. CASE x \in GotReqs
  BY <1>4 DEF GotReqs, PatchReqs, CreateReqs
<1>5. CASE x \in PatchReqs
  BY <1>5 DEF PatchReqs, GotReqs, CreateReqs
<1>6. CASE x \in TagReqs
  BY <1>6 DEF TagReqs, CreateReqs, GotReqs, PatchReqs
<1>. QED
  BY <1>1, <1>2, <1>3, <1>4, <1>5, <1>6 DEF LibReqs

LEMMA LibInitial ==
  ASSUME Library!BodyAssumption, Library!Init
  PROVE  LibInv
<1>1. /\ lUsed = DOMAIN Existing /\ lAsked = lReplies /\ lOverlap = {} /\ lDeleted = {} /\ lLinks = {}
      /\ lReplies = [i \in Replies |-> IF i \in DOMAIN Existing THEN Existing[i] ELSE None]
      /\ lTags = {t \in TagIds : \E i \in lUsed : lReplies[i].tag = SlugOf[t]}
      /\ lReq = [r \in Requests |-> Library!Idle]
  BY DEF Library!Init
<1>2. LibTyped
  <2>1. lReplies \in [Replies -> LibDrafts \cup {None}]
    BY <1>1 DEF LibDrafts
  <2>2. lReq \in [Requests -> LibReqs]
    BY <1>1 DEF LibReqs
  <2>. QED
    BY <1>1, <2>1, <2>2 DEF LibTyped
<1>3. ASSUME NEW i \in Replies, lReplies[i] # None PROVE ReplyOf(i)
  <2>1. i \in DOMAIN Existing /\ lReplies[i] = Existing[i] /\ i \in lUsed
    BY <1>1, <1>3
  <2>2. Existing[i].tag \in Library!Slugs \cup {None}
    BY <2>1 DEF Library!BodyAssumption
  <2>3. ASSUME NEW t \in TagIds, SlugOf[t] = Existing[i].tag PROVE t \in lTags
    BY <1>1, <2>1, <2>3
  <2>4. lReplies[i].tag \in LiveSlugs
    BY <2>1, <2>2, <2>3 DEF LiveSlugs, Library!Slugs
  <2>. QED
    BY <1>1, <2>1, <2>4 DEF ReplyOf
<1>4. \A r \in Requests : lReq[r].pc = "idle"
  BY <1>1 DEF Library!Idle
<1>. QED
  BY <1>2, <1>3, <1>4 DEF LibInv, ReplyOf, Sound, UpToDate, Alone, Edits

LEMMA LibShown ==
  ASSUME Library!BodyAssumption, LibInv
  PROVE  Library!TypeOK /\ Library!EditsKeep /\ Library!MacrosResolve
<1>1. Library!TypeOK
  <2>1. ASSUME NEW i \in Replies, lReplies[i] # None
        PROVE  /\ i \in lUsed
               /\ lReplies[i].owner \in Library!Agents \cup {None}
               /\ lReplies[i].tag \in Library!Slugs \cup {None}
    <3>1. lReplies[i] \in LibDrafts /\ i \in lUsed
      BY <2>1 DEF LibInv, LibTyped, ReplyOf
    <3>. QED
      BY <3>1, DraftFields
  <2>2. ASSUME NEW r \in Requests
        PROVE  lReq[r].pc \in {"idle", "verify", "insert", "get", "patch", "update", "delete", "tag", "link", "done"}
    BY ReqKinds DEF LibInv, LibTyped
  <2>. QED
    BY <2>1, <2>2 DEF Library!TypeOK, LibInv, LibTyped
<1>2. Library!EditsKeep
  <2>. SUFFICES ASSUME NEW i \in Replies, NEW f \in Library!Fields, lReplies[i] # None,
                       lReplies[i][f] # lAsked[i][f]
                PROVE  i \in lOverlap /\ f # "shortcut"
    BY DEF Library!EditsKeep
  <2>1. /\ lReplies[i]["shortcut"] = lAsked[i]["shortcut"]
        /\ i \in lOverlap \/ (lReplies[i]["channel"] = lAsked[i]["channel"]
                              /\ lReplies[i]["tag"] = lAsked[i]["tag"])
    BY DEF LibInv, ReplyOf
  <2>. QED
    BY <2>1 DEF Library!Fields
<1>3. Library!MacrosResolve
  BY DEF LibInv, ReplyOf, LiveSlugs, Library!MacrosResolve, Library!HasTag
<1>. QED
  BY <1>1, <1>2, <1>3


\* One request moves: what the others carry stays good while slugs and
\* overlaps are only added.
LEMMA LibMoves ==
  ASSUME LibInv, NEW r \in Requests, LibTyped', \A i \in Replies : ReplyOf(i)',
         \A s \in Requests \ {r} : lReq'[s] = lReq[s],
         LiveSlugs \subseteq LiveSlugs', lUsed \subseteq lUsed', lOverlap \subseteq lOverlap',
         Sound(r)', \A s \in Requests : UpToDate(s)',
         \A s \in Requests \ {r} : Edits(r)' /\ Edits(s) /\ lReq'[r].id = lReq[s].id => lReq[s].id \in lOverlap'
  PROVE  LibInv'
<1>1. \A s \in Requests \ {r} : Edits(s)' <=> Edits(s)
  BY DEF Edits
<1>2. ASSUME NEW s \in Requests PROVE Sound(s)'
  <2>1. CASE s = r
    BY <2>1
  <2>2. CASE s # r
    BY <1>1, <2>2 DEF LibInv, Sound
  <2>. QED
    BY <2>1, <2>2
<1>3. ASSUME NEW s \in Requests, NEW q \in Requests PROVE Alone(s, q)'
  <2>1. CASE s = r /\ q # r
    BY <1>1, <2>1 DEF Alone
  <2>2. CASE s # r /\ q = r
    BY <1>1, <2>2 DEF Alone
  <2>3. CASE s # r /\ q # r
    <3>1. Alone(s, q)
      BY DEF LibInv
    <3>. QED
      BY <1>1, <2>3, <3>1 DEF Alone
  <2>4. CASE s = r /\ q = r
    BY <2>4 DEF Alone
  <2>. QED
    BY <2>1, <2>2, <2>3, <2>4
<1>. QED
  BY <1>2, <1>3 DEF LibInv

\* A request that touches no table; what it edits it edited before.
LEMMA RequestMoves ==
  ASSUME LibInv, NEW r \in Requests, NEW v \in LibReqs, lReq' = [lReq EXCEPT ![r] = v],
         UNCHANGED <<lReplies, lUsed, lTags, lLinks, lAsked, lOverlap, lDeleted>>,
         v.pc = "insert" => v.body.tag \in LiveSlugs,
         v.pc = "get" => v.id \in lUsed /\ (v.then = "patch" => v.body \in Patches),
         v.pc = "patch" => v.body \in Patches,
         v.pc = "update" /\ "tag" \in DOMAIN v.body => v.body.tag \in LiveSlugs,
         v.pc \in {"patch", "verify", "update"} /\ "id" \in DOMAIN v =>
           Edits(r) /\ v.id = lReq[r].id /\ v.cur = lReq[r].cur
  PROVE  LibInv'
<1>1. lReq' \in [Requests -> LibReqs] /\ lReq'[r] = v /\ \A s \in Requests \ {r} : lReq'[s] = lReq[s]
  BY DEF LibInv, LibTyped
<1>2. LibTyped'
  BY <1>1 DEF LibInv, LibTyped
<1>3. LiveSlugs' = LiveSlugs
  BY DEF LiveSlugs
<1>4. \A i \in Replies : ReplyOf(i)'
  BY <1>3 DEF LibInv, ReplyOf
<1>5. Edits(r)' => Edits(r) /\ lReq'[r].id = lReq[r].id /\ lReq'[r].cur = lReq[r].cur
  BY <1>1 DEF Edits
<1>6. Sound(r)'
  <2>1. Edits(r)' => lReq'[r].id \in lUsed' /\ lReq'[r].cur.tag \in LiveSlugs'
    BY <1>3, <1>5 DEF LibInv, Sound
  <2>. QED
    BY <1>1, <1>3, <2>1 DEF Sound
<1>7. ASSUME NEW s \in Requests PROVE UpToDate(s)'
  <2>1. UpToDate(s)
    BY DEF LibInv
  <2>2. CASE s = r
    BY <1>5, <2>1, <2>2 DEF UpToDate
  <2>3. CASE s # r
    BY <1>1, <2>1, <2>3 DEF UpToDate, Edits
  <2>. QED
    BY <2>2, <2>3
<1>8. ASSUME NEW s \in Requests \ {r}, Edits(r)', Edits(s), lReq'[r].id = lReq[s].id
      PROVE  lReq[s].id \in lOverlap'
  BY <1>5, <1>8 DEF LibInv, Alone
<1>. QED
  BY <1>1, <1>2, <1>3, <1>4, <1>6, <1>7, <1>8, LibMoves

\* Requests begin, end, and are checked.
LEMMA RequestStep ==
  ASSUME Library!BodyAssumption, LibInv, NEW r \in Requests,
         \/ \E row \in Rows, owner \in {ActorOf[r], None} : Library!create(r, row, owner)
         \/ \E i \in Replies : \/ \E p \in Patches : Library!Open(r, i, "patch", p)
                               \/ Library!Open(r, i, "delete", None)
         \/ \E x \in TaggedTickets, t \in TagIds : Library!attach(r, x, t)
         \/ Library!verifyActionTargets(r) \/ Library!Patch(r) \/ Library!tagExists(r) \/ Library!Fails(r)
  PROVE  LibInv'
<1>1. lReq[r] \in LibReqs /\ UNCHANGED <<lReplies, lUsed, lTags, lLinks, lAsked, lOverlap, lDeleted>>
  BY DEF LibInv, LibTyped, Library!create, Library!Open, Library!attach, Library!verifyActionTargets,
         Library!Patch, Library!tagExists, Library!Fails, Library!catalogue
<1>2. Library!Done \in LibReqs /\ Library!Done.pc = "done"
  BY DEF LibReqs, Library!Done
<1>3. CASE lReq' = [lReq EXCEPT ![r] = Library!Done]
  BY <1>1, <1>2, <1>3, RequestMoves
<1>4. ASSUME NEW row \in Rows, NEW owner \in {ActorOf[r], None}, Library!create(r, row, owner)
      PROVE  LibInv'
  <2>. DEFINE v == [pc |-> "verify", then |-> "insert", owner |-> owner, body |-> row]
  <2>1. lReq' = [lReq EXCEPT ![r] = v]
    BY <1>4 DEF Library!create, Library!Set
  <2>2. owner \in Library!Agents \cup {None}
    BY DEF Library!Agents
  <2>3. v \in LibReqs /\ v.pc = "verify" /\ "id" \notin DOMAIN v
    BY <2>2 DEF LibReqs, CreateReqs
  <2>. HIDE DEF v
  <2>. QED
    BY <1>1, <2>1, <2>3, RequestMoves
<1>5. ASSUME NEW i \in Replies, NEW l \in {"patch", "delete"}, NEW b \in Patches \cup {None},
             l = "patch" => b \in Patches, Library!Open(r, i, l, b)
      PROVE  LibInv'
  <2>. DEFINE v == [pc |-> "get", then |-> l, id |-> i, body |-> b]
  <2>1. lReq' = [lReq EXCEPT ![r] = v] /\ i \in lUsed
    BY <1>5 DEF Library!Open, Library!Set
  <2>2. v \in LibReqs /\ v.pc = "get" /\ v.id = i /\ v.then = l /\ v.body = b
    BY DEF LibReqs, OpenReqs
  <2>. HIDE DEF v
  <2>. QED
    BY <1>1, <1>5, <2>1, <2>2, RequestMoves
<1>6. ASSUME NEW x \in TaggedTickets, NEW t \in TagIds, Library!attach(r, x, t)
      PROVE  LibInv'
  <2>. DEFINE v == [pc |-> "tag", ticket |-> x, id |-> t]
  <2>1. lReq' = [lReq EXCEPT ![r] = v]
    BY <1>6 DEF Library!attach, Library!Set
  <2>2. v \in LibReqs /\ v.pc = "tag"
    BY DEF LibReqs, TagReqs
  <2>. HIDE DEF v
  <2>. QED
    BY <1>1, <2>1, <2>2, RequestMoves
<1>7. CASE Library!verifyActionTargets(r) /\ Library!TargetExists(lReq[r].body)
  <2>. DEFINE x == lReq[r]  v == [x EXCEPT !.pc = x.then]
  <2>1. lReq' = [lReq EXCEPT ![r] = v] /\ x.pc = "verify"
    BY <1>7 DEF Library!verifyActionTargets, Library!Goto
  <2>2. "tag" \in DOMAIN x.body => x.body.tag \in LiveSlugs
    BY <1>7 DEF Library!TargetExists, Library!HasTag, LiveSlugs
  <2>. HIDE DEF x
  <2>3. x \in LibReqs /\ x = lReq[r]
    BY <1>1 DEF x
  <2>4. CASE x \in CreateReqs
    <3>1. v \in CreateReqs /\ v.pc = "insert" /\ v.body = x.body /\ x.body \in Rows
      BY <2>4 DEF CreateReqs
    <3>2. "tag" \in DOMAIN x.body
      BY <3>1 DEF Library!BodyAssumption, Library!Fields
    <3>. HIDE DEF v
    <3>3. v \in LibReqs
      BY <3>1 DEF LibReqs
    <3>. QED
      BY <1>1, <2>1, <2>2, <3>1, <3>2, <3>3, RequestMoves
  <2>5. CASE x \in PatchReqs
    <3>1. v \in PatchReqs /\ v.pc = "update" /\ v.body = x.body /\ v.id = x.id /\ v.cur = x.cur
          /\ "id" \in DOMAIN x
      BY <2>5 DEF PatchReqs
    <3>. HIDE DEF v
    <3>2. v \in LibReqs
      BY <3>1 DEF LibReqs
    <3>3. Edits(r) /\ v.id = lReq[r].id /\ v.cur = lReq[r].cur
      BY <2>1, <2>3, <3>1 DEF Edits
    <3>. QED
      BY <1>1, <2>1, <2>2, <3>1, <3>2, <3>3, RequestMoves
  <2>. QED
    BY <2>1, <2>3, <2>4, <2>5, ReqKinds
<1>8. CASE Library!Patch(r)
  <2>. DEFINE x == lReq[r]
              v == [pc |-> IF "tag" \in DOMAIN x.body THEN "verify" ELSE "update",
                    then |-> "update", id |-> x.id, body |-> x.body, cur |-> x.cur]
  <2>1. lReq' = [lReq EXCEPT ![r] = v] /\ x.pc = "patch"
    BY <1>8 DEF Library!Patch
  <2>2. x.body \in Patches
    BY <2>1 DEF LibInv, Sound
  <2>. HIDE DEF x
  <2>3. x \in LibReqs /\ x = lReq[r]
    BY <1>1 DEF x
  <2>4. x \in GotReqs /\ "id" \in DOMAIN x /\ x.id \in Replies /\ x.cur \in LibDrafts
    BY <2>1, <2>3, ReqKinds
  <2>5. /\ v \in PatchReqs /\ v.id = x.id /\ v.cur = x.cur /\ v.body = x.body
        /\ v.pc \in {"verify", "update"} /\ (v.pc = "update" => "tag" \notin DOMAIN v.body)
    BY <2>2, <2>4 DEF PatchReqs
  <2>. HIDE DEF v
  <2>6. v \in LibReqs
    BY <2>5 DEF LibReqs
  <2>7. Edits(r) /\ v.id = lReq[r].id /\ v.cur = lReq[r].cur
    BY <2>1, <2>3, <2>4, <2>5 DEF Edits
  <2>. QED
    BY <1>1, <2>1, <2>5, <2>6, <2>7, RequestMoves
<1>9. CASE Library!tagExists(r) /\ lReq[r].id \in lTags
  <2>. DEFINE x == lReq[r]  v == [x EXCEPT !.pc = "link"]
  <2>1. lReq' = [lReq EXCEPT ![r] = v] /\ x.pc = "tag"
    BY <1>9 DEF Library!tagExists, Library!Goto
  <2>. HIDE DEF x
  <2>2. x \in TagReqs
    BY <1>1, <2>1, ReqKinds DEF x
  <2>3. v \in TagReqs /\ v.pc = "link"
    BY <2>2 DEF TagReqs
  <2>. HIDE DEF v
  <2>4. v \in LibReqs
    BY <2>3 DEF LibReqs
  <2>. QED
    BY <1>1, <2>1, <2>3, <2>4, RequestMoves
<1>10. \A i \in Replies : \A p \in Patches : Library!Open(r, i, "patch", p) => LibInv'
  BY <1>5
<1>11. \A i \in Replies : Library!Open(r, i, "delete", None) => LibInv'
  BY <1>5
<1>12. Library!verifyActionTargets(r) \/ Library!tagExists(r) \/ Library!Fails(r) =>
         \/ lReq' = [lReq EXCEPT ![r] = Library!Done]
         \/ Library!verifyActionTargets(r) /\ Library!TargetExists(lReq[r].body)
         \/ Library!tagExists(r) /\ lReq[r].id \in lTags
  BY DEF Library!verifyActionTargets, Library!tagExists, Library!Fails, Library!Set
<1>. QED
  BY <1>3, <1>4, <1>6, <1>7, <1>8, <1>9, <1>10, <1>11, <1>12


\* The row is read; another edit of the reply makes the two overlap.
LEMMA GetRowStep ==
  ASSUME Library!BodyAssumption, LibInv, NEW r \in Requests, Library!get(r)
  PROVE  LibInv'
<1>. DEFINE x == lReq[r]  i == x.id  row == lReplies[i]
            v == [pc |-> x.then, id |-> i, body |-> x.body, cur |-> row]
<1>1. /\ x \in LibReqs /\ x.pc = "get" /\ UNCHANGED <<lReplies, lUsed, lTags, lLinks, lDeleted, lAsked>>
      /\ lReq \in [Requests -> LibReqs]
  BY DEF LibInv, LibTyped, Library!get, Library!catalogue
<1>2. /\ i \in Replies /\ x.then \in {"patch", "delete"} /\ x.body \in Patches \cup {None} /\ i \in lUsed
      /\ x.then = "patch" => x.body \in Patches
  <2>1. x \in OpenReqs
    BY <1>1, ReqKinds
  <2>. QED
    BY <1>1, <2>1 DEF OpenReqs, LibInv, Sound
<1>3. CASE lReq' = [lReq EXCEPT ![r] = Library!Done] /\ UNCHANGED lOverlap
  <2>1. Library!Done \in LibReqs /\ Library!Done.pc = "done"
    BY DEF LibReqs, Library!Done
  <2>. QED
    BY <1>1, <1>3, <2>1, RequestMoves
<1>4. CASE /\ row # None /\ lReq' = [lReq EXCEPT ![r] = v]
           /\ lOverlap' = IF x.then = "patch" /\ \E s \in Requests \ {r} : Library!Editing(s, i)
                          THEN lOverlap \cup {i} ELSE lOverlap
  <2>1. row \in LibDrafts /\ row.tag \in LiveSlugs
    BY <1>2, <1>4 DEF LibInv, LibTyped, ReplyOf
  <2>2. v \in GotReqs /\ v.pc = x.then /\ v.id = i /\ v.body = x.body /\ v.cur = row /\ "id" \in DOMAIN v
    BY <1>2, <2>1 DEF GotReqs
  <2>. HIDE DEF v
  <2>3. v \in LibReqs
    BY <2>2 DEF LibReqs
  <2>4. lReq' \in [Requests -> LibReqs] /\ lReq'[r] = v /\ \A s \in Requests \ {r} : lReq'[s] = lReq[s]
    BY <1>1, <1>4, <2>3
  <2>5. lOverlap \subseteq lOverlap' /\ lOverlap' \subseteq Replies /\ LiveSlugs' = LiveSlugs
    BY <1>1, <1>2, <1>4 DEF LibInv, LibTyped, LiveSlugs
  <2>6. LibTyped'
    BY <1>1, <2>4, <2>5 DEF LibInv, LibTyped
  <2>7. \A j \in Replies : ReplyOf(j)'
    BY <1>1, <2>5 DEF LibInv, ReplyOf
  <2>8. Sound(r)'
    BY <1>1, <1>2, <2>1, <2>2, <2>4, <2>5 DEF Sound, Edits
  <2>9. ASSUME NEW s \in Requests PROVE UpToDate(s)'
    <3>1. CASE s = r
      BY <1>1, <2>2, <2>4, <3>1 DEF UpToDate
    <3>2. CASE s # r
      <4>1. UpToDate(s) /\ lReq'[s] = lReq[s]
        BY <2>4, <3>2 DEF LibInv
      <4>. QED
        BY <1>1, <2>5, <4>1 DEF UpToDate, Edits
    <3>. QED
      BY <3>1, <3>2
  <2>10. ASSUME NEW s \in Requests \ {r}, Edits(r)', Edits(s), lReq'[r].id = lReq[s].id
         PROVE  lReq[s].id \in lOverlap'
    <3>1. lReq[s].id = i /\ x.then = "patch"
      BY <1>2, <2>2, <2>4, <2>10 DEF Edits
    <3>2. Library!Editing(s, i)
      BY <2>10, <3>1 DEF Edits, Library!Editing
    <3>. QED
      BY <1>4, <3>1, <3>2
  <2>. QED
    BY <1>1, <2>4, <2>5, <2>6, <2>7, <2>8, <2>9, <2>10, LibMoves
<1>. QED
  BY <1>3, <1>4 DEF Library!get, Library!Set

\* A request writes one reply and is done.
LEMMA ReplyWritten ==
  ASSUME LibInv, NEW r \in Requests, NEW i \in Replies,
         lReq' = [lReq EXCEPT ![r] = Library!Done],
         UNCHANGED <<lTags, lLinks, lDeleted, lOverlap>>, lUsed \subseteq lUsed',
         lReplies' \in [Replies -> LibDrafts \cup {None}], DOMAIN lAsked' = Replies,
         \A j \in Replies \ {i} : lReplies'[j] = lReplies[j] /\ lAsked'[j] = lAsked[j],
         ReplyOf(i)',
         \A s \in Requests \ {r} : Edits(s) /\ lReq[s].id = i => i \in lOverlap \/ lReplies'[i] = None
  PROVE  LibInv'
<1>1. /\ lReq' \in [Requests -> LibReqs] /\ lReq'[r].pc = "done"
      /\ \A s \in Requests \ {r} : lReq'[s] = lReq[s]
  BY DEF LibInv, LibTyped, LibReqs, Library!Done
<1>2. LibTyped' /\ LiveSlugs' = LiveSlugs
  BY <1>1 DEF LibInv, LibTyped, LiveSlugs
<1>3. ASSUME NEW j \in Replies PROVE ReplyOf(j)'
  <2>1. CASE j = i
    BY <2>1
  <2>2. CASE j # i
    BY <1>2, <2>2 DEF LibInv, ReplyOf
  <2>. QED
    BY <2>1, <2>2
<1>4. Sound(r)' /\ ~Edits(r)'
  BY <1>1 DEF Sound, Edits
<1>5. ASSUME NEW s \in Requests PROVE UpToDate(s)'
  <2>1. CASE s = r
    BY <1>4, <2>1 DEF UpToDate
  <2>2. CASE s # r
    <3>. SUFFICES ASSUME Edits(s)' PROVE UpToDate(s)'
      BY DEF UpToDate
    <3>1. Edits(s) /\ lReq'[s] = lReq[s] /\ lReq[s] \in LibReqs
      BY <1>1, <2>2 DEF Edits, LibInv, LibTyped
    <3>2. lReq[s].id \in Replies
      BY <3>1, ReqKinds DEF Edits
    <3>3. UpToDate(s)
      BY DEF LibInv
    <3>4. CASE lReq[s].id = i
      BY <2>2, <3>1, <3>4 DEF UpToDate
    <3>5. CASE lReq[s].id # i
      BY <3>1, <3>2, <3>3, <3>5 DEF UpToDate
    <3>. QED
      BY <3>4, <3>5
  <2>. QED
    BY <2>1, <2>2
<1>. QED
  BY <1>1, <1>2, <1>3, <1>4, <1>5, LibMoves

\* A new reply has a new id, which nobody edits.
LEMMA CreateReplyStep ==
  ASSUME Library!BodyAssumption, LibInv, NEW r \in Requests, NEW i \in Replies, Library!Create(r, i)
  PROVE  LibInv'
<1>. DEFINE x == lReq[r]  b == x.body
            row == [owner |-> x.owner, shortcut |-> b.shortcut, channel |-> b.channel, tag |-> b.tag]
<1>1. /\ x.pc = "insert" /\ i \notin lUsed /\ lUsed' = lUsed \cup {i}
      /\ lReq' = [lReq EXCEPT ![r] = Library!Done]
      /\ UNCHANGED <<lTags, lLinks, lDeleted, lOverlap>>
      /\ \/ lReplies' = [lReplies EXCEPT ![i] = row] /\ lAsked' = [lAsked EXCEPT ![i] = b]
         \/ UNCHANGED <<lReplies, lAsked>>
  BY DEF Library!Create, Library!Fresh, Library!Set, Library!catalogue
<1>2. x.owner \in Library!Agents \cup {None} /\ b \in Rows
  <2>1. x \in LibReqs
    BY DEF LibInv, LibTyped
  <2>2. x \in CreateReqs
    BY <1>1, <2>1, ReqKinds
  <2>. QED
    BY <2>2 DEF CreateReqs
<1>3. b.tag \in LiveSlugs /\ b.tag \in Library!Slugs \cup {None}
  <2>1. LiveSlugs \subseteq Library!Slugs \cup {None}
    BY DEF LiveSlugs, Library!Slugs, LibInv, LibTyped
  <2>. QED
    BY <1>1, <2>1 DEF LibInv, Sound
<1>4. b["shortcut"] \in LibTexts /\ b["channel"] \in LibTexts
  BY <1>2, BodyTexts DEF Library!Fields
<1>5. row \in LibDrafts /\ row.tag = b.tag /\ row.channel = b.channel /\ row.shortcut = b.shortcut
  BY <1>2, <1>3, <1>4 DEF LibDrafts, LibRows
<1>. HIDE DEF row, x
<1>6. /\ lReplies' \in [Replies -> LibDrafts \cup {None}] /\ DOMAIN lAsked' = Replies
      /\ \A j \in Replies \ {i} : lReplies'[j] = lReplies[j] /\ lAsked'[j] = lAsked[j]
  BY <1>1, <1>5 DEF LibInv, LibTyped
<1>7. ReplyOf(i)'
  <2>1. LiveSlugs' = LiveSlugs
    BY <1>1 DEF LiveSlugs
  <2>2. CASE UNCHANGED <<lReplies, lAsked>>
    BY <1>1, <2>1, <2>2 DEF LibInv, ReplyOf
  <2>3. CASE lReplies' = [lReplies EXCEPT ![i] = row] /\ lAsked' = [lAsked EXCEPT ![i] = b]
    <3>1. lReplies'[i] = row /\ lAsked'[i] = b
      BY <2>3 DEF LibInv, LibTyped
    <3>. QED
      BY <1>1, <1>3, <1>5, <2>1, <3>1 DEF ReplyOf
  <2>. QED
    BY <1>1, <2>2, <2>3
<1>8. \A s \in Requests \ {r} : Edits(s) => lReq[s].id # i
  BY <1>1 DEF LibInv, Sound
<1>. QED
  BY <1>1, <1>6, <1>7, <1>8, ReplyWritten

\* An update writes the channel and the actions as it read them, unless it carries them.
LEMMA UpdateReplyStep ==
  ASSUME Library!BodyAssumption, LibInv, NEW r \in Requests, Library!Update(r)
  PROVE  LibInv'
<1>. DEFINE x == lReq[r]  i == x.id  b == x.body  row == lReplies[i]  new == Library!Updated(row, x.cur, b)
            said == [f \in Library!Fields |-> IF f \in DOMAIN b THEN b[f] ELSE lAsked[i][f]]
<1>1. /\ x.pc = "update" /\ lReq' = [lReq EXCEPT ![r] = Library!Done]
      /\ UNCHANGED <<lUsed, lTags, lLinks, lDeleted, lOverlap>>
      /\ \/ /\ row # None
            /\ lReplies' = [lReplies EXCEPT ![i] = new] /\ lAsked' = [lAsked EXCEPT ![i] = said]
         \/ UNCHANGED <<lReplies, lAsked>>
  BY DEF Library!Update, Library!Set, Library!catalogue
<1>2. /\ b \in Patches /\ x.cur \in LibDrafts /\ i \in Replies /\ Edits(r)
  <2>1. x \in LibReqs
    BY DEF LibInv, LibTyped
  <2>2. x \in PatchReqs /\ "id" \in DOMAIN x
    BY <1>1, <2>1, ReqKinds DEF PatchReqs
  <2>. QED
    BY <1>1, <2>2 DEF PatchReqs, Edits
<1>3. /\ i \in lUsed /\ x.cur.tag \in LiveSlugs /\ ("tag" \in DOMAIN b => b.tag \in LiveSlugs)
      /\ i \in lOverlap \/ row = None \/ (x.cur.channel = row.channel /\ x.cur.tag = row.tag)
      /\ ReplyOf(i)
  BY <1>1, <1>2 DEF LibInv, Sound, UpToDate
<1>. PICK j \in Replies : j = i
  BY <1>2
<1>4. CASE UNCHANGED <<lReplies, lAsked>>
  <2>1. ReplyOf(j)'
    <3>1. LiveSlugs' = LiveSlugs
      BY <1>1 DEF LiveSlugs
    <3>. QED
      BY <1>1, <1>4, <3>1 DEF LibInv, ReplyOf
  <2>2. \A s \in Requests \ {r} : Edits(s) /\ lReq[s].id = j => j \in lOverlap
    BY <1>2 DEF LibInv, Alone
  <2>3. lReplies' \in [Replies -> LibDrafts \cup {None}] /\ DOMAIN lAsked' = Replies
    BY <1>4 DEF LibInv, LibTyped
  <2>. QED
    BY <1>1, <1>4, <2>1, <2>2, <2>3, ReplyWritten
<1>5. CASE row # None /\ lReplies' = [lReplies EXCEPT ![i] = new] /\ lAsked' = [lAsked EXCEPT ![i] = said]
  <2>1. row \in LibDrafts
    BY <1>2, <1>5 DEF LibInv, LibTyped
  <2>2. /\ new.owner = row.owner
        /\ new.shortcut = IF "shortcut" \in DOMAIN b THEN b.shortcut ELSE row.shortcut
        /\ new.channel = IF "channel" \in DOMAIN b THEN b.channel ELSE x.cur.channel
        /\ new.tag = IF "tag" \in DOMAIN b THEN b.tag ELSE x.cur.tag
        /\ new = [owner |-> new.owner, shortcut |-> new.shortcut, channel |-> new.channel, tag |-> new.tag]
    BY DEF Library!Updated, Library!Kept
  <2>3. /\ said.shortcut = IF "shortcut" \in DOMAIN b THEN b.shortcut ELSE lAsked[i].shortcut
        /\ said.channel = IF "channel" \in DOMAIN b THEN b.channel ELSE lAsked[i].channel
        /\ said.tag = IF "tag" \in DOMAIN b THEN b.tag ELSE lAsked[i].tag
    BY DEF Library!Fields
  <2>4. b["shortcut"] \in LibTexts /\ b["channel"] \in LibTexts
    BY <1>2, BodyTexts DEF Library!Fields
  <2>5. LiveSlugs \subseteq Library!Slugs \cup {None} /\ LiveSlugs' = LiveSlugs
    BY <1>1 DEF LiveSlugs, Library!Slugs, LibInv, LibTyped
  <2>6. /\ row.owner \in Library!Agents \cup {None} /\ row.shortcut \in LibTexts
        /\ x.cur.channel \in LibTexts
    BY <1>2, <2>1, DraftFields
  <2>. HIDE DEF new, said
  <2>7. /\ new.owner \in Library!Agents \cup {None} /\ new.shortcut \in LibTexts /\ new.channel \in LibTexts
        /\ new.tag \in LiveSlugs
    BY <1>3, <2>2, <2>4, <2>6
  <2>8. new \in LibDrafts
    BY <2>2, <2>5, <2>7 DEF LibDrafts, LibRows
  <2>9. /\ lReplies' \in [Replies -> LibDrafts \cup {None}] /\ DOMAIN lAsked' = Replies
        /\ lReplies'[j] = new /\ lAsked'[j] = said
        /\ \A k \in Replies \ {j} : lReplies'[k] = lReplies[k] /\ lAsked'[k] = lAsked[k]
    BY <1>2, <1>5, <2>8 DEF LibInv, LibTyped
  <2>10. \A s \in Requests \ {r} : Edits(s) /\ lReq[s].id = j => j \in lOverlap
    BY <1>2 DEF LibInv, Alone
  <2>11. /\ new.shortcut = said.shortcut
         /\ i \in lOverlap \/ (new.channel = said.channel /\ new.tag = said.tag)
    BY <1>3, <1>5, <2>2, <2>3 DEF ReplyOf
  <2>12. ReplyOf(j)'
    BY <1>1, <1>3, <2>5, <2>7, <2>9, <2>11 DEF ReplyOf
  <2>. QED
    BY <1>1, <2>9, <2>10, <2>12, ReplyWritten
<1>. QED
  BY <1>1, <1>4, <1>5

LEMMA DeleteReplyStep ==
  ASSUME LibInv, NEW r \in Requests, Library!Delete(r)
  PROVE  LibInv'
<1>1. /\ lReq[r].pc = "delete" /\ lReq' = [lReq EXCEPT ![r] = Library!Done]
      /\ lReplies' = [lReplies EXCEPT ![lReq[r].id] = None]
      /\ UNCHANGED <<lUsed, lTags, lLinks, lDeleted, lAsked, lOverlap>>
  BY DEF Library!Delete, Library!Set, Library!catalogue
<1>2. PICK i \in Replies : i = lReq[r].id
  <2>1. lReq[r] \in LibReqs
    BY DEF LibInv, LibTyped
  <2>2. lReq[r].id \in Replies
    BY <1>1, <2>1, ReqKinds
  <2>. QED
    BY <2>2
<1>3. /\ lReplies' \in [Replies -> LibDrafts \cup {None}] /\ DOMAIN lAsked' = Replies
      /\ lReplies'[i] = None
      /\ \A j \in Replies \ {i} : lReplies'[j] = lReplies[j] /\ lAsked'[j] = lAsked[j]
  BY <1>1, <1>2 DEF LibInv, LibTyped
<1>4. ReplyOf(i)'
  BY <1>3 DEF ReplyOf
<1>. QED
  BY <1>1, <1>3, <1>4, ReplyWritten


\* Tags and their links come and go; a slug that was live stays so.
LEMMA TagStep ==
  ASSUME LibInv,
         \/ \E t \in TagIds : Library!CreateTag(t) \/ Library!DeleteTag(t)
         \/ \E l \in lLinks : Library!Detach(l)
  PROVE  LibInv'
<1>1. UNCHANGED <<lReplies, lUsed, lReq, lAsked, lOverlap>>
  BY DEF Library!CreateTag, Library!DeleteTag, Library!Detach
<1>2. /\ lTags' \subseteq TagIds /\ lLinks' \subseteq TaggedTickets \X lTags'
      /\ lDeleted' \subseteq Library!Slugs /\ LiveSlugs \subseteq LiveSlugs'
  <2>1. lTags \subseteq TagIds /\ lLinks \subseteq TaggedTickets \X lTags /\ lDeleted \subseteq Library!Slugs
    BY DEF LibInv, LibTyped
  <2>2. ASSUME NEW t \in TagIds, Library!CreateTag(t)
        PROVE  /\ lTags' \subseteq TagIds /\ lLinks' \subseteq TaggedTickets \X lTags'
               /\ lDeleted' \subseteq Library!Slugs /\ LiveSlugs \subseteq LiveSlugs'
    BY <2>1, <2>2 DEF Library!CreateTag, LiveSlugs
  <2>3. ASSUME NEW t \in TagIds, Library!DeleteTag(t)
        PROVE  /\ lTags' \subseteq TagIds /\ lLinks' \subseteq TaggedTickets \X lTags'
               /\ lDeleted' \subseteq Library!Slugs /\ LiveSlugs \subseteq LiveSlugs'
    <3>1. lTags' = lTags \ {t} /\ lLinks' = {l \in lLinks : l[2] # t} /\ lDeleted' = lDeleted \cup {SlugOf[t]}
      BY <2>3 DEF Library!DeleteTag
    <3>2. SlugOf[t] \in Library!Slugs
      BY DEF Library!Slugs
    <3>3. lLinks' \subseteq TaggedTickets \X lTags'
      BY <2>1, <3>1
    <3>4. LiveSlugs \subseteq LiveSlugs'
      BY <3>1 DEF LiveSlugs
    <3>. QED
      BY <2>1, <3>1, <3>2, <3>3, <3>4
  <2>4. ASSUME NEW l \in lLinks, Library!Detach(l)
        PROVE  /\ lTags' \subseteq TagIds /\ lLinks' \subseteq TaggedTickets \X lTags'
               /\ lDeleted' \subseteq Library!Slugs /\ LiveSlugs \subseteq LiveSlugs'
    BY <2>1, <2>4 DEF Library!Detach, LiveSlugs
  <2>. QED
    BY <2>2, <2>3, <2>4
<1>3. LibTyped'
  BY <1>1, <1>2 DEF LibInv, LibTyped
<1>4. \A i \in Replies : ReplyOf(i)'
  BY <1>1, <1>2 DEF LibInv, ReplyOf
<1>5. \A r \in Requests : (Edits(r)' <=> Edits(r))
  BY <1>1 DEF Edits
<1>6. \A r \in Requests : Sound(r)'
  BY <1>1, <1>2, <1>5 DEF LibInv, Sound
<1>7. \A r \in Requests : UpToDate(r)'
  BY <1>1, <1>5 DEF LibInv, UpToDate
<1>8. \A r, s \in Requests : Alone(r, s)'
  BY <1>1, <1>5 DEF LibInv, Alone
<1>. QED
  BY <1>3, <1>4, <1>6, <1>7, <1>8 DEF LibInv

\* The link is written if the tag is still there.
LEMMA AttachStep ==
  ASSUME LibInv, NEW r \in Requests, Library!Attach(r)
  PROVE  LibInv'
<1>1. /\ lReq[r].pc = "link" /\ lReq' = [lReq EXCEPT ![r] = Library!Done]
      /\ UNCHANGED <<lReplies, lUsed, lTags, lDeleted, lAsked, lOverlap>>
      /\ lLinks' = lLinks \/ (lReq[r].id \in lTags /\ lLinks' = lLinks \cup {<<lReq[r].ticket, lReq[r].id>>})
  BY DEF Library!Attach, Library!Set
<1>2. lReq[r].ticket \in TaggedTickets
  <2>1. lReq[r] \in LibReqs
    BY DEF LibInv, LibTyped
  <2>2. lReq[r] \in TagReqs
    BY <1>1, <2>1, ReqKinds
  <2>. QED
    BY <2>2 DEF TagReqs
<1>3. /\ lReq' \in [Requests -> LibReqs] /\ lReq'[r].pc = "done"
      /\ \A s \in Requests \ {r} : lReq'[s] = lReq[s]
  BY <1>1 DEF LibInv, LibTyped, LibReqs, Library!Done
<1>4. lLinks' \subseteq TaggedTickets \X lTags'
  BY <1>1, <1>2 DEF LibInv, LibTyped
<1>5. LibTyped' /\ LiveSlugs' = LiveSlugs
  BY <1>1, <1>3, <1>4 DEF LibInv, LibTyped, LiveSlugs
<1>6. \A i \in Replies : ReplyOf(i)'
  BY <1>1, <1>5 DEF LibInv, ReplyOf
<1>7. Sound(r)' /\ ~Edits(r)'
  BY <1>3 DEF Sound, Edits
<1>8. ASSUME NEW s \in Requests PROVE UpToDate(s)'
  <2>1. CASE s = r
    BY <1>7, <2>1 DEF UpToDate
  <2>2. CASE s # r
    BY <1>1, <1>3, <2>2 DEF LibInv, UpToDate, Edits
  <2>. QED
    BY <2>1, <2>2
<1>. QED
  BY <1>1, <1>3, <1>5, <1>6, <1>7, <1>8, LibMoves

\* An edit keeps what it does not carry and a macro resolves, in every run.
LEMMA LibrarySound ==
  ASSUME Library!BodyAssumption
  PROVE  Library!Spec => [](Library!TypeOK /\ Library!EditsKeep /\ Library!MacrosResolve)
<1>1. Library!Init => LibInv
  BY LibInitial
<1>2. LibInv /\ [Library!Next]_Library!vars => LibInv'
  <2>. SUFFICES ASSUME LibInv, [Library!Next]_Library!vars PROVE LibInv'
    OBVIOUS
  <2>1. CASE UNCHANGED Library!vars
    <3>1. /\ UNCHANGED <<lReplies, lUsed, lTags, lLinks, lReq, lAsked, lOverlap, lDeleted>>
          /\ LiveSlugs' = LiveSlugs
      BY <2>1 DEF Library!vars, LiveSlugs
    <3>2. LibTyped' /\ \A i \in Replies : ReplyOf(i)'
      BY <3>1 DEF LibInv, LibTyped, ReplyOf
    <3>3. \A r \in Requests : Edits(r)' <=> Edits(r)
      BY <3>1 DEF Edits
    <3>4. \A r \in Requests : Sound(r)' /\ UpToDate(r)'
      BY <3>1, <3>3 DEF LibInv, Sound, UpToDate
    <3>5. \A r, s \in Requests : Alone(r, s)'
      BY <3>1, <3>3 DEF LibInv, Alone
    <3>. QED
      BY <3>2, <3>4, <3>5 DEF LibInv
  <2>2. ASSUME NEW r \in Requests, Library!Step(r) PROVE LibInv'
    BY <2>2, RequestStep, GetRowStep, CreateReplyStep, UpdateReplyStep, DeleteReplyStep, AttachStep
       DEF Library!Step
  <2>3. ASSUME NEW r \in Requests,
               \/ \E row \in Rows, owner \in {ActorOf[r], None} : Library!create(r, row, owner)
               \/ \E i \in Replies : \/ \E p \in Patches : Library!Open(r, i, "patch", p)
                                     \/ Library!Open(r, i, "delete", None)
               \/ \E x \in TaggedTickets, t \in TagIds : Library!attach(r, x, t)
        PROVE  LibInv'
    BY <2>3, RequestStep
  <2>4. ASSUME \/ \E t \in TagIds : Library!CreateTag(t) \/ Library!DeleteTag(t)
               \/ \E l \in lLinks : Library!Detach(l)
        PROVE  LibInv'
    BY <2>4, TagStep
  <2>. QED
    BY <2>1, <2>2, <2>3, <2>4 DEF Library!Next
<1>3. LibInv => Library!TypeOK /\ Library!EditsKeep /\ Library!MacrosResolve
  BY LibShown
<1>. QED
  BY <1>1, <1>2, <1>3, PTL DEF Library!Spec

-----------------------------------------------------------------------------
(***************************************************************************)
(* Side by side: a step of the services is a step of one and leaves the    *)
(* others alone, so what holds of each holds of all of them together.      *)
(***************************************************************************)
LEMMA SideBySide ==
  /\ ServicesSpec => Spec
  /\ ServicesSpec => Sla!Spec
  /\ ServicesSpec => Hub!Spec
  /\ ServicesSpec => Dsr!Spec
  /\ ServicesSpec => Document!Spec
  /\ ServicesSpec => Connect!Spec
  /\ ServicesSpec => Library!Spec
<1>1. ServicesInit => /\ Init /\ Sla!Init /\ Hub!Init /\ Dsr!Init
                      /\ Document!Init /\ Connect!Init /\ Library!Init
  BY DEF ServicesInit
<1>. DEFINE Same == /\ UNCHANGED vars /\ UNCHANGED Sla!vars /\ UNCHANGED Hub!vars /\ UNCHANGED Dsr!vars
                    /\ UNCHANGED Document!vars /\ UNCHANGED Connect!vars /\ UNCHANGED Library!vars
<1>2. /\ sVars' = sVars <=> UNCHANGED Sla!vars
      /\ hVars' = hVars <=> UNCHANGED Hub!vars
      /\ dVars' = dVars <=> UNCHANGED Dsr!vars
      /\ uVars' = uVars <=> UNCHANGED Document!vars
      /\ cVars' = cVars <=> UNCHANGED Connect!vars
      /\ lVars' = lVars <=> UNCHANGED Library!vars
  BY DEF sVars, hVars, dVars, uVars, cVars, lVars, Sla!vars, Hub!vars, Dsr!vars, Document!vars,
         Connect!vars, Library!vars
<1>3. ASSUME [ServicesNext]_ServicesVars
      PROVE  /\ [Next]_vars /\ [Sla!Next]_Sla!vars /\ [Hub!Next]_Hub!vars /\ [Dsr!Next]_Dsr!vars
             /\ [Document!Next]_Document!vars /\ [Connect!Next]_Connect!vars
             /\ [Library!Next]_Library!vars
  <2>1. CASE UNCHANGED ServicesVars
    BY <1>2, <2>1 DEF ServicesVars
  <2>2. CASE Surveyed(Next)
    BY <1>2, <2>2 DEF Surveyed
  <2>3. CASE Timed(Sla!Next)
    BY <1>2, <2>3 DEF Timed
  <2>4. CASE Streamed(Hub!Next)
    BY <1>2, <2>4 DEF Streamed
  <2>5. CASE Asked(Dsr!Next)
    BY <1>2, <2>5 DEF Asked
  <2>6. CASE Uploaded(Document!Next)
    BY <1>2, <2>6 DEF Uploaded
  <2>7. CASE Connected(Connect!Next)
    BY <1>2, <2>7 DEF Connected
  <2>8. CASE Written(Library!Next)
    BY <1>2, <2>8 DEF Written
  <2>. QED
    BY <1>3, <2>1, <2>2, <2>3, <2>4, <2>5, <2>6, <2>7, <2>8 DEF ServicesNext
<1>. QED
  BY <1>1, <1>3, PTL DEF ServicesSpec, Spec, Sla!Spec, Hub!Spec, Dsr!Spec, Document!Spec,
                         Connect!Spec, Library!Spec

(***************************************************************************)
(* What is stored and read has its type, in every service (ServicesTypeOK) *)
(***************************************************************************)
THEOREM ServicesTyped ==
  ASSUME Sla!PolicyAssumption, Sla!FiniteAssumption, Sla!BoundAssumption,
         Hub!NoneAssumption, Hub!ChannelAssumption, Hub!BoundAssumption,
         Dsr!CallbackAssumption, Dsr!BoundAssumption, Document!BoundAssumption,
         Connect!AssetAssumption, Connect!BoundAssumption, Library!BodyAssumption
  PROVE  ServicesSpec => []ServicesTypeOK
<1>1. (TypeOK /\ Sla!TypeOK /\ Hub!TypeOK /\ Dsr!TypeOK /\ Document!TypeOK /\ Connect!TypeOK
         /\ Library!TypeOK) => ServicesTypeOK
  BY DEF ServicesTypeOK
<1>. QED
  BY <1>1, SideBySide, TypeCorrect, SlaSound, HubSound, DsrSound, DocumentClean, ConSound, LibrarySound, PTL

(***************************************************************************)
(* The scheduler reads a ticket and raises it later; what was met in the   *)
(* meantime is raised once per scheduler and kind at most (CalmStaysCalm). *)
(***************************************************************************)
THEOREM RaisedLateSeldom ==
  ASSUME Sla!PolicyAssumption, Sla!FiniteAssumption, Sla!BoundAssumption
  PROVE  ServicesSpec => []CalmStaysCalm
<1>1. Sla!CalmStaysCalm => CalmStaysCalm
  BY DEF CalmStaysCalm
<1>. QED
  BY <1>1, SideBySide, SlaSound, PTL

(***************************************************************************)
(* Whatever the sockets, the pumps and Close do between the critical       *)
(* sections of h.mu, the hub closes no channel twice and every channel     *)
(* with subscribers has the one pump that pubsubs names (HubSafe).         *)
(***************************************************************************)
THEOREM HubStaysSafe ==
  ASSUME Hub!NoneAssumption, Hub!ChannelAssumption, Hub!BoundAssumption
  PROVE  ServicesSpec => []HubSafe
<1>1. Hub!HubSafe => HubSafe
  BY DEF HubSafe
<1>. QED
  BY <1>1, SideBySide, HubSound, PTL

(***************************************************************************)
(* What the platform keeps for a tenant: Meta's erasure requests reach     *)
(* every tenant, nothing unscanned is stored, an Instagram account follows *)
(* its page, shown channels are subscribed, an edit keeps what it does not *)
(* carry, a macro resolves (DataProtected).                                *)
(***************************************************************************)
THEOREM TenantDataProtected ==
  ASSUME Dsr!CallbackAssumption, Dsr!BoundAssumption, Document!BoundAssumption,
         Connect!AssetAssumption, Connect!BoundAssumption, Library!BodyAssumption
  PROVE  ServicesSpec => []DataProtected
<1>1. (Dsr!EveryTenantAsked /\ Document!CleanIsStored
         /\ Connect!AccountsFollowPages /\ Connect!ShownIsSubscribed
         /\ Library!EditsKeep /\ Library!MacrosResolve) => DataProtected
  BY DEF DataProtected
<1>. QED
  BY <1>1, SideBySide, DsrSound, DocumentClean, ConSound, LibrarySound, PTL

(***************************************************************************)
(* No step takes back a score, short of a revoked survey, nor moves a      *)
(* closed data subject request (DecisionsStand).                           *)
(***************************************************************************)
THEOREM DecisionsAreFinal ==
  ASSUME Dsr!CallbackAssumption, Dsr!BoundAssumption
  PROVE  ServicesSpec => DecisionsStand
<1>. QED
  BY SideBySide, FirstScoreStands, DsrSound DEF DecisionsStand
=============================================================================
