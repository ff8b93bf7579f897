-------------------------------- MODULE Document --------------------------------
(***************************************************************************)
(* internal/document: an upload is scanned, recorded with the verdict, and *)
(* put to the object store when clean; a download gets a presigned URL of  *)
(* a document recorded as clean.  The request's context is the context of  *)
(* every call, so a client that leaves makes them all fail.                *)
(***************************************************************************)
EXTENDS Naturals

CONSTANTS
  Uploads,
  Infected,    \* the uploads that carry a virus
  MaxFaults    \* bound on failed calls, crashes, clients that leave and operators

InfectedAssumption == Infected \subseteq Uploads
BoundAssumption == MaxFaults \in Nat

VARIABLES
  pc,        \* "sniff", "scan", "insert", "put", "undo" or "done"
  scanned,   \* the verdict: "none", "clean", "infected" or "scan_failed"
  status,    \* documents.scan_status, "none" when there is no row
  stored,    \* objects in the store
  left,      \* uploads whose client is gone
  dangling,  \* clean rows whose object was not put, nor the row undone
  flipped,   \* rows an operator made clean
  signed,    \* documents a URL was issued for
  faults

vars == <<pc, scanned, status, stored, left, dangling, flipped, signed, faults>>
Statuses == {"none", "clean", "infected", "scan_failed"}

TypeOK ==
  /\ pc \in [Uploads -> {"sniff", "scan", "insert", "put", "undo", "done"}]
  /\ scanned \in [Uploads -> Statuses] /\ status \in [Uploads -> Statuses]
  /\ {stored, left, dangling, flipped, signed} \subseteq SUBSET Uploads
  /\ faults \in 0..MaxFaults

Init ==
  /\ pc = [u \in Uploads |-> "sniff"]
  /\ scanned = [u \in Uploads |-> "none"] /\ status = [u \in Uploads |-> "none"]
  /\ stored = {} /\ left = {} /\ dangling = {} /\ flipped = {} /\ signed = {} /\ faults = 0

Fault == faults < MaxFaults /\ faults' = faults + 1
Goto(u, l) == pc' = [pc EXCEPT ![u] = l]
Alive(u) == u \notin left
-----------------------------------------------------------------------------
\* readCapped and Sniff: too large, or a type that is not allowed, ends it.
sniff(u, accepted) ==
  /\ pc[u] = "sniff"
  /\ Goto(u, IF accepted THEN "scan" ELSE "done")
  /\ UNCHANGED <<scanned, status, stored, left, dangling, flipped, signed, faults>>

\* Mutant: a scanner that cannot be asked is taken as a clean verdict.
MutVerdict(u, answered) == IF answered /\ u \in Infected THEN "infected" ELSE "clean"

Verdict(u, answered) == CASE ~answered                   -> "scan_failed"
                          [] answered /\ u \in Infected  -> "infected"
                          [] OTHER                       -> "clean"

\* clamd answers, or the dial, the stream or the deadline fails.
scan(u) ==
  /\ pc[u] = "scan"
  /\ \/ Alive(u) /\ scanned' = [scanned EXCEPT ![u] = Verdict(u, TRUE)] /\ UNCHANGED faults
     \/ ~Alive(u) /\ scanned' = [scanned EXCEPT ![u] = Verdict(u, FALSE)] /\ UNCHANGED faults
     \/ Fault /\ scanned' = [scanned EXCEPT ![u] = Verdict(u, FALSE)]
  /\ Goto(u, "insert")
  /\ UNCHANGED <<status, stored, left, dangling, flipped, signed>>

insert(u) ==
  /\ pc[u] = "insert"
  /\ \/ /\ Alive(u)
        /\ status' = [status EXCEPT ![u] = scanned[u]]
        /\ Goto(u, IF scanned[u] = "clean" THEN "put" ELSE "done")
        /\ UNCHANGED faults
     \/ ~Alive(u) /\ Goto(u, "done") /\ UNCHANGED <<status, faults>>
     \/ Fault /\ Goto(u, "done") /\ UNCHANGED status
  /\ UNCHANGED <<scanned, stored, left, dangling, flipped, signed>>

\* Mutant: a failed put leaves the row as it is.
MutOnFailure(u) == "done"

OnFailure(u) == "undo"

Put(u) ==
  /\ pc[u] = "put"
  /\ \/ Alive(u) /\ stored' = stored \cup {u} /\ Goto(u, "done") /\ UNCHANGED faults
     \/ ~Alive(u) /\ Goto(u, OnFailure(u)) /\ UNCHANGED <<stored, faults>>
     \/ Fault /\ Goto(u, OnFailure(u)) /\ UNCHANGED stored
  /\ UNCHANGED <<scanned, status, left, dangling, flipped, signed>>

\* UPDATE documents SET scan_status = 'scan_failed', its error ignored.
Undo(u) ==
  /\ pc[u] = "undo"
  /\ Goto(u, "done")
  /\ \/ /\ Alive(u) /\ status' = [status EXCEPT ![u] = "scan_failed"]
        /\ flipped' = flipped \ {u} /\ UNCHANGED <<dangling, faults>>
     \/ ~Alive(u) /\ dangling' = dangling \cup {u} /\ UNCHANGED <<status, flipped, faults>>
     \/ Fault /\ dangling' = dangling \cup {u} /\ UNCHANGED <<status, flipped>>
  /\ UNCHANGED <<scanned, stored, left, signed>>

Leave(u) ==
  /\ pc[u] # "done" /\ Alive(u) /\ Fault
  /\ left' = left \cup {u}
  /\ UNCHANGED <<pc, scanned, status, stored, dangling, flipped, signed>>

Crash(u) ==
  /\ pc[u] # "done" /\ Fault
  /\ Goto(u, "done")
  /\ dangling' = IF pc[u] \in {"put", "undo"} THEN dangling \cup {u} ELSE dangling
  /\ UNCHANGED <<scanned, status, stored, left, flipped, signed>>

\* An operator sets scan_status by hand.
Flip(u) ==
  /\ status[u] \notin {"none", "clean"} /\ Fault
  /\ status' = [status EXCEPT ![u] = "clean"]
  /\ flipped' = flipped \cup {u}
  /\ UNCHANGED <<pc, scanned, stored, left, dangling, signed>>

PresignDownload(u) ==
  /\ status[u] = "clean"
  /\ signed' = signed \cup {u}
  /\ UNCHANGED <<pc, scanned, status, stored, left, dangling, flipped, faults>>

Upload(u) == scan(u) \/ insert(u) \/ Put(u) \/ Undo(u) \/ \E accepted \in BOOLEAN : sniff(u, accepted)
Next == \E u \in Uploads : Upload(u) \/ Leave(u) \/ Crash(u) \/ Flip(u) \/ PresignDownload(u)

Spec == Init /\ [][Next]_vars
-----------------------------------------------------------------------------
(***************************************************************************)
(* Nothing infected or unscanned is stored, whatever fails; and a document *)
(* listed as clean has its object, is being put or undone, was undone by   *)
(* nobody (the crash or the client took the context with it), or was made  *)
(* clean by hand.                                                          *)
(***************************************************************************)
CleanIsStored ==
  /\ \A u \in stored : scanned[u] = "clean" /\ u \notin Infected
  /\ \A u \in Uploads : status[u] = "clean" =>
       u \in stored \/ pc[u] \in {"put", "undo"} \/ u \in dangling \/ u \in flipped
=============================================================================
