--------------------------- MODULE AtomicJournal ---------------------------
(***************************************************************************)
(* What a SessionJournal promises for one Session (docs/ARCHITECTURE.md    *)
(* section 8): a batch is appended atomically and only at the revision its *)
(* author expects; anything else leaves the history alone.                 *)
(***************************************************************************)
EXTENDS Naturals, Sequences

CONSTANTS Requests,  \* appends
          MaxBatch   \* events of a batch, at most

VARIABLES history,   \* the events <<request, position in its batch>>
          status     \* "none", "asked", "appended", "conflict" or "failed"

jvars == <<history, status>>

Batch(r, n) == [k \in 1..n |-> <<r, k>>]

Init == history = <<>> /\ status = [r \in Requests |-> "none"]

Ask(r) ==
  /\ status[r] = "none"
  /\ status' = [status EXCEPT ![r] = "asked"]
  /\ UNCHANGED history

\* The batch is appended whole.
Extend(r) ==
  /\ status[r] = "asked"
  /\ \E n \in 1..MaxBatch : history' = history \o Batch(r, n)
  /\ status' = [status EXCEPT ![r] = "appended"]

\* The author's revision is stale, or the storage failed: nothing is appended.
Refuse(r) ==
  /\ status[r] = "asked"
  /\ \E s \in {"conflict", "failed"} : status' = [status EXCEPT ![r] = s]
  /\ UNCHANGED history

\* A crash fails every append under way, none of which is durable.
Crash ==
  /\ status' = [r \in Requests |-> IF status[r] = "asked" THEN "failed" ELSE status[r]]
  /\ UNCHANGED history

Next == (\E r \in Requests : Ask(r) \/ Extend(r) \/ Refuse(r)) \/ Crash

Spec == Init /\ [][Next]_jvars
=============================================================================
