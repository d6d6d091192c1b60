---------------------------- MODULE JsonlJournal ----------------------------
(***************************************************************************)
(* src/src/sessions/jsonl-journal.ts: the durable journal of one Session.  *)
(* An append reads the whole file, checks the expected revision, writes    *)
(* the complete new contents to a temporary file and renames it over the   *)
(* old one; #tails runs the appends of one JsonlSessionJournal object one  *)
(* after the other.  Every file operation is an await: other objects on    *)
(* the same directory, readers and a crash come in between.                *)
(***************************************************************************)
EXTENDS Naturals, Sequences, FiniteSets, SequencesExt

CONSTANTS Instances,    \* JsonlSessionJournal objects on the directory
          Requests,     \* calls of append()
          MaxBatch,     \* bound: events of a batch
          MaxRevision,  \* bound: expected revisions
          MaxCrashes    \* bound: crashes

ASSUME BoundsAssumption ==
  /\ MaxBatch \in Nat \ {0}
  /\ MaxRevision \in Nat
  /\ MaxCrashes \in Nat

VARIABLES
  file,      \* the durable contents: the events <<request, position>>
  request,   \* the arguments of each append: [size, expected]
  status,    \* "none", "asked", "appended", "conflict" or "failed"
  queue,     \* #tails: each object's appends, the head is running
  stage,     \* where the head's #appendUnlocked stands
  complete,  \* the contents it has written to its temporary file
  reader,    \* a read() of each object: the appends it awaits, what it has seen,
             \* and for the properties those acknowledged in the past of its call
  crashes

vars == <<file, request, status, queue, stage, complete, reader, crashes>>

Batch(r) == [k \in 1..request[r].size |-> <<r, k>>]

Idle == [stage |-> "idle", past |-> {}, awaits |-> {}, seen |-> <<>>]

Init ==
  /\ file = <<>>
  /\ request = [r \in Requests |-> [size |-> 1, expected |-> 0]]
  /\ status = [r \in Requests |-> "none"]
  /\ queue = [i \in Instances |-> <<>>]
  /\ stage = [i \in Instances |-> "idle"]
  /\ complete = [i \in Instances |-> <<>>]
  /\ reader = [i \in Instances |-> Idle]
  /\ crashes = 0

-----------------------------------------------------------------------------

\* append(): join the chain of this object.
AppendCall(i, r) ==
  /\ status[r] = "none"
  /\ \E n \in 1..MaxBatch : \E v \in 0..MaxRevision :
       request' = [request EXCEPT ![r] = [size |-> n, expected |-> v]]
  /\ status' = [status EXCEPT ![r] = "asked"]
  /\ queue' = [queue EXCEPT ![i] = Append(@, r)]
  /\ UNCHANGED <<file, stage, complete, reader, crashes>>

\* Mutant of Settle: #tails keeps the rejection, and nothing runs after it.
SettleBreaksChain(i, s) ==
  /\ status' = [status EXCEPT ![Head(queue[i])] = s]
  /\ queue' = IF s = "failed" THEN queue ELSE [queue EXCEPT ![i] = Tail(@)]
  /\ stage' = [stage EXCEPT ![i] = IF s = "failed" THEN "broken" ELSE "idle"]
  /\ complete' = [complete EXCEPT ![i] = <<>>]

\* The head of the chain settles with result s and the next one may run.
Settle(i, s) ==
  /\ status' = [status EXCEPT ![Head(queue[i])] = s]
  /\ queue' = [queue EXCEPT ![i] = Tail(@)]
  /\ stage' = [stage EXCEPT ![i] = "idle"]
  /\ complete' = [complete EXCEPT ![i] = <<>>]

\* #readUnlocked and the revision check; from here to the rename nobody looks
\* at the file again, however it changes.
CheckRevision(i) ==
  /\ stage[i] = "idle"
  /\ queue[i] # <<>>
  /\ LET r == Head(queue[i]) IN
     \/ /\ Len(file) = request[r].expected
        /\ stage' = [stage EXCEPT ![i] = "writing"]
        /\ complete' = [complete EXCEPT ![i] = file \o Batch(r)]
        /\ UNCHANGED <<status, queue>>
     \/ /\ Len(file) # request[r].expected
        /\ Settle(i, "conflict")
  /\ UNCHANGED <<file, request, reader, crashes>>

\* The temporary file is written, synced and closed.
WriteTemporary(i) ==
  /\ stage[i] = "writing"
  /\ stage' = [stage EXCEPT ![i] = "renaming"]
  /\ UNCHANGED <<file, request, status, queue, complete, reader, crashes>>

\* Mutant of Rename: the last event of the contents is lost.
RenameTorn(i) ==
  /\ stage[i] = "renaming"
  /\ file' = Front(complete[i])
  /\ Settle(i, "appended")
  /\ UNCHANGED <<request, reader, crashes>>

\* rename() makes the new contents the Session's history.
Rename(i) ==
  /\ stage[i] = "renaming"
  /\ file' = complete[i]
  /\ Settle(i, "appended")
  /\ UNCHANGED <<request, reader, crashes>>

\* A file operation fails: nothing is renamed, the chain goes on.
IoError(i) ==
  /\ queue[i] # <<>>
  /\ Settle(i, "failed")
  /\ UNCHANGED <<file, request, reader, crashes>>

\* read(): await the chain as it is now, then read the file.
ReadCall(i) ==
  /\ reader[i].stage = "idle"
  /\ reader' = [reader EXCEPT ![i] =
       [stage |-> "waiting", past |-> {r \in Requests : status[r] = "appended"},
        awaits |-> Range(queue[i]), seen |-> <<>>]]
  /\ UNCHANGED <<file, request, status, queue, stage, complete, crashes>>

\* Mutant of TailSettled: do not await the chain.
NoTail(i) == TRUE

TailSettled(i) == \A r \in reader[i].awaits : status[r] # "asked"

ReadFile(i) ==
  /\ reader[i].stage = "waiting"
  /\ TailSettled(i)
  /\ reader' = [reader EXCEPT ![i].stage = "done", ![i].seen = file]
  /\ UNCHANGED <<file, request, status, queue, stage, complete, crashes>>

ReadReturns(i) ==
  /\ reader[i].stage = "done"
  /\ reader' = [reader EXCEPT ![i] = Idle]
  /\ UNCHANGED <<file, request, status, queue, stage, complete, crashes>>

\* The process ends; the objects of the next one start with empty chains.
Crash ==
  /\ crashes < MaxCrashes
  /\ crashes' = crashes + 1
  /\ status' = [r \in Requests |-> IF status[r] = "asked" THEN "failed" ELSE status[r]]
  /\ queue' = [i \in Instances |-> <<>>]
  /\ stage' = [i \in Instances |-> "idle"]
  /\ complete' = [i \in Instances |-> <<>>]
  /\ reader' = [i \in Instances |-> Idle]
  /\ UNCHANGED <<file, request>>

AppendStep(i) == CheckRevision(i) \/ WriteTemporary(i) \/ Rename(i) \/ IoError(i)

ReadStep(i) == ReadCall(i) \/ ReadFile(i) \/ ReadReturns(i)

Next ==
  \/ \E i \in Instances : \/ \E r \in Requests : AppendCall(i, r)
                          \/ AppendStep(i)
                          \/ ReadStep(i)
  \/ Crash

Spec == Init /\ [][Next]_vars

\* File operations end, with a result or an error.
Fairness == \A i \in Instances : WF_vars(AppendStep(i)) /\ WF_vars(ReadFile(i))

FairSpec == Spec /\ Fairness

-----------------------------------------------------------------------------

Event == Requests \X (1..MaxBatch)

\* The type invariant: the file, the chains and the appends under way.
TypeOK ==
  /\ file \in Seq(Event)
  /\ request \in [Requests -> [size : 1..MaxBatch, expected : 0..MaxRevision]]
  /\ status \in [Requests -> {"none", "asked", "appended", "conflict", "failed"}]
  /\ queue \in [Instances -> Seq(Requests)]
  /\ stage \in [Instances -> {"idle", "writing", "renaming"}]
  /\ complete \in [Instances -> Seq(Event)]
  /\ reader \in [Instances -> [stage : {"idle", "waiting", "done"}, past : SUBSET Requests,
                              awaits : SUBSET Requests, seen : Seq(Event)]]
  /\ crashes \in 0..MaxCrashes

\* An append under way is at the head of its chain.
HeadRuns == \A i \in Instances : stage[i] # "idle" => queue[i] # <<>>

\* What an object is about to rename is the present history and its batch.
FreshContents ==
  \A i \in Instances : stage[i] # "idle" =>
    /\ complete[i] = file \o Batch(Head(queue[i]))
    /\ Len(file) = request[Head(queue[i])].expected

\* The appends of the chains are asked, each in one place.
QueuesAsked ==
  /\ \A i \in Instances : \A k \in 1..Len(queue[i]) : status[queue[i][k]] = "asked"
  /\ \A i, j \in Instances : \A k \in 1..Len(queue[i]) : \A m \in 1..Len(queue[j]) :
       queue[i][k] = queue[j][m] => i = j /\ k = m

\* The batch of r is part of a history.
Recorded(r, events) == \A k \in 1..request[r].size : \E m \in 1..Len(events) : events[m] = <<r, k>>

\* What was acknowledged is in the file.
AcknowledgedStays == \A r \in Requests : status[r] = "appended" => Recorded(r, file)

\* A read awaits appends that were asked for, and is done when they are settled;
\* what was acknowledged before its call is acknowledged for good.
ReadersAwait ==
  \A i \in Instances : \A r \in reader[i].past \cup reader[i].awaits :
    /\ status[r] # "none"
    /\ r \in reader[i].past => status[r] = "appended"
    /\ reader[i].stage = "done" =>
         status[r] # "asked" /\ (status[r] = "appended" => Recorded(r, reader[i].seen))

\* A read that finished saw every append that was acknowledged before it was
\* called, by whichever process, and every one that was under way in its object
\* then and succeeded: the Session reads what it has written.
ReadYourWrites ==
  \A i \in Instances : reader[i].stage = "done" =>
    /\ \A r \in reader[i].past : Recorded(r, reader[i].seen)
    /\ \A r \in reader[i].awaits : status[r] = "appended" => Recorded(r, reader[i].seen)

\* Every append is answered.
AppendsSettle == \A r \in Requests : (status[r] = "asked") ~> (status[r] # "asked")

\* One object implements the atomic journal.
Atomic == INSTANCE AtomicJournal WITH history <- file

ImplementsAtomic == Atomic!Spec
=============================================================================
