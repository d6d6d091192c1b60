----------------------------- MODULE SessionLane -----------------------------
(***************************************************************************)
(* src/src/sessions/session.ts: how one Session queues Inputs, runs one    *)
(* Turn after the other, appends their events, is cancelled, shut down,    *)
(* lost in a crash and opened again.  What a Turn does between its         *)
(* turn/started and its terminal event is TurnLoop.tla; here it is one     *)
(* step that ends or throws.                                               *)
(*                                                                         *)
(* #turnTail is a chain of promises.  Every call of #scheduleInput adds    *)
(* one link, so the chain is the sequence `lane` and `previousTurn` of     *)
(* entry k is entry k - 1.  A step of the model runs one continuation up   *)
(* to its next await.                                                      *)
(***************************************************************************)
EXTENDS Naturals, Sequences, FiniteSets, SequencesExt

CONSTANTS MaxInputs,    \* bound: Inputs sent
          MaxEntries,   \* bound: calls of #scheduleInput
          MaxCrashes,   \* bound: process crashes
          MaxFailures   \* bound: journal appends that fail without crashing

ASSUME BoundsAssumption ==
  /\ MaxInputs \in Nat
  /\ MaxEntries \in Nat
  /\ MaxCrashes \in Nat
  /\ MaxFailures \in Nat

VARIABLES
  journal,    \* the durable events, in order
  lane,       \* the scheduled Inputs: [input, stage, cancelled]
  ops,        \* #appendTail: the appends requested and not yet settled
  activeTurn, \* #activeTurn: the index of its entry, or 0
  stopping,   \* #stopping
  stopWait,   \* the entry whose promise shutdown() awaits
  stopped,    \* shutdown() has returned
  open,       \* this process holds a Session object
  sent,       \* Inputs sent so far; Input n is the n-th
  reading,    \* what a resumption has read: the pending Inputs, or <<>>
  outrun,     \* ghost: Inputs scheduled by a read that is older than their Turn
  crashes, failures

vars == <<journal, lane, ops, activeTurn, stopping, stopWait, stopped, open,
          sent, reading, outrun, crashes, failures>>

resumption == <<reading, outrun>>

\* #execute is between its first statement and the end of its `finally`.
Running == {"starting", "working", "ending", "catching", "ended"}

\* The promise returned by #scheduleInput is settled: the Turn is over, refused
\* because the Kernel is disposing, or gone with its process.
Settled == {"settled", "stopped", "lost"}

Stage == {"accepting", "queued"} \cup Running \cup Settled

\* The statuses of session.ts that end a Turn, by the block that appends them.
TryEnd == {"turn/completed", "turn/exhausted"}
CatchEnd == {"turn/cancelled", "turn/failed"}
Terminal == TryEnd \cup CatchEnd \cup {"turn/interrupted"}

EventType == {"input/accepted", "turn/started"} \cup Terminal

Op(type, k) == [type |-> type, turn |-> k]

EventOf(op) == [type |-> op.type, turn |-> op.turn, input |-> lane[op.turn].input]

Entry(i, stage) == [input |-> i, stage |-> stage, cancelled |-> FALSE]

IsTurnEvent(e) == e.type # "input/accepted"

\* The position of the last Turn event before position m, if there is one.
TurnEventBefore(m) ==
  {n \in 1..(m - 1) : /\ IsTurnEvent(journal[n])
                      /\ \A i \in (n + 1)..(m - 1) : ~IsTurnEvent(journal[i])}

\* The positions of a finite set, in increasing order.
Ascending(S) ==
  {at \in [1..Cardinality(S) -> S] : \A a, b \in 1..Cardinality(S) : a < b => at[a] < at[b]}

Init ==
  /\ journal = <<>>
  /\ lane = <<>>
  /\ ops = <<>>
  /\ activeTurn = 0
  /\ stopping = FALSE
  /\ stopWait = 0
  /\ stopped = FALSE
  /\ open = TRUE
  /\ sent = 0
  /\ reading = <<>>
  /\ outrun = {}
  /\ crashes = 0
  /\ failures = 0

-----------------------------------------------------------------------------
(* Scheduling.                                                             *)

Consumed(i) == \E n \in 1..Len(journal) :
                 journal[n].type = "turn/started" /\ journal[n].input = i

\* projectPendingInputs: where the Inputs are accepted whose turn/started is not
\* recorded.
PendingInputs == {n \in 1..Len(journal) : /\ journal[n].type = "input/accepted"
                                          /\ ~Consumed(journal[n].input)}

\* Mutant of Scheduled: no #scheduledInputs.
NeverScheduled(i) == FALSE

\* #scheduledInputs: the Inputs whose promise is not settled.
Scheduled(i) == \E k \in 1..Len(lane) : lane[k].input = i /\ lane[k].stage \notin Settled

\* send(): request the append of input/accepted and join the chain.
Send ==
  /\ open
  /\ ~stopping
  /\ sent < MaxInputs
  /\ Len(lane) < MaxEntries
  /\ sent' = sent + 1
  /\ lane' = Append(lane, Entry(sent + 1, "accepting"))
  /\ ops' = Append(ops, Op("input/accepted", Len(lane) + 1))
  /\ UNCHANGED <<journal, activeTurn, stopping, stopWait, stopped, open,
                 crashes, failures, resumption>>

\* resumePendingInputs(), up to the journal's read.  Bound: one read at a time.
ReadPending ==
  /\ open
  /\ reading = <<>>
  /\ PendingInputs # {}
  /\ \E at \in Ascending(PendingInputs) :
       reading' = [n \in 1..Cardinality(PendingInputs) |-> journal[at[n]].input]
  /\ UNCHANGED <<journal, lane, ops, activeTurn, stopping, stopWait, stopped, open,
                 sent, outrun, crashes, failures>>

\* The journal answers: the Inputs that were pending when it read are scheduled,
\* but for those that are scheduled now.  Their acceptance is durable.
Resume ==
  LET fresh == {m \in 1..Len(reading) : ~Scheduled(reading[m])}
  IN  /\ reading # <<>>
      /\ Len(lane) + Cardinality(fresh) <= MaxEntries
      /\ reading' = <<>>
      /\ \E at \in Ascending(fresh) :
           lane' = lane \o [n \in 1..Cardinality(fresh) |-> Entry(reading[at[n]], "queued")]
      /\ outrun' = outrun \cup {i \in {reading[m] : m \in fresh} : Consumed(i)}
      /\ UNCHANGED <<journal, ops, activeTurn, stopping, stopWait, stopped, open,
                     sent, crashes, failures>>

\* Mutant of PreviousSettled: do not await previousTurn.
NoPrevious(k) == TRUE

\* `await previousTurn` of entry k is over.
PreviousSettled(k) == k > 1 => lane[k - 1].stage \in Settled

\* Mutant of Refuse: the promise resolves as if the Input had been executed.
RefuseAsSettled(k) ==
  /\ lane[k].stage = "queued"
  /\ PreviousSettled(k)
  /\ stopping
  /\ lane' = [lane EXCEPT ![k].stage = "settled"]
  /\ UNCHANGED <<journal, ops, activeTurn, stopping, stopWait, stopped, open,
                 sent, crashes, failures, resumption>>

\* Mutant of Refuse: a stopping Session forgets to reject queued Inputs.
RefuseNever(k) == FALSE

\* The Session is stopping: the Input stays durable and its promise rejects.
Refuse(k) ==
  /\ lane[k].stage = "queued"
  /\ PreviousSettled(k)
  /\ stopping
  /\ lane' = [lane EXCEPT ![k].stage = "stopped"]
  /\ UNCHANGED <<journal, ops, activeTurn, stopping, stopWait, stopped, open,
                 sent, crashes, failures, resumption>>

\* #execute up to its first await: the Turn becomes active and asks for
\* turn/started and user/message in one batch.
Execute(k) ==
  /\ lane[k].stage = "queued"
  /\ PreviousSettled(k)
  /\ ~stopping
  /\ activeTurn' = k
  /\ lane' = [lane EXCEPT ![k].stage = "starting"]
  /\ ops' = Append(ops, Op("turn/started", k))
  /\ UNCHANGED <<journal, stopping, stopWait, stopped, open, sent, crashes,
                 failures, resumption>>

\* The Turn reaches the append of its terminal event in the try block.
Finish(k) ==
  /\ lane[k].stage = "working"
  /\ \E type \in TryEnd : ops' = Append(ops, Op(type, k))
  /\ lane' = [lane EXCEPT ![k].stage = "ending"]
  /\ UNCHANGED <<journal, activeTurn, stopping, stopWait, stopped, open, sent,
                 crashes, failures, resumption>>

\* The terminal event the catch block chooses, by the Turn's own signal.
CatchOp(k) == Op(IF lane[k].cancelled THEN "turn/cancelled" ELSE "turn/failed", k)

\* Something in the Turn throws: a ModelCall, a cancelled Tool, an append.
Throw(k) ==
  /\ lane[k].stage = "working"
  /\ ops' = Append(ops, CatchOp(k))
  /\ lane' = [lane EXCEPT ![k].stage = "catching"]
  /\ UNCHANGED <<journal, activeTurn, stopping, stopWait, stopped, open, sent,
                 crashes, failures, resumption>>

\* The `finally` block, and with it the settling of the Turn's promise.
Settle(k) ==
  /\ lane[k].stage = "ended"
  /\ lane' = [lane EXCEPT ![k].stage = "settled"]
  /\ activeTurn' = IF activeTurn = k THEN 0 ELSE activeTurn
  /\ UNCHANGED <<journal, ops, stopping, stopWait, stopped, open, sent, crashes,
                 failures, resumption>>

-----------------------------------------------------------------------------
(* The append chain: one append at a time, in the order of the requests.   *)

AfterCommit(type) ==
  CASE type = "input/accepted" -> "queued"
    [] type = "turn/started" -> "working"
    [] OTHER -> "ended"

\* The oldest append becomes durable and whoever awaits it continues.
Commit ==
  /\ ops # <<>>
  /\ LET op == Head(ops) IN
     /\ journal' = Append(journal, EventOf(op))
     /\ lane' = [lane EXCEPT ![op.turn].stage = AfterCommit(op.type)]
  /\ ops' = Tail(ops)
  /\ UNCHANGED <<activeTurn, stopping, stopWait, stopped, open, sent, crashes,
                 failures, resumption>>

\* The oldest append fails and nothing of it is durable; the chain goes on.
\* A failed acceptance settles its entry without waiting for previousTurn; a
\* failure inside the try block enters the catch block; a failure inside the
\* catch block leaves #execute through `finally`.
FailAppend ==
  /\ ops # <<>>
  /\ failures < MaxFailures
  /\ failures' = failures + 1
  /\ LET op == Head(ops)
         k == op.turn
     IN
     \/ /\ op.type = "input/accepted"
        /\ lane' = [lane EXCEPT ![k].stage = "settled"]
        /\ ops' = Tail(ops)
     \/ /\ op.type \in TryEnd \cup {"turn/started"}
        /\ lane' = [lane EXCEPT ![k].stage = "catching"]
        /\ ops' = Append(Tail(ops), CatchOp(k))
     \/ /\ op.type \in CatchEnd
        /\ lane' = [lane EXCEPT ![k].stage = "ended"]
        /\ ops' = Tail(ops)
  /\ UNCHANGED <<journal, activeTurn, stopping, stopWait, stopped, open, sent,
                 crashes, resumption>>

-----------------------------------------------------------------------------
(* Cancellation, shutdown, crash and reopening.                            *)

Cancelled(k) == IF k = 0 THEN lane ELSE [lane EXCEPT ![k].cancelled = TRUE]

\* cancelActiveTurn(): abort the signal of the Turn that is active now.
Cancel ==
  /\ open
  /\ activeTurn # 0
  /\ lane' = Cancelled(activeTurn)
  /\ UNCHANGED <<journal, ops, activeTurn, stopping, stopWait, stopped, open,
                 sent, crashes, failures, resumption>>

\* shutdown(), up to its first await.
Shutdown ==
  /\ open
  /\ ~stopping
  /\ stopping' = TRUE
  /\ lane' = Cancelled(activeTurn)
  /\ stopWait' = Len(lane)
  /\ UNCHANGED <<journal, ops, activeTurn, stopped, open, sent, crashes, failures,
                 resumption>>

\* Mutant of ShutdownReturns: never returns while an Input was refused.
ShutdownStuck ==
  /\ stopping
  /\ ~stopped
  /\ stopWait > 0 => lane[stopWait].stage = "settled"
  /\ ops = <<>>
  /\ stopped' = TRUE
  /\ UNCHANGED <<journal, lane, ops, activeTurn, stopping, stopWait, open, sent,
                 crashes, failures, resumption>>

\* shutdown() resumes after #turnTail and #appendTail.
ShutdownReturns ==
  /\ stopping
  /\ ~stopped
  /\ stopWait > 0 => lane[stopWait].stage \in Settled
  /\ ops = <<>>
  /\ stopped' = TRUE
  /\ UNCHANGED <<journal, lane, ops, activeTurn, stopping, stopWait, open, sent,
                 crashes, failures, resumption>>

\* The process ends: the memory of the Session is gone, and the append that was
\* in progress is durable or not.
Crash ==
  /\ open
  /\ crashes < MaxCrashes
  /\ crashes' = crashes + 1
  /\ \/ UNCHANGED journal
     \/ ops # <<>> /\ journal' = Append(journal, EventOf(Head(ops)))
  /\ lane' = [k \in DOMAIN lane |->
                IF lane[k].stage \in Settled THEN lane[k]
                ELSE [lane[k] EXCEPT !.stage = "lost"]]
  /\ ops' = <<>>
  /\ activeTurn' = 0
  /\ stopping' = FALSE
  /\ stopWait' = 0
  /\ stopped' = FALSE
  /\ open' = FALSE
  /\ reading' = <<>>
  /\ UNCHANGED <<sent, outrun, failures>>

\* Mutant of LatestTurnActive: open() does not look for an interrupted Turn.
NoTurnActive == FALSE

\* latestTurn of projectSession is active: the last Turn event is a start.
LatestTurn == TurnEventBefore(Len(journal) + 1)

LatestTurnActive == \E n \in LatestTurn : journal[n].type = "turn/started"

\* SessionsModule.open(): interrupt the latest Turn if it is active.
Open ==
  /\ ~open
  /\ open' = TRUE
  /\ \/ ~LatestTurnActive /\ UNCHANGED journal
     \/ /\ LatestTurnActive
        /\ \E n \in LatestTurn :
             journal' = Append(journal, [journal[n] EXCEPT !.type = "turn/interrupted"])
  /\ UNCHANGED <<lane, ops, activeTurn, stopping, stopWait, stopped, sent,
                 crashes, failures, resumption>>

-----------------------------------------------------------------------------

EntryStep(k) == Refuse(k) \/ Execute(k) \/ Finish(k) \/ Throw(k) \/ Settle(k)

Next ==
  \/ Send \/ ReadPending \/ Resume
  \/ \E k \in 1..Len(lane) : EntryStep(k)
  \/ Commit \/ FailAppend
  \/ Cancel \/ Shutdown \/ ShutdownReturns
  \/ Crash \/ Open

Spec == Init /\ [][Next]_vars

\* Continuations whose promise is settled run, appends settle, and a Turn ends
\* because its steps, attempts and calls are bounded and time out.
Fairness ==
  /\ \A k \in 1..MaxEntries : WF_vars(k <= Len(lane) /\ EntryStep(k))
  /\ WF_vars(Commit)
  /\ WF_vars(ShutdownReturns)

FairSpec == Spec /\ Fairness

-----------------------------------------------------------------------------

Event == [type : EventType, turn : 1..MaxEntries, input : 1..MaxInputs]

\* The type invariant: the journal, the chain and the fields of Session.
TypeOK ==
  /\ journal \in Seq(Event)
  /\ lane \in Seq([input : 1..MaxInputs, stage : Stage, cancelled : BOOLEAN])
  /\ Len(lane) <= MaxEntries
  /\ ops \in Seq([type : EventType, turn : 1..Len(lane)])
  /\ activeTurn \in 0..Len(lane)
  /\ stopWait \in 0..Len(lane)
  /\ {stopping, stopped, open} \subseteq BOOLEAN
  /\ sent \in 0..MaxInputs
  /\ reading \in Seq(1..MaxInputs)
  /\ outrun \subseteq 1..MaxInputs
  /\ crashes \in 0..MaxCrashes
  /\ failures \in 0..MaxFailures

\* docs/ARCHITECTURE.md:139 and its Kernel invariant 3: at most one Turn of the
\* Session is being executed at any time.
OneActiveTurn ==
  \A j, k \in 1..Len(lane) :
    lane[j].stage \in Running /\ lane[k].stage \in Running => j = k

\* While the journal accepts every append the lane is first in, first out: while
\* a Turn runs, every Input scheduled before it is settled, and #activeTurn (what
\* cancel and shutdown abort) is that Turn.
FifoTurns ==
  \A k \in 1..Len(lane) :
    failures = 0 /\ lane[k].stage \in Running =>
      /\ \A j \in 1..(k - 1) : lane[j].stage \in Settled
      /\ activeTurn = k

\* While the journal accepts every append, the durable record of Turns is a
\* sequence of closed Turns: every start but the last is followed by exactly one
\* terminal event of the same Turn before the next start, across crashes and
\* reopenings.  Recovery relies on it: open() repairs the latest Turn only.
TurnsSequential ==
  \A m \in 1..Len(journal) :
    failures = 0 /\ IsTurnEvent(journal[m]) =>
    IF journal[m].type = "turn/started"
    THEN \A n \in TurnEventBefore(m) : journal[n].type \in Terminal
    ELSE \E n \in TurnEventBefore(m) : /\ journal[n].type = "turn/started"
                                       /\ journal[n].turn = journal[m].turn

\* An Input is durably accepted before its Turn is, and starts one Turn only,
\* however often the process crashes and pending Inputs are resumed, unless a
\* whole Turn passes while the journal answers a resumption's read.
ConsumedOnce ==
  \A n \in 1..Len(journal) : journal[n].type = "turn/started" =>
    /\ \E m \in 1..(n - 1) : /\ journal[m].type = "input/accepted"
                             /\ journal[m].input = journal[n].input
    /\ \A m \in 1..(n - 1) :
         journal[m].type = "turn/started" /\ journal[n].input \notin outrun
           => journal[m].input # journal[n].input

\* While the journal accepts every append, a durably accepted Input is never
\* forgotten: until a Turn consumes it, its latest promise is pending, or was
\* refused or lost and the Input is resumable.
PendingNotForgotten ==
  \A n \in PendingInputs :
    failures = 0 =>
    \E k \in 1..Len(lane) :
      /\ lane[k].input = journal[n].input
      /\ lane[k].stage # "settled"
      /\ \A j \in (k + 1)..Len(lane) : lane[j].input # journal[n].input

\* Every scheduled Input's promise settles: it is run, refused or lost.
InputsSettle ==
  \A k \in 1..MaxEntries :
    (k <= Len(lane)) ~> (k <= Len(lane) /\ lane[k].stage \in Settled)

\* shutdown() returns, whatever the Session was doing, unless the process dies.
ShutdownEnds == stopping ~> (stopped \/ ~open)
=============================================================================
