------------------------------ MODULE TurnLoop ------------------------------
(***************************************************************************)
(* src/src/sessions/session.ts, #execute and #executeTool: what a Session  *)
(* does between turn/started and the terminal event of a Turn, with the    *)
(* retry loop of models.generate (src/src/models/model.ts) that it calls   *)
(* and the repair of interrupted calls when the Session is opened after a  *)
(* crash.  The Turns of the Session follow each other (SessionLane.tla).   *)
(*                                                                         *)
(* pc names the place where #execute waits.  While it waits for the        *)
(* journal, `pending` holds the batch and where success and failure lead.  *)
(***************************************************************************)
EXTENDS Naturals, Sequences, FiniteSets, SequencesExt

CONSTANTS
  Limits,       \* the TurnLimits in the AgentSnapshot of each Turn: a sequence
                \* of [steps, attempts, toolsPerStep, tools]
  MaxPasses,    \* compaction passes of one Step; the code has 4
  MaxIssued,    \* bound: ToolCalls in one response of the model
  MaxCrashes,   \* bound: process crashes
  MaxFailures   \* bound: journal appends that fail without crashing

ASSUME LimitsAssumption ==
  /\ Limits \in Seq([steps : Nat \ {0}, attempts : Nat \ {0},
                    toolsPerStep : Nat \ {0}, tools : Nat \ {0}])
  /\ {MaxPasses, MaxIssued, MaxCrashes, MaxFailures} \subseteq Nat

VARIABLES
  log,          \* the journal: [type, turn, step, n]
  pc, pending,
  turn, step,   \* the current Turn and the index of its Step
  attempts,     \* modelAttemptCount
  passes,       \* compactionPasses
  toolCount,    \* toolCallCount
  calls,        \* ModelCalls so far; the n-th has the id n
  purpose,      \* what the current ModelCall is for
  attempt, maxAttempts, retryable,  \* of models.generate
  tools,        \* the state of each ToolCall of the Step
  aborted,      \* controller.signal.aborted
  crashes, failures

turnVars == <<turn, step, attempts, passes, toolCount>>
callVars == <<calls, purpose, attempt, maxAttempts, retryable>>
faultVars == <<crashes, failures>>
vars == <<log, pc, pending, turnVars, callVars, tools, aborted, faultVars>>

TurnEnd == {"turn/completed", "turn/exhausted", "turn/cancelled", "turn/failed",
            "turn/interrupted"}
ModelEnd == {"model/call-completed", "model/call-failed", "model/call-interrupted"}
ToolEnd == {"tool/call-completed", "tool/call-cancelled", "tool/call-failed",
            "tool/call-interrupted"}

Ended == {"idle", "over", "crashed"}
Running == pc \notin Ended

\* An event of the current Turn; n is the id of a ModelCall, the index of a
\* ToolCall in its Step, the number of ToolCalls of a message, or 0.
Ev(type, n) == [type |-> type, turn |-> turn, step |-> step, n |-> n]

\* `await this.#append(...events)`
Write(events, then, else) ==
  /\ pc' = "append"
  /\ pending' = [events |-> events, then |-> then, else |-> else]

Goto(label) == pc' = label /\ UNCHANGED pending

\* Append the terminal event of the Turn inside the try block, and return.
End(type) == Write(<<Ev(type, 0)>>, "over", "catch")

Init ==
  /\ log = <<>>
  /\ pc = "idle"
  /\ pending = [events |-> <<>>, then |-> "idle", else |-> "idle"]
  /\ turn = 0 /\ step = 0 /\ attempts = 0 /\ passes = 0 /\ toolCount = 0
  /\ calls = 0 /\ purpose = "response"
  /\ attempt = 0 /\ maxAttempts = 0 /\ retryable = FALSE
  /\ tools = <<>>
  /\ aborted = FALSE
  /\ crashes = 0 /\ failures = 0

-----------------------------------------------------------------------------
(* The journal and the start of a Turn.                                    *)

Commit ==
  /\ pc = "append"
  /\ log' = log \o pending.events
  /\ Goto(pending.then)
  /\ UNCHANGED <<turnVars, callVars, tools, aborted, faultVars>>

FailAppend ==
  /\ pc = "append"
  /\ failures < MaxFailures
  /\ failures' = failures + 1
  /\ Goto(pending.else)
  /\ UNCHANGED <<log, turnVars, callVars, tools, aborted, crashes>>

\* The next Input is executed with a new AbortController.
StartTurn ==
  /\ pc \in {"idle", "over"}
  /\ turn < Len(Limits)
  /\ turn' = turn + 1
  /\ step' = 0 /\ attempts' = 0 /\ passes' = 0 /\ toolCount' = 0
  /\ tools' = <<>>
  /\ aborted' = FALSE
  /\ LET started == [type |-> "turn/started", turn |-> turn + 1, step |-> 0, n |-> 0]
     IN  Write(<<started, [started EXCEPT !.type = "user/message"]>>, "acquire", "catch")
  /\ UNCHANGED <<log, callVars, faultVars>>

\* Hold the capabilities and acquire the Turn's permit; a capability may be
\* gone, and an abort rejects the acquisition.
Acquire ==
  /\ pc = "acquire"
  /\ (~aborted /\ Goto("loop")) \/ Goto("catch")
  /\ UNCHANGED <<log, turnVars, callVars, tools, aborted, faultVars>>

\* The head of the loop over Steps.
EnterStep ==
  /\ pc = "loop"
  /\ \/ /\ step = Limits[turn].steps \/ attempts >= Limits[turn].attempts
        /\ End("turn/exhausted")
        /\ UNCHANGED turnVars
     \/ /\ step < Limits[turn].steps /\ attempts < Limits[turn].attempts
        /\ step' = step + 1
        /\ passes' = 0
        /\ Write(<<[Ev("step/started", 0) EXCEPT !.step = step + 1]>>, "assemble", "catch")
        /\ UNCHANGED <<turn, attempts, toolCount>>
  /\ UNCHANGED <<log, callVars, tools, aborted, faultVars>>

-----------------------------------------------------------------------------
(* ModelCalls.                                                             *)

\* Mutant of BeginCall: each ModelCall has all the attempts of the Turn.
BeginCallUnshared(for) ==
  /\ calls' = calls + 1
  /\ purpose' = for
  /\ attempt' = 0
  /\ maxAttempts' = Limits[turn].attempts
  /\ Write(<<Ev("model/call-started", calls + 1)>>, "generate", "catch")
  /\ UNCHANGED retryable

\* Record model/call-started with the attempts the Turn has left.
BeginCall(for) ==
  /\ calls' = calls + 1
  /\ purpose' = for
  /\ attempt' = 0
  /\ maxAttempts' = Limits[turn].attempts - attempts
  /\ Write(<<Ev("model/call-started", calls + 1)>>, "generate", "catch")
  /\ UNCHANGED retryable

NoAttemptsLeft ==
  /\ attempts >= Limits[turn].attempts
  /\ End("turn/exhausted")
  /\ UNCHANGED callVars

\* context.assemble and planCompaction throw: a contributor, or the budget.
AssemblyThrows ==
  /\ Goto("catch")
  /\ UNCHANGED <<callVars, passes>>

\* The context needs compaction.
Compact ==
  /\ passes' = passes + 1
  /\ \/ /\ passes' > MaxPasses
        /\ Goto("catch")
        /\ UNCHANGED callVars
     \/ /\ passes' <= MaxPasses
        /\ \/ NoAttemptsLeft
           \/ attempts < Limits[turn].attempts /\ BeginCall("compaction")

\* The context fits.
Respond ==
  /\ \/ NoAttemptsLeft
     \/ attempts < Limits[turn].attempts /\ BeginCall("response")
  /\ UNCHANGED passes

Assemble ==
  /\ pc = "assemble"
  /\ AssemblyThrows \/ Compact \/ Respond
  /\ UNCHANGED <<log, turn, step, attempts, toolCount, tools, aborted, faultVars>>

\* Mutant of StartAttempt: the attempt starts before its record is durable.
StartAttemptUnrecorded ==
  /\ pc = "generate"
  /\ attempt < maxAttempts
  /\ attempt' = attempt + 1
  /\ attempts' = attempts + 1
  /\ Goto("attempting")
  /\ UNCHANGED <<log, turn, step, passes, toolCount, calls, purpose, maxAttempts,
                 retryable, tools, aborted, faultVars>>

\* The head of the loop over attempts, with onAttemptStarted.
StartAttempt ==
  /\ pc = "generate"
  /\ attempt < maxAttempts
  /\ attempt' = attempt + 1
  /\ attempts' = attempts + 1
  /\ Write(<<Ev("model/attempt-started", calls)>>, "attempting", "callFailed")
  /\ UNCHANGED <<log, turn, step, passes, toolCount, calls, purpose, maxAttempts,
                 retryable, tools, aborted, faultVars>>

\* generateAttempt rejects; onAttemptFailed.  An abort is never retryable.
AttemptFails ==
  /\ pc = "attempting"
  /\ \E r \in BOOLEAN : (r => ~aborted) /\ retryable' = r
  /\ Write(<<Ev("model/attempt-failed", calls)>>, "attemptFailed", "callFailed")
  /\ UNCHANGED <<log, turnVars, calls, purpose, attempt, maxAttempts, tools,
                 aborted, faultVars>>

\* Mutant of Retry: the last attempt waits for another one.
RetryLast ==
  /\ pc = "attemptFailed"
  /\ IF ~retryable
     THEN Goto("callFailed")
     ELSE Goto("generate") \/ (aborted /\ Goto("callFailed"))
  /\ UNCHANGED <<log, turnVars, callVars, tools, aborted, faultVars>>

\* Rethrow, or wait for the backoff, which an abort interrupts.
Retry ==
  /\ pc = "attemptFailed"
  /\ IF ~retryable \/ attempt = maxAttempts
     THEN Goto("callFailed")
     ELSE Goto("generate") \/ (aborted /\ Goto("callFailed"))
  /\ UNCHANGED <<log, turnVars, callVars, tools, aborted, faultVars>>

\* The catch blocks around generate and compact.
CallFails ==
  /\ pc = "callFailed"
  /\ Write(<<Ev("model/call-failed", calls)>>, "catch", "catch")
  /\ UNCHANGED <<log, turnVars, callVars, tools, aborted, faultVars>>

\* The summary is accepted, or refused because it is empty or calls Tools.  An
\* abort that comes first wins the race with the answer.
CompactionAnswered ==
  /\ pc = "attempting"
  /\ ~aborted
  /\ purpose = "compaction"
  /\ \/ Write(<<Ev("model/call-completed", calls), Ev("history/compacted", calls)>>,
              "assemble", "catch")
     \/ Goto("callFailed")
  /\ UNCHANGED <<log, turnVars, callVars, tools, aborted, faultVars>>

\* The model answers with some ToolCalls; they are proposed, not yet started.
Answered ==
  /\ pc = "attempting"
  /\ ~aborted
  /\ purpose = "response"
  /\ \E issued \in 0..MaxIssued :
       /\ tools' = [i \in 1..issued |-> "issued"]
       /\ Write(<<Ev("model/call-completed", calls), Ev("assistant/message", issued)>>,
                "answered", "catch")
  /\ UNCHANGED <<log, turnVars, callVars, aborted, faultVars>>

-----------------------------------------------------------------------------
(* ToolCalls.                                                              *)

\* The answer is final, exceeds the limits, or has its ToolCalls started.
Dispatch ==
  LET n == Len(tools) IN
  /\ pc = "answered"
  /\ toolCount' = toolCount + n
  /\ \/ /\ n = 0
        /\ Write(<<Ev("step/completed", 0), Ev("turn/completed", 0)>>, "over", "catch")
        /\ UNCHANGED tools
     \/ /\ n > Limits[turn].toolsPerStep \/ toolCount' > Limits[turn].tools
        /\ End("turn/exhausted")
        /\ UNCHANGED tools
     \/ /\ n > 0 /\ n <= Limits[turn].toolsPerStep /\ toolCount' <= Limits[turn].tools
        /\ tools' = [i \in 1..n |-> "authorizing"]
        /\ Write([i \in 1..n |-> Ev("tool/call-started", i)], "tools", "catch")
  /\ UNCHANGED <<log, turn, step, attempts, passes, callVars, aborted, faultVars>>

ToolMoves(i, from, to) ==
  /\ pc = "tools"
  /\ tools[i] = from
  /\ tools' = [tools EXCEPT ![i] = to]
  /\ UNCHANGED <<log, pc, pending, turnVars, callVars, aborted, faultVars>>

\* The authorizer allows the call, or the call ends in an error result: not
\* selected, denied, or an authorizer that failed.
Authorize(i) ==
  ToolMoves(i, "authorizing", "running") \/ ToolMoves(i, "authorizing", "completed")

\* Malformed arguments make #executeTool throw before it asks.
Malformed(i) == ToolMoves(i, "authorizing", "rejected")

\* Mutant of AbortAuthorization: the wait is not raced with the signal.
AuthorizationUnraced(i) == FALSE

\* An abort rejects the wait for the authorizer.
AbortAuthorization(i) == aborted /\ ToolMoves(i, "authorizing", "rejected")

\* tools.execute returns a result, an error result or its timeout.
ToolReturns(i) == ~aborted /\ ToolMoves(i, "running", "completed")

\* An abort rejects the wait for a permit or for the Tool.
AbortTool(i) == aborted /\ ToolMoves(i, "running", "rejected")

\* The terminal event of a settled ToolCall.
ToolEvent(i) ==
  Ev(IF tools[i] = "completed" THEN "tool/call-completed"
     ELSE IF aborted THEN "tool/call-cancelled" ELSE "tool/call-failed", i)

\* Mutant of ToolsSettle: the terminal events in reverse call order.
ToolsSettleReversed ==
  LET ends == Reverse([i \in DOMAIN tools |-> ToolEvent(i)])
      rejected == \E i \in DOMAIN tools : tools[i] = "rejected"
  IN
  /\ pc = "tools"
  /\ \A i \in DOMAIN tools : tools[i] \in {"completed", "rejected"}
  /\ IF rejected
     THEN Write(ends, "catch", "catch")
     ELSE Write(Append(ends, Ev("step/completed", 0)), "loop", "catch")
  /\ UNCHANGED <<log, turnVars, callVars, tools, aborted, faultVars>>

\* Promise.allSettled: one batch in call order, then the next Step or the throw.
ToolsSettle ==
  LET ends == [i \in DOMAIN tools |-> ToolEvent(i)]
      rejected == \E i \in DOMAIN tools : tools[i] = "rejected"
  IN
  /\ pc = "tools"
  /\ \A i \in DOMAIN tools : tools[i] \in {"completed", "rejected"}
  /\ IF rejected
     THEN Write(ends, "catch", "catch")
     ELSE Write(Append(ends, Ev("step/completed", 0)), "loop", "catch")
  /\ UNCHANGED <<log, turnVars, callVars, tools, aborted, faultVars>>

-----------------------------------------------------------------------------
(* The end of a Turn, cancellation, crash and recovery.                    *)

\* The catch block.  If its append fails too, #execute rejects.
Catch ==
  /\ pc = "catch"
  /\ Write(<<Ev(IF aborted THEN "turn/cancelled" ELSE "turn/failed", 0)>>, "over", "over")
  /\ UNCHANGED <<log, turnVars, callVars, tools, aborted, faultVars>>

\* cancelActiveTurn, by the caller or by shutdown.
Cancel ==
  /\ Running
  /\ ~aborted
  /\ aborted' = TRUE
  /\ UNCHANGED <<log, pc, pending, turnVars, callVars, tools, faultVars>>

\* The process ends; an append in progress is durable or not.
Crash ==
  /\ Running
  /\ crashes < MaxCrashes
  /\ crashes' = crashes + 1
  /\ Goto("crashed")
  /\ \/ UNCHANGED log
     \/ pc = "append" /\ log' = log \o pending.events
  /\ UNCHANGED <<turnVars, callVars, tools, aborted, failures>>

\* What identifies the call an event is about.
CallOf(e) == IF e.type \in {"model/call-started"} \cup ModelEnd
             THEN <<"model", e.n>> ELSE <<"tool", e.turn, e.step, e.n>>

\* The call started at position m has no terminal event.
IsOpen(m) ==
  /\ log[m].type \in {"model/call-started", "tool/call-started"}
  /\ \A k \in (m + 1)..Len(log) :
       log[k].type \in ModelEnd \cup ToolEnd => CallOf(log[k]) # CallOf(log[m])

\* The positions of a finite set, in increasing order.
Ascending(S) ==
  {at \in [1..Cardinality(S) -> S] : \A i, j \in 1..Cardinality(S) : i < j => at[i] < at[j]}

\* Mutant of Interrupted: calls are not repaired.
InterruptedNone(started, interrupted) == {<<>>}

\* repairInterruptedCalls: the events that end the open calls of one kind, in the
\* order of their starts.
Interrupted(started, interrupted) ==
  LET open == {m \in 1..Len(log) : log[m].type = started /\ IsOpen(m)}
  IN  {[i \in 1..Cardinality(open) |-> [log[at[i]] EXCEPT !.type = interrupted]] :
         at \in Ascending(open)}

\* Mutant of LatestTurnActive: every Turn found at recovery is interrupted.
AnyTurn == log # <<>>

\* latestTurn of projectSession has no terminal event.
LatestTurnActive ==
  \E m \in 1..Len(log) :
    /\ log[m].type = "turn/started"
    /\ \A k \in (m + 1)..Len(log) : log[k].type \notin {"turn/started"} \cup TurnEnd

\* SessionsModule.open: repair the calls and the Turn the crash interrupted.
Recover ==
  /\ pc = "crashed"
  /\ \/ ~LatestTurnActive /\ UNCHANGED log
     \/ /\ LatestTurnActive
        /\ \E models \in Interrupted("model/call-started", "model/call-interrupted"),
              called \in Interrupted("tool/call-started", "tool/call-interrupted") :
             log' = log \o models \o called
                        \o <<[Ev("turn/interrupted", 0) EXCEPT !.step = 0]>>
  /\ Goto("over")
  /\ UNCHANGED <<turnVars, callVars, tools, aborted, faultVars>>

-----------------------------------------------------------------------------

\* The continuations of #execute; each waits for something that ends by itself
\* or by its timeout.
Continue ==
  \/ Commit \/ Acquire \/ EnterStep \/ Assemble \/ StartAttempt
  \/ AttemptFails \/ Retry \/ CallFails \/ CompactionAnswered \/ Answered
  \/ Dispatch \/ ToolsSettle \/ Catch

ToolStep(i) == Authorize(i) \/ Malformed(i) \/ AbortAuthorization(i)
                 \/ ToolReturns(i) \/ AbortTool(i)

Next ==
  \/ Continue
  \/ \E i \in DOMAIN tools : ToolStep(i)
  \/ StartTurn \/ FailAppend \/ Cancel \/ Crash \/ Recover

Spec == Init /\ [][Next]_vars

\* An aborted ToolCall settles and a running one returns or times out; nothing
\* obliges an authorizer, which may be a person, to answer.
Fairness ==
  /\ WF_vars(Continue)
  /\ \A i \in 1..MaxIssued :
       WF_vars(i \in DOMAIN tools /\ (ToolReturns(i) \/ AbortTool(i) \/ AbortAuthorization(i)))

FairSpec == Spec /\ Fairness

-----------------------------------------------------------------------------

EventType == TurnEnd \cup ModelEnd \cup ToolEnd \cup
  {"turn/started", "user/message", "step/started", "step/completed",
   "model/call-started", "model/attempt-started", "model/attempt-failed",
   "history/compacted", "assistant/message", "tool/call-started"}

Event == [type : EventType, turn : 1..Len(Limits), step : Nat, n : Nat]

Place == {"append", "acquire", "loop", "assemble", "generate", "attempting", "attemptFailed",
          "callFailed", "answered", "tools", "catch"} \cup Ended

\* The type invariant: the recorded events and the counters of #execute.
TypeOK ==
  /\ log \in Seq(Event)
  /\ pc \in Place
  /\ pending \in [events : Seq(Event), then : Place \ {"append"}, else : Place \ {"append"}]
  /\ turn \in 0..Len(Limits)
  /\ Running => turn > 0
  /\ turn > 0 => /\ step \in 0..Limits[turn].steps
                 /\ attempts \in 0..Limits[turn].attempts
  /\ {toolCount, calls} \subseteq Nat
  /\ purpose \in {"response", "compaction"}
  /\ passes \in 0..(MaxPasses + 1)
  /\ maxAttempts \in Nat
  /\ attempt \in 0..maxAttempts
  /\ {retryable, aborted} \subseteq BOOLEAN
  /\ tools \in Seq({"issued", "authorizing", "running", "completed", "rejected"})
  /\ crashes \in 0..MaxCrashes
  /\ failures \in 0..MaxFailures

Positions(types) == {m \in 1..Len(log) : log[m].type \in types}

InTurn(types, t) == {m \in Positions(types) : log[m].turn = t}

\* The events that end the call started at position m.
EndsOf(m) == {k \in Positions(ModelEnd \cup ToolEnd) : CallOf(log[k]) = CallOf(log[m])}

\* ARCHITECTURE Kernel invariant 5: every ModelCall and ToolCall has at most one
\* terminal event, after its start, and exactly one once its Turn has ended.
CallsClosed ==
  \A m \in Positions({"model/call-started", "tool/call-started"}) :
    /\ \A k \in EndsOf(m) : k > m
    /\ Cardinality(EndsOf(m)) <= 1
    /\ InTurn(TurnEnd, log[m].turn) # {} => EndsOf(m) # {}

\* As long as no append failed, crashes and repairs keep CallsClosed.
CallsClosedUnlessFailed == failures = 0 => CallsClosed

\* A Turn reaches exactly one terminal status, and nothing is recorded for it
\* afterwards, neither by the catch block nor by recovery.  (Once an append has
\* failed, a later repair may close a call of a Turn that is already closed.)
TurnEndsOnce ==
  failures = 0 =>
  \A m \in Positions(TurnEnd) : \A k \in (m + 1)..Len(log) : log[k].turn # log[m].turn

\* ARCHITECTURE Kernel invariant 1: a model is called only while the start of
\* that attempt is recorded and unanswered; a Tool runs only while its
\* tool/call-started is recorded and open.
EffectsRecorded ==
  /\ pc = "attempting" => log # <<>> /\ Last(log) = Ev("model/attempt-started", calls)
  /\ pc = "tools" => \A i \in DOMAIN tools :
       \E m \in 1..Len(log) : log[m] = Ev("tool/call-started", i) /\ IsOpen(m)

\* The TurnLimits bound what a Turn does to the outside, compaction and retries
\* included: attempts, Tools run in a Step and in the Turn.
LimitsRespected ==
  \A t \in 1..turn :
    /\ Cardinality(InTurn({"model/attempt-started"}, t)) <= Limits[t].attempts
    /\ Cardinality(InTurn({"tool/call-started"}, t)) <= Limits[t].tools
    /\ \A s \in 1..Limits[t].steps :
         Cardinality({m \in InTurn({"tool/call-started"}, t) : log[m].step = s})
           <= Limits[t].toolsPerStep

\* The ToolResults before position k of the ToolCalls of the message at m.
Results(m, k) ==
  {p \in m..(k - 1) : /\ log[p].type = "tool/call-completed"
                      /\ log[p].turn = log[m].turn
                      /\ log[p].step = log[m].step}

\* ARCHITECTURE Kernel invariant 6 inside a Turn: when the next Step starts,
\* every ToolCall of an earlier message has one ToolResult, in call order.
ResultsBeforeNextStep ==
  \A k \in Positions({"step/started"}) :
    \A m \in {m \in InTurn({"assistant/message"}, log[k].turn) : m < k} :
      /\ {log[p].n : p \in Results(m, k)} = 1..log[m].n
      /\ \A p, q \in Results(m, k) : p < q => log[p].n < log[q].n

WaitingForAuthorizer == pc = "tools" /\ \E i \in DOMAIN tools : tools[i] = "authorizing"

\* A Turn ends: retries, compaction and Steps are bounded.  Only an authorizer
\* that never answers can hold it.
TurnTerminates == Running ~> (~Running \/ []WaitingForAuthorizer)

\* A cancelled Turn ends whatever it was waiting for, the authorizer included.
CancelTerminates == aborted ~> ~Running
=============================================================================
