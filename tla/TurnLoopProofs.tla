---------------------------- MODULE TurnLoopProofs ----------------------------
(***************************************************************************)
(* Machine-checked facts about TurnLoop.tla, for any TurnLimits and any    *)
(* numbers of Turns, ToolCalls, crashes and failed appends.                *)
(*                                                                         *)
(* While an append is under way the invariants speak of two records: the   *)
(* durable one, and the one that is durable when the append is.  So they   *)
(* are stated of any record l, and proved as facts about sequences.        *)
(***************************************************************************)
EXTENDS TurnLoop, FiniteSetTheorems, SequenceTheorems, TLAPS

-----------------------------------------------------------------------------
(* The record and the place that #execute reaches when its append settles. *)

Held == IF pc = "append" THEN log \o pending.events ELSE log

Where == IF pc = "append" THEN pending.then ELSE pc

EvOf(t, s, type, n) == [type |-> type, turn |-> t, step |-> s, n |-> n]

-----------------------------------------------------------------------------
(* What holds of the record whatever failed.                               *)

\* The events of a type in Turn t, and in one Step of it.
OfTurn(l, type, t) == {m \in 1..Len(l) : l[m].type = type /\ l[m].turn = t}

OfStep(l, type, t, s) == {m \in OfTurn(l, type, t) : l[m].step = s}

\* LimitsRespected.
Limited(l, t) ==
  \A u \in 1..t :
    /\ Cardinality(OfTurn(l, "model/attempt-started", u)) <= Limits[u].attempts
    /\ Cardinality(OfTurn(l, "tool/call-started", u)) <= Limits[u].tools
    /\ \A s \in 1..Limits[u].steps :
         Cardinality(OfStep(l, "tool/call-started", u, s)) <= Limits[u].toolsPerStep

\* Results, and ResultsBeforeNextStep.
ResultsIn(l, m, k) == {p \in m..(k - 1) : /\ l[p].type = "tool/call-completed"
                                          /\ l[p].turn = l[m].turn
                                          /\ l[p].step = l[m].step}

Complete(l, m, k) ==
  /\ {l[p].n : p \in ResultsIn(l, m, k)} = 1..l[m].n
  /\ \A p, q \in ResultsIn(l, m, k) : p < q => l[p].n < l[q].n

Ordered(l) ==
  \A k \in 1..Len(l) : l[k].type = "step/started" =>
    \A m \in 1..(k - 1) :
      l[m].type = "assistant/message" /\ l[m].turn = l[k].turn => Complete(l, m, k)

\* The counters of #execute count at least what is recorded of Turn t.
Base(l, t, a, c) ==
  /\ \A m \in 1..Len(l) : l[m].turn <= t
  /\ Limited(l, t)
  /\ Ordered(l)
  /\ Cardinality(OfTurn(l, "model/attempt-started", t)) <= a
  /\ Cardinality(OfTurn(l, "tool/call-started", t)) <= c

\* Up to position k, the ToolCalls and the messages of Turn t are of Steps before
\* s, and every message has its results.
CleanTo(l, k, t, s) ==
  \A m \in 1..k : l[m].turn = t =>
    /\ l[m].type \in {"tool/call-started", "tool/call-completed", "assistant/message"} =>
         l[m].step < s
    /\ l[m].type = "assistant/message" => Complete(l, m, Len(l) + 1)

\* The record ends with the message of n ToolCalls ...
Proposed(l, t, s, n) ==
  /\ Len(l) > 0
  /\ l[Len(l)] = EvOf(t, s, "assistant/message", n)
  /\ CleanTo(l, Len(l) - 1, t, s)

\* ... and with the starts of these calls.
Dispatched(l, t, s, n) ==
  /\ Len(l) > n
  /\ l[Len(l) - n] = EvOf(t, s, "assistant/message", n)
  /\ \A i \in 1..n : l[(Len(l) - n) + i] = EvOf(t, s, "tool/call-started", i)
  /\ CleanTo(l, (Len(l) - n) - 1, t, s)

\* The record where #execute is at p.
RecordAt(p, l, t, s, c, n) ==
  /\ p \in {"acquire", "loop"} => CleanTo(l, Len(l), t, s + 1)
  /\ p \in {"assemble", "generate", "attempting", "attemptFailed"} => CleanTo(l, Len(l), t, s)
  /\ p = "attempting" => Len(l) > 0 /\ l[Len(l)] = EvOf(t, s, "model/attempt-started", c)
  /\ p = "answered" => Proposed(l, t, s, n)
  /\ p = "tools" => Dispatched(l, t, s, n)

\* TypeOK, with where a failed append leads and when there is a Turn.
Recording ==
  /\ log \in Seq(Event)
  /\ pc \in Place
  /\ pending \in [events : Seq(Event), then : Place \ {"append"}, else : Place \ {"append"}]
  /\ pc = "append" => pending.else \in {"catch", "callFailed", "over"}

Counting ==
  /\ turn \in 0..Len(Limits)
  /\ turn > 0 => step \in 0..Limits[turn].steps /\ attempts \in 0..Limits[turn].attempts
  /\ toolCount \in Nat /\ calls \in Nat /\ maxAttempts \in Nat /\ attempt \in 0..maxAttempts
  /\ purpose \in {"response", "compaction"}
  /\ passes \in 0..(MaxPasses + 1)
  /\ retryable \in BOOLEAN /\ aborted \in BOOLEAN
  /\ tools \in Seq({"issued", "authorizing", "running", "completed", "rejected"})
  /\ crashes \in 0..MaxCrashes /\ failures \in 0..MaxFailures

\* The attempts that models.generate may still start are within the limit, and
\* no Step goes on after the last compaction pass.
Budget ==
  /\ Where \in {"generate", "attempting", "attemptFailed"} =>
       attempts + (maxAttempts - attempt) <= Limits[turn].attempts
  /\ Where \in {"assemble", "generate", "attempting", "attemptFailed"} => passes <= MaxPasses

LoopInv == Recording /\ Counting /\ (pc # "idle" => turn > 0) /\ Budget

RecordInv ==
  /\ LoopInv
  /\ Base(log, turn, attempts, toolCount)
  /\ Base(Held, turn, attempts, toolCount)
  /\ RecordAt(Where, Held, turn, step, calls, Len(tools))

-----------------------------------------------------------------------------
(* What holds of it while no append failed.                                *)

CallStart == {"model/call-started", "tool/call-started"}
CallEnd == ModelEnd \cup ToolEnd

\* IsOpen.
OpenAt(l, m) ==
  /\ l[m].type \in CallStart
  /\ \A k \in (m + 1)..Len(l) : l[k].type \in CallEnd => CallOf(l[k]) # CallOf(l[m])

\* The starts of the calls that are open.
Opens(l) == {l[m] : m \in {i \in 1..Len(l) : OpenAt(l, i)}}

\* Every call is started once and ended once at most, after its start.
CallsOnce(l) ==
  /\ \A m, k \in 1..Len(l) :
       l[m].type \in CallStart /\ l[k].type \in CallStart /\ CallOf(l[m]) = CallOf(l[k]) => m = k
  /\ \A m, k \in 1..Len(l) :
       l[m].type \in CallEnd /\ l[k].type \in CallEnd /\ CallOf(l[m]) = CallOf(l[k]) => m = k
  /\ \A k \in 1..Len(l) : l[k].type \in CallEnd =>
       \E m \in 1..(k - 1) : l[m].type \in CallStart /\ CallOf(l[m]) = CallOf(l[k])

\* TurnEndsOnce.
EndsOnce(l) ==
  \A m \in 1..Len(l) : l[m].type \in TurnEnd =>
    \A k \in (m + 1)..Len(l) : l[k].turn # l[m].turn

\* LatestTurnActive.
Active(l) ==
  \E m \in 1..Len(l) :
    /\ l[m].type = "turn/started"
    /\ \A k \in (m + 1)..Len(l) : l[k].type \notin {"turn/started"} \cup TurnEnd

\* What a crash may leave: only the active Turn, which is t, has open calls.
Sound(l, t, c) ==
  /\ CallsOnce(l)
  /\ EndsOnce(l)
  /\ \A m \in 1..Len(l) : l[m].type \in {"model/call-started"} \cup ModelEnd => l[m].n <= c
  /\ \A x \in Opens(l) : x.turn = t /\ Active(l)
  /\ Active(l) => \A m \in 1..Len(l) : l[m].turn = t => l[m].type \notin TurnEnd

\* The calls that are open where #execute is at p.
OpenNow(p, t, s, c, n) ==
  CASE p \in {"generate", "attempting", "attemptFailed", "callFailed"} ->
         {EvOf(t, s, "model/call-started", c)}
    [] p = "tools" -> {EvOf(t, s, "tool/call-started", i) : i \in 1..n}
    [] OTHER -> {}

CallsAt(p, l, t, s, c, n) ==
  /\ p \in {"idle", "over"} => ~Active(l)
  /\ p \notin Ended => Active(l) /\ Opens(l) = OpenNow(p, t, s, c, n)

CallsNow ==
  /\ Sound(log, turn, calls)
  /\ Sound(Held, turn, calls)
  /\ CallsAt(Where, Held, turn, step, calls, Len(tools))

CallsInv == failures = 0 => CallsNow

-----------------------------------------------------------------------------
(* The types, and the attempts of models.generate within the limit.        *)

LEMMA LimitsTyped ==
  ASSUME NEW t \in 1..Len(Limits)
  PROVE  /\ Limits[t].steps \in Nat \ {0} /\ Limits[t].attempts \in Nat \ {0}
         /\ Limits[t].toolsPerStep \in Nat \ {0} /\ Limits[t].tools \in Nat \ {0}
<1> DEFINE TurnLimits == [steps : Nat \ {0}, attempts : Nat \ {0},
                          toolsPerStep : Nat \ {0}, tools : Nat \ {0}]
<1>1. Limits \in Seq(TurnLimits)
  BY LimitsAssumption
<1> HIDE DEF TurnLimits
<1>2. Limits[t] \in TurnLimits
  BY <1>1, ElementOfSeq
<1> QED BY <1>2 DEF TurnLimits

LEMMA BoundsTyped ==
  /\ Len(Limits) \in Nat
  /\ MaxPasses \in Nat /\ MaxIssued \in Nat /\ MaxCrashes \in Nat /\ MaxFailures \in Nat
BY LimitsAssumption, LenProperties

LEMMA IsSequence ==
  ASSUME NEW S, NEW n \in Nat, NEW r \in [1..n -> S]
  PROVE  r \in Seq(S) /\ Len(r) = n
BY LenProperties

LEMMA LoopTyped ==
  ASSUME LoopInv
  PROVE  /\ TypeOK
         /\ turn \in Nat /\ log \in Seq(Event) /\ Len(log) \in Nat
         /\ Len(tools) \in Nat /\ tools \in [1..Len(tools) ->
              {"issued", "authorizing", "running", "completed", "rejected"}]
<1>1. TypeOK
  BY DEF LoopInv, Recording, Counting, TypeOK, Running, Ended
<1>2. turn \in Nat
  BY BoundsTyped DEF LoopInv, Counting
<1> QED BY <1>1, <1>2, LenProperties DEF LoopInv, Recording, Counting

LEMMA TurnTyped ==
  ASSUME LoopInv, pc # "idle"
  PROVE  /\ turn \in 1..Len(Limits) /\ turn \in Nat
         /\ step \in Nat /\ step <= Limits[turn].steps
         /\ attempts \in Nat /\ attempts <= Limits[turn].attempts
         /\ Limits[turn].attempts \in Nat
<1>1. turn \in Nat
  BY LoopTyped
<1>2. turn \in 1..Len(Limits)
  BY <1>1, BoundsTyped DEF LoopInv, Counting
<1>3. step \in 0..Limits[turn].steps /\ attempts \in 0..Limits[turn].attempts
  BY DEF LoopInv, Counting
<1> QED BY <1>1, <1>2, <1>3, LimitsTyped

LEMMA EventTyped ==
  ASSUME NEW t \in 1..Len(Limits), NEW s \in Nat, NEW type \in EventType, NEW n \in Nat
  PROVE  EvOf(t, s, type, n) \in Event
BY DEF EvOf, Event

\* What Write does to the two records.
LEMMA Writes ==
  ASSUME LoopInv, pc # "append", UNCHANGED log,
         NEW events \in Seq(Event), NEW then \in Place \ {"append"},
         NEW else \in {"catch", "callFailed", "over"}, Write(events, then, else)
  PROVE  /\ Recording' /\ pc' # "idle"
         /\ Held = log /\ Where = pc
         /\ Held' = log \o events /\ Where' = then
<1>1. /\ pc' = "append" /\ pending' = [events |-> events, then |-> then, else |-> else]
      /\ log' = log
  BY DEF Write
<1>2. pc' \in Place /\ else \in Place \ {"append"}
  BY <1>1 DEF Place, Ended
<1>3. Recording'
  BY <1>1, <1>2 DEF LoopInv, Recording
<1> QED BY <1>1, <1>3 DEF Held, Where

LEMMA Goes ==
  ASSUME LoopInv, pc # "append", UNCHANGED log,
         NEW label \in Place \ {"append", "idle"}, Goto(label)
  PROVE  /\ Recording' /\ pc' # "idle"
         /\ Held = log /\ Where = pc
         /\ Held' = log /\ Where' = label
BY DEF Goto, LoopInv, Recording, Held, Where

LEMMA Stays ==
  ASSUME LoopInv, UNCHANGED <<log, pc, pending>>
  PROVE  Recording' /\ Held' = Held /\ Where' = Where
BY DEF LoopInv, Recording, Held, Where

LEMMA Evs ==
  ASSUME NEW type, NEW n
  PROVE  Ev(type, n) = EvOf(turn, step, type, n)
BY DEF Ev, EvOf

-----------------------------------------------------------------------------
(* What each step does to the record and the place.                        *)

\* The step appends e, and #execute goes on at `to` when it is durable.
Batch(e, from, to) ==
  /\ e \in Seq(Event)
  /\ log' = log /\ Held = log /\ Held' = log \o e
  /\ Where = from /\ Where' = to

Jump(from, to) ==
  /\ log' = log /\ Held = log /\ Held' = log
  /\ Where = from /\ Where' = to

\* What the invariants know of #execute besides its place.
counters == <<turn, step, attempts, toolCount, calls, Len(tools), failures>>

LEMMA StartMoves ==
  ASSUME LoopInv, StartTurn
  PROVE  /\ LoopInv'
         /\ Batch(<<EvOf(turn + 1, 0, "turn/started", 0), EvOf(turn + 1, 0, "user/message", 0)>>,
                  pc, "acquire")
         /\ turn' = turn + 1 /\ turn + 1 \in 1..Len(Limits)
         /\ step' = 0 /\ attempts' = 0 /\ toolCount' = 0
         /\ pc \in {"idle", "over"}
         /\ UNCHANGED <<calls, failures>>
<1> DEFINE e == <<EvOf(turn + 1, 0, "turn/started", 0), EvOf(turn + 1, 0, "user/message", 0)>>
<1>1. turn + 1 \in 1..Len(Limits) /\ turn' = turn + 1 /\ turn' > 0
  BY LoopTyped, BoundsTyped DEF StartTurn
<1>2. e \in Seq(Event)
  <2>1. /\ EvOf(turn + 1, 0, "turn/started", 0) \in Event
        /\ EvOf(turn + 1, 0, "user/message", 0) \in Event
    BY <1>1, EventTyped DEF EventType
  <2> QED BY <2>1
<1>3. Write(e, "acquire", "catch") /\ UNCHANGED log
  BY DEF StartTurn, EvOf
<1> HIDE DEF e
<1>4. /\ Recording' /\ pc' # "idle" /\ Held = log /\ Where = pc
      /\ Held' = log \o e /\ Where' = "acquire"
  BY <1>2, <1>3, Writes DEF StartTurn, Place, Ended
<1>5. Counting'
  <2>1. Limits[turn'].steps \in Nat /\ Limits[turn'].attempts \in Nat
    BY <1>1, LimitsTyped
  <2>2. /\ step' = 0 /\ attempts' = 0 /\ passes' = 0 /\ toolCount' = 0
        /\ aborted' = FALSE /\ tools' = <<>>
        /\ UNCHANGED <<calls, purpose, attempt, maxAttempts, retryable, crashes, failures>>
    BY DEF StartTurn, callVars, faultVars
  <2>3. turn' \in 0..Len(Limits) /\ step' \in 0..Limits[turn'].steps
        /\ attempts' \in 0..Limits[turn'].attempts /\ passes' \in 0..(MaxPasses + 1)
    BY <1>1, <2>1, <2>2, BoundsTyped
  <2>4. tools' \in Seq({"issued", "authorizing", "running", "completed", "rejected"})
    BY <2>2
  <2> QED BY <2>2, <2>3, <2>4 DEF LoopInv, Counting
<1>6. Budget'
  BY <1>4 DEF Budget
<1> QED BY <1>1, <1>2, <1>3, <1>4, <1>5, <1>6
        DEF LoopInv, Batch, StartTurn, e, callVars, faultVars

LEMMA AcquireMoves ==
  ASSUME LoopInv, Acquire
  PROVE  /\ LoopInv' /\ UNCHANGED counters
         /\ Jump("acquire", "loop") \/ Jump("acquire", "catch")
<1>1. PICK to \in {"loop", "catch"} : Goto(to)
  BY DEF Acquire
<1>2. /\ Recording' /\ pc' # "idle" /\ Held = log /\ Where = pc
      /\ Held' = log /\ Where' = to
  BY <1>1, Goes DEF Acquire, Place, Ended
<1>3. Counting' /\ turn' > 0
  BY DEF Acquire, LoopInv, Counting, turnVars, callVars, faultVars
<1> QED BY <1>1, <1>2, <1>3
        DEF LoopInv, Budget, Jump, Acquire, counters, turnVars, callVars, faultVars

LEMMA EnterMoves ==
  ASSUME LoopInv, EnterStep
  PROVE  /\ LoopInv' /\ UNCHANGED <<turn, attempts, toolCount, calls, Len(tools), failures>>
         /\ \/ /\ step' = step
               /\ Batch(<<EvOf(turn, step, "turn/exhausted", 0)>>, "loop", "over")
            \/ /\ step' = step + 1 /\ step + 1 \in Nat
               /\ Batch(<<EvOf(turn, step + 1, "step/started", 0)>>, "loop", "assemble")
<1>1. turn \in 1..Len(Limits) /\ step \in Nat /\ turn > 0
  BY TurnTyped DEF EnterStep
<1>2. CASE UNCHANGED turnVars /\ End("turn/exhausted")
  <2> DEFINE e == <<EvOf(turn, step, "turn/exhausted", 0)>>
  <2>1. e \in Seq(Event)
    BY <1>1, EventTyped DEF EventType, TurnEnd
  <2>2. Write(e, "over", "catch") /\ UNCHANGED log
    BY <1>2 DEF End, Ev, EvOf, EnterStep
  <2> HIDE DEF e
  <2>3. /\ Recording' /\ pc' # "idle" /\ Held = log /\ Where = pc
        /\ Held' = log \o e /\ Where' = "over"
    BY <2>1, <2>2, Writes DEF EnterStep, Place, Ended
  <2>4. Counting' /\ turn' > 0
    BY <1>1, <1>2 DEF EnterStep, LoopInv, Counting, turnVars, callVars, faultVars
  <2> QED BY <1>2, <2>1, <2>2, <2>3, <2>4
          DEF LoopInv, Budget, Batch, EnterStep, e, turnVars, callVars, faultVars
<1>3. CASE /\ step < Limits[turn].steps /\ step' = step + 1 /\ passes' = 0
           /\ Write(<<[Ev("step/started", 0) EXCEPT !.step = step + 1]>>, "assemble", "catch")
           /\ UNCHANGED <<turn, attempts, toolCount>>
  <2> DEFINE e == <<EvOf(turn, step + 1, "step/started", 0)>>
  <2>1. e \in Seq(Event) /\ step + 1 \in Nat
    <3>1. step + 1 \in Nat /\ "step/started" \in EventType
      BY <1>1 DEF EventType
    <3>2. EvOf(turn, step + 1, "step/started", 0) \in Event
      BY <1>1, <3>1, EventTyped
    <3> QED BY <3>1, <3>2
  <2>2. Write(e, "assemble", "catch") /\ UNCHANGED log
    BY <1>3 DEF Ev, EvOf, EnterStep
  <2> HIDE DEF e
  <2>3. /\ Recording' /\ pc' # "idle" /\ Held = log /\ Where = pc
        /\ Held' = log \o e /\ Where' = "assemble"
    BY <2>1, <2>2, Writes DEF EnterStep, Place, Ended
  <2>4. step' \in 0..Limits[turn'].steps
    BY <1>1, <1>3, LimitsTyped
  <2>5. Counting' /\ turn' > 0
    <3>1. /\ turn' = turn /\ attempts' = attempts /\ toolCount' = toolCount /\ passes' = 0
          /\ UNCHANGED <<calls, maxAttempts, attempt, purpose, retryable>>
          /\ UNCHANGED <<aborted, tools, crashes, failures>>
      BY <1>3 DEF EnterStep, callVars, faultVars
    <3>2. Counting /\ turn > 0 /\ 0 \in 0..(MaxPasses + 1)
      BY <1>1, BoundsTyped DEF LoopInv
    <3> QED BY <2>4, <3>1, <3>2 DEF Counting
  <2>6. Budget'
    BY <1>3, <2>3, BoundsTyped DEF Budget
  <2> QED BY <1>3, <2>1, <2>2, <2>3, <2>5, <2>6
          DEF LoopInv, Batch, EnterStep, e, callVars, faultVars
<1> QED BY <1>2, <1>3 DEF EnterStep

LEMMA Fields ==
  ASSUME NEW t, NEW s, NEW type, NEW n
  PROVE  /\ EvOf(t, s, type, n).type = type /\ EvOf(t, s, type, n).turn = t
         /\ EvOf(t, s, type, n).step = s /\ EvOf(t, s, type, n).n = n
BY DEF EvOf

\* A step that writes one event of the current Turn and changes no limit.
LEMMA OneEvent ==
  ASSUME LoopInv, pc \notin {"append", "idle"}, UNCHANGED log,
         NEW type \in EventType, NEW n \in Nat, NEW then \in Place \ {"append"},
         NEW else \in {"catch", "callFailed", "over"}, Write(<<Ev(type, n)>>, then, else)
  PROVE  /\ Recording' /\ pc' # "idle"
         /\ Batch(<<EvOf(turn, step, type, n)>>, pc, then)
<1> DEFINE e == <<EvOf(turn, step, type, n)>>
<1>1. e \in Seq(Event)
  BY TurnTyped, EventTyped
<1>2. Write(e, then, else)
  BY Evs
<1> HIDE DEF e
<1>3. /\ Recording' /\ pc' # "idle" /\ Held = log /\ Where = pc
      /\ Held' = log \o e /\ Where' = then
  BY <1>1, <1>2, Writes
<1> QED BY <1>1, <1>3 DEF Batch, e

LEMMA AssembleMoves ==
  ASSUME LoopInv, Assemble
  PROVE  /\ LoopInv' /\ UNCHANGED <<turn, step, attempts, toolCount, Len(tools), failures>>
         /\ \/ Jump("assemble", "catch") /\ UNCHANGED calls
            \/ Batch(<<EvOf(turn, step, "turn/exhausted", 0)>>, "assemble", "over") /\ UNCHANGED calls
            \/ /\ Batch(<<EvOf(turn, step, "model/call-started", calls + 1)>>, "assemble", "generate")
               /\ calls' = calls + 1
<1>1. /\ turn \in 1..Len(Limits) /\ step \in Nat /\ turn > 0
      /\ attempts \in Nat /\ Limits[turn].attempts \in Nat /\ calls \in Nat
  BY TurnTyped DEF Assemble, LoopInv, Counting
<1>2. /\ pc = "assemble" /\ turn' > 0
      /\ UNCHANGED <<log, turn, step, attempts, toolCount, tools, aborted, crashes, failures>>
  BY <1>1 DEF Assemble, faultVars
<1>3. passes' \in 0..(MaxPasses + 1)
  <2>1. passes \in 0..(MaxPasses + 1) /\ passes <= MaxPasses
    BY <1>2 DEF LoopInv, Counting, Budget, Where
  <2> QED BY <2>1, BoundsTyped DEF Assemble, AssemblyThrows, Compact, Respond
<1>4. CASE Goto("catch") /\ UNCHANGED callVars
  <2>1. /\ Recording' /\ pc' # "idle" /\ Held = log /\ Where = pc
        /\ Held' = log /\ Where' = "catch"
    BY <1>2, <1>4, Goes DEF Place, Ended
  <2>2. Counting'
    BY <1>2, <1>3, <1>4 DEF LoopInv, Counting, callVars
  <2> QED BY <1>2, <1>4, <2>1, <2>2 DEF LoopInv, Budget, Jump, callVars
<1>5. CASE NoAttemptsLeft
  <2>1. /\ Recording' /\ pc' # "idle"
        /\ Batch(<<EvOf(turn, step, "turn/exhausted", 0)>>, pc, "over")
    BY <1>2, <1>5, OneEvent DEF NoAttemptsLeft, End, EventType, TurnEnd, Place, Ended
  <2>2. Where' = "over"
    BY <2>1 DEF Batch
  <2>3. Counting' /\ UNCHANGED calls
    BY <1>2, <1>3, <1>5 DEF LoopInv, Counting, NoAttemptsLeft, callVars
  <2> QED BY <1>2, <1>5, <2>1, <2>2, <2>3 DEF LoopInv, Budget
<1>6. ASSUME NEW for \in {"response", "compaction"}, BeginCall(for), passes' <= MaxPasses,
             attempts < Limits[turn].attempts
      PROVE  /\ LoopInv' /\ calls' = calls + 1
             /\ Batch(<<EvOf(turn, step, "model/call-started", calls + 1)>>, "assemble", "generate")
  <2>1. calls + 1 \in Nat /\ "model/call-started" \in EventType
    BY <1>1 DEF EventType
  <2>2. /\ Recording' /\ pc' # "idle"
        /\ Batch(<<EvOf(turn, step, "model/call-started", calls + 1)>>, pc, "generate")
    BY <1>2, <1>6, <2>1, OneEvent DEF BeginCall, Place, Ended
  <2>3. /\ calls' = calls + 1 /\ purpose' = for /\ attempt' = 0 /\ UNCHANGED retryable
        /\ maxAttempts' = Limits[turn].attempts - attempts
    BY <1>6 DEF BeginCall
  <2>4. maxAttempts' \in Nat /\ attempt' \in 0..maxAttempts' /\ calls' \in Nat
    BY <1>1, <1>6, <2>3
  <2>5. Counting'
    BY <1>2, <1>3, <1>6, <2>3, <2>4 DEF LoopInv, Counting
  <2>6. attempts' + (maxAttempts' - attempt') <= Limits[turn'].attempts
    BY <1>1, <1>2, <2>3
  <2> QED BY <1>2, <1>6, <2>2, <2>3, <2>5, <2>6 DEF LoopInv, Budget
<1>7. \/ Goto("catch") /\ UNCHANGED callVars
      \/ NoAttemptsLeft
      \/ \E for \in {"response", "compaction"} :
           BeginCall(for) /\ passes' <= MaxPasses /\ attempts < Limits[turn].attempts
  BY <1>2 DEF Assemble, AssemblyThrows, Compact, Respond, LoopInv, Budget, Where
<1> QED BY <1>2, <1>4, <1>5, <1>6, <1>7 DEF callVars

LEMMA AttemptMoves ==
  ASSUME LoopInv, StartAttempt
  PROVE  /\ LoopInv' /\ UNCHANGED <<turn, step, toolCount, calls, Len(tools), failures>>
         /\ attempts' = attempts + 1 /\ attempts' <= Limits[turn].attempts
         /\ Batch(<<EvOf(turn, step, "model/attempt-started", calls)>>, "generate", "attempting")
<1>1. /\ turn \in 1..Len(Limits) /\ turn > 0
      /\ attempts \in Nat /\ Limits[turn].attempts \in Nat
      /\ attempt \in Nat /\ maxAttempts \in Nat
  BY TurnTyped DEF StartAttempt, LoopInv, Counting
<1>2. /\ pc = "generate" /\ attempt < maxAttempts
      /\ attempt' = attempt + 1 /\ attempts' = attempts + 1
      /\ UNCHANGED <<log, turn, step, passes, toolCount, calls, purpose, maxAttempts,
                     retryable, tools, aborted, crashes, failures>>
  BY DEF StartAttempt, faultVars
<1>3. attempts + (maxAttempts - attempt) <= Limits[turn].attempts /\ passes <= MaxPasses
  BY <1>2 DEF LoopInv, Budget, Where
<1>4. calls \in Nat /\ "model/attempt-started" \in EventType
  BY DEF LoopInv, Counting, EventType
<1>5. /\ Recording' /\ pc' # "idle"
      /\ Batch(<<EvOf(turn, step, "model/attempt-started", calls)>>, pc, "attempting")
  BY <1>2, <1>4, OneEvent DEF StartAttempt, Place, Ended
<1>6. /\ attempts' <= Limits[turn].attempts
      /\ attempts' + (maxAttempts' - attempt') <= Limits[turn'].attempts
      /\ attempts' \in 0..Limits[turn'].attempts /\ attempt' \in 0..maxAttempts'
  BY <1>1, <1>2, <1>3
<1>7. Counting'
  BY <1>2, <1>6 DEF LoopInv, Counting
<1> QED BY <1>1, <1>2, <1>3, <1>5, <1>6, <1>7 DEF LoopInv, Budget

LEMMA AttemptFailsMoves ==
  ASSUME LoopInv, AttemptFails
  PROVE  /\ LoopInv' /\ UNCHANGED counters
         /\ Batch(<<EvOf(turn, step, "model/attempt-failed", calls)>>, "attempting", "attemptFailed")
<1>1. /\ pc = "attempting" /\ turn > 0 /\ retryable' \in BOOLEAN
      /\ UNCHANGED <<log, turn, step, attempts, passes, toolCount, calls, purpose, attempt,
                     maxAttempts, tools, aborted, crashes, failures>>
  BY TurnTyped DEF AttemptFails, turnVars, faultVars
<1>2. calls \in Nat /\ "model/attempt-failed" \in EventType
  BY DEF LoopInv, Counting, EventType
<1>3. /\ Recording' /\ pc' # "idle"
      /\ Batch(<<EvOf(turn, step, "model/attempt-failed", calls)>>, pc, "attemptFailed")
  BY <1>1, <1>2, OneEvent DEF AttemptFails, Place, Ended
<1>4. Counting'
  BY <1>1 DEF LoopInv, Counting
<1>5. Where = "attempting" /\ Where' = "attemptFailed"
  BY <1>1, <1>3 DEF Batch
<1> QED BY <1>1, <1>3, <1>4, <1>5 DEF LoopInv, Budget, counters

LEMMA RetryMoves ==
  ASSUME LoopInv, Retry
  PROVE  /\ LoopInv' /\ UNCHANGED counters
         /\ Jump("attemptFailed", "callFailed") \/ Jump("attemptFailed", "generate")
<1>1. /\ pc = "attemptFailed" /\ turn > 0
      /\ UNCHANGED <<log, turn, step, attempts, passes, toolCount, calls, purpose, attempt,
                     maxAttempts, retryable, tools, aborted, crashes, failures>>
  BY TurnTyped DEF Retry, turnVars, callVars, faultVars
<1>2. PICK to \in {"callFailed", "generate"} : Goto(to)
  BY DEF Retry
<1>3. /\ Recording' /\ pc' # "idle" /\ Held = log /\ Where = pc
      /\ Held' = log /\ Where' = to
  BY <1>1, <1>2, Goes DEF Place, Ended
<1>4. Counting'
  BY <1>1 DEF LoopInv, Counting
<1> QED BY <1>1, <1>2, <1>3, <1>4 DEF LoopInv, Budget, Jump, counters

LEMMA CallFailsMoves ==
  ASSUME LoopInv, CallFails
  PROVE  /\ LoopInv' /\ UNCHANGED counters
         /\ Batch(<<EvOf(turn, step, "model/call-failed", calls)>>, "callFailed", "catch")
<1>1. /\ pc = "callFailed" /\ turn > 0
      /\ UNCHANGED <<log, turn, step, attempts, passes, toolCount, calls, purpose, attempt,
                     maxAttempts, retryable, tools, aborted, crashes, failures>>
  BY TurnTyped DEF CallFails, turnVars, callVars, faultVars
<1>2. calls \in Nat /\ "model/call-failed" \in EventType
  BY DEF LoopInv, Counting, EventType, ModelEnd
<1>3. /\ Recording' /\ pc' # "idle"
      /\ Batch(<<EvOf(turn, step, "model/call-failed", calls)>>, pc, "catch")
  BY <1>1, <1>2, OneEvent DEF CallFails, Place, Ended
<1>4. Counting'
  BY <1>1 DEF LoopInv, Counting
<1>5. Where' = "catch"
  BY <1>3 DEF Batch
<1> QED BY <1>1, <1>3, <1>4, <1>5 DEF LoopInv, Budget, counters

LEMMA CatchMoves ==
  ASSUME LoopInv, Catch
  PROVE  /\ LoopInv' /\ UNCHANGED counters
         /\ \E type \in {"turn/cancelled", "turn/failed"} :
              Batch(<<EvOf(turn, step, type, 0)>>, "catch", "over")
<1>1. /\ pc = "catch" /\ turn > 0
      /\ UNCHANGED <<log, turn, step, attempts, passes, toolCount, calls, purpose, attempt,
                     maxAttempts, retryable, tools, aborted, crashes, failures>>
  BY TurnTyped DEF Catch, turnVars, callVars, faultVars
<1>2. PICK type \in {"turn/cancelled", "turn/failed"} : Write(<<Ev(type, 0)>>, "over", "over")
  BY DEF Catch
<1>3. type \in EventType
  BY DEF EventType, TurnEnd
<1>4. /\ Recording' /\ pc' # "idle"
      /\ Batch(<<EvOf(turn, step, type, 0)>>, pc, "over")
  BY <1>1, <1>2, <1>3, OneEvent DEF Place, Ended
<1>5. Counting'
  BY <1>1 DEF LoopInv, Counting
<1>6. Where' = "over"
  BY <1>4 DEF Batch
<1> QED BY <1>1, <1>4, <1>5, <1>6 DEF LoopInv, Budget, counters

\* A step that writes two events of the current Turn and changes no limit.
LEMMA TwoEvents ==
  ASSUME LoopInv, pc \notin {"append", "idle"}, UNCHANGED log,
         NEW a \in EventType, NEW i \in Nat, NEW b \in EventType, NEW j \in Nat,
         NEW then \in Place \ {"append"}, Write(<<Ev(a, i), Ev(b, j)>>, then, "catch")
  PROVE  /\ Recording' /\ pc' # "idle"
         /\ Batch(<<EvOf(turn, step, a, i), EvOf(turn, step, b, j)>>, pc, then)
<1> DEFINE e == <<EvOf(turn, step, a, i), EvOf(turn, step, b, j)>>
<1>1. e \in Seq(Event)
  <2>1. EvOf(turn, step, a, i) \in Event /\ EvOf(turn, step, b, j) \in Event
    BY TurnTyped, EventTyped
  <2> QED BY <2>1
<1>2. Write(e, then, "catch")
  BY Evs
<1> HIDE DEF e
<1>3. /\ Recording' /\ pc' # "idle" /\ Held = log /\ Where = pc
      /\ Held' = log \o e /\ Where' = then
  BY <1>1, <1>2, Writes
<1> QED BY <1>1, <1>3 DEF Batch, e

LEMMA CompactionMoves ==
  ASSUME LoopInv, CompactionAnswered
  PROVE  /\ LoopInv' /\ UNCHANGED counters
         /\ \/ Batch(<<EvOf(turn, step, "model/call-completed", calls),
                       EvOf(turn, step, "history/compacted", calls)>>, "attempting", "assemble")
            \/ Jump("attempting", "callFailed")
<1>1. /\ pc = "attempting" /\ turn > 0 /\ calls \in Nat
      /\ UNCHANGED <<log, turn, step, attempts, passes, toolCount, calls, purpose, attempt,
                     maxAttempts, retryable, tools, aborted, crashes, failures>>
  BY TurnTyped DEF CompactionAnswered, turnVars, callVars, faultVars, LoopInv, Counting
<1>2. Counting' /\ Where = "attempting" /\ passes <= MaxPasses
  BY <1>1 DEF LoopInv, Counting, Budget, Where
<1>3. CASE Write(<<Ev("model/call-completed", calls), Ev("history/compacted", calls)>>,
                 "assemble", "catch")
  <2>1. /\ Recording' /\ pc' # "idle"
        /\ Batch(<<EvOf(turn, step, "model/call-completed", calls),
                   EvOf(turn, step, "history/compacted", calls)>>, pc, "assemble")
    BY <1>1, <1>3, TwoEvents DEF EventType, ModelEnd, Place, Ended
  <2>2. Where' = "assemble"
    BY <2>1 DEF Batch
  <2> QED BY <1>1, <1>2, <2>1, <2>2 DEF LoopInv, Budget, counters
<1>4. CASE Goto("callFailed")
  <2>1. /\ Recording' /\ pc' # "idle" /\ Held = log /\ Where = pc
        /\ Held' = log /\ Where' = "callFailed"
    BY <1>1, <1>4, Goes DEF Place, Ended
  <2> QED BY <1>1, <1>2, <2>1 DEF LoopInv, Budget, Jump, counters
<1> QED BY <1>3, <1>4 DEF CompactionAnswered

LEMMA AnsweredMoves ==
  ASSUME LoopInv, Answered
  PROVE  /\ LoopInv'
         /\ UNCHANGED <<turn, step, attempts, toolCount, calls, failures>>
         /\ Len(tools') \in Nat
         /\ Batch(<<EvOf(turn, step, "model/call-completed", calls),
                    EvOf(turn, step, "assistant/message", Len(tools'))>>, "attempting", "answered")
<1>1. /\ pc = "attempting" /\ turn > 0 /\ calls \in Nat
      /\ UNCHANGED <<log, turn, step, attempts, passes, toolCount, calls, purpose, attempt,
                     maxAttempts, retryable, aborted, crashes, failures>>
  BY TurnTyped DEF Answered, turnVars, callVars, faultVars, LoopInv, Counting
<1>2. PICK issued \in 0..MaxIssued :
        /\ tools' = [i \in 1..issued |-> "issued"]
        /\ Write(<<Ev("model/call-completed", calls), Ev("assistant/message", issued)>>,
                 "answered", "catch")
  BY DEF Answered
<1>3. issued \in Nat
  BY BoundsTyped
<1>4. /\ tools' \in Seq({"issued", "authorizing", "running", "completed", "rejected"})
      /\ Len(tools') = issued
  <2>1. tools' \in [1..issued -> {"issued", "authorizing", "running", "completed", "rejected"}]
    BY <1>2
  <2> QED BY <1>3, <2>1, IsSequence
<1>5. Counting'
  BY <1>1, <1>4 DEF LoopInv, Counting
<1>6. /\ Recording' /\ pc' # "idle"
      /\ Batch(<<EvOf(turn, step, "model/call-completed", calls),
                 EvOf(turn, step, "assistant/message", issued)>>, pc, "answered")
  BY <1>1, <1>2, <1>3, TwoEvents DEF EventType, ModelEnd, Place, Ended
<1>7. Where' = "answered"
  BY <1>6 DEF Batch
<1> QED BY <1>1, <1>3, <1>4, <1>5, <1>6, <1>7 DEF LoopInv, Budget

LEMMA DispatchMoves ==
  ASSUME LoopInv, Dispatch
  PROVE  /\ LoopInv'
         /\ UNCHANGED <<turn, step, attempts, calls, Len(tools), failures>>
         /\ toolCount' = toolCount + Len(tools)
         /\ \/ Batch(<<EvOf(turn, step, "step/completed", 0), EvOf(turn, step, "turn/completed", 0)>>,
                     "answered", "over")
            \/ Batch(<<EvOf(turn, step, "turn/exhausted", 0)>>, "answered", "over")
            \/ /\ Len(tools) <= Limits[turn].toolsPerStep /\ toolCount' <= Limits[turn].tools
               /\ Batch([i \in 1..Len(tools) |-> EvOf(turn, step, "tool/call-started", i)],
                        "answered", "tools")
<1> DEFINE n == Len(tools)
           Status == {"issued", "authorizing", "running", "completed", "rejected"}
<1>1. /\ pc = "answered" /\ turn \in 1..Len(Limits) /\ turn > 0 /\ step \in Nat
      /\ n \in Nat /\ tools \in Seq(Status) /\ toolCount \in Nat
      /\ toolCount' = toolCount + n
      /\ UNCHANGED <<log, turn, step, attempts, passes, calls, purpose, attempt,
                     maxAttempts, retryable, aborted, crashes, failures>>
  BY TurnTyped, LoopTyped DEF Dispatch, callVars, faultVars, LoopInv, Counting
<1>2. ASSUME tools' \in Seq(Status)
      PROVE  Counting'
  BY <1>1, <1>2 DEF LoopInv, Counting
<1>3. CASE /\ UNCHANGED tools
           /\ Write(<<Ev("step/completed", 0), Ev("turn/completed", 0)>>, "over", "catch")
  <2>1. /\ Recording' /\ pc' # "idle"
        /\ Batch(<<EvOf(turn, step, "step/completed", 0), EvOf(turn, step, "turn/completed", 0)>>,
                 pc, "over")
    BY <1>1, <1>3, TwoEvents DEF EventType, TurnEnd, Place, Ended
  <2>2. Where' = "over"
    BY <2>1 DEF Batch
  <2> QED BY <1>1, <1>2, <1>3, <2>1, <2>2 DEF LoopInv, Budget
<1>4. CASE UNCHANGED tools /\ End("turn/exhausted")
  <2>1. /\ Recording' /\ pc' # "idle"
        /\ Batch(<<EvOf(turn, step, "turn/exhausted", 0)>>, pc, "over")
    BY <1>1, <1>4, OneEvent DEF End, EventType, TurnEnd, Place, Ended
  <2>2. Where' = "over"
    BY <2>1 DEF Batch
  <2> QED BY <1>1, <1>2, <1>4, <2>1, <2>2 DEF LoopInv, Budget
<1>5. CASE /\ tools' = [i \in 1..n |-> "authorizing"]
           /\ n <= Limits[turn].toolsPerStep /\ toolCount' <= Limits[turn].tools
           /\ Write([i \in 1..n |-> Ev("tool/call-started", i)], "tools", "catch")
  <2> DEFINE e == [i \in 1..n |-> EvOf(turn, step, "tool/call-started", i)]
  <2>1. e \in Seq(Event)
    <3>1. ASSUME NEW i \in 1..n PROVE EvOf(turn, step, "tool/call-started", i) \in Event
      <4>1. i \in Nat /\ "tool/call-started" \in EventType
        BY <1>1 DEF EventType
      <4> QED BY <1>1, <4>1, EventTyped
    <3> QED BY <1>1, <3>1, IsSequence
  <2>2. Write(e, "tools", "catch")
    BY <1>5, Evs
  <2>3. tools' \in Seq(Status) /\ Len(tools') = n
    <3>1. tools' \in [1..n -> Status]
      BY <1>5
    <3> HIDE DEF Status
    <3> QED BY <1>1, <3>1, IsSequence
  <2> HIDE DEF e
  <2>4. /\ Recording' /\ pc' # "idle" /\ Held = log /\ Where = pc
        /\ Held' = log \o e /\ Where' = "tools"
    BY <1>1, <2>1, <2>2, Writes DEF Place, Ended
  <2>5. Batch(e, "answered", "tools")
    BY <1>1, <2>1, <2>4 DEF Batch
  <2> QED BY <1>1, <1>2, <1>5, <2>3, <2>4, <2>5 DEF LoopInv, Budget, e
<1> QED BY <1>3, <1>4, <1>5 DEF Dispatch

LEMMA SettleMoves ==
  ASSUME LoopInv, ToolsSettle
  PROVE  /\ LoopInv' /\ UNCHANGED counters
         /\ \E e \in Seq(Event) :
              /\ Len(e) = Len(tools)
              /\ \A i \in 1..Len(tools) : \E type \in ToolEnd : e[i] = EvOf(turn, step, type, i)
              /\ \/ Batch(e, "tools", "catch")
                 \/ /\ \A i \in 1..Len(tools) : e[i].type = "tool/call-completed"
                    /\ Batch(Append(e, EvOf(turn, step, "step/completed", 0)), "tools", "loop")
<1> DEFINE e == [i \in DOMAIN tools |-> ToolEvent(i)]
           last == EvOf(turn, step, "step/completed", 0)
<1>1. /\ pc = "tools" /\ turn \in 1..Len(Limits) /\ turn > 0 /\ step \in Nat
      /\ UNCHANGED <<log, turn, step, attempts, passes, toolCount, calls, purpose, attempt,
                     maxAttempts, retryable, tools, aborted, crashes, failures>>
  BY TurnTyped DEF ToolsSettle, turnVars, callVars, faultVars
<1>2. Len(tools) \in Nat /\ DOMAIN tools = 1..Len(tools)
  BY LoopTyped
<1>3. Counting'
  BY <1>1 DEF LoopInv, Counting
<1>4. ASSUME NEW i \in 1..Len(tools)
      PROVE  /\ \E type \in ToolEnd : ToolEvent(i) = EvOf(turn, step, type, i)
             /\ ToolEvent(i) \in Event
             /\ tools[i] = "completed" => ToolEvent(i).type = "tool/call-completed"
  <2>1. PICK type \in ToolEnd :
          /\ ToolEvent(i) = Ev(type, i)
          /\ tools[i] = "completed" => type = "tool/call-completed"
    BY DEF ToolEvent, ToolEnd
  <2>2. type \in EventType /\ i \in Nat
    BY <1>2 DEF EventType
  <2>3. ToolEvent(i) = EvOf(turn, step, type, i)
    BY <2>1, Evs
  <2> QED BY <1>1, <2>1, <2>2, <2>3, EventTyped, Fields
<1>5. e \in Seq(Event) /\ Len(e) = Len(tools)
  <2>1. e \in [1..Len(tools) -> Event]
    BY <1>2, <1>4
  <2> HIDE DEF e
  <2> QED BY <1>2, <2>1, IsSequence
<1>6. \A i \in 1..Len(tools) : \E type \in ToolEnd : e[i] = EvOf(turn, step, type, i)
  BY <1>2, <1>4
<1>7. CASE Write(e, "catch", "catch")
  <2> HIDE DEF e
  <2>1. /\ Recording' /\ pc' # "idle" /\ Held = log /\ Where = pc
        /\ Held' = log \o e /\ Where' = "catch"
    BY <1>1, <1>5, <1>7, Writes DEF Place, Ended
  <2>2. Batch(e, "tools", "catch")
    BY <1>1, <1>5, <2>1 DEF Batch
  <2>3. LoopInv'
    BY <1>1, <1>3, <2>1 DEF LoopInv, Budget
  <2>4. UNCHANGED counters
    BY <1>1 DEF counters
  <2> QED BY <1>5, <1>6, <2>2, <2>3, <2>4
<1>8. CASE /\ \A i \in DOMAIN tools : tools[i] = "completed"
           /\ Write(Append(e, Ev("step/completed", 0)), "loop", "catch")
  <2>1. \A i \in 1..Len(tools) : e[i].type = "tool/call-completed"
    BY <1>2, <1>4, <1>8
  <2> HIDE DEF e
  <2>2. last \in Event
    BY <1>1, EventTyped DEF EventType
  <2>3. Append(e, last) \in Seq(Event)
    BY <1>5, <2>2, AppendProperties
  <2>4. Write(Append(e, last), "loop", "catch")
    BY <1>8, Evs
  <2> HIDE DEF last
  <2>5. /\ Recording' /\ pc' # "idle" /\ Held = log /\ Where = pc
        /\ Held' = log \o Append(e, last) /\ Where' = "loop"
    BY <1>1, <2>3, <2>4, Writes DEF Place, Ended
  <2>6. Batch(Append(e, last), "tools", "loop")
    BY <1>1, <2>3, <2>5 DEF Batch
  <2>7. LoopInv'
    BY <1>1, <1>3, <2>5 DEF LoopInv, Budget
  <2>8. UNCHANGED counters
    BY <1>1 DEF counters
  <2> QED BY <1>5, <1>6, <2>1, <2>6, <2>7, <2>8 DEF last
<1> QED BY <1>7, <1>8 DEF ToolsSettle

\* A step of one ToolCall, or a cancellation.
LEMMA QuietMoves ==
  ASSUME LoopInv, (\E i \in DOMAIN tools : ToolStep(i)) \/ Cancel \/ UNCHANGED vars
  PROVE  LoopInv' /\ UNCHANGED <<log, Held, Where, counters>>
<1> DEFINE Status == {"issued", "authorizing", "running", "completed", "rejected"}
<1>1. /\ UNCHANGED <<log, pc, pending, turn, step, attempts, passes, toolCount, calls, purpose,
                     attempt, maxAttempts, retryable, crashes, failures>>
      /\ aborted' = aborted \/ aborted' = TRUE
      /\ tools' = tools \/ \E i \in DOMAIN tools, to \in Status : tools' = [tools EXCEPT ![i] = to]
  BY DEF ToolStep, Authorize, Malformed, AbortAuthorization, ToolReturns, AbortTool, ToolMoves,
         Cancel, vars, turnVars, callVars, faultVars
<1>2. tools' \in Seq(Status) /\ Len(tools') = Len(tools)
  <2>1. tools \in [1..Len(tools) -> Status] /\ Len(tools) \in Nat /\ DOMAIN tools = 1..Len(tools)
    BY LoopTyped
  <2>2. tools' \in [1..Len(tools) -> Status]
    BY <1>1, <2>1
  <2> HIDE DEF Status
  <2> QED BY <2>1, <2>2, IsSequence
<1>3. Recording' /\ Held' = Held /\ Where' = Where
  BY <1>1, Stays
<1>4. aborted' \in BOOLEAN
  BY <1>1 DEF LoopInv, Counting
<1>5. Counting'
  BY <1>1, <1>2, <1>4 DEF LoopInv, Counting
<1> QED BY <1>1, <1>2, <1>3, <1>5 DEF LoopInv, Budget, counters

LEMMA CommitMoves ==
  ASSUME LoopInv, Commit
  PROVE  LoopInv' /\ log' = Held /\ UNCHANGED <<Held, Where, counters>>
<1>1. /\ pc = "append" /\ log' = Held /\ pc' = pending.then /\ pc' = Where
      /\ UNCHANGED <<pending, turn, step, attempts, passes, toolCount, calls, purpose, attempt,
                     maxAttempts, retryable, tools, aborted, crashes, failures>>
  BY DEF Commit, Goto, Held, Where, turnVars, callVars, faultVars
<1>2. pc' \in Place \ {"append"} /\ log' \in Seq(Event)
  <2>1. pending.events \in Seq(Event) /\ pending.then \in Place \ {"append"}
    BY DEF LoopInv, Recording
  <2> QED BY <1>1, <2>1, ConcatProperties DEF LoopInv, Recording, Held
<1>3. Recording' /\ Held' = log' /\ Where' = pc'
  BY <1>1, <1>2 DEF LoopInv, Recording, Held, Where
<1>4. Counting' /\ turn' > 0
  BY <1>1, TurnTyped DEF LoopInv, Counting
<1> QED BY <1>1, <1>3, <1>4 DEF LoopInv, Budget, counters

LEMMA FailMoves ==
  ASSUME LoopInv, FailAppend
  PROVE  /\ LoopInv' /\ log' = log /\ Held' = log /\ Where' \in {"catch", "callFailed", "over"}
         /\ UNCHANGED <<turn, step, attempts, toolCount, calls, Len(tools)>>
         /\ failures' # 0
<1>1. /\ pc = "append" /\ pc' = pending.else /\ failures < MaxFailures /\ failures' = failures + 1
      /\ UNCHANGED <<log, pending, turn, step, attempts, passes, toolCount, calls, purpose, attempt,
                     maxAttempts, retryable, tools, aborted, crashes>>
  BY DEF FailAppend, Goto, turnVars, callVars
<1>2. pc' \in {"catch", "callFailed", "over"}
  BY <1>1 DEF LoopInv, Recording
<1>3. Recording' /\ Held' = log' /\ Where' = pc'
  BY <1>1, <1>2 DEF LoopInv, Recording, Held, Where, Place, Ended
<1>4. failures' \in 0..MaxFailures /\ failures' # 0
  <2>1. failures \in 0..MaxFailures
    BY DEF LoopInv, Counting
  <2> QED BY <1>1, <2>1, BoundsTyped
<1>5. Counting' /\ turn' > 0
  BY <1>1, <1>4, TurnTyped DEF LoopInv, Counting
<1> QED BY <1>1, <1>2, <1>3, <1>4, <1>5 DEF LoopInv, Budget

LEMMA CrashMoves ==
  ASSUME LoopInv, Crash
  PROVE  /\ LoopInv' /\ log' \in {log, Held} /\ Held' = log' /\ Where' = "crashed"
         /\ UNCHANGED counters
<1>1. /\ pc \notin Ended /\ pc' = "crashed" /\ crashes < MaxCrashes /\ crashes' = crashes + 1
      /\ UNCHANGED <<pending, turn, step, attempts, passes, toolCount, calls, purpose, attempt,
                     maxAttempts, retryable, tools, aborted, failures>>
      /\ log' \in {log, Held}
  BY DEF Crash, Running, Goto, Held, turnVars, callVars
<1>2. log' \in Seq(Event)
  <2>1. pending.events \in Seq(Event) /\ log \in Seq(Event)
    BY DEF LoopInv, Recording
  <2> QED BY <1>1, <2>1, ConcatProperties DEF Held
<1>3. Recording' /\ Held' = log' /\ Where' = pc'
  BY <1>1, <1>2 DEF LoopInv, Recording, Held, Where, Place, Ended
<1>4. crashes' \in 0..MaxCrashes
  <2>1. crashes \in 0..MaxCrashes
    BY DEF LoopInv, Counting
  <2> QED BY <1>1, <2>1, BoundsTyped
<1>5. Counting' /\ turn' > 0
  BY <1>1, <1>4, TurnTyped DEF LoopInv, Counting, Ended
<1> QED BY <1>1, <1>3, <1>5 DEF LoopInv, Budget, counters

LEMMA LoopInit == Init => LoopInv /\ Held = log /\ Where = "idle"
<1> SUFFICES ASSUME Init PROVE LoopInv /\ Held = log /\ Where = "idle"
  OBVIOUS
<1>1. Recording
  BY DEF Init, Recording, Place, Ended
<1>2. /\ turn = 0 /\ step = 0 /\ attempts = 0 /\ passes = 0 /\ toolCount = 0
      /\ calls = 0 /\ purpose = "response" /\ attempt = 0 /\ maxAttempts = 0 /\ retryable = FALSE
      /\ tools = <<>> /\ aborted = FALSE /\ crashes = 0 /\ failures = 0
  BY DEF Init
<1>3. tools \in Seq({"issued", "authorizing", "running", "completed", "rejected"})
  BY <1>2
<1>4. /\ turn \in 0..Len(Limits) /\ ~(turn > 0) /\ attempt \in 0..maxAttempts
      /\ toolCount \in Nat /\ calls \in Nat /\ maxAttempts \in Nat
  BY <1>2, BoundsTyped
<1>5. /\ passes \in 0..(MaxPasses + 1)
      /\ crashes \in 0..MaxCrashes /\ failures \in 0..MaxFailures
  BY <1>2, BoundsTyped
<1>6. Counting
  BY <1>2, <1>3, <1>4, <1>5 DEF Counting
<1> QED BY <1>1, <1>6 DEF Init, LoopInv, Budget, Held, Where

-----------------------------------------------------------------------------
(* What the repair of a Session appends.                                   *)

\* e ends the call started at position m of the record.
Closes(e, m) ==
  /\ e.type = IF log[m].type = "model/call-started" THEN "model/call-interrupted"
                                                    ELSE "tool/call-interrupted"
  /\ e.turn = log[m].turn /\ e.step = log[m].step /\ e.n = log[m].n

\* The events of `ends` end the calls started at the positions of S, one each.
Repairs(ends, S) ==
  \E at \in [1..Len(ends) -> S] :
    /\ \A i \in 1..Len(ends) : Closes(ends[i], at[i])
    /\ \A i, j \in 1..Len(ends) : at[i] = at[j] => i = j
    /\ \A m \in S : \E i \in 1..Len(ends) : at[i] = m

\* Positions in increasing order are all of them, each once.
LEMMA AscendingAll ==
  ASSUME NEW S, S \subseteq Nat, IsFiniteSet(S), NEW at \in Ascending(S)
  PROVE  /\ Cardinality(S) \in Nat /\ at \in [1..Cardinality(S) -> S]
         /\ \A i, j \in 1..Cardinality(S) : at[i] = at[j] => i = j
         /\ \A m \in S : \E i \in 1..Cardinality(S) : at[i] = m
<1> DEFINE c == Cardinality(S)
<1>1. c \in Nat
  BY FS_CardinalityType
<1>2. at \in [1..c -> S] /\ \A i, j \in 1..c : i < j => at[i] < at[j]
  BY DEF Ascending
<1> HIDE DEF c
<1>3. ASSUME NEW i \in 1..c, NEW j \in 1..c, at[i] = at[j] PROVE i = j
  <2>1. at[i] \in S /\ at[j] \in S
    BY <1>2
  <2>2. at[i] \in Nat /\ at[j] \in Nat
    BY <2>1
  <2>3. i \in Nat /\ j \in Nat
    BY <1>1
  <2>4. ~(at[i] < at[j]) /\ ~(at[j] < at[i])
    BY <1>3, <2>2
  <2>5. ~(i < j) /\ ~(j < i)
    BY <1>2, <2>4
  <2> QED BY <2>3, <2>5
<1>4. at \in Injection(1..c, S)
  BY <1>2, <1>3 DEF Injection, IsInjective
<1>5. IsFiniteSet(1..c) /\ Cardinality(1..c) = c
  BY <1>1, FS_Interval
<1>6. at \in Surjection(1..c, S)
  BY <1>4, <1>5, FS_Injection DEF c
<1>7. \A m \in S : \E i \in 1..c : at[i] = m
  BY <1>6 DEF Surjection
<1> QED BY <1>1, <1>2, <1>3, <1>7 DEF c

LEMMA RepairsOne ==
  ASSUME LoopInv,
         NEW started \in {"model/call-started", "tool/call-started"}, NEW interrupted,
         interrupted = IF started = "model/call-started" THEN "model/call-interrupted"
                                                         ELSE "tool/call-interrupted",
         NEW ends \in Interrupted(started, interrupted)
  PROVE  /\ ends \in Seq(Event)
         /\ Repairs(ends, {m \in 1..Len(log) : log[m].type = started /\ IsOpen(m)})
<1> DEFINE S == {m \in 1..Len(log) : log[m].type = started /\ IsOpen(m)}
<1>1. Len(log) \in Nat /\ log \in Seq(Event)
  BY LoopTyped
<1>2. S \subseteq Nat /\ IsFiniteSet(S)
  <2>1. IsFiniteSet(1..Len(log))
    BY <1>1, FS_Interval
  <2>2. S \in SUBSET (1..Len(log))
    OBVIOUS
  <2>3. S \subseteq Nat
    BY <1>1
  <2> QED BY <2>1, <2>2, <2>3, FS_Subset
<1>3. PICK at \in Ascending(S) :
        ends = [i \in 1..Cardinality(S) |-> [log[at[i]] EXCEPT !.type = interrupted]]
  BY DEF Interrupted
<1>4. \A m \in S : m \in 1..Len(log) /\ log[m].type = started
  OBVIOUS
<1> HIDE DEF S
<1>5. /\ Cardinality(S) \in Nat /\ at \in [1..Cardinality(S) -> S]
      /\ \A i, j \in 1..Cardinality(S) : at[i] = at[j] => i = j
      /\ \A m \in S : \E i \in 1..Cardinality(S) : at[i] = m
  BY <1>2, AscendingAll
<1>6. ASSUME NEW i \in 1..Cardinality(S)
      PROVE  ends[i] \in Event /\ Closes(ends[i], at[i])
  <2>1. at[i] \in 1..Len(log) /\ log[at[i]].type = started
    BY <1>4, <1>5
  <2>2. log[at[i]] \in Event
    BY <1>1, <2>1, ElementOfSeq
  <2>3. interrupted \in EventType
    BY DEF EventType, ModelEnd, ToolEnd
  <2>4. ends[i] = [log[at[i]] EXCEPT !.type = interrupted]
    BY <1>3
  <2>5. /\ ends[i] \in Event /\ ends[i].type = interrupted
        /\ ends[i].turn = log[at[i]].turn /\ ends[i].step = log[at[i]].step
        /\ ends[i].n = log[at[i]].n
    BY <2>2, <2>3, <2>4 DEF Event
  <2> QED BY <2>1, <2>5 DEF Closes
<1>7. ends \in [1..Cardinality(S) -> Event]
  BY <1>3, <1>6
<1>8. ends \in Seq(Event) /\ Len(ends) = Cardinality(S)
  BY <1>5, <1>7, IsSequence
<1>9. Repairs(ends, S)
  BY <1>5, <1>6, <1>8 DEF Repairs
<1> QED BY <1>8, <1>9 DEF S

LEMMA RecoverMoves ==
  ASSUME LoopInv, Recover
  PROVE  /\ LoopInv' /\ Where' = "over" /\ Where = "crashed" /\ Held = log /\ Held' = log'
         /\ UNCHANGED counters
         /\ \/ ~LatestTurnActive /\ log' = log
            \/ \E ends \in Seq(Event) :
                 /\ Repairs(ends, {m \in 1..Len(log) : IsOpen(m)})
                 /\ <<EvOf(turn, 0, "turn/interrupted", 0)>> \in Seq(Event)
                 /\ log' = (log \o ends) \o <<EvOf(turn, 0, "turn/interrupted", 0)>>
<1> DEFINE M == {m \in 1..Len(log) : log[m].type = "model/call-started" /\ IsOpen(m)}
           T == {m \in 1..Len(log) : log[m].type = "tool/call-started" /\ IsOpen(m)}
           S == {m \in 1..Len(log) : IsOpen(m)}
           last == <<EvOf(turn, 0, "turn/interrupted", 0)>>
<1>1. /\ pc = "crashed" /\ pc' = "over" /\ turn \in 1..Len(Limits) /\ turn > 0
      /\ log \in Seq(Event) /\ Len(log) \in Nat
      /\ UNCHANGED <<pending, turn, step, attempts, passes, toolCount, calls, purpose, attempt,
                     maxAttempts, retryable, tools, aborted, crashes, failures>>
  BY TurnTyped, LoopTyped DEF Recover, Goto, turnVars, callVars, faultVars
<1>2. ASSUME ~(~LatestTurnActive /\ log' = log)
      PROVE  /\ log' \in Seq(Event)
             /\ \E ends \in Seq(Event) :
                  Repairs(ends, S) /\ last \in Seq(Event) /\ log' = (log \o ends) \o last
  <2>1. PICK models \in Interrupted("model/call-started", "model/call-interrupted"),
             called \in Interrupted("tool/call-started", "tool/call-interrupted") :
          log' = log \o models \o called \o <<[Ev("turn/interrupted", 0) EXCEPT !.step = 0]>>
    BY <1>2 DEF Recover
  <2>2. models \in Seq(Event) /\ Repairs(models, M)
    BY <2>1, RepairsOne
  <2>3. called \in Seq(Event) /\ Repairs(called, T)
    BY <2>1, RepairsOne
  <2>4. last \in Seq(Event) /\ last = <<[Ev("turn/interrupted", 0) EXCEPT !.step = 0]>>
    <3>1. EvOf(turn, 0, "turn/interrupted", 0) \in Event
      BY <1>1, EventTyped DEF EventType, TurnEnd
    <3> QED BY <3>1 DEF Ev, EvOf
  <2>5. Len(models) \in Nat /\ Len(called) \in Nat
    BY <2>2, <2>3, LenProperties
  <2> HIDE DEF last
  <2> DEFINE ends == models \o called
  <2>6. /\ ends \in Seq(Event) /\ Len(ends) = Len(models) + Len(called)
        /\ \A i \in 1..Len(models) : ends[i] = models[i]
        /\ \A i \in 1..Len(called) : ends[Len(models) + i] = called[i]
    BY <2>2, <2>3, <2>5, ConcatProperties
  <2>7. log' = (log \o ends) \o last
    BY <1>1, <2>1, <2>2, <2>3, <2>4
  <2> HIDE DEF ends
  <2>8. log' \in Seq(Event)
    BY <1>1, <2>4, <2>6, <2>7, ConcatProperties
  <2>9. Repairs(ends, S)
    <3>1. PICK f \in [1..Len(models) -> M] :
            /\ \A i \in 1..Len(models) : Closes(models[i], f[i])
            /\ \A i, j \in 1..Len(models) : f[i] = f[j] => i = j
            /\ \A m \in M : \E i \in 1..Len(models) : f[i] = m
      BY <2>2 DEF Repairs
    <3>2. PICK g \in [1..Len(called) -> T] :
            /\ \A i \in 1..Len(called) : Closes(called[i], g[i])
            /\ \A i, j \in 1..Len(called) : g[i] = g[j] => i = j
            /\ \A m \in T : \E i \in 1..Len(called) : g[i] = m
      BY <2>3 DEF Repairs
    <3>3. \A m : (m \in M => m \notin T /\ m \in S) /\ (m \in T => m \in S)
                 /\ (m \in S => m \in M \/ m \in T)
      BY DEF IsOpen
    <3> HIDE DEF M, T, S
    <3> DEFINE at == [i \in 1..Len(ends) |-> IF i <= Len(models) THEN f[i] ELSE g[i - Len(models)]]
    <3>4. \A i \in 1..Len(models) : i \in 1..Len(ends) /\ at[i] = f[i] /\ at[i] \in M
      BY <2>5, <2>6, <3>1
    <3>5. \A i \in 1..Len(called) : /\ Len(models) + i \in 1..Len(ends)
                                    /\ at[Len(models) + i] = g[i] /\ at[Len(models) + i] \in T
      <4>1. ASSUME NEW i \in 1..Len(called)
            PROVE  /\ Len(models) + i \in 1..Len(ends) /\ ~(Len(models) + i <= Len(models))
                   /\ (Len(models) + i) - Len(models) = i
        BY <2>5, <2>6
      <4> QED BY <3>2, <4>1
    <3>6. \A i \in 1..Len(ends) : i \in 1..Len(models)
                                  \/ \E j \in 1..Len(called) : i = Len(models) + j
      <4>1. ASSUME NEW i \in 1..Len(ends), i \notin 1..Len(models)
            PROVE  i - Len(models) \in 1..Len(called) /\ i = Len(models) + (i - Len(models))
        BY <2>5, <2>6, <4>1
      <4> QED BY <4>1
    <3> HIDE DEF at
    <3>7. \A i \in 1..Len(ends) : at[i] \in S /\ Closes(ends[i], at[i])
      BY <2>6, <3>1, <3>2, <3>3, <3>4, <3>5, <3>6, SMTT(20)
    <3>8. at \in [1..Len(ends) -> S]
      BY <3>7 DEF at
    <3>9. ASSUME NEW i \in 1..Len(ends), NEW j \in 1..Len(ends), at[i] = at[j] PROVE i = j
      <4>1. CASE i \in 1..Len(models) /\ j \in 1..Len(models)
        BY <3>1, <3>4, <3>9, <4>1
      <4>2. CASE i \notin 1..Len(models) /\ j \notin 1..Len(models)
        <5>1. PICK a \in 1..Len(called) : i = Len(models) + a
          BY <3>6, <4>2
        <5>2. PICK b \in 1..Len(called) : j = Len(models) + b
          BY <3>6, <4>2
        <5>3. g[a] = g[b]
          BY <3>5, <3>9, <5>1, <5>2
        <5> QED BY <3>2, <5>1, <5>2, <5>3
      <4>3. CASE i \in 1..Len(models) /\ j \notin 1..Len(models)
        BY <3>3, <3>4, <3>5, <3>6, <3>9, <4>3, SMTT(20)
      <4>4. CASE i \notin 1..Len(models) /\ j \in 1..Len(models)
        BY <3>3, <3>4, <3>5, <3>6, <3>9, <4>4, SMTT(20)
      <4> QED BY <4>1, <4>2, <4>3, <4>4
    <3>10. ASSUME NEW m \in S PROVE \E i \in 1..Len(ends) : at[i] = m
      <4>1. CASE m \in M
        <5>1. PICK i \in 1..Len(models) : f[i] = m
          BY <3>1, <4>1
        <5> QED BY <3>4, <5>1
      <4>2. CASE m \in T
        <5>1. PICK i \in 1..Len(called) : g[i] = m
          BY <3>2, <4>2
        <5> QED BY <3>5, <5>1
      <4> QED BY <3>3, <4>1, <4>2
    <3> QED BY <3>7, <3>8, <3>9, <3>10 DEF Repairs
  <2> QED BY <2>4, <2>6, <2>7, <2>8, <2>9
<1>3. log' \in Seq(Event)
  BY <1>1, <1>2
<1>4. Recording' /\ Held' = log' /\ Where' = pc' /\ Held = log /\ Where = pc
  BY <1>1, <1>3 DEF LoopInv, Recording, Held, Where, Place, Ended
<1>5. Counting'
  BY <1>1 DEF LoopInv, Counting
<1>6. LoopInv' /\ UNCHANGED counters
  BY <1>1, <1>4, <1>5 DEF LoopInv, Budget, counters
<1> QED BY <1>1, <1>2, <1>3, <1>4, <1>6

-----------------------------------------------------------------------------
(* Records that grow by a batch.                                           *)

LEMMA Joined ==
  ASSUME NEW l \in Seq(Event), NEW e \in Seq(Event)
  PROVE  /\ l \o e \in Seq(Event) /\ Len(l) \in Nat /\ Len(e) \in Nat /\ Len(l \o e) = Len(l) + Len(e)
         /\ \A m \in 1..Len(l) : m \in 1..Len(l \o e) /\ (l \o e)[m] = l[m]
         /\ \A i \in 1..Len(e) : Len(l) + i \in 1..Len(l \o e) /\ (l \o e)[Len(l) + i] = e[i]
         /\ \A k \in 1..Len(l \o e) :
              k \in 1..Len(l) \/ (k - Len(l) \in 1..Len(e) /\ (l \o e)[k] = e[k - Len(l)])
<1>0. PICK r : r = l \o e
  OBVIOUS
<1>1. Len(l) \in Nat /\ Len(e) \in Nat
  BY LenProperties
<1>2. /\ r \in Seq(Event) /\ Len(r) = Len(l) + Len(e)
      /\ \A m \in 1..Len(l) : r[m] = l[m]
      /\ \A i \in 1..Len(e) : r[Len(l) + i] = e[i]
  BY <1>0, <1>1, ConcatProperties
<1>3. \A m \in 1..Len(l) : m \in 1..Len(r)
  BY <1>1, <1>2
<1>4. \A i \in 1..Len(e) : Len(l) + i \in 1..Len(r)
  BY <1>1, <1>2
<1>5. ASSUME NEW k \in 1..Len(r), k \notin 1..Len(l)
      PROVE  k - Len(l) \in 1..Len(e) /\ r[k] = e[k - Len(l)]
  <2>1. k - Len(l) \in 1..Len(e) /\ Len(l) + (k - Len(l)) = k
    BY <1>1, <1>2, <1>5
  <2> QED BY <1>2, <2>1
<1> QED BY <1>0, <1>1, <1>2, <1>3, <1>4, <1>5

LEMMA RecordTyped ==
  ASSUME NEW l \in Seq(Event), NEW m \in 1..Len(l)
  PROVE  /\ l[m] \in Event /\ l[m].turn \in 1..Len(Limits) /\ l[m].turn \in Nat
         /\ l[m].step \in Nat /\ l[m].n \in Nat /\ l[m].type \in EventType
<1>1. l[m] \in Event
  BY ElementOfSeq
<1>2. l[m].turn \in 1..Len(Limits) /\ l[m].step \in Nat /\ l[m].n \in Nat /\ l[m].type \in EventType
  BY <1>1 DEF Event
<1> QED BY <1>1, <1>2, BoundsTyped

LEMMA CountTyped ==
  ASSUME NEW l \in Seq(Event), NEW type, NEW t, NEW s
  PROVE  /\ Cardinality(OfTurn(l, type, t)) \in Nat
         /\ Cardinality(OfStep(l, type, t, s)) \in Nat
<1>1. IsFiniteSet(1..Len(l))
  BY LenProperties, FS_Interval
<1>2. OfTurn(l, type, t) \in SUBSET (1..Len(l)) /\ OfStep(l, type, t, s) \in SUBSET (1..Len(l))
  BY DEF OfTurn, OfStep
<1> QED BY <1>1, <1>2, FS_Subset, FS_CardinalityType

NoneOf(e, type, t) == \A i \in 1..Len(e) : ~(e[i].type = type /\ e[i].turn = t)

\* A batch without such an event changes no count of them.
LEMMA CountQuiet ==
  ASSUME NEW l \in Seq(Event), NEW e \in Seq(Event), NEW type, NEW t, NoneOf(e, type, t)
  PROVE  /\ OfTurn(l \o e, type, t) = OfTurn(l, type, t)
         /\ \A s : OfStep(l \o e, type, t, s) = OfStep(l, type, t, s)
<1>0. PICK r : r = l \o e
  OBVIOUS
<1>1. \A m \in OfTurn(r, type, t) : m \in OfTurn(l, type, t)
  BY <1>0, Joined DEF OfTurn, NoneOf
<1>2. \A m \in OfTurn(l, type, t) : m \in OfTurn(r, type, t)
  BY <1>0, Joined DEF OfTurn
<1>3. OfTurn(r, type, t) = OfTurn(l, type, t)
  BY <1>1, <1>2
<1>4. \A m \in OfTurn(l, type, t) : r[m] = l[m]
  BY <1>0, Joined DEF OfTurn
<1> QED BY <1>0, <1>3, <1>4 DEF OfStep

\* A set of positions has at most one more for each event of the batch.
LEMMA CountPositions ==
  ASSUME NEW n \in Nat, NEW k \in Nat, NEW S, S \subseteq 1..(n + k)
  PROVE  Cardinality(S) <= Cardinality(S \cap (1..n)) + k
<1> DEFINE A == S \cap (1..n)
           B == (n + 1)..(n + k)
<1>1. IsFiniteSet(A) /\ IsFiniteSet(1..n)
  <2>1. IsFiniteSet(1..n)
    BY FS_Interval
  <2> QED BY <2>1, FS_Subset
<1>2. IsFiniteSet(B) /\ Cardinality(B) = k
  <2>1. n + 1 \in Int /\ n + k \in Int /\ (n + k) - (n + 1) + 1 = k /\ (n + 1 > n + k <=> k = 0)
    OBVIOUS
  <2>2. IsFiniteSet(B) /\ Cardinality(B) = IF n + 1 > n + k THEN 0 ELSE (n + k) - (n + 1) + 1
    BY <2>1, FS_Interval
  <2> QED BY <2>1, <2>2
<1>3. S \in SUBSET (A \cup B)
  <2>1. \A x \in 1..(n + k) : x \in 1..n \/ x \in B
    OBVIOUS
  <2> QED BY <2>1
<1> HIDE DEF A, B
<1>4. IsFiniteSet(A \cup B) /\ Cardinality(A \cup B) =
        Cardinality(A) + Cardinality(B) - Cardinality(A \cap B)
  BY <1>1, <1>2, FS_Union
<1>5. Cardinality(A) \in Nat /\ Cardinality(A \cap B) \in Nat
  <2>1. A \cap B \in SUBSET A
    OBVIOUS
  <2> QED BY <1>1, <2>1, FS_Subset, FS_CardinalityType
<1>6. Cardinality(S) <= Cardinality(A \cup B) /\ Cardinality(S) \in Nat
  BY <1>3, <1>4, FS_Subset, FS_CardinalityType
<1>7. Cardinality(S) <= Cardinality(A) + k
  BY <1>2, <1>4, <1>5, <1>6
<1> QED BY <1>7 DEF A

LEMMA CountGrows ==
  ASSUME NEW l \in Seq(Event), NEW e \in Seq(Event), NEW r, r = l \o e, NEW type, NEW t, NEW s
  PROVE  /\ Cardinality(OfTurn(r, type, t)) <= Cardinality(OfTurn(l, type, t)) + Len(e)
         /\ Cardinality(OfStep(r, type, t, s)) <= Cardinality(OfStep(l, type, t, s)) + Len(e)
<1>1. /\ Len(l) \in Nat /\ Len(e) \in Nat /\ Len(r) = Len(l) + Len(e)
      /\ \A m \in 1..Len(l) : m \in 1..Len(r) /\ r[m] = l[m]
  BY Joined
<1>2. OfTurn(r, type, t) \cap (1..Len(l)) = OfTurn(l, type, t)
  BY <1>1 DEF OfTurn
<1>3. OfStep(r, type, t, s) \cap (1..Len(l)) = OfStep(l, type, t, s)
  BY <1>1 DEF OfStep, OfTurn
<1>4. /\ OfTurn(r, type, t) \subseteq 1..(Len(l) + Len(e))
      /\ OfStep(r, type, t, s) \subseteq 1..(Len(l) + Len(e))
  BY <1>1 DEF OfTurn, OfStep
<1> QED BY <1>1, <1>2, <1>3, <1>4, CountPositions

-----------------------------------------------------------------------------
(* The results of a message, and the order of the record.                  *)

LEMMA CompleteSame ==
  ASSUME NEW l, NEW r, NEW m, NEW j, NEW k, ResultsIn(r, m, j) = ResultsIn(l, m, k), r[m] = l[m],
         \A p \in ResultsIn(l, m, k) : r[p] = l[p], Complete(l, m, k)
  PROVE  Complete(r, m, j)
<1> DEFINE S == ResultsIn(l, m, k)
<1>1. {r[p].n : p \in S} = {l[p].n : p \in S}
  OBVIOUS
<1>2. \A p, q \in S : p < q => r[p].n < r[q].n
  BY DEF Complete
<1> QED BY <1>1, <1>2 DEF Complete

\* The results before a position of the record do not depend on what follows.
LEMMA CompleteKept ==
  ASSUME NEW l \in Seq(Event), NEW e \in Seq(Event), NEW r, r = l \o e,
         NEW m \in 1..Len(l), NEW k \in Nat, k <= Len(l) + 1, Complete(l, m, k)
  PROVE  Complete(r, m, k)
<1>1. /\ Len(l) \in Nat /\ r[m] = l[m]
      /\ \A p \in 1..Len(l) : r[p] = l[p]
  BY Joined
<1>2. \A p \in m..(k - 1) : p \in 1..Len(l)
  BY <1>1
<1>3. ResultsIn(r, m, k) = ResultsIn(l, m, k)
  BY <1>1, <1>2 DEF ResultsIn
<1>4. \A p \in ResultsIn(l, m, k) : r[p] = l[p]
  BY <1>1, <1>2 DEF ResultsIn
<1> QED BY <1>1, <1>3, <1>4, CompleteSame

\* Nor on a batch without results of the Step.
LEMMA CompleteQuiet ==
  ASSUME NEW l \in Seq(Event), NEW e \in Seq(Event), NEW r, r = l \o e,
         NEW m \in 1..Len(l), Complete(l, m, Len(l) + 1),
         \A i \in 1..Len(e) : e[i].type = "tool/call-completed" =>
           ~(e[i].turn = l[m].turn /\ e[i].step = l[m].step)
  PROVE  Complete(r, m, Len(r) + 1)
<1>1. /\ Len(l) \in Nat /\ Len(r) \in Nat /\ Len(l) <= Len(r) /\ m \in 1..Len(r)
      /\ \A p \in 1..Len(l) : r[p] = l[p]
      /\ \A p \in 1..Len(r) :
           p \in 1..Len(l) \/ (p - Len(l) \in 1..Len(e) /\ r[p] = e[p - Len(l)])
  BY Joined
<1>2. \A p : p \in m..((Len(l) + 1) - 1) <=> p \in 1..Len(l) /\ m <= p
  BY <1>1
<1>3. \A p : p \in m..((Len(r) + 1) - 1) <=> p \in 1..Len(r) /\ m <= p
  BY <1>1
<1>4. \A p \in 1..Len(l) : p \in 1..Len(r)
  BY <1>1
<1>5. ResultsIn(r, m, Len(r) + 1) = ResultsIn(l, m, Len(l) + 1)
  <2>1. ASSUME NEW p \in ResultsIn(r, m, Len(r) + 1) PROVE p \in ResultsIn(l, m, Len(l) + 1)
    <3>1. /\ p \in 1..Len(r) /\ m <= p /\ r[m] = l[m]
          /\ r[p].type = "tool/call-completed" /\ r[p].turn = l[m].turn /\ r[p].step = l[m].step
      BY <1>1, <1>3, <2>1 DEF ResultsIn
    <3>2. p \in 1..Len(l)
      BY <1>1, <3>1
    <3> QED BY <1>1, <1>2, <3>1, <3>2 DEF ResultsIn
  <2>2. ASSUME NEW p \in ResultsIn(l, m, Len(l) + 1) PROVE p \in ResultsIn(r, m, Len(r) + 1)
    BY <1>1, <1>2, <1>3, <1>4, <2>2 DEF ResultsIn
  <2> QED BY <2>1, <2>2
<1>6. \A p \in ResultsIn(l, m, Len(l) + 1) : r[p] = l[p]
  BY <1>1, <1>2 DEF ResultsIn
<1> QED BY <1>1, <1>5, <1>6, CompleteSame, ZenonT(30)

LEMMA OrderedQuiet ==
  ASSUME NEW l \in Seq(Event), NEW e \in Seq(Event), NEW r, r = l \o e, Ordered(l),
         \A i \in 1..Len(e) : e[i].type # "step/started"
  PROVE  Ordered(r)
<1> SUFFICES ASSUME NEW k \in 1..Len(r), r[k].type = "step/started",
                    NEW m \in 1..(k - 1), r[m].type = "assistant/message", r[m].turn = r[k].turn
             PROVE  Complete(r, m, k)
  BY DEF Ordered
<1>1. /\ Len(l) \in Nat /\ \A p \in 1..Len(l) : r[p] = l[p]
      /\ k \in 1..Len(l)
  BY Joined
<1>2. m \in 1..Len(l) /\ k \in Nat /\ k <= Len(l) + 1
  BY <1>1
<1>3. r[m] = l[m] /\ r[k] = l[k]
  BY <1>1, <1>2
<1>4. Complete(l, m, k)
  BY <1>1, <1>3 DEF Ordered
<1> QED BY <1>2, <1>4, CompleteKept

LEMMA OrderedStep ==
  ASSUME NEW l \in Seq(Event), NEW x \in Event, NEW r, r = l \o <<x>>, Ordered(l),
         \A m \in 1..Len(l) : l[m].type = "assistant/message" /\ l[m].turn = x.turn =>
           Complete(l, m, Len(l) + 1)
  PROVE  Ordered(r)
<1>1. <<x>> \in Seq(Event) /\ Len(<<x>>) = 1 /\ <<x>>[1] = x
  OBVIOUS
<1>2. /\ Len(l) \in Nat /\ Len(r) = Len(l) + 1 /\ \A p \in 1..Len(l) : r[p] = l[p]
      /\ r[Len(l) + 1] = x
  BY <1>1, Joined
<1> SUFFICES ASSUME NEW k \in 1..Len(r), r[k].type = "step/started",
                    NEW m \in 1..(k - 1), r[m].type = "assistant/message", r[m].turn = r[k].turn
             PROVE  Complete(r, m, k)
  BY DEF Ordered
<1>3. m \in 1..Len(l) /\ k \in Nat /\ k <= Len(l) + 1
  BY <1>2
<1>4. CASE k \in 1..Len(l)
  <2>1. Complete(l, m, k)
    BY <1>2, <1>3, <1>4 DEF Ordered
  <2> QED BY <1>1, <1>3, <2>1, CompleteKept
<1>5. CASE k = Len(l) + 1
  <2>1. Complete(l, m, k)
    BY <1>2, <1>3, <1>5
  <2> QED BY <1>1, <1>3, <2>1, CompleteKept
<1> QED BY <1>2, <1>4, <1>5

-----------------------------------------------------------------------------
(* Base holds of a record that grows by a batch.                           *)

LEMMA TurnsBounded ==
  ASSUME NEW l \in Seq(Event), NEW e \in Seq(Event), NEW r, r = l \o e, NEW t,
         \A m \in 1..Len(l) : l[m].turn <= t, \A i \in 1..Len(e) : e[i].turn <= t
  PROVE  \A m \in 1..Len(r) : r[m].turn <= t
BY Joined

\* The batch records no attempt, no start of a ToolCall and no new Step.
LEMMA BaseQuiet ==
  ASSUME NEW l \in Seq(Event), NEW e \in Seq(Event), NEW r, r = l \o e,
         NEW t, NEW a, NEW c, Base(l, t, a, c),
         \A i \in 1..Len(e) : /\ e[i].turn <= t
                              /\ e[i].type \notin {"model/attempt-started", "tool/call-started",
                                                   "step/started"}
  PROVE  Base(r, t, a, c)
<1>1. \A m \in 1..Len(r) : r[m].turn <= t
  BY TurnsBounded DEF Base
<1>2. ASSUME NEW u
      PROVE  /\ OfTurn(r, "model/attempt-started", u) = OfTurn(l, "model/attempt-started", u)
             /\ OfTurn(r, "tool/call-started", u) = OfTurn(l, "tool/call-started", u)
             /\ \A s : OfStep(r, "tool/call-started", u, s) = OfStep(l, "tool/call-started", u, s)
  <2>1. NoneOf(e, "model/attempt-started", u)
    BY DEF NoneOf
  <2>2. NoneOf(e, "tool/call-started", u)
    BY DEF NoneOf
  <2> QED BY <2>1, <2>2, CountQuiet
<1>3. Limited(r, t)
  BY <1>2 DEF Base, Limited
<1>4. Ordered(r)
  BY OrderedQuiet DEF Base
<1> QED BY <1>1, <1>2, <1>3, <1>4 DEF Base

LEMMA BaseAttempt ==
  ASSUME NEW l \in Seq(Event), NEW e \in Seq(Event), NEW r, r = l \o e, Len(e) = 1,
         NEW t \in 1..Len(Limits), NEW a \in Nat, NEW c \in Nat, Base(l, t, a, c),
         e[1].type = "model/attempt-started", e[1].turn = t, a + 1 <= Limits[t].attempts
  PROVE  Base(r, t, a + 1, c)
<1>1. \A i \in 1..Len(e) : e[i].type = "model/attempt-started" /\ e[i].turn = t
  OBVIOUS
<1>2. t \in Nat /\ \A m \in 1..Len(r) : r[m].turn <= t
  <2>1. t \in Nat /\ \A i \in 1..Len(e) : e[i].turn <= t
    BY <1>1, BoundsTyped
  <2> QED BY <2>1, TurnsBounded DEF Base
<1>3. ASSUME NEW u
      PROVE  /\ u # t => OfTurn(r, "model/attempt-started", u) = OfTurn(l, "model/attempt-started", u)
             /\ OfTurn(r, "tool/call-started", u) = OfTurn(l, "tool/call-started", u)
             /\ \A s : OfStep(r, "tool/call-started", u, s) = OfStep(l, "tool/call-started", u, s)
  <2>1. u # t => NoneOf(e, "model/attempt-started", u)
    BY <1>1 DEF NoneOf
  <2>2. NoneOf(e, "tool/call-started", u)
    BY <1>1 DEF NoneOf
  <2> QED BY <2>1, <2>2, CountQuiet
<1>4. /\ Cardinality(OfTurn(r, "model/attempt-started", t)) <= a + 1
      /\ Cardinality(OfTurn(r, "model/attempt-started", t)) <= Limits[t].attempts
  <2>1. Cardinality(OfTurn(r, "model/attempt-started", t))
          <= Cardinality(OfTurn(l, "model/attempt-started", t)) + 1
    BY CountGrows
  <2>2. Cardinality(OfTurn(l, "model/attempt-started", t)) <= a
    BY DEF Base
  <2>3. /\ Cardinality(OfTurn(l, "model/attempt-started", t)) \in Nat
        /\ Cardinality(OfTurn(r, "model/attempt-started", t)) \in Nat
    BY Joined, CountTyped
  <2>4. Limits[t].attempts \in Nat
    BY LimitsTyped
  <2> QED BY <2>1, <2>2, <2>3, <2>4, SMTT(20)
<1>5. Limited(r, t)
  BY <1>3, <1>4 DEF Base, Limited
<1>6. Ordered(r)
  BY <1>1, OrderedQuiet DEF Base
<1> QED BY <1>2, <1>3, <1>4, <1>5, <1>6 DEF Base

\* The batch starts ToolCalls of a Step that has none.
LEMMA BaseStarts ==
  ASSUME NEW l \in Seq(Event), NEW e \in Seq(Event), NEW r, r = l \o e,
         NEW t \in 1..Len(Limits), NEW s \in Nat, NEW a \in Nat, NEW c \in Nat, Base(l, t, a, c),
         \A i \in 1..Len(e) : e[i].type = "tool/call-started" /\ e[i].turn = t /\ e[i].step = s,
         OfStep(l, "tool/call-started", t, s) = {},
         Len(e) <= Limits[t].toolsPerStep, c + Len(e) <= Limits[t].tools
  PROVE  Base(r, t, a, c + Len(e))
<1>1. Len(e) \in Nat /\ Limits[t].tools \in Nat
  BY LenProperties, LimitsTyped
<1>2. t \in Nat /\ \A m \in 1..Len(r) : r[m].turn <= t
  <2>1. t \in Nat /\ \A i \in 1..Len(e) : e[i].turn <= t
    BY BoundsTyped
  <2> QED BY <2>1, TurnsBounded DEF Base
<1>3. ASSUME NEW u
      PROVE  /\ OfTurn(r, "model/attempt-started", u) = OfTurn(l, "model/attempt-started", u)
             /\ u # t => /\ OfTurn(r, "tool/call-started", u) = OfTurn(l, "tool/call-started", u)
                         /\ \A v : OfStep(r, "tool/call-started", u, v)
                                     = OfStep(l, "tool/call-started", u, v)
  <2>1. NoneOf(e, "model/attempt-started", u)
    BY DEF NoneOf
  <2>2. u # t => NoneOf(e, "tool/call-started", u)
    BY DEF NoneOf
  <2> QED BY <2>1, <2>2, CountQuiet
<1>4. /\ Cardinality(OfTurn(r, "tool/call-started", t)) <= c + Len(e)
      /\ Cardinality(OfTurn(r, "tool/call-started", t)) <= Limits[t].tools
  <2>1. Cardinality(OfTurn(r, "tool/call-started", t))
          <= Cardinality(OfTurn(l, "tool/call-started", t)) + Len(e)
    BY CountGrows
  <2>2. Cardinality(OfTurn(l, "tool/call-started", t)) <= c
    BY DEF Base
  <2>3. /\ Cardinality(OfTurn(l, "tool/call-started", t)) \in Nat
        /\ Cardinality(OfTurn(r, "tool/call-started", t)) \in Nat
    BY Joined, CountTyped
  <2> QED BY <1>1, <2>1, <2>2, <2>3
<1>5. ASSUME NEW v \in 1..Limits[t].steps
      PROVE  Cardinality(OfStep(r, "tool/call-started", t, v)) <= Limits[t].toolsPerStep
  <2>1. CASE v = s
    <3>1. Cardinality(OfStep(r, "tool/call-started", t, s)) <= 0 + Len(e)
      BY CountGrows, FS_EmptySet
    <3>2. Cardinality(OfStep(r, "tool/call-started", t, s)) \in Nat /\ Limits[t].toolsPerStep \in Nat
      BY Joined, CountTyped, LimitsTyped
    <3> QED BY <1>1, <2>1, <3>1, <3>2
  <2>2. CASE v # s
    <3>1. OfStep(r, "tool/call-started", t, v) = OfStep(l, "tool/call-started", t, v)
      <4>1. \A m \in 1..Len(l) : m \in 1..Len(r) /\ r[m] = l[m]
        BY Joined
      <4>2. \A m \in 1..Len(r) : m \in 1..Len(l) \/ r[m].step = s
        BY Joined, SMTT(20)
      <4> QED BY <2>2, <4>1, <4>2 DEF OfStep, OfTurn
    <3> QED BY <1>2, <3>1, SMTT(20) DEF Base, Limited
  <2> QED BY <2>1, <2>2
<1>6. Limited(r, t)
  BY <1>3, <1>4, <1>5 DEF Base, Limited
<1>7. Ordered(r)
  BY OrderedQuiet DEF Base
<1> QED BY <1>2, <1>3, <1>4, <1>6, <1>7 DEF Base

LEMMA BaseStep ==
  ASSUME NEW l \in Seq(Event), NEW x \in Event, NEW r, r = l \o <<x>>,
         NEW t \in 1..Len(Limits), NEW a \in Nat, NEW c \in Nat, Base(l, t, a, c),
         x.type = "step/started", x.turn = t,
         \A m \in 1..Len(l) : l[m].type = "assistant/message" /\ l[m].turn = t =>
           Complete(l, m, Len(l) + 1)
  PROVE  Base(r, t, a, c)
<1> DEFINE e == <<x>>
<1>1. e \in Seq(Event) /\ \A i \in 1..Len(e) : e[i] = x
  OBVIOUS
<1>2. \A i \in 1..Len(e) : e[i].type = "step/started" /\ e[i].turn = t
  BY <1>1
<1>3. Ordered(r)
  BY OrderedStep DEF Base
<1>4. r = l \o e
  OBVIOUS
<1> HIDE DEF e
<1>5. t \in Nat /\ \A m \in 1..Len(r) : r[m].turn <= t
  <2>1. t \in Nat /\ \A i \in 1..Len(e) : e[i].turn <= t
    BY <1>2, BoundsTyped
  <2> QED BY <1>1, <1>4, <2>1, TurnsBounded DEF Base
<1>6. ASSUME NEW u
      PROVE  /\ OfTurn(r, "model/attempt-started", u) = OfTurn(l, "model/attempt-started", u)
             /\ OfTurn(r, "tool/call-started", u) = OfTurn(l, "tool/call-started", u)
             /\ \A s : OfStep(r, "tool/call-started", u, s) = OfStep(l, "tool/call-started", u, s)
  <2>1. NoneOf(e, "model/attempt-started", u)
    BY <1>2 DEF NoneOf
  <2>2. NoneOf(e, "tool/call-started", u)
    BY <1>2 DEF NoneOf
  <2> QED BY <1>1, <1>4, <2>1, <2>2, CountQuiet, SMTT(20)
<1>7. Limited(r, t)
  BY <1>6 DEF Base, Limited
<1> QED BY <1>3, <1>5, <1>6, <1>7 DEF Base

\* The next Turn starts its counts at zero, and a Turn may count more than it did.
LEMMA BaseNext ==
  ASSUME NEW l \in Seq(Event), NEW t \in Nat, t + 1 \in 1..Len(Limits), NEW a, NEW c,
         Base(l, t, a, c)
  PROVE  Base(l, t + 1, 0, 0)
<1>1. \A m \in 1..Len(l) : l[m].turn <= t /\ l[m].turn \in Nat
  BY RecordTyped DEF Base
<1>2. \A m \in 1..Len(l) : l[m].turn <= t + 1 /\ l[m].turn # t + 1
  BY <1>1
<1>3. \A type : OfTurn(l, type, t + 1) = {}
  BY <1>2 DEF OfTurn
<1>4. \A type, s : OfStep(l, type, t + 1, s) = {}
  BY <1>3 DEF OfStep
<1>5. /\ Limits[t + 1].attempts \in Nat /\ Limits[t + 1].tools \in Nat
      /\ Limits[t + 1].toolsPerStep \in Nat /\ Cardinality({}) = 0
  BY LimitsTyped, FS_EmptySet
<1>9. \A type : /\ Cardinality(OfTurn(l, type, t + 1)) = 0
                /\ \A s : Cardinality(OfStep(l, type, t + 1, s)) = 0
  BY <1>3, <1>4, <1>5
<1>6. Limited(l, t + 1)
  <2>1. ASSUME NEW u \in 1..(t + 1), u \notin 1..t PROVE u = t + 1
    BY <2>1
  <2>3. /\ 0 <= Limits[t + 1].attempts /\ 0 <= Limits[t + 1].tools
        /\ 0 <= Limits[t + 1].toolsPerStep
    BY <1>5
  <2>4. Limited(l, t)
    BY DEF Base
  <2> QED BY <1>9, <2>1, <2>3, <2>4 DEF Limited
<1>7. /\ Cardinality(OfTurn(l, "model/attempt-started", t + 1)) <= 0
      /\ Cardinality(OfTurn(l, "tool/call-started", t + 1)) <= 0
  BY <1>9
<1>8. Ordered(l)
  BY DEF Base
<1> QED BY <1>2, <1>6, <1>7, <1>8 DEF Base

LEMMA BaseMore ==
  ASSUME NEW l \in Seq(Event), NEW t, NEW a \in Nat, NEW c \in Nat, NEW b \in Nat, NEW d \in Nat,
         Base(l, t, a, c), a <= b, c <= d
  PROVE  Base(l, t, b, d)
<1>1. /\ Cardinality(OfTurn(l, "model/attempt-started", t)) \in Nat
      /\ Cardinality(OfTurn(l, "tool/call-started", t)) \in Nat
  BY CountTyped
<1> QED BY <1>1 DEF Base

-----------------------------------------------------------------------------
(* The messages and ToolCalls of the current Turn.                         *)

ToolEvents == {"tool/call-started", "tool/call-completed", "assistant/message"}

\* A batch without results of an earlier Step keeps the messages complete.
LEMMA CleanKept ==
  ASSUME NEW l \in Seq(Event), NEW e \in Seq(Event),
         NEW t, NEW s, NEW k \in 0..Len(l), CleanTo(l, k, t, s),
         \A i \in 1..Len(e) : e[i].type = "tool/call-completed" /\ e[i].turn = t => ~(e[i].step < s)
  PROVE  CleanTo(l \o e, k, t, s)
<1>0. PICK r : r = l \o e
  OBVIOUS
<1>1. /\ Len(l) \in Nat /\ \A m \in 1..Len(l) : r[m] = l[m]
  BY <1>0, Joined
<1> SUFFICES ASSUME NEW m \in 1..k, r[m].turn = t
             PROVE  /\ r[m].type \in {"tool/call-started", "tool/call-completed", "assistant/message"}
                         => r[m].step < s
                    /\ r[m].type = "assistant/message" => Complete(r, m, Len(r) + 1)
  BY <1>0 DEF CleanTo
<1>2. m \in 1..Len(l) /\ r[m] = l[m]
  BY <1>1
<1>3. /\ r[m].type \in {"tool/call-started", "tool/call-completed", "assistant/message"}
           => r[m].step < s
      /\ r[m].type = "assistant/message" => Complete(l, m, Len(l) + 1)
  BY <1>2 DEF CleanTo
<1>4. ASSUME r[m].type = "assistant/message" PROVE Complete(r, m, Len(r) + 1)
  <2>1. l[m].step < s /\ l[m].turn = t
    BY <1>2, <1>3, <1>4
  <2>2. \A i \in 1..Len(e) : e[i].type = "tool/call-completed" =>
          ~(e[i].turn = l[m].turn /\ e[i].step = l[m].step)
    BY <2>1
  <2> QED BY <1>0, <1>2, <1>3, <1>4, <2>2, CompleteQuiet
<1> QED BY <1>3, <1>4

LEMMA CleanGrows ==
  ASSUME NEW r, NEW t, NEW s, NEW k \in Nat, NEW j \in Nat, CleanTo(r, k, t, s),
         \A m \in 1..j : m <= k \/ (r[m].turn = t => r[m].type \notin ToolEvents)
  PROVE  CleanTo(r, j, t, s)
<1>1. \A m \in 1..j : m <= k => m \in 1..k
  OBVIOUS
<1> QED BY <1>1 DEF CleanTo, ToolEvents

LEMMA CleanQuiet ==
  ASSUME NEW l \in Seq(Event), NEW e \in Seq(Event), NEW r, r = l \o e,
         NEW t, NEW s, CleanTo(l, Len(l), t, s),
         \A i \in 1..Len(e) : e[i].turn = t => e[i].type \notin ToolEvents
  PROVE  CleanTo(r, Len(r), t, s)
<1>1. /\ Len(l) \in Nat /\ Len(r) \in Nat /\ Len(l) \in 0..Len(l)
      /\ \A m \in 1..Len(r) : m \in 1..Len(l)
                              \/ (m - Len(l) \in 1..Len(e) /\ r[m] = e[m - Len(l)])
  BY Joined
<1>2. CleanTo(r, Len(l), t, s)
  BY <1>1, CleanKept DEF ToolEvents
<1>3. \A m \in 1..Len(r) : m <= Len(l) \/ (r[m].turn = t => r[m].type \notin ToolEvents)
  BY <1>1
<1> QED BY <1>1, <1>2, <1>3, CleanGrows

LEMMA CleanMore ==
  ASSUME NEW l \in Seq(Event), NEW k \in 0..Len(l), NEW t, NEW s \in Nat, CleanTo(l, k, t, s)
  PROVE  CleanTo(l, k, t, s + 1)
<1>1. \A m \in 1..k : m \in 1..Len(l)
  BY LenProperties
<1>2. \A m \in 1..k : l[m].step \in Nat
  BY <1>1, RecordTyped
<1>3. \A m \in 1..k : l[m].step < s => l[m].step < s + 1
  BY <1>2
<1> QED BY <1>3 DEF CleanTo

\* Without an event of the Turn.
LEMMA CleanNone ==
  ASSUME NEW l, NEW k, NEW t, NEW s, \A m \in 1..k : l[m].turn # t
  PROVE  CleanTo(l, k, t, s)
BY DEF CleanTo

LEMMA ProposedNext ==
  ASSUME NEW l \in Seq(Event), NEW t, NEW s, NEW n, NEW x, NEW r, CleanTo(l, Len(l), t, s),
         x.type \notin ToolEvents, <<x, EvOf(t, s, "assistant/message", n)>> \in Seq(Event),
         r = l \o <<x, EvOf(t, s, "assistant/message", n)>>
  PROVE  Proposed(r, t, s, n)
<1> DEFINE e == <<x, EvOf(t, s, "assistant/message", n)>>
<1>1. /\ e \in Seq(Event) /\ r = l \o e /\ Len(e) = 2 /\ e[1] = x
      /\ e[2] = EvOf(t, s, "assistant/message", n)
  OBVIOUS
<1> HIDE DEF e
<1>2. /\ Len(l) \in Nat /\ Len(r) = Len(l) + 2 /\ Len(l) \in 0..Len(l)
      /\ r[Len(l) + 1] = x /\ r[Len(l) + 2] = EvOf(t, s, "assistant/message", n)
  BY <1>1, Joined
<1>3. CleanTo(r, Len(l), t, s)
  <2>1. \A i \in 1..Len(e) : e[i].type # "tool/call-completed"
    BY <1>1, Fields DEF ToolEvents
  <2> QED BY <1>1, <1>2, <2>1, CleanKept
<1>4. CleanTo(r, Len(r) - 1, t, s)
  <2>1. Len(r) - 1 \in Nat /\ Len(r) - 1 = Len(l) + 1
    BY <1>2
  <2>2. \A m \in 1..(Len(r) - 1) : m <= Len(l) \/ m = Len(l) + 1
    BY <1>2
  <2> QED BY <1>2, <1>3, <2>1, <2>2, CleanGrows
<1> QED BY <1>2, <1>4 DEF Proposed

LEMMA NoneStarted ==
  ASSUME NEW l \in Seq(Event), NEW t, NEW s \in Nat, NEW n, Proposed(l, t, s, n)
  PROVE  OfStep(l, "tool/call-started", t, s) = {}
<1>1. Len(l) \in Nat /\ l[Len(l)].type = "assistant/message" /\ CleanTo(l, Len(l) - 1, t, s)
  BY LenProperties, Fields DEF Proposed
<1>2. ASSUME NEW m \in 1..Len(l), l[m].type = "tool/call-started", l[m].turn = t, l[m].step = s
      PROVE  FALSE
  <2>1. m # Len(l)
    BY <1>1, <1>2
  <2>2. m \in 1..(Len(l) - 1)
    BY <1>1, <2>1
  <2>3. l[m].step < s
    BY <1>1, <1>2, <2>2 DEF CleanTo
  <2> QED BY <1>2, <2>3
<1> QED BY <1>2 DEF OfStep, OfTurn

LEMMA DispatchedNext ==
  ASSUME NEW l \in Seq(Event), NEW t, NEW s, NEW n \in Nat, Proposed(l, t, s, n),
         NEW e \in Seq(Event), Len(e) = n,
         \A i \in 1..n : e[i] = EvOf(t, s, "tool/call-started", i),
         NEW r, r = l \o e
  PROVE  Dispatched(r, t, s, n)
<1>1. /\ Len(l) \in Nat /\ Len(l) > 0 /\ Len(r) = Len(l) + n
      /\ \A m \in 1..Len(l) : r[m] = l[m]
      /\ \A i \in 1..n : r[Len(l) + i] = e[i]
  <2>1. /\ Len(l) \in Nat /\ Len(r) = Len(l) + Len(e)
        /\ \A m \in 1..Len(l) : r[m] = l[m]
        /\ \A i \in 1..Len(e) : r[Len(l) + i] = e[i]
    BY Joined
  <2>2. Len(l) > 0
    BY DEF Proposed
  <2> QED BY <2>1, <2>2
<1>2. /\ Len(r) > n /\ Len(r) - n = Len(l) /\ Len(l) \in 1..Len(l)
      /\ Len(l) - 1 \in 0..Len(l) /\ (Len(r) - n) - 1 = Len(l) - 1
  BY <1>1
<1>3. r[Len(r) - n] = EvOf(t, s, "assistant/message", n)
  BY <1>1, <1>2 DEF Proposed
<1>4. \A i \in 1..n : r[(Len(r) - n) + i] = EvOf(t, s, "tool/call-started", i)
  BY <1>1, <1>2
<1>5. CleanTo(r, Len(l) - 1, t, s)
  <2>1. \A i \in 1..Len(e) : e[i].type # "tool/call-completed"
    BY Fields
  <2>2. CleanTo(l, Len(l) - 1, t, s)
    BY DEF Proposed
  <2>3. \A i \in 1..Len(e) : e[i].type = "tool/call-completed" /\ e[i].turn = t => ~(e[i].step < s)
    BY <2>1
  <2> QED BY <1>2, <2>2, <2>3, CleanKept
<1> QED BY <1>2, <1>3, <1>4, <1>5 DEF Dispatched

\* The results of the last message complete it.
LEMMA SettledNext ==
  ASSUME NEW l \in Seq(Event), NEW t, NEW s \in Nat, NEW n \in Nat, Dispatched(l, t, s, n),
         NEW e \in Seq(Event), Len(e) = n + 1, e[n + 1].type \notin ToolEvents,
         \A i \in 1..n : e[i] = EvOf(t, s, "tool/call-completed", i)
  PROVE  CleanTo(l \o e, Len(l \o e), t, s + 1)
<1>1. PICK r : r = l \o e
  OBVIOUS
<1>2. PICK x : x = e[n + 1]
  OBVIOUS
<1> DEFINE p == Len(l) - n
<1>3. /\ Len(l) \in Nat /\ p \in 1..Len(l) /\ p - 1 \in 0..Len(l)
      /\ Len(r) = Len(l) + (n + 1)
      /\ \A m \in 1..Len(l) : r[m] = l[m]
      /\ \A i \in 1..(n + 1) : r[Len(l) + i] = e[i]
  <2>1. Len(l) \in Nat /\ Len(l) > n
    BY LenProperties DEF Dispatched
  <2>2. p \in 1..Len(l) /\ p - 1 \in 0..Len(l)
    BY <2>1
  <2>3. /\ Len(r) = Len(l) + Len(e)
        /\ \A m \in 1..Len(l) : r[m] = l[m]
        /\ \A i \in 1..Len(e) : r[Len(l) + i] = e[i]
    BY <1>1, Joined, ZenonT(30)
  <2> QED BY <2>1, <2>2, <2>3
<1>4. /\ l[p] = EvOf(t, s, "assistant/message", n)
      /\ \A i \in 1..n : l[p + i] = EvOf(t, s, "tool/call-started", i)
      /\ CleanTo(l, p - 1, t, s)
  BY DEF Dispatched
<1>5. CleanTo(r, p - 1, t, s + 1)
  <2>1. \A i \in 1..Len(e) : e[i].type = "tool/call-completed" => e[i].step = s
    <3>1. \A i \in 1..Len(e) : i \in 1..n \/ i = n + 1
      BY <1>1
    <3> QED BY <1>2, <3>1, Fields DEF ToolEvents
  <2>2. \A i \in 1..Len(e) : e[i].type = "tool/call-completed" /\ e[i].turn = t => ~(e[i].step < s)
    BY <2>1
  <2>3. CleanTo(r, p - 1, t, s)
    <3>1. PICK k \in 0..Len(l) : k = p - 1
      BY <1>3
    <3>2. CleanTo(l, k, t, s)
      BY <1>4, <3>1
    <3>3. CleanTo(r, k, t, s)
      BY <1>1, <2>2, <3>2, CleanKept
    <3> QED BY <3>1, <3>3
  <2>4. r \in Seq(Event) /\ p - 1 \in 0..Len(r)
    BY <1>1, <1>3, Joined
  <2> QED BY <2>3, <2>4, CleanMore
<1> HIDE DEF p
<1>6. Len(l) = p + n
  BY <1>3 DEF p
<1>7. ASSUME NEW q \in p..(Len(r) + 1 - 1)
      PROVE  \/ q = p
             \/ \E i \in 1..n : q = p + i
             \/ \E i \in 1..n : q = Len(l) + i
             \/ q = Len(l) + (n + 1)
  <2>1. p \in Nat /\ Len(r) = (p + n) + (n + 1) /\ q \in Nat /\ p <= q /\ q <= Len(r)
    BY <1>3, <1>6, SMTT(20)
  <2>2. CASE q > p /\ q <= p + n
    <3>1. q - p \in 1..n /\ q = p + (q - p)
      BY <2>1, <2>2
    <3> QED BY <3>1
  <2>3. CASE q > p + n /\ q <= (p + n) + n
    <3>1. q - (p + n) \in 1..n /\ q = (p + n) + (q - (p + n))
      BY <2>1, <2>3
    <3> QED BY <1>6, <3>1
  <2> QED BY <1>6, <2>1, <2>2, <2>3
<1>8. /\ \A i \in 1..n : p + i \in 1..Len(l) /\ r[p + i] = EvOf(t, s, "tool/call-started", i)
      /\ r[p] = EvOf(t, s, "assistant/message", n)
      /\ \A i \in 1..n : r[Len(l) + i] = EvOf(t, s, "tool/call-completed", i)
      /\ r[Len(l) + (n + 1)] = x /\ x.type \notin ToolEvents
  <2>1. \A i \in 1..n : p + i \in 1..Len(l) /\ i \in 1..(n + 1)
    BY <1>3, <1>6
  <2>2. n + 1 \in 1..(n + 1)
    OBVIOUS
  <2> QED BY <1>2, <1>3, <1>4, <2>1, <2>2
<1>9. ResultsIn(r, p, Len(r) + 1) = {Len(l) + i : i \in 1..n}
  <2>1. ASSUME NEW q \in ResultsIn(r, p, Len(r) + 1) PROVE \E i \in 1..n : q = Len(l) + i
    <3>1. q \in p..(Len(r) + 1 - 1) /\ r[q].type = "tool/call-completed"
      BY <2>1 DEF ResultsIn
    <3>2. r[p].type # "tool/call-completed"
      BY <1>8, Fields
    <3>3. \A i \in 1..n : r[p + i].type # "tool/call-completed"
      BY <1>8, Fields
    <3>4. r[Len(l) + (n + 1)].type # "tool/call-completed"
      BY <1>8 DEF ToolEvents
    <3> QED BY <1>7, <3>1, <3>2, <3>3, <3>4
  <2>2. ASSUME NEW i \in 1..n PROVE Len(l) + i \in ResultsIn(r, p, Len(r) + 1)
    <3>1. Len(l) + i \in p..(Len(r) + 1 - 1)
      BY <1>3, <1>6
    <3>2. r[Len(l) + i] = EvOf(t, s, "tool/call-completed", i)
      BY <1>8
    <3>3. r[p].turn = t /\ r[p].step = s
      BY <1>8, Fields
    <3>4. /\ r[Len(l) + i].type = "tool/call-completed"
          /\ r[Len(l) + i].turn = t /\ r[Len(l) + i].step = s
      BY <3>2, Fields
    <3> QED BY <3>1, <3>3, <3>4 DEF ResultsIn
  <2> QED BY <2>1, <2>2
<1>10. Complete(r, p, Len(r) + 1)
  <2> DEFINE R == ResultsIn(r, p, Len(r) + 1)
  <2>1. \A i \in 1..n : r[Len(l) + i].n = i
    BY <1>8, Fields
  <2>2. \A q \in R : \E i \in 1..n : q = Len(l) + i
    BY <1>9
  <2>6. \A i \in 1..n : Len(l) + i \in R
    BY <1>9
  <2> HIDE DEF R
  <2>3. {r[q].n : q \in R} = 1..n
    <3>1. \A q \in R : r[q].n \in 1..n
      BY <2>1, <2>2
    <3>2. \A i \in 1..n : \E q \in R : r[q].n = i
      BY <2>1, <2>6
    <3> QED BY <3>1, <3>2
  <2>4. ASSUME NEW a \in R, NEW b \in R, a < b
        PROVE  r[a].n < r[b].n
    <3>1. PICK i \in 1..n : a = Len(l) + i /\ r[a].n = i
      BY <2>1, <2>2
    <3>2. PICK j \in 1..n : b = Len(l) + j /\ r[b].n = j
      BY <2>1, <2>2, ZenonT(30)
    <3> QED BY <1>3, <2>4, <3>1, <3>2
  <2>5. r[p].n = n
    BY <1>8, Fields
  <2> QED BY <2>3, <2>4, <2>5 DEF Complete, R
<1> SUFFICES ASSUME NEW m \in 1..Len(r), r[m].turn = t
             PROVE  /\ r[m].type \in {"tool/call-started", "tool/call-completed", "assistant/message"}
                         => r[m].step < s + 1
                    /\ r[m].type = "assistant/message" => Complete(r, m, Len(r) + 1)
  BY <1>1 DEF CleanTo
<1>11. CASE m \in 1..(p - 1)
  BY <1>5, <1>11 DEF CleanTo
<1>12. CASE m \in p..(Len(r) + 1 - 1)
  <2>1. CASE m = p
    <3>1. r[m].step = s
      BY <1>8, <2>1, Fields
    <3> QED BY <1>10, <2>1, <3>1
  <2>2. CASE r[m].type # "assistant/message" /\ r[m].step = s
    BY <2>2
  <2>3. CASE r[m] = x
    BY <1>8, <2>3 DEF ToolEvents
  <2>4. \/ m = p \/ r[m] = x
        \/ \E i \in 1..n : r[m] = EvOf(t, s, "tool/call-started", i)
        \/ \E i \in 1..n : r[m] = EvOf(t, s, "tool/call-completed", i)
    BY <1>7, <1>8, <1>12
  <2>5. m = p \/ r[m] = x \/ (r[m].type # "assistant/message" /\ r[m].step = s)
    BY <2>4, Fields
  <2> QED BY <2>1, <2>2, <2>3, <2>5
<1>13. m \in 1..(p - 1) \/ m \in p..(Len(r) + 1 - 1)
  BY <1>3 DEF p
<1> QED BY <1>11, <1>12, <1>13

-----------------------------------------------------------------------------
(* RecordInv is inductive.                                                 *)

LEMMA OneOf ==
  ASSUME NEW x
  PROVE  Len(<<x>>) = 1 /\ <<x>>[1] = x /\ \A i \in 1..Len(<<x>>) : <<x>>[i] = x
OBVIOUS

LEMMA TwoOf ==
  ASSUME NEW x, NEW y
  PROVE  /\ Len(<<x, y>>) = 2 /\ <<x, y>>[1] = x /\ <<x, y>>[2] = y
         /\ \A i \in 1..Len(<<x, y>>) : <<x, y>>[i] \in {x, y}
OBVIOUS

\* A record that grows by one event.
LEMMA JoinedOne ==
  ASSUME NEW l \in Seq(Event), NEW x, <<x>> \in Seq(Event)
  PROVE  LET r == l \o <<x>> IN
         /\ r \in Seq(Event) /\ Len(l) \in Nat /\ Len(r) = Len(l) + 1
         /\ Len(r) \in 1..Len(r) /\ r[Len(r)] = x
         /\ \A m \in 1..Len(l) : m \in 1..Len(r) /\ r[m] = l[m]
<1>1. PICK e : e = <<x>>
  OBVIOUS
<1>2. e \in Seq(Event) /\ Len(e) = 1 /\ e[1] = x
  BY <1>1, OneOf
<1>3. PICK r : r = l \o e
  OBVIOUS
<1>4. /\ r \in Seq(Event) /\ Len(l) \in Nat /\ Len(r) = Len(l) + Len(e)
      /\ \A m \in 1..Len(l) : m \in 1..Len(r) /\ r[m] = l[m]
      /\ \A i \in 1..Len(e) : Len(l) + i \in 1..Len(r) /\ r[Len(l) + i] = e[i]
  BY <1>2, <1>3, Joined
<1>5. Len(r) = Len(l) + 1 /\ Len(r) \in 1..Len(r) /\ r[Len(r)] = x
  BY <1>2, <1>4
<1> QED BY <1>1, <1>3, <1>4, <1>5

Counted == {"model/attempt-started", "tool/call-started", "step/started"}

\* A step that appends a batch in which nothing is counted.
LEMMA RecordBatch ==
  ASSUME RecordInv, LoopInv', NEW e, NEW from, NEW to, Batch(e, from, to),
         UNCHANGED <<turn, attempts, toolCount>>,
         \A i \in 1..Len(e) : e[i].turn = turn /\ e[i].type \notin Counted,
         RecordAt(to, log \o e, turn', step', calls', Len(tools'))
  PROVE  RecordInv'
<1>1. /\ log \in Seq(Event) /\ turn \in Nat
      /\ e \in Seq(Event) /\ log' = log /\ Held' = log \o e /\ Where' = to
  BY LoopTyped DEF RecordInv, Batch
<1>2. Base(log, turn, attempts, toolCount)
  BY DEF RecordInv
<1>3. PICK r : r = log \o e
  OBVIOUS
<1>4. \A i \in 1..Len(e) : /\ e[i].turn <= turn
                           /\ e[i].type \notin {"model/attempt-started", "tool/call-started",
                                                "step/started"}
  BY <1>1 DEF Counted
<1>5. Base(r, turn, attempts, toolCount)
  BY <1>1, <1>2, <1>3, <1>4, BaseQuiet
<1>6. /\ Base(log, turn, attempts, toolCount)' /\ Base(Held, turn, attempts, toolCount)'
      /\ RecordAt(Where, Held, turn, step, calls, Len(tools))'
  BY <1>1, <1>2, <1>3, <1>5
<1> QED BY <1>6 DEF RecordInv

\* A step that appends nothing.
LEMMA RecordJump ==
  ASSUME RecordInv, LoopInv', NEW from, NEW to, Jump(from, to),
         UNCHANGED <<turn, attempts, toolCount>>,
         RecordAt(from, log, turn, step, calls, Len(tools)) =>
           RecordAt(to, log, turn', step', calls', Len(tools'))
  PROVE  RecordInv'
<1>1. log' = log /\ Held = log /\ Held' = log /\ Where = from /\ Where' = to
  BY DEF Jump
<1>2. /\ Base(log, turn, attempts, toolCount)
      /\ RecordAt(from, log, turn, step, calls, Len(tools))
  BY <1>1 DEF RecordInv
<1>3. /\ Base(log, turn, attempts, toolCount)' /\ Base(Held, turn, attempts, toolCount)'
      /\ RecordAt(Where, Held, turn, step, calls, Len(tools))'
  BY <1>1, <1>2
<1> QED BY <1>3 DEF RecordInv

LEMMA Elsewhere ==
  ASSUME NEW p \in {"idle", "over", "crashed", "catch", "callFailed"},
         NEW l, NEW t, NEW s, NEW c, NEW n
  PROVE  RecordAt(p, l, t, s, c, n)
BY DEF RecordAt

\* The batch of one event at whose place the Turn's Steps are as before.
LEMMA CleanOne ==
  ASSUME NEW l \in Seq(Event), NEW x, <<x>> \in Seq(Event), NEW t, NEW s,
         CleanTo(l, Len(l), t, s), x.type \notin ToolEvents
  PROVE  LET r == l \o <<x>> IN CleanTo(r, Len(r), t, s)
<1>1. PICK e : e = <<x>>
  OBVIOUS
<1>2. e \in Seq(Event) /\ \A i \in 1..Len(e) : e[i].turn = t => e[i].type \notin ToolEvents
  BY <1>1, OneOf
<1>3. PICK r : r = l \o e
  OBVIOUS
<1>4. CleanTo(r, Len(r), t, s)
  BY <1>2, <1>3, CleanQuiet
<1> QED BY <1>1, <1>3, <1>4

LEMMA RecordStart ==
  ASSUME RecordInv, StartTurn
  PROVE  RecordInv'
<1> DEFINE x == EvOf(turn + 1, 0, "turn/started", 0)
           y == EvOf(turn + 1, 0, "user/message", 0)
<1>1. /\ LoopInv' /\ Batch(<<x, y>>, pc, "acquire")
      /\ turn' = turn + 1 /\ turn + 1 \in 1..Len(Limits) /\ turn \in Nat
      /\ step' = 0 /\ attempts' = 0 /\ toolCount' = 0
  BY StartMoves, LoopTyped DEF RecordInv
<1>2. PICK e : e = <<x, y>>
  OBVIOUS
<1>3. /\ e \in Seq(Event) /\ log \in Seq(Event) /\ log' = log /\ Held' = log \o e
      /\ Where' = "acquire"
  BY <1>1, <1>2, LoopTyped DEF RecordInv, Batch
<1>4. \A i \in 1..Len(e) : /\ e[i].turn <= turn + 1
                           /\ e[i].type \notin {"model/attempt-started", "tool/call-started",
                                                "step/started"}
                           /\ e[i].type \notin ToolEvents
  <2>1. \A i \in 1..Len(e) : e[i] \in {x, y}
    BY <1>2, TwoOf
  <2> QED BY <1>1, <2>1, Fields DEF ToolEvents
<1>5. Base(log, turn + 1, 0, 0) /\ \A m \in 1..Len(log) : log[m].turn # turn + 1
  <2>1. Base(log, turn, attempts, toolCount)
    BY DEF RecordInv
  <2>2. \A m \in 1..Len(log) : log[m].turn <= turn /\ log[m].turn \in Nat
    BY <1>3, <2>1, RecordTyped DEF Base
  <2>3. \A m \in 1..Len(log) : log[m].turn # turn + 1
    BY <1>1, <2>2
  <2> QED BY <1>1, <1>3, <2>1, <2>3, BaseNext
<1>6. PICK r : r = log \o e
  OBVIOUS
<1>7. Base(r, turn + 1, 0, 0)
  BY <1>3, <1>4, <1>5, <1>6, BaseQuiet
<1>8. CleanTo(r, Len(r), turn + 1, 1)
  <2>1. CleanTo(log, Len(log), turn + 1, 1)
    BY <1>5, CleanNone
  <2> QED BY <1>3, <1>4, <1>6, <2>1, CleanQuiet
<1>9. RecordAt("acquire", r, turn + 1, 0, calls', Len(tools'))
  BY <1>8 DEF RecordAt
<1>10. /\ Base(log, turn, attempts, toolCount)' /\ Base(Held, turn, attempts, toolCount)'
       /\ RecordAt(Where, Held, turn, step, calls, Len(tools))'
  BY <1>1, <1>3, <1>5, <1>6, <1>7, <1>9
<1> QED BY <1>1, <1>10 DEF RecordInv

LEMMA RecordAcquire ==
  ASSUME RecordInv, Acquire
  PROVE  RecordInv'
<1>1. LoopInv' /\ UNCHANGED <<turn, step, attempts, toolCount, calls, Len(tools)>>
  BY AcquireMoves DEF RecordInv, counters
<1>2. CASE Jump("acquire", "loop")
  <2>1. RecordAt("acquire", log, turn, step, calls, Len(tools)) =>
          RecordAt("loop", log, turn', step', calls', Len(tools'))
    BY <1>1 DEF RecordAt
  <2> QED BY <1>1, <1>2, <2>1, RecordJump
<1>3. CASE Jump("acquire", "catch")
  BY <1>1, <1>3, Elsewhere, RecordJump
<1> QED BY <1>2, <1>3, AcquireMoves DEF RecordInv

\* A batch of one event in which nothing is counted.
LEMMA RecordOne ==
  ASSUME RecordInv, LoopInv', NEW x, NEW from, NEW to, Batch(<<x>>, from, to),
         UNCHANGED <<turn, attempts, toolCount>>,
         x.turn = turn, x.type \notin Counted,
         RecordAt(to, log \o <<x>>, turn', step', calls', Len(tools'))
  PROVE  RecordInv'
<1>1. \A i \in 1..Len(<<x>>) : <<x>>[i].turn = turn /\ <<x>>[i].type \notin Counted
  BY OneOf
<1> QED BY <1>1, RecordBatch

\* The Turn ends, or the catch block follows.
LEMMA RecordEnds ==
  ASSUME RecordInv, LoopInv', NEW type, type \notin Counted, NEW n, NEW s,
         NEW from, NEW to \in {"over", "catch"},
         Batch(<<EvOf(turn, s, type, n)>>, from, to),
         UNCHANGED <<turn, attempts, toolCount>>
  PROVE  RecordInv'
<1> DEFINE x == EvOf(turn, s, type, n)
<1>1. x.turn = turn /\ x.type \notin Counted /\ Batch(<<x>>, from, to)
  BY Fields
<1> HIDE DEF x
<1>2. RecordAt(to, log \o <<x>>, turn', step', calls', Len(tools'))
  BY Elsewhere
<1> QED BY <1>1, <1>2, RecordOne

LEMMA RecordEnter ==
  ASSUME RecordInv, EnterStep
  PROVE  RecordInv'
<1>1. LoopInv' /\ UNCHANGED <<turn, attempts, toolCount, calls, Len(tools)>>
  BY EnterMoves DEF RecordInv
<1>2. CASE Batch(<<EvOf(turn, step, "turn/exhausted", 0)>>, "loop", "over")
  BY <1>1, <1>2, RecordEnds DEF Counted
<1>3. CASE step' = step + 1 /\ Batch(<<EvOf(turn, step + 1, "step/started", 0)>>, "loop", "assemble")
  <2>1. PICK x : x = EvOf(turn, step + 1, "step/started", 0)
    OBVIOUS
  <2>2. /\ x.turn = turn /\ x.type = "step/started" /\ turn \in 1..Len(Limits)
        /\ step \in Nat /\ attempts \in Nat /\ toolCount \in Nat /\ log \in Seq(Event)
        /\ log' = log /\ Held = log /\ Held' = log \o <<x>> /\ <<x>> \in Seq(Event)
        /\ Where = "loop" /\ Where' = "assemble"
    BY <1>3, <2>1, Fields, TurnTyped, LoopTyped, SMTT(20)
       DEF RecordInv, LoopInv, Counting, Batch, EnterStep
  <2>3. CleanTo(log, Len(log), turn, step + 1) /\ Base(log, turn, attempts, toolCount)
    BY <2>2 DEF RecordInv, RecordAt
  <2>4. PICK r : r = log \o <<x>>
    OBVIOUS
  <2>5. Base(r, turn, attempts, toolCount)
    <3>1. \A m \in 1..Len(log) : log[m].type = "assistant/message" /\ log[m].turn = turn =>
            Complete(log, m, Len(log) + 1)
      BY <2>3 DEF CleanTo
    <3>2. x \in Event
      BY <2>1, <2>2, EventTyped DEF EventType
    <3> QED BY <2>2, <2>3, <2>4, <3>1, <3>2, BaseStep
  <2>6. CleanTo(r, Len(r), turn, step + 1)
    BY <2>2, <2>3, <2>4, CleanOne DEF ToolEvents
  <2>7. RecordAt("assemble", r, turn, step + 1, calls', Len(tools'))
    BY <2>6 DEF RecordAt
  <2>8. /\ Base(log, turn, attempts, toolCount)' /\ Base(Held, turn, attempts, toolCount)'
        /\ RecordAt(Where, Held, turn, step, calls, Len(tools))'
    BY <1>1, <1>3, <2>2, <2>3, <2>4, <2>5, <2>7
  <2> QED BY <1>1, <2>8 DEF RecordInv
<1> QED BY <1>2, <1>3, EnterMoves DEF RecordInv

\* The batch of one event after which #execute goes on in the Step.
LEMMA RecordGoesOn ==
  ASSUME RecordInv, LoopInv', NEW type, type \notin Counted \cup ToolEvents, NEW n,
         NEW from \in {"assemble", "generate", "attempting", "attemptFailed"},
         NEW to \in {"assemble", "generate", "attemptFailed"},
         Batch(<<EvOf(turn, step, type, n)>>, from, to),
         UNCHANGED <<turn, step, attempts, toolCount>>
  PROVE  RecordInv'
<1>1. PICK x : x = EvOf(turn, step, type, n)
  OBVIOUS
<1>2. /\ x.turn = turn /\ x.type \notin Counted /\ x.type \notin ToolEvents
      /\ Batch(<<x>>, from, to) /\ <<x>> \in Seq(Event) /\ log \in Seq(Event)
      /\ Held = log /\ Where = from
  BY <1>1, Fields, LoopTyped DEF Batch, RecordInv
<1>3. CleanTo(log, Len(log), turn, step)
  BY <1>2 DEF RecordInv, RecordAt
<1>4. PICK r : r = log \o <<x>>
  OBVIOUS
<1>5. CleanTo(r, Len(r), turn, step)
  BY <1>2, <1>3, <1>4, CleanOne
<1>6. RecordAt(to, r, turn', step', calls', Len(tools'))
  BY <1>5 DEF RecordAt
<1> QED BY <1>2, <1>4, <1>6, RecordOne

LEMMA RecordAssemble ==
  ASSUME RecordInv, Assemble
  PROVE  RecordInv'
<1>1. LoopInv' /\ UNCHANGED <<turn, step, attempts, toolCount>>
  BY AssembleMoves DEF RecordInv
<1>2. CASE Jump("assemble", "catch")
  BY <1>1, <1>2, Elsewhere, RecordJump
<1>3. CASE Batch(<<EvOf(turn, step, "turn/exhausted", 0)>>, "assemble", "over")
  BY <1>1, <1>3, RecordEnds DEF Counted
<1>4. CASE Batch(<<EvOf(turn, step, "model/call-started", calls + 1)>>, "assemble", "generate")
  BY <1>1, <1>4, RecordGoesOn DEF Counted, ToolEvents
<1> QED BY <1>2, <1>3, <1>4, AssembleMoves DEF RecordInv

LEMMA RecordAttempt ==
  ASSUME RecordInv, StartAttempt
  PROVE  RecordInv'
<1>1. PICK x : x = EvOf(turn, step, "model/attempt-started", calls)
  OBVIOUS
<1>2. /\ LoopInv' /\ UNCHANGED <<turn, step, toolCount, calls, Len(tools)>>
      /\ attempts' = attempts + 1 /\ attempts' <= Limits[turn].attempts
      /\ Batch(<<x>>, "generate", "attempting")
  BY <1>1, AttemptMoves DEF RecordInv
<1>3. /\ x.turn = turn /\ x.type = "model/attempt-started" /\ turn \in 1..Len(Limits)
      /\ attempts \in Nat /\ toolCount \in Nat /\ log \in Seq(Event)
      /\ log' = log /\ Held = log /\ Held' = log \o <<x>> /\ <<x>> \in Seq(Event)
      /\ Where = "generate" /\ Where' = "attempting"
  <2>1. turn \in 1..Len(Limits) /\ attempts \in Nat /\ toolCount \in Nat /\ log \in Seq(Event)
    BY TurnTyped, LoopTyped DEF RecordInv, LoopInv, Counting, StartAttempt
  <2>2. x.turn = turn /\ x.type = "model/attempt-started"
    BY <1>1, Fields
  <2> QED BY <1>2, <2>1, <2>2 DEF Batch
<1>4. CleanTo(log, Len(log), turn, step) /\ Base(log, turn, attempts, toolCount)
  BY <1>3 DEF RecordInv, RecordAt
<1>5. PICK r : r = log \o <<x>>
  OBVIOUS
<1>6. Base(r, turn, attempts + 1, toolCount)
  <2>1. PICK e : e = <<x>>
    OBVIOUS
  <2>2. e \in Seq(Event) /\ Len(e) = 1 /\ e[1] = x /\ r = log \o e
    BY <1>3, <1>5, <2>1, OneOf
  <2> QED BY <1>2, <1>3, <1>4, <2>2, BaseAttempt
<1>7. Base(log, turn, attempts + 1, toolCount)
  BY <1>3, <1>4, BaseMore
<1>8. CleanTo(r, Len(r), turn, step)
  BY <1>3, <1>4, <1>5, CleanOne DEF ToolEvents
<1>9. Len(r) > 0 /\ r[Len(r)] = x
  BY <1>3, <1>5, JoinedOne
<1>10. RecordAt("attempting", r, turn, step, calls, Len(tools'))
  BY <1>1, <1>8, <1>9 DEF RecordAt
<1>11. /\ Base(log, turn, attempts, toolCount)' /\ Base(Held, turn, attempts, toolCount)'
       /\ RecordAt(Where, Held, turn, step, calls, Len(tools))'
  BY <1>2, <1>3, <1>5, <1>6, <1>7, <1>10
<1> QED BY <1>2, <1>11 DEF RecordInv

LEMMA RecordAttemptFails ==
  ASSUME RecordInv, AttemptFails
  PROVE  RecordInv'
<1>1. LoopInv' /\ UNCHANGED <<turn, step, attempts, toolCount>>
  BY AttemptFailsMoves DEF RecordInv, counters
<1>2. Batch(<<EvOf(turn, step, "model/attempt-failed", calls)>>, "attempting", "attemptFailed")
  BY AttemptFailsMoves DEF RecordInv
<1> QED BY <1>1, <1>2, RecordGoesOn DEF Counted, ToolEvents

LEMMA RecordRetry ==
  ASSUME RecordInv, Retry
  PROVE  RecordInv'
<1>1. LoopInv' /\ UNCHANGED <<turn, step, attempts, toolCount, calls, Len(tools)>>
  BY RetryMoves DEF RecordInv, counters
<1>2. CASE Jump("attemptFailed", "generate")
  <2>1. RecordAt("attemptFailed", log, turn, step, calls, Len(tools)) =>
          RecordAt("generate", log, turn', step', calls', Len(tools'))
    BY <1>1 DEF RecordAt
  <2> QED BY <1>1, <1>2, <2>1, RecordJump
<1>3. CASE Jump("attemptFailed", "callFailed")
  BY <1>1, <1>3, Elsewhere, RecordJump
<1> QED BY <1>2, <1>3, RetryMoves DEF RecordInv

LEMMA RecordCallFails ==
  ASSUME RecordInv, CallFails
  PROVE  RecordInv'
<1>1. LoopInv' /\ UNCHANGED <<turn, attempts, toolCount>>
  BY CallFailsMoves DEF RecordInv, counters
<1>2. Batch(<<EvOf(turn, step, "model/call-failed", calls)>>, "callFailed", "catch")
  BY CallFailsMoves DEF RecordInv
<1> QED BY <1>1, <1>2, RecordEnds DEF Counted

LEMMA RecordCatch ==
  ASSUME RecordInv, Catch
  PROVE  RecordInv'
<1>1. LoopInv' /\ UNCHANGED <<turn, attempts, toolCount>>
  BY CatchMoves DEF RecordInv, counters
<1>2. PICK type \in {"turn/cancelled", "turn/failed"} :
        Batch(<<EvOf(turn, step, type, 0)>>, "catch", "over")
  BY CatchMoves DEF RecordInv
<1> QED BY <1>1, <1>2, RecordEnds DEF Counted

LEMMA RecordCompaction ==
  ASSUME RecordInv, CompactionAnswered
  PROVE  RecordInv'
<1>1. LoopInv' /\ UNCHANGED <<turn, step, attempts, toolCount, calls, Len(tools)>>
  BY CompactionMoves DEF RecordInv, counters
<1>2. CASE Jump("attempting", "callFailed")
  BY <1>1, <1>2, Elsewhere, RecordJump
<1>3. CASE Batch(<<EvOf(turn, step, "model/call-completed", calls),
                   EvOf(turn, step, "history/compacted", calls)>>, "attempting", "assemble")
  <2>1. PICK e : e = <<EvOf(turn, step, "model/call-completed", calls),
                       EvOf(turn, step, "history/compacted", calls)>>
    OBVIOUS
  <2>2. Batch(e, "attempting", "assemble")
    BY <1>3, <2>1
  <2>3. \A i \in 1..Len(e) : e[i].turn = turn /\ e[i].type \notin Counted /\ e[i].type \notin ToolEvents
    <3>1. \A i \in 1..Len(e) : e[i] \in {EvOf(turn, step, "model/call-completed", calls),
                                         EvOf(turn, step, "history/compacted", calls)}
      BY <2>1, TwoOf
    <3> QED BY <3>1, Fields DEF Counted, ToolEvents
  <2>4. /\ e \in Seq(Event) /\ log \in Seq(Event) /\ CleanTo(log, Len(log), turn, step)
    BY <2>2, LoopTyped DEF Batch, RecordInv, RecordAt
  <2>5. PICK r : r = log \o e
    OBVIOUS
  <2>6. CleanTo(r, Len(r), turn, step)
    BY <2>3, <2>4, <2>5, CleanQuiet
  <2>7. RecordAt("assemble", r, turn', step', calls', Len(tools'))
    BY <1>1, <2>6 DEF RecordAt
  <2> QED BY <1>1, <2>2, <2>3, <2>5, <2>7, RecordBatch
<1> QED BY <1>2, <1>3, CompactionMoves DEF RecordInv

LEMMA RecordAnswered ==
  ASSUME RecordInv, Answered
  PROVE  RecordInv'
<1>1. LoopInv' /\ UNCHANGED <<turn, step, attempts, toolCount, calls>>
  BY AnsweredMoves DEF RecordInv
<1>2. PICK x : x = EvOf(turn, step, "model/call-completed", calls)
  OBVIOUS
<1>3. PICK n : n = Len(tools')
  OBVIOUS
<1>4. PICK e : e = <<x, EvOf(turn, step, "assistant/message", n)>>
  OBVIOUS
<1>5. Batch(e, "attempting", "answered")
  BY <1>2, <1>3, <1>4, AnsweredMoves DEF RecordInv
<1>6. \A i \in 1..Len(e) : e[i].turn = turn /\ e[i].type \notin Counted
  <2>1. \A i \in 1..Len(e) : e[i] \in {x, EvOf(turn, step, "assistant/message", n)}
    BY <1>4, TwoOf
  <2> QED BY <1>2, <2>1, Fields DEF Counted
<1>7. /\ e \in Seq(Event) /\ log \in Seq(Event) /\ CleanTo(log, Len(log), turn, step)
  BY <1>5, LoopTyped DEF Batch, RecordInv, RecordAt
<1>8. PICK r : r = log \o e
  OBVIOUS
<1>9. Proposed(r, turn, step, n)
  <2>1. x.type \notin ToolEvents
    BY <1>2, Fields DEF ToolEvents
  <2> QED BY <1>4, <1>7, <1>8, <2>1, ProposedNext
<1>10. RecordAt("answered", r, turn', step', calls', Len(tools'))
  BY <1>1, <1>3, <1>9 DEF RecordAt
<1> QED BY <1>1, <1>5, <1>6, <1>8, <1>10, RecordBatch

LEMMA RecordDispatch ==
  ASSUME RecordInv, Dispatch
  PROVE  RecordInv'
<1> DEFINE n == Len(tools)
<1>1. /\ LoopInv' /\ UNCHANGED <<turn, step, attempts, calls, Len(tools)>>
      /\ toolCount' = toolCount + n
  BY DispatchMoves DEF RecordInv
<1>2. /\ turn \in 1..Len(Limits) /\ turn \in Nat /\ step \in Nat /\ attempts \in Nat
      /\ toolCount \in Nat /\ n \in Nat /\ log \in Seq(Event) /\ pc = "answered"
  BY TurnTyped, LoopTyped DEF RecordInv, LoopInv, Counting, Dispatch
<1>3. Base(log, turn, attempts, toolCount) /\ Proposed(log, turn, step, n)
  BY <1>2 DEF RecordInv, RecordAt, Held, Where
<1>4. Base(log, turn, attempts, toolCount + n)
  BY <1>2, <1>3, BaseMore
<1>5. ASSUME NEW e, Batch(e, "answered", "over"),
             \A i \in 1..Len(e) : e[i].turn = turn /\ e[i].type \notin Counted
      PROVE  RecordInv'
  <2>1. PICK r : r = log \o e
    OBVIOUS
  <2>2. /\ e \in Seq(Event) /\ log' = log /\ Held' = r /\ Where' = "over"
    BY <1>5, <2>1 DEF Batch
  <2>3. \A i \in 1..Len(e) : /\ e[i].turn <= turn
                             /\ e[i].type \notin {"model/attempt-started", "tool/call-started",
                                                  "step/started"}
    BY <1>2, <1>5 DEF Counted
  <2>4. Base(r, turn, attempts, toolCount + n)
    BY <1>2, <1>4, <2>1, <2>2, <2>3, BaseQuiet
  <2>5. /\ Base(log, turn, attempts, toolCount)' /\ Base(Held, turn, attempts, toolCount)'
        /\ RecordAt(Where, Held, turn, step, calls, Len(tools))'
    BY <1>1, <1>4, <2>2, <2>4, Elsewhere
  <2> QED BY <1>1, <2>5 DEF RecordInv
<1>6. CASE Batch(<<EvOf(turn, step, "step/completed", 0), EvOf(turn, step, "turn/completed", 0)>>,
                 "answered", "over")
  <2>1. PICK e : e = <<EvOf(turn, step, "step/completed", 0), EvOf(turn, step, "turn/completed", 0)>>
    OBVIOUS
  <2>2. \A i \in 1..Len(e) : e[i] \in {EvOf(turn, step, "step/completed", 0),
                                       EvOf(turn, step, "turn/completed", 0)}
    BY <2>1, TwoOf
  <2>3. \A i \in 1..Len(e) : e[i].turn = turn /\ e[i].type \notin Counted
    BY <2>2, Fields DEF Counted
  <2> QED BY <1>5, <1>6, <2>1, <2>3
<1>7. CASE Batch(<<EvOf(turn, step, "turn/exhausted", 0)>>, "answered", "over")
  <2>1. PICK e : e = <<EvOf(turn, step, "turn/exhausted", 0)>>
    OBVIOUS
  <2>2. \A i \in 1..Len(e) : e[i] = EvOf(turn, step, "turn/exhausted", 0)
    BY <2>1, OneOf
  <2>3. \A i \in 1..Len(e) : e[i].turn = turn /\ e[i].type \notin Counted
    BY <2>2, Fields DEF Counted
  <2> QED BY <1>5, <1>7, <2>1, <2>3
<1>8. CASE /\ n <= Limits[turn].toolsPerStep /\ toolCount' <= Limits[turn].tools
           /\ Batch([i \in 1..n |-> EvOf(turn, step, "tool/call-started", i)], "answered", "tools")
  <2>1. PICK e : e = [i \in 1..n |-> EvOf(turn, step, "tool/call-started", i)]
    OBVIOUS
  <2>2. /\ e \in Seq(Event) /\ log' = log /\ Held' = log \o e /\ Where' = "tools"
    BY <1>8, <2>1 DEF Batch
  <2>3. Len(e) = n /\ \A i \in 1..n : e[i] = EvOf(turn, step, "tool/call-started", i)
    BY <1>2, <2>1, LenProperties
  <2>4. PICK r : r = log \o e
    OBVIOUS
  <2>5. Base(r, turn, attempts, toolCount + n)
    <3>1. \A i \in 1..Len(e) : e[i].type = "tool/call-started" /\ e[i].turn = turn /\ e[i].step = step
      BY <2>3, Fields
    <3>2. OfStep(log, "tool/call-started", turn, step) = {}
      BY <1>2, <1>3, NoneStarted
    <3>3. Len(e) <= Limits[turn].toolsPerStep /\ toolCount + Len(e) <= Limits[turn].tools
      BY <1>1, <1>8, <2>3
    <3>4. Base(r, turn, attempts, toolCount + Len(e))
      BY <1>2, <1>3, <2>2, <2>4, <3>1, <3>2, <3>3, BaseStarts
    <3> QED BY <2>3, <3>4
  <2>6. Dispatched(r, turn, step, n)
    BY <1>2, <1>3, <2>2, <2>3, <2>4, DispatchedNext
  <2>7. RecordAt("tools", r, turn, step, calls, n)
    BY <2>6 DEF RecordAt
  <2>8. /\ Base(log, turn, attempts, toolCount)' /\ Base(Held, turn, attempts, toolCount)'
        /\ RecordAt(Where, Held, turn, step, calls, Len(tools))'
    BY <1>1, <1>4, <2>2, <2>4, <2>5, <2>7
  <2> QED BY <1>1, <2>8 DEF RecordInv
<1> QED BY <1>6, <1>7, <1>8, DispatchMoves DEF RecordInv

LEMMA RecordSettle ==
  ASSUME RecordInv, ToolsSettle
  PROVE  RecordInv'
<1> DEFINE n == Len(tools)
           last == EvOf(turn, step, "step/completed", 0)
<1>1. LoopInv' /\ UNCHANGED <<turn, step, attempts, toolCount, calls, Len(tools)>>
  BY SettleMoves DEF RecordInv, counters
<1>2. PICK e \in Seq(Event) :
        /\ Len(e) = n
        /\ \A i \in 1..n : \E type \in ToolEnd : e[i] = EvOf(turn, step, type, i)
        /\ \/ Batch(e, "tools", "catch")
           \/ /\ \A i \in 1..n : e[i].type = "tool/call-completed"
              /\ Batch(Append(e, last), "tools", "loop")
  BY SettleMoves DEF RecordInv
<1>3. \A i \in 1..n : e[i].turn = turn /\ e[i].type \in ToolEnd
                      /\ e[i] = EvOf(turn, step, e[i].type, i)
  BY <1>2, Fields
<1>4. CASE Batch(e, "tools", "catch")
  <2>1. \A i \in 1..Len(e) : e[i].turn = turn /\ e[i].type \notin Counted
    BY <1>2, <1>3 DEF Counted, ToolEnd
  <2> QED BY <1>1, <1>4, <2>1, Elsewhere, RecordBatch
<1>5. CASE /\ \A i \in 1..n : e[i].type = "tool/call-completed"
           /\ Batch(Append(e, last), "tools", "loop")
  <2>1. PICK b : b = Append(e, last)
    OBVIOUS
  <2>2. /\ b \in Seq(Event) /\ Batch(b, "tools", "loop")
    BY <1>5, <2>1 DEF Batch
  <2>3. n \in Nat /\ step \in Nat /\ log \in Seq(Event) /\ Dispatched(log, turn, step, n)
    BY <2>2, TurnTyped, LoopTyped DEF RecordInv, RecordAt, Batch, ToolsSettle
  <2>4. Len(b) = n + 1 /\ b[n + 1] = last /\ \A i \in 1..n : b[i] = e[i]
    BY <1>2, <2>1, AppendProperties
  <2>5. \A i \in 1..Len(b) : i \in 1..n \/ i = n + 1
    BY <2>3, <2>4
  <2>6. \A i \in 1..Len(b) : b[i].turn = turn /\ b[i].type \notin Counted
    BY <1>3, <2>4, <2>5, Fields DEF Counted, ToolEnd
  <2>7. \A i \in 1..n : b[i] = EvOf(turn, step, "tool/call-completed", i)
    BY <1>3, <1>5, <2>4
  <2>8. b[n + 1].type \notin ToolEvents
    BY <2>4, Fields DEF ToolEvents
  <2>9. PICK r : r = log \o b
    OBVIOUS
  <2>10. CleanTo(r, Len(r), turn, step + 1)
    BY <2>2, <2>3, <2>4, <2>7, <2>8, <2>9, SettledNext
  <2>11. RecordAt("loop", r, turn', step', calls', Len(tools'))
    BY <1>1, <2>10 DEF RecordAt
  <2> QED BY <1>1, <2>2, <2>6, <2>9, <2>11, RecordBatch
<1> QED BY <1>2, <1>4, <1>5

LEMMA RecordRecover ==
  ASSUME RecordInv, Recover
  PROVE  RecordInv'
<1>1. /\ LoopInv' /\ Where' = "over" /\ Held' = log'
      /\ UNCHANGED <<turn, step, attempts, toolCount, calls, Len(tools)>>
  BY RecoverMoves DEF RecordInv, counters
<1>2. Base(log, turn, attempts, toolCount) /\ log \in Seq(Event) /\ turn \in Nat
  BY LoopTyped DEF RecordInv
<1>3. Base(log', turn, attempts, toolCount)
  <2>1. CASE log' = log
    BY <1>2, <2>1
  <2>2. CASE log' # log
    <3>1. PICK ends \in Seq(Event) :
            /\ Repairs(ends, {m \in 1..Len(log) : IsOpen(m)})
            /\ <<EvOf(turn, 0, "turn/interrupted", 0)>> \in Seq(Event)
            /\ log' = (log \o ends) \o <<EvOf(turn, 0, "turn/interrupted", 0)>>
      BY <2>2, RecoverMoves DEF RecordInv
    <3>2. PICK x : x = <<EvOf(turn, 0, "turn/interrupted", 0)>>
      OBVIOUS
    <3>3. PICK l : l = log \o ends
      OBVIOUS
    <3>4. l \in Seq(Event) /\ x \in Seq(Event) /\ log' = l \o x
      BY <1>2, <3>1, <3>2, <3>3, Joined
    <3>5. \A i \in 1..Len(ends) : /\ ends[i].turn <= turn
                                  /\ ends[i].type \notin {"model/attempt-started",
                                                          "tool/call-started", "step/started"}
      <4>1. PICK at \in [1..Len(ends) -> {m \in 1..Len(log) : IsOpen(m)}] :
              \A i \in 1..Len(ends) : Closes(ends[i], at[i])
        BY <3>1 DEF Repairs
      <4>2. \A i \in 1..Len(ends) : at[i] \in 1..Len(log)
        BY <4>1
      <4> QED BY <1>2, <4>1, <4>2 DEF Closes, Base
    <3>6. Base(l, turn, attempts, toolCount)
      BY <1>2, <3>1, <3>3, <3>5, BaseQuiet
    <3>7. \A i \in 1..Len(x) : /\ x[i].turn <= turn
                               /\ x[i].type \notin {"model/attempt-started", "tool/call-started",
                                                    "step/started"}
      <4>1. \A i \in 1..Len(x) : x[i] = EvOf(turn, 0, "turn/interrupted", 0)
        BY <3>2, OneOf
      <4> QED BY <1>2, <4>1, Fields
    <3>8. PICK r : r = l \o x
      OBVIOUS
    <3>9. Base(r, turn, attempts, toolCount)
      BY <3>4, <3>6, <3>7, <3>8, BaseQuiet
    <3> QED BY <3>4, <3>8, <3>9
  <2> QED BY <2>1, <2>2
<1>4. /\ Base(log, turn, attempts, toolCount)' /\ Base(Held, turn, attempts, toolCount)'
      /\ RecordAt(Where, Held, turn, step, calls, Len(tools))'
  BY <1>1, <1>3, Elsewhere
<1> QED BY <1>1, <1>4 DEF RecordInv

LEMMA RecordSettles ==
  ASSUME RecordInv, Commit \/ FailAppend \/ Crash \/ Cancel \/ UNCHANGED vars
                      \/ (\E i \in DOMAIN tools : ToolStep(i))
  PROVE  RecordInv'
<1>1. /\ Base(log, turn, attempts, toolCount) /\ Base(Held, turn, attempts, toolCount)
      /\ RecordAt(Where, Held, turn, step, calls, Len(tools))
  BY DEF RecordInv
<1>2. /\ LoopInv' /\ UNCHANGED <<turn, step, attempts, toolCount, calls, Len(tools)>>
      /\ log' \in {log, Held} /\ Held' \in {log, Held}
      /\ (Held' = Held /\ Where' = Where) \/ Where' \in {"catch", "callFailed", "over", "crashed"}
  BY CommitMoves, FailMoves, CrashMoves, QuietMoves DEF RecordInv, counters
<1>3. /\ Base(log, turn, attempts, toolCount)' /\ Base(Held, turn, attempts, toolCount)'
  BY <1>1, <1>2
<1>4. RecordAt(Where, Held, turn, step, calls, Len(tools))'
  BY <1>1, <1>2, Elsewhere
<1> QED BY <1>2, <1>3, <1>4 DEF RecordInv

LEMMA RecordInit == Init => RecordInv
<1> SUFFICES ASSUME Init PROVE RecordInv
  OBVIOUS
<1>1. LoopInv /\ Held = log /\ Where = "idle"
  BY LoopInit
<1>2. log = <<>> /\ turn = 0 /\ attempts = 0 /\ toolCount = 0
  BY DEF Init
<1>3. Base(<<>>, 0, 0, 0)
  <2>1. 1..Len(<<>>) = {}
    OBVIOUS
  <2>2. \A type, t : Cardinality(OfTurn(<<>>, type, t)) = 0
    BY <2>1, FS_EmptySet DEF OfTurn
  <2>3. Limited(<<>>, 0)
    BY DEF Limited
  <2>4. Ordered(<<>>)
    BY <2>1 DEF Ordered
  <2> QED BY <2>1, <2>2, <2>3, <2>4 DEF Base
<1> QED BY <1>1, <1>2, <1>3, Elsewhere DEF RecordInv

LEMMA RecordStep == RecordInv /\ [Next]_vars => RecordInv'
BY RecordStart, RecordAcquire, RecordEnter, RecordAssemble, RecordAttempt, RecordAttemptFails,
   RecordRetry, RecordCallFails, RecordCatch, RecordCompaction, RecordAnswered, RecordDispatch,
   RecordSettle, RecordRecover, RecordSettles DEF Next, Continue

LEMMA RecordAlways == Spec => []RecordInv
BY RecordInit, RecordStep, PTL DEF Spec

\* Of every reachable state: TypeOK.
THEOREM TurnTypes == Spec => []TypeOK
<1>1. RecordInv => TypeOK
  BY LoopTyped DEF RecordInv
<1> QED BY RecordAlways, <1>1, PTL

\* The TurnLimits bound what a Turn does to the outside, whatever fails, crashes
\* or is repaired: no more attempts, Tools in a Step and Tools in the Turn than
\* the AgentSnapshot allows are recorded, and each is recorded before it happens
\* (EffectsAreRecorded).
THEOREM LimitsAreKept == Spec => []LimitsRespected
<1>1. ASSUME RecordInv PROVE LimitsRespected
  <2>1. Limited(log, turn)
    BY <1>1 DEF RecordInv, Base
  <2>2. ASSUME NEW type, NEW t
        PROVE  InTurn({type}, t) = OfTurn(log, type, t)
    BY DEF InTurn, Positions, OfTurn
  <2>3. ASSUME NEW type, NEW t, NEW s
        PROVE  {m \in InTurn({type}, t) : log[m].step = s} = OfStep(log, type, t, s)
    BY <2>2 DEF OfStep
  <2> QED BY <2>1, <2>2, <2>3 DEF Limited, LimitsRespected
<1> QED BY RecordAlways, <1>1, PTL

\* When the next Step starts, every ToolCall of an earlier message of the Turn has
\* one ToolResult, in call order: a Step that failed, was cancelled or had an
\* append lost is never followed by another one.
THEOREM StepsFollowResults == Spec => []ResultsBeforeNextStep
<1>1. ASSUME RecordInv PROVE ResultsBeforeNextStep
  <2>1. Ordered(log) /\ Len(log) \in Nat
    BY <1>1, LoopTyped DEF RecordInv, Base
  <2> SUFFICES ASSUME NEW k \in 1..Len(log), log[k].type = "step/started",
                      NEW m \in 1..Len(log), log[m].type = "assistant/message",
                      log[m].turn = log[k].turn, m < k
               PROVE  /\ {log[p].n : p \in Results(m, k)} = 1..log[m].n
                      /\ \A p, q \in Results(m, k) : p < q => log[p].n < log[q].n
    BY DEF ResultsBeforeNextStep, InTurn, Positions
  <2>2. m \in 1..(k - 1)
    BY <2>1
  <2>3. Complete(log, m, k)
    BY <2>1, <2>2 DEF Ordered
  <2>4. Results(m, k) = ResultsIn(log, m, k)
    BY DEF Results, ResultsIn
  <2> QED BY <2>3, <2>4 DEF Complete
<1> QED BY RecordAlways, <1>1, PTL

\* A model is called only while the start of that attempt is the last durable
\* event; Tools run only while each has its durable, unanswered start.
THEOREM EffectsAreRecorded == Spec => []EffectsRecorded
<1>1. ASSUME RecordInv, pc = "attempting"
      PROVE  log # <<>> /\ Last(log) = Ev("model/attempt-started", calls)
  <2>1. Len(log) > 0 /\ log[Len(log)] = EvOf(turn, step, "model/attempt-started", calls)
    BY <1>1 DEF RecordInv, RecordAt, Held, Where
  <2> QED BY <2>1, Evs DEF Last
<1>2. ASSUME RecordInv, pc = "tools", NEW i \in DOMAIN tools
      PROVE  \E m \in 1..Len(log) : log[m] = Ev("tool/call-started", i) /\ IsOpen(m)
  <2> DEFINE n == Len(tools)
             m == (Len(log) - n) + i
  <2>1. Dispatched(log, turn, step, n) /\ n \in Nat /\ Len(log) \in Nat /\ i \in 1..n
    BY <1>2, LoopTyped DEF RecordInv, RecordAt, Held, Where
  <2>2. /\ Len(log) > n
        /\ \A j \in 1..n : log[(Len(log) - n) + j] = EvOf(turn, step, "tool/call-started", j)
    BY <2>1 DEF Dispatched
  <2>3. m \in 1..Len(log) /\ log[m] = EvOf(turn, step, "tool/call-started", i)
    BY <2>1, <2>2
  <2>4. ASSUME NEW k \in (m + 1)..Len(log) PROVE log[k].type = "tool/call-started"
    <3>1. k - (Len(log) - n) \in 1..n /\ (Len(log) - n) + (k - (Len(log) - n)) = k
      BY <2>1, <2>2
    <3>2. log[k] = EvOf(turn, step, "tool/call-started", k - (Len(log) - n))
      BY <2>2, <3>1
    <3> QED BY <3>2, Fields
  <2>5. IsOpen(m)
    BY <2>3, <2>4, Fields DEF IsOpen, ModelEnd, ToolEnd
  <2> QED BY <2>3, <2>5, Evs
<1>3. RecordInv => EffectsRecorded
  BY <1>1, <1>2 DEF EffectsRecorded
<1> QED BY RecordAlways, <1>3, PTL

-----------------------------------------------------------------------------
(* Calls that are started and ended by a batch.                            *)

ModelEvents == {"model/call-started"} \cup ModelEnd

LEMMA SameCall ==
  ASSUME NEW x, NEW y
  PROVE  CallOf(x) = CallOf(y) <=>
           \/ x.type \in ModelEvents /\ y.type \in ModelEvents /\ x.n = y.n
           \/ /\ x.type \notin ModelEvents /\ y.type \notin ModelEvents
              /\ x.turn = y.turn /\ x.step = y.step /\ x.n = y.n
<1>1. CASE x.type \in ModelEvents /\ y.type \in ModelEvents
  <2>1. CallOf(x) = <<"model", x.n>> /\ CallOf(y) = <<"model", y.n>>
    BY <1>1 DEF CallOf, ModelEvents
  <2> QED BY <1>1, <2>1
<1>2. CASE x.type \notin ModelEvents /\ y.type \notin ModelEvents
  <2>1. CallOf(x) = <<"tool", x.turn, x.step, x.n>> /\ CallOf(y) = <<"tool", y.turn, y.step, y.n>>
    BY <1>2 DEF CallOf, ModelEvents
  <2> QED BY <1>2, <2>1
<1>3. CASE x.type \in ModelEvents /\ y.type \notin ModelEvents
  <2>1. CallOf(x)[1] = "model" /\ CallOf(y)[1] = "tool"
    BY <1>3 DEF CallOf, ModelEvents
  <2> QED BY <1>3, <2>1
<1>4. CASE x.type \notin ModelEvents /\ y.type \in ModelEvents
  <2>1. CallOf(x)[1] = "tool" /\ CallOf(y)[1] = "model"
    BY <1>4 DEF CallOf, ModelEvents
  <2> QED BY <1>4, <2>1
<1> QED BY <1>1, <1>2, <1>3, <1>4

LEMMA StartsAreNotEnds == CallStart \cap CallEnd = {}
BY DEF CallStart, CallEnd, ModelEnd, ToolEnd

\* A batch that starts no call and ends only open ones, each once.
LEMMA EndsKept ==
  ASSUME NEW l \in Seq(Event), NEW e \in Seq(Event), CallsOnce(l),
         \A i \in 1..Len(e) : e[i].type \notin CallStart,
         \A i \in 1..Len(e) : e[i].type \in CallEnd => \E x \in Opens(l) : CallOf(x) = CallOf(e[i]),
         \A i, j \in 1..Len(e) : e[i].type \in CallEnd /\ e[j].type \in CallEnd
                                 /\ CallOf(e[i]) = CallOf(e[j]) => i = j
  PROVE  /\ CallsOnce(l \o e)
         /\ Opens(l \o e) = {x \in Opens(l) : \A i \in 1..Len(e) : e[i].type \in CallEnd =>
                                                CallOf(e[i]) # CallOf(x)}
<1>1. PICK r : r = l \o e
  OBVIOUS
<1>2. /\ Len(l) \in Nat /\ Len(e) \in Nat /\ Len(r) = Len(l) + Len(e)
      /\ \A m \in 1..Len(l) : m \in 1..Len(r) /\ r[m] = l[m]
      /\ \A i \in 1..Len(e) : Len(l) + i \in 1..Len(r) /\ r[Len(l) + i] = e[i]
      /\ \A k \in 1..Len(r) :
           k \in 1..Len(l) \/ (k - Len(l) \in 1..Len(e) /\ r[k] = e[k - Len(l)])
  BY <1>1, Joined
<1>3. /\ \A m, k \in 1..Len(l) :
           l[m].type \in CallStart /\ l[k].type \in CallStart /\ CallOf(l[m]) = CallOf(l[k]) => m = k
      /\ \A m, k \in 1..Len(l) :
           l[m].type \in CallEnd /\ l[k].type \in CallEnd /\ CallOf(l[m]) = CallOf(l[k]) => m = k
      /\ \A k \in 1..Len(l) : l[k].type \in CallEnd =>
           \E m \in 1..(k - 1) : l[m].type \in CallStart /\ CallOf(l[m]) = CallOf(l[k])
  BY DEF CallsOnce
<1>4. \A k \in 1..Len(r) : r[k].type \in CallStart => k \in 1..Len(l)
  BY <1>2
<1>5. ASSUME NEW i \in 1..Len(e), e[i].type \in CallEnd
      PROVE  \E m \in 1..Len(l) : OpenAt(l, m) /\ CallOf(l[m]) = CallOf(e[i])
  <2>1. PICK x \in Opens(l) : CallOf(x) = CallOf(e[i])
    BY <1>5
  <2> QED BY <2>1 DEF Opens
<1>6. ASSUME NEW k \in 1..Len(l), NEW i \in 1..Len(e), l[k].type \in CallEnd, e[i].type \in CallEnd,
             CallOf(l[k]) = CallOf(e[i])
      PROVE  FALSE
  <2>1. PICK m \in 1..Len(l) : OpenAt(l, m) /\ CallOf(l[m]) = CallOf(e[i])
    BY <1>5, <1>6
  <2>2. PICK q \in 1..(k - 1) : l[q].type \in CallStart /\ CallOf(l[q]) = CallOf(l[k])
    BY <1>3, <1>6
  <2>3. q \in 1..Len(l) /\ k \in Nat /\ q < k
    BY <1>2, <2>2
  <2>4. m = q
    BY <1>3, <1>6, <2>1, <2>2, <2>3 DEF OpenAt
  <2>5. k \in (m + 1)..Len(l)
    BY <1>2, <2>3, <2>4
  <2> QED BY <1>6, <2>1, <2>5 DEF OpenAt
<1>7. CallsOnce(r)
  <2>1. ASSUME NEW m \in 1..Len(r), NEW k \in 1..Len(r), r[m].type \in CallStart,
               r[k].type \in CallStart, CallOf(r[m]) = CallOf(r[k])
        PROVE  m = k
    BY <1>2, <1>3, <1>4, <2>1
  <2>2. ASSUME NEW m \in 1..Len(r), NEW k \in 1..Len(r), r[m].type \in CallEnd,
               r[k].type \in CallEnd, CallOf(r[m]) = CallOf(r[k])
        PROVE  m = k
    <3>1. CASE m \in 1..Len(l) /\ k \in 1..Len(l)
      BY <1>2, <1>3, <2>2, <3>1
    <3>2. CASE m \notin 1..Len(l) /\ k \notin 1..Len(l)
      <4>1. /\ m - Len(l) \in 1..Len(e) /\ r[m] = e[m - Len(l)]
            /\ k - Len(l) \in 1..Len(e) /\ r[k] = e[k - Len(l)]
        BY <1>2, <3>2
      <4>2. m - Len(l) = k - Len(l)
        BY <2>2, <4>1
      <4>3. m \in Nat /\ k \in Nat /\ Len(l) \in Nat
        BY <1>2
      <4> QED BY <4>2, <4>3
    <3>3. CASE m \in 1..Len(l) /\ k \notin 1..Len(l)
      <4>1. k - Len(l) \in 1..Len(e) /\ r[k] = e[k - Len(l)] /\ r[m] = l[m]
        BY <1>2, <3>3
      <4> QED BY <1>6, <2>2, <3>3, <4>1
    <3>4. CASE m \notin 1..Len(l) /\ k \in 1..Len(l)
      <4>1. m - Len(l) \in 1..Len(e) /\ r[m] = e[m - Len(l)] /\ r[k] = l[k]
        BY <1>2, <3>4
      <4> QED BY <1>6, <2>2, <3>4, <4>1
    <3> QED BY <3>1, <3>2, <3>3, <3>4
  <2>3. ASSUME NEW k \in 1..Len(r), r[k].type \in CallEnd
        PROVE  \E m \in 1..(k - 1) : r[m].type \in CallStart /\ CallOf(r[m]) = CallOf(r[k])
    <3>1. CASE k \in 1..Len(l)
      <4>1. PICK m \in 1..(k - 1) : l[m].type \in CallStart /\ CallOf(l[m]) = CallOf(l[k])
        BY <1>2, <1>3, <2>3, <3>1
      <4>2. m \in 1..Len(l)
        BY <1>2, <3>1, <4>1
      <4> QED BY <1>2, <3>1, <4>1, <4>2
    <3>2. CASE k \notin 1..Len(l)
      <4>1. k - Len(l) \in 1..Len(e) /\ r[k] = e[k - Len(l)]
        BY <1>2, <3>2
      <4>2. PICK m \in 1..Len(l) : OpenAt(l, m) /\ CallOf(l[m]) = CallOf(e[k - Len(l)])
        BY <1>5, <2>3, <4>1
      <4>3. m \in 1..(k - 1)
        BY <1>2, <3>2, <4>2
      <4> QED BY <1>2, <4>1, <4>2, <4>3 DEF OpenAt
    <3> QED BY <3>1, <3>2
  <2> QED BY <2>1, <2>2, <2>3 DEF CallsOnce
<1> DEFINE Closed(x) == \E i \in 1..Len(e) : e[i].type \in CallEnd /\ CallOf(e[i]) = CallOf(x)
<1>8. ASSUME NEW m \in 1..Len(l) PROVE OpenAt(r, m) <=> OpenAt(l, m) /\ ~Closed(l[m])
  <2>1. ASSUME OpenAt(l, m), ~Closed(l[m]), NEW k \in (m + 1)..Len(r), r[k].type \in CallEnd
        PROVE  CallOf(r[k]) # CallOf(r[m])
    <3>1. k \in 1..Len(r)
      BY <1>2
    <3>2. CASE k \in 1..Len(l)
      <4>1. k \in (m + 1)..Len(l)
        BY <1>2, <3>2
      <4> QED BY <1>2, <2>1, <3>2, <4>1 DEF OpenAt
    <3>3. CASE k \notin 1..Len(l)
      BY <1>2, <2>1, <3>1, <3>3
    <3> QED BY <3>2, <3>3
  <2>2. ASSUME OpenAt(r, m), NEW k \in (m + 1)..Len(l), l[k].type \in CallEnd
        PROVE  CallOf(l[k]) # CallOf(l[m])
    <3>1. k \in 1..Len(l) /\ k \in (m + 1)..Len(r)
      BY <1>2
    <3> QED BY <1>2, <2>2, <3>1 DEF OpenAt
  <2>3. ASSUME OpenAt(r, m), NEW i \in 1..Len(e), e[i].type \in CallEnd
        PROVE  CallOf(e[i]) # CallOf(l[m])
    <3>1. Len(l) + i \in (m + 1)..Len(r)
      BY <1>2
    <3> QED BY <1>2, <2>3, <3>1 DEF OpenAt
  <2>4. OpenAt(l, m) /\ ~Closed(l[m]) => OpenAt(r, m)
    BY <1>2, <2>1 DEF OpenAt
  <2>5. OpenAt(r, m) => OpenAt(l, m)
    BY <1>2, <2>2 DEF OpenAt
  <2> QED BY <2>3, <2>4, <2>5
<1>9. \A m \in 1..Len(r) : OpenAt(r, m) => m \in 1..Len(l)
  BY <1>4 DEF OpenAt
<1>10. Opens(r) = {x \in Opens(l) : ~Closed(x)}
  <2>1. ASSUME NEW x \in Opens(r) PROVE x \in Opens(l) /\ ~Closed(x)
    <3>1. PICK m \in 1..Len(r) : OpenAt(r, m) /\ x = r[m]
      BY <2>1 DEF Opens
    <3>2. m \in 1..Len(l) /\ x = l[m]
      BY <1>2, <1>9, <3>1
    <3>3. OpenAt(l, m) /\ ~Closed(l[m])
      BY <1>8, <3>1, <3>2
    <3> QED BY <3>2, <3>3 DEF Opens
  <2>2. ASSUME NEW x \in Opens(l), ~Closed(x) PROVE x \in Opens(r)
    <3>1. PICK m \in 1..Len(l) : OpenAt(l, m) /\ x = l[m]
      BY <2>2 DEF Opens
    <3>2. OpenAt(r, m) /\ x = r[m] /\ m \in 1..Len(r)
      BY <1>2, <1>8, <2>2, <3>1
    <3> QED BY <3>2 DEF Opens
  <2> QED BY <2>1, <2>2
<1> QED BY <1>1, <1>7, <1>10

\* A batch of starts of calls that are new, each once.
LEMMA StartsKept ==
  ASSUME NEW l \in Seq(Event), NEW e \in Seq(Event), CallsOnce(l),
         \A i \in 1..Len(e) : e[i].type \in CallStart,
         \A i \in 1..Len(e) : \A m \in 1..Len(l) :
           l[m].type \in CallStart => CallOf(l[m]) # CallOf(e[i]),
         \A i, j \in 1..Len(e) : CallOf(e[i]) = CallOf(e[j]) => i = j
  PROVE  /\ CallsOnce(l \o e)
         /\ Opens(l \o e) = Opens(l) \cup {e[i] : i \in 1..Len(e)}
<1>1. PICK r : r = l \o e
  OBVIOUS
<1>2. /\ Len(l) \in Nat /\ Len(e) \in Nat /\ Len(r) = Len(l) + Len(e)
      /\ \A m \in 1..Len(l) : m \in 1..Len(r) /\ r[m] = l[m]
      /\ \A i \in 1..Len(e) : Len(l) + i \in 1..Len(r) /\ r[Len(l) + i] = e[i]
      /\ \A k \in 1..Len(r) :
           k \in 1..Len(l) \/ (k - Len(l) \in 1..Len(e) /\ r[k] = e[k - Len(l)])
  BY <1>1, Joined
<1>3. /\ \A m, k \in 1..Len(l) :
           l[m].type \in CallStart /\ l[k].type \in CallStart /\ CallOf(l[m]) = CallOf(l[k]) => m = k
      /\ \A m, k \in 1..Len(l) :
           l[m].type \in CallEnd /\ l[k].type \in CallEnd /\ CallOf(l[m]) = CallOf(l[k]) => m = k
      /\ \A k \in 1..Len(l) : l[k].type \in CallEnd =>
           \E m \in 1..(k - 1) : l[m].type \in CallStart /\ CallOf(l[m]) = CallOf(l[k])
  BY DEF CallsOnce
<1>4. \A k \in 1..Len(r) : r[k].type \in CallEnd => k \in 1..Len(l)
  BY <1>2, StartsAreNotEnds
<1>0. ASSUME NEW m \in 1..Len(l), NEW k \in 1..Len(r), k \notin 1..Len(l), l[m].type \in CallStart
      PROVE  CallOf(l[m]) # CallOf(r[k])
  <2>1. k - Len(l) \in 1..Len(e) /\ r[k] = e[k - Len(l)]
    BY <1>2, <1>0
  <2>2. CallOf(l[m]) # CallOf(e[k - Len(l)])
    BY <1>0, <2>1
  <2> QED BY <2>1, <2>2
<1>5. CallsOnce(r)
  <2>1. ASSUME NEW m \in 1..Len(r), NEW k \in 1..Len(r), r[m].type \in CallStart,
               r[k].type \in CallStart, CallOf(r[m]) = CallOf(r[k])
        PROVE  m = k
    <3>1. CASE m \in 1..Len(l) /\ k \in 1..Len(l)
      BY <1>2, <1>3, <2>1, <3>1
    <3>2. CASE m \notin 1..Len(l) /\ k \notin 1..Len(l)
      <4>1. /\ m - Len(l) \in 1..Len(e) /\ r[m] = e[m - Len(l)]
            /\ k - Len(l) \in 1..Len(e) /\ r[k] = e[k - Len(l)]
        BY <1>2, <3>2
      <4>2. CallOf(e[m - Len(l)]) = CallOf(e[k - Len(l)])
        BY <2>1, <4>1
      <4>3. m - Len(l) = k - Len(l)
        BY <4>1, <4>2
      <4> QED BY <1>2, <4>3
    <3>3. CASE m \in 1..Len(l) /\ k \notin 1..Len(l)
      BY <1>2, <1>0, <2>1, <3>3
    <3>4. CASE m \notin 1..Len(l) /\ k \in 1..Len(l)
      <4>1. r[k] = l[k] /\ l[k].type \in CallStart
        BY <1>2, <2>1, <3>4
      <4> QED BY <1>0, <2>1, <3>4, <4>1
    <3> QED BY <3>1, <3>2, <3>3, <3>4
  <2>2. ASSUME NEW m \in 1..Len(r), NEW k \in 1..Len(r), r[m].type \in CallEnd,
               r[k].type \in CallEnd, CallOf(r[m]) = CallOf(r[k])
        PROVE  m = k
    BY <1>2, <1>3, <1>4, <2>2
  <2>3. ASSUME NEW k \in 1..Len(r), r[k].type \in CallEnd
        PROVE  \E m \in 1..(k - 1) : r[m].type \in CallStart /\ CallOf(r[m]) = CallOf(r[k])
    <3>1. k \in 1..Len(l) /\ r[k] = l[k]
      BY <1>2, <1>4, <2>3
    <3>2. PICK m \in 1..(k - 1) : l[m].type \in CallStart /\ CallOf(l[m]) = CallOf(l[k])
      BY <1>3, <2>3, <3>1
    <3>3. m \in 1..Len(l)
      BY <1>2, <3>1, <3>2
    <3> QED BY <1>2, <3>1, <3>2, <3>3
  <2> QED BY <2>1, <2>2, <2>3 DEF CallsOnce
<1>6. ASSUME NEW m \in 1..Len(l) PROVE OpenAt(r, m) <=> OpenAt(l, m)
  <2>1. ASSUME OpenAt(l, m), NEW k \in (m + 1)..Len(r), r[k].type \in CallEnd
        PROVE  CallOf(r[k]) # CallOf(r[m])
    <3>1. k \in 1..Len(r)
      BY <1>2
    <3>2. k \in (m + 1)..Len(l) /\ r[k] = l[k]
      BY <1>2, <1>4, <2>1, <3>1
    <3> QED BY <1>2, <2>1, <3>2 DEF OpenAt
  <2>2. ASSUME OpenAt(r, m), NEW k \in (m + 1)..Len(l), l[k].type \in CallEnd
        PROVE  CallOf(l[k]) # CallOf(l[m])
    <3>1. k \in 1..Len(l) /\ k \in (m + 1)..Len(r)
      BY <1>2
    <3> QED BY <1>2, <2>2, <3>1 DEF OpenAt
  <2>3. OpenAt(l, m) => OpenAt(r, m)
    BY <1>2, <2>1 DEF OpenAt
  <2>4. OpenAt(r, m) => OpenAt(l, m)
    BY <1>2, <2>2 DEF OpenAt
  <2> QED BY <2>3, <2>4
<1>7. ASSUME NEW i \in 1..Len(e) PROVE OpenAt(r, Len(l) + i)
  <2>1. ASSUME NEW k \in ((Len(l) + i) + 1)..Len(r) PROVE r[k].type \notin CallEnd
    <3>1. k \in 1..Len(r) /\ k \notin 1..Len(l)
      BY <1>2
    <3> QED BY <1>4, <3>1
  <2> QED BY <1>2, <2>1 DEF OpenAt
<1>8. Opens(r) = Opens(l) \cup {e[i] : i \in 1..Len(e)}
  <2>1. ASSUME NEW x \in Opens(r) PROVE x \in Opens(l) \cup {e[i] : i \in 1..Len(e)}
    <3>1. PICK m \in 1..Len(r) : OpenAt(r, m) /\ x = r[m]
      BY <2>1 DEF Opens
    <3>2. CASE m \in 1..Len(l)
      BY <1>2, <1>6, <3>1, <3>2 DEF Opens
    <3>3. CASE m \notin 1..Len(l)
      BY <1>2, <3>1, <3>3
    <3> QED BY <3>2, <3>3
  <2>2. ASSUME NEW x \in Opens(l) PROVE x \in Opens(r)
    <3>1. PICK m \in 1..Len(l) : OpenAt(l, m) /\ x = l[m]
      BY <2>2 DEF Opens
    <3>2. OpenAt(r, m) /\ x = r[m] /\ m \in 1..Len(r)
      BY <1>2, <1>6, <3>1
    <3> QED BY <3>2 DEF Opens
  <2>3. ASSUME NEW i \in 1..Len(e) PROVE e[i] \in Opens(r)
    BY <1>2, <1>7 DEF Opens
  <2> QED BY <2>1, <2>2, <2>3
<1> QED BY <1>1, <1>5, <1>8

\* A batch without starts and ends of calls.
NoCalls(e) == \A i \in 1..Len(e) : e[i].type \notin CallStart \cup CallEnd

LEMMA NoCallsKept ==
  ASSUME NEW l \in Seq(Event), NEW e \in Seq(Event), CallsOnce(l), NoCalls(e)
  PROVE  CallsOnce(l \o e) /\ Opens(l \o e) = Opens(l)
<1>1. /\ \A i \in 1..Len(e) : e[i].type \notin CallStart
      /\ \A i \in 1..Len(e) : e[i].type \notin CallEnd
  BY DEF NoCalls
<1>2. /\ CallsOnce(l \o e)
      /\ Opens(l \o e) = {x \in Opens(l) : \A i \in 1..Len(e) : e[i].type \in CallEnd =>
                                             CallOf(e[i]) # CallOf(x)}
  BY <1>1, EndsKept
<1>3. {x \in Opens(l) : \A i \in 1..Len(e) : e[i].type \in CallEnd => CallOf(e[i]) # CallOf(x)}
        = Opens(l)
  BY <1>1
<1> QED BY <1>2, <1>3

-----------------------------------------------------------------------------
(* Sound records.                                                          *)

LEMMA SoundMore ==
  ASSUME NEW l \in Seq(Event), NEW t, NEW c \in Nat, NEW d \in Nat, c <= d, Sound(l, t, c)
  PROVE  Sound(l, t, d)
<1>1. ASSUME NEW m \in 1..Len(l), l[m].type \in {"model/call-started"} \cup ModelEnd
      PROVE  l[m].n <= d
  <2>1. l[m].n <= c
    BY <1>1 DEF Sound
  <2> QED BY <2>1, RecordTyped
<1> QED BY <1>1 DEF Sound

\* The Turn t goes on with the batch e.
InsideTurn(e, t) ==
  \A i \in 1..Len(e) : e[i].turn = t /\ e[i].type \notin {"turn/started"} \cup TurnEnd

ModelsTo(e, c) == \A i \in 1..Len(e) : e[i].type \in ModelEvents => e[i].n <= c

LEMMA ActiveKept ==
  ASSUME NEW l \in Seq(Event), NEW e \in Seq(Event), NEW t, Active(l), InsideTurn(e, t)
  PROVE  Active(l \o e)
<1>1. PICK r : r = l \o e
  OBVIOUS
<1>2. /\ Len(l) \in Nat /\ Len(e) \in Nat /\ Len(r) = Len(l) + Len(e)
      /\ \A m \in 1..Len(l) : m \in 1..Len(r) /\ r[m] = l[m]
      /\ \A k \in 1..Len(r) :
           k \in 1..Len(l) \/ (k - Len(l) \in 1..Len(e) /\ r[k] = e[k - Len(l)])
  BY <1>1, Joined
<1>3. PICK m \in 1..Len(l) :
        /\ l[m].type = "turn/started"
        /\ \A k \in (m + 1)..Len(l) : l[k].type \notin {"turn/started"} \cup TurnEnd
  BY DEF Active
<1>4. ASSUME NEW k \in (m + 1)..Len(r) PROVE r[k].type \notin {"turn/started"} \cup TurnEnd
  <2>1. k \in 1..Len(r)
    BY <1>2
  <2>2. CASE k \in 1..Len(l)
    <3>1. k \in (m + 1)..Len(l)
      BY <1>2, <2>2
    <3> QED BY <1>2, <1>3, <2>2, <3>1
  <2>3. CASE k \notin 1..Len(l)
    BY <1>2, <2>1, <2>3 DEF InsideTurn
  <2> QED BY <2>2, <2>3
<1>5. m \in 1..Len(r) /\ r[m].type = "turn/started"
  BY <1>2, <1>3
<1> QED BY <1>1, <1>4, <1>5 DEF Active

LEMMA SoundGoes ==
  ASSUME NEW l \in Seq(Event), NEW e \in Seq(Event), NEW t, NEW c \in Nat, NEW d \in Nat, c <= d,
         Sound(l, t, c), Active(l), CallsOnce(l \o e), InsideTurn(e, t), ModelsTo(e, d),
         \A x \in Opens(l \o e) : x.turn = t
  PROVE  Sound(l \o e, t, d) /\ Active(l \o e)
<1>1. PICK r : r = l \o e
  OBVIOUS
<1>2. /\ Len(l) \in Nat /\ Len(e) \in Nat /\ Len(r) = Len(l) + Len(e)
      /\ \A m \in 1..Len(l) : m \in 1..Len(r) /\ r[m] = l[m]
      /\ \A k \in 1..Len(r) :
           k \in 1..Len(l) \/ (k - Len(l) \in 1..Len(e) /\ r[k] = e[k - Len(l)])
  BY <1>1, Joined
<1>3. Active(r)
  BY <1>1, ActiveKept
<1>4. Sound(l, t, d)
  BY SoundMore
<1>5. \A m \in 1..Len(l) : l[m].turn = t => l[m].type \notin TurnEnd
  BY DEF Sound
<1>6. ASSUME NEW m \in 1..Len(r), r[m].type \in TurnEnd
      PROVE  m \in 1..Len(l) /\ r[m] = l[m] /\ l[m].turn # t
  <2>1. m \in 1..Len(l)
    BY <1>2, <1>6 DEF InsideTurn
  <2> QED BY <1>2, <1>5, <1>6, <2>1
<1>7. EndsOnce(r)
  <2> SUFFICES ASSUME NEW m \in 1..Len(r), r[m].type \in TurnEnd, NEW k \in (m + 1)..Len(r)
               PROVE  r[k].turn # r[m].turn
    BY DEF EndsOnce
  <2>1. m \in 1..Len(l) /\ r[m] = l[m] /\ l[m].turn # t /\ k \in 1..Len(r)
    BY <1>2, <1>6
  <2>2. CASE k \in 1..Len(l)
    <3>1. k \in (m + 1)..Len(l) /\ r[k] = l[k]
      BY <1>2, <2>2
    <3> QED BY <2>1, <3>1 DEF Sound, EndsOnce
  <2>3. CASE k \notin 1..Len(l)
    BY <1>2, <2>1, <2>3 DEF InsideTurn
  <2> QED BY <2>2, <2>3
<1>8. ASSUME NEW m \in 1..Len(r), r[m].type \in {"model/call-started"} \cup ModelEnd
      PROVE  r[m].n <= d
  <2>1. CASE m \in 1..Len(l)
    BY <1>2, <1>4, <1>8, <2>1 DEF Sound
  <2>2. CASE m \notin 1..Len(l)
    BY <1>2, <1>8, <2>2 DEF ModelsTo, ModelEvents
  <2> QED BY <2>1, <2>2
<1>9. \A m \in 1..Len(r) : r[m].turn = t => r[m].type \notin TurnEnd
  BY <1>6
<1>10. CallsOnce(r) /\ \A x \in Opens(r) : x.turn = t
  BY <1>1
<1>11. Sound(r, t, d)
  BY <1>3, <1>7, <1>8, <1>9, <1>10 DEF Sound
<1> QED BY <1>1, <1>3, <1>11

\* The batch e ends the Turn t.
EndsTurn(e, t) ==
  /\ Len(e) > 0 /\ e[Len(e)].type \in TurnEnd
  /\ \A i \in 1..Len(e) : e[i].turn = t /\ e[i].type # "turn/started"
  /\ \A i \in 1..Len(e) : e[i].type \in TurnEnd => i = Len(e)

LEMMA SoundEnds ==
  ASSUME NEW l \in Seq(Event), NEW e \in Seq(Event), NEW t, NEW c \in Nat,
         Sound(l, t, c), Active(l), Opens(l) = {}, NoCalls(e), EndsTurn(e, t)
  PROVE  Sound(l \o e, t, c) /\ ~Active(l \o e)
<1>1. PICK r : r = l \o e
  OBVIOUS
<1>2. /\ Len(l) \in Nat /\ Len(e) \in Nat /\ Len(r) = Len(l) + Len(e)
      /\ \A m \in 1..Len(l) : m \in 1..Len(r) /\ r[m] = l[m]
      /\ \A i \in 1..Len(e) : Len(l) + i \in 1..Len(r) /\ r[Len(l) + i] = e[i]
      /\ \A k \in 1..Len(r) :
           k \in 1..Len(l) \/ (k - Len(l) \in 1..Len(e) /\ r[k] = e[k - Len(l)])
  BY <1>1, Joined
<1>3. Len(e) \in 1..Len(e) /\ Len(r) \in 1..Len(r) /\ r[Len(r)] = e[Len(e)]
  BY <1>2 DEF EndsTurn
<1>4. CallsOnce(r) /\ Opens(r) = {}
  BY <1>1, NoCallsKept DEF Sound
<1>5. ~Active(r)
  <2> SUFFICES ASSUME NEW m \in 1..Len(r), r[m].type = "turn/started"
               PROVE  \E k \in (m + 1)..Len(r) : r[k].type \in {"turn/started"} \cup TurnEnd
    BY DEF Active
  <2>1. r[Len(r)].type \in TurnEnd /\ m # Len(r)
    BY <1>3 DEF EndsTurn, TurnEnd
  <2>2. Len(r) \in (m + 1)..Len(r)
    BY <1>2, <2>1
  <2> QED BY <2>1, <2>2
<1>6. \A m \in 1..Len(l) : l[m].turn = t => l[m].type \notin TurnEnd
  BY DEF Sound
<1>7. EndsOnce(r)
  <2> SUFFICES ASSUME NEW m \in 1..Len(r), r[m].type \in TurnEnd, NEW k \in (m + 1)..Len(r)
               PROVE  r[k].turn # r[m].turn
    BY DEF EndsOnce
  <2>1. k \in 1..Len(r) /\ k > m
    BY <1>2
  <2>2. m \in 1..Len(l)
    <3>1. ASSUME m \notin 1..Len(l) PROVE FALSE
      <4>1. m - Len(l) = Len(e)
        BY <1>2, <3>1 DEF EndsTurn
      <4> QED BY <1>2, <2>1, <4>1
    <3> QED BY <3>1
  <2>3. CASE k \in 1..Len(l)
    <3>1. k \in (m + 1)..Len(l) /\ r[k] = l[k] /\ r[m] = l[m]
      BY <1>2, <2>2, <2>3
    <3> QED BY <2>2, <3>1 DEF Sound, EndsOnce
  <2>4. CASE k \notin 1..Len(l)
    <3>1. r[k].turn = t
      BY <1>2, <2>1, <2>4 DEF EndsTurn
    <3> QED BY <1>2, <1>6, <2>2, <3>1
  <2> QED BY <2>3, <2>4
<1>8. ASSUME NEW m \in 1..Len(r), r[m].type \in {"model/call-started"} \cup ModelEnd
      PROVE  r[m].n <= c
  <2>1. m \in 1..Len(l)
    BY <1>2, <1>8 DEF NoCalls, CallStart, CallEnd
  <2> QED BY <1>2, <1>8, <2>1 DEF Sound
<1>9. Sound(r, t, c)
  BY <1>4, <1>5, <1>7, <1>8 DEF Sound
<1> QED BY <1>1, <1>5, <1>9

\* The next Turn starts.
LEMMA SoundStarts ==
  ASSUME NEW l \in Seq(Event), NEW t \in Nat, NEW c \in Nat, Sound(l, t, c), ~Active(l),
         \A m \in 1..Len(l) : l[m].turn # t + 1,
         NEW x, NEW y, <<x, y>> \in Seq(Event), x.type = "turn/started", y.type = "user/message",
         x.turn = t + 1, y.turn = t + 1
  PROVE  /\ Sound(l, t + 1, c) /\ Sound(l \o <<x, y>>, t + 1, c)
         /\ Active(l \o <<x, y>>) /\ Opens(l \o <<x, y>>) = {}
<1>1. PICK e : e = <<x, y>>
  OBVIOUS
<1>2. /\ e \in Seq(Event) /\ Len(e) = 2 /\ e[1] = x /\ e[2] = y
      /\ \A i \in 1..Len(e) : e[i] \in {x, y}
  BY <1>1, TwoOf
<1>3. PICK r : r = l \o e
  OBVIOUS
<1>4. /\ Len(l) \in Nat /\ Len(e) \in Nat /\ Len(r) = Len(l) + Len(e)
      /\ \A m \in 1..Len(l) : m \in 1..Len(r) /\ r[m] = l[m]
      /\ \A i \in 1..Len(e) : Len(l) + i \in 1..Len(r) /\ r[Len(l) + i] = e[i]
      /\ \A k \in 1..Len(r) :
           k \in 1..Len(l) \/ (k - Len(l) \in 1..Len(e) /\ r[k] = e[k - Len(l)])
  <2>1. e \in Seq(Event)
    BY <1>2
  <2> QED BY <1>3, <2>1, Joined
<1>5. Opens(l) = {}
  BY DEF Sound
<1>6. Sound(l, t + 1, c)
  BY <1>5 DEF Sound
<1>7. \A i \in 1..Len(e) : /\ e[i].type \notin CallStart \cup CallEnd
                           /\ e[i].type \notin TurnEnd
                           /\ e[i].type \notin {"model/call-started"} \cup ModelEnd
                           /\ e[i].turn = t + 1
  BY <1>2 DEF CallStart, CallEnd, TurnEnd, ModelEnd, ToolEnd
<1>8. CallsOnce(r) /\ Opens(r) = {}
  BY <1>2, <1>3, <1>5, <1>7, NoCallsKept DEF Sound, NoCalls
<1>9. Active(r)
  <2>1. /\ Len(l) + 1 \in 1..Len(r) /\ r[Len(l) + 1].type = "turn/started"
        /\ r[Len(l) + 2].type \notin {"turn/started"} \cup TurnEnd
    BY <1>2, <1>4 DEF TurnEnd
  <2>2. \A k \in ((Len(l) + 1) + 1)..Len(r) : k = Len(l) + 2
    BY <1>2, <1>4
  <2> QED BY <2>1, <2>2 DEF Active
<1>10. ASSUME NEW m \in 1..Len(r), m \notin 1..Len(l)
       PROVE  /\ r[m].type \notin TurnEnd /\ r[m].turn = t + 1
              /\ r[m].type \notin {"model/call-started"} \cup ModelEnd
  BY <1>4, <1>7, <1>10
<1>11. EndsOnce(r)
  <2> SUFFICES ASSUME NEW m \in 1..Len(r), r[m].type \in TurnEnd, NEW k \in (m + 1)..Len(r)
               PROVE  r[k].turn # r[m].turn
    BY DEF EndsOnce
  <2>1. k \in 1..Len(r) /\ m \in 1..Len(l) /\ r[m] = l[m]
    BY <1>4, <1>10
  <2>2. CASE k \in 1..Len(l)
    <3>1. k \in (m + 1)..Len(l) /\ r[k] = l[k]
      BY <1>4, <2>1, <2>2
    <3> QED BY <2>1, <3>1 DEF Sound, EndsOnce
  <2>3. CASE k \notin 1..Len(l)
    BY <1>10, <2>1, <2>3
  <2> QED BY <2>2, <2>3
<1>12. \A m \in 1..Len(r) : r[m].type \in {"model/call-started"} \cup ModelEnd => r[m].n <= c
  BY <1>4, <1>10 DEF Sound
<1>13. \A m \in 1..Len(r) : r[m].turn = t + 1 => r[m].type \notin TurnEnd
  BY <1>4, <1>10
<1>14. Sound(r, t + 1, c)
  BY <1>8, <1>9, <1>11, <1>12, <1>13 DEF Sound
<1> QED BY <1>1, <1>3, <1>6, <1>8, <1>9, <1>14

-----------------------------------------------------------------------------
(* CallsInv is inductive.                                                  *)

LEMMA OpenTyped ==
  ASSUME NEW p, NEW t, NEW s, NEW c, NEW n, NEW x \in OpenNow(p, t, s, c, n)
  PROVE  x.turn = t
BY Fields DEF OpenNow

Working == {"acquire", "loop", "assemble", "generate", "attempting", "attemptFailed",
            "callFailed", "answered", "tools", "catch"}

\* A step that appends a batch of the Turn and leaves the calls open that the
\* next place knows.
LEMMA CallsGo ==
  ASSUME RecordInv, CallsNow, NEW e, NEW from \in Working, NEW to \in Working, Batch(e, from, to),
         turn' = turn, calls' \in Nat, calls <= calls', InsideTurn(e, turn), ModelsTo(e, calls'),
         CallsOnce(log \o e),
         Opens(log \o e) = OpenNow(to, turn, step', calls', Len(tools'))
  PROVE  CallsNow'
<1>1. /\ log \in Seq(Event) /\ e \in Seq(Event) /\ calls \in Nat
      /\ log' = log /\ Held = log /\ Held' = log \o e /\ Where = from /\ Where' = to
  BY LoopTyped DEF RecordInv, LoopInv, Counting, Batch
<1>2. Sound(log, turn, calls) /\ Active(log)
  BY <1>1 DEF CallsNow, CallsAt, Working, Ended
<1>3. PICK d : d = calls'
  OBVIOUS
<1>4. d \in Nat /\ calls <= d /\ ModelsTo(e, d)
  BY <1>3
<1>5. Sound(log, turn, d)
  BY <1>1, <1>2, <1>4, SoundMore
<1>6. Sound(log \o e, turn, d) /\ Active(log \o e)
  BY <1>1, <1>2, <1>4, OpenTyped, SoundGoes
<1>7. CallsAt(to, log \o e, turn, step', calls', Len(tools'))
  BY <1>6 DEF CallsAt, Working
<1>8. /\ Sound(log, turn, calls)' /\ Sound(Held, turn, calls)'
      /\ CallsAt(Where, Held, turn, step, calls, Len(tools))'
  BY <1>1, <1>3, <1>5, <1>6, <1>7
<1> QED BY <1>8 DEF CallsNow

\* The same without starts and ends of calls.
LEMMA CallsQuiet ==
  ASSUME RecordInv, CallsNow, NEW e, NEW from \in Working, NEW to \in Working, Batch(e, from, to),
         turn' = turn, calls' = calls, InsideTurn(e, turn), NoCalls(e),
         OpenNow(from, turn, step, calls, Len(tools)) =
           OpenNow(to, turn, step', calls', Len(tools'))
  PROVE  CallsNow'
<1>1. log \in Seq(Event) /\ e \in Seq(Event) /\ calls \in Nat /\ Held = log /\ Where = from
  BY LoopTyped DEF RecordInv, LoopInv, Counting, Batch
<1>2. CallsOnce(log) /\ Opens(log) = OpenNow(from, turn, step, calls, Len(tools))
  BY <1>1 DEF CallsNow, CallsAt, Sound, Working, Ended
<1>3. CallsOnce(log \o e) /\ Opens(log \o e) = Opens(log)
  BY <1>1, <1>2, NoCallsKept
<1>4. ModelsTo(e, calls')
  BY DEF ModelsTo, NoCalls, ModelEvents, CallStart, CallEnd
<1>5. calls <= calls' /\ calls' \in Nat
  BY <1>1
<1> QED BY <1>2, <1>3, <1>4, <1>5, CallsGo

\* A step that appends nothing.
LEMMA CallsJump ==
  ASSUME CallsNow, NEW from \in Working, NEW to \in Working, Jump(from, to),
         turn' = turn, calls' = calls,
         OpenNow(from, turn, step, calls, Len(tools)) =
           OpenNow(to, turn, step', calls', Len(tools'))
  PROVE  CallsNow'
<1>1. log' = log /\ Held = log /\ Held' = log /\ Where = from /\ Where' = to
  BY DEF Jump
<1>2. /\ Sound(log, turn, calls) /\ Active(log)
      /\ Opens(log) = OpenNow(from, turn, step, calls, Len(tools))
  BY <1>1 DEF CallsNow, CallsAt, Working, Ended
<1>3. CallsAt(to, log, turn, step', calls', Len(tools'))
  BY <1>2 DEF CallsAt, Working
<1>4. /\ Sound(log, turn, calls)' /\ Sound(Held, turn, calls)'
      /\ CallsAt(Where, Held, turn, step, calls, Len(tools))'
  BY <1>1, <1>2, <1>3
<1> QED BY <1>4 DEF CallsNow

\* A step that ends the Turn.
LEMMA CallsEnd ==
  ASSUME RecordInv, CallsNow, NEW e, NEW from \in Working, Batch(e, from, "over"),
         turn' = turn, calls' = calls, NoCalls(e), EndsTurn(e, turn),
         OpenNow(from, turn, step, calls, Len(tools)) = {}
  PROVE  CallsNow'
<1>1. /\ log \in Seq(Event) /\ e \in Seq(Event) /\ calls \in Nat
      /\ log' = log /\ Held = log /\ Held' = log \o e /\ Where = from /\ Where' = "over"
  BY LoopTyped DEF RecordInv, LoopInv, Counting, Batch
<1>2. Sound(log, turn, calls) /\ Active(log) /\ Opens(log) = {}
  BY <1>1 DEF CallsNow, CallsAt, Working, Ended
<1>3. Sound(log \o e, turn, calls) /\ ~Active(log \o e)
  BY <1>1, <1>2, SoundEnds
<1>4. CallsAt("over", log \o e, turn, step', calls', Len(tools'))
  BY <1>3 DEF CallsAt, Ended
<1>5. /\ Sound(log, turn, calls)' /\ Sound(Held, turn, calls)'
      /\ CallsAt(Where, Held, turn, step, calls, Len(tools))'
  BY <1>1, <1>2, <1>3, <1>4
<1> QED BY <1>5 DEF CallsNow

\* The batches of one event.
LEMMA OneIsQuiet ==
  ASSUME NEW s, NEW type, NEW n, NEW t
  PROVE  /\ type \notin CallStart \cup CallEnd => NoCalls(<<EvOf(t, s, type, n)>>)
         /\ type \notin {"turn/started"} \cup TurnEnd => InsideTurn(<<EvOf(t, s, type, n)>>, t)
         /\ type \in TurnEnd => EndsTurn(<<EvOf(t, s, type, n)>>, t)
<1>1. PICK x : x = EvOf(t, s, type, n)
  OBVIOUS
<1>2. x.type = type /\ x.turn = t
  BY <1>1, Fields
<1>3. PICK e : e = <<x>>
  OBVIOUS
<1>4. Len(e) = 1 /\ e[1] = x /\ \A i \in 1..Len(e) : e[i] = x
  BY <1>3, OneOf
<1>5. type \in TurnEnd => type # "turn/started"
  BY DEF TurnEnd
<1>6. /\ type \notin CallStart \cup CallEnd => NoCalls(e)
      /\ type \notin {"turn/started"} \cup TurnEnd => InsideTurn(e, t)
  BY <1>2, <1>4 DEF NoCalls, InsideTurn
<1>7. type \in TurnEnd => EndsTurn(e, t)
  BY <1>2, <1>4, <1>5 DEF EndsTurn
<1> QED BY <1>1, <1>3, <1>6, <1>7

\* None of the events that only mark a point of the Turn is about a call.
Marks == {"step/started", "step/completed", "model/attempt-started", "model/attempt-failed",
          "history/compacted", "assistant/message"}

LEMMA MarksAreQuiet ==
  /\ \A type \in Marks : type \notin CallStart \cup CallEnd /\ type \notin {"turn/started"} \cup TurnEnd
  /\ \A type \in TurnEnd : type \notin CallStart \cup CallEnd
  /\ \A type \in CallStart \cup CallEnd : type \notin {"turn/started"} \cup TurnEnd
BY DEF Marks, CallStart, CallEnd, TurnEnd, ModelEnd, ToolEnd

LEMMA CallsOneEnds ==
  ASSUME RecordInv, CallsNow, NEW s, NEW type \in TurnEnd, NEW n, NEW from \in Working,
         Batch(<<EvOf(turn, s, type, n)>>, from, "over"), turn' = turn, calls' = calls,
         OpenNow(from, turn, step, calls, Len(tools)) = {}
  PROVE  CallsNow'
<1>1. PICK e : e = <<EvOf(turn, s, type, n)>>
  OBVIOUS
<1>2. NoCalls(e) /\ EndsTurn(e, turn) /\ Batch(e, from, "over")
  BY <1>1, OneIsQuiet, MarksAreQuiet
<1> QED BY <1>2, CallsEnd

LEMMA CallsOneMark ==
  ASSUME RecordInv, CallsNow, NEW s, NEW type \in Marks, NEW n, NEW from \in Working,
         NEW to \in Working, Batch(<<EvOf(turn, s, type, n)>>, from, to),
         turn' = turn, calls' = calls,
         OpenNow(from, turn, step, calls, Len(tools)) =
           OpenNow(to, turn, step', calls', Len(tools'))
  PROVE  CallsNow'
<1>1. PICK e : e = <<EvOf(turn, s, type, n)>>
  OBVIOUS
<1>2. NoCalls(e) /\ InsideTurn(e, turn) /\ Batch(e, from, to)
  BY <1>1, OneIsQuiet, MarksAreQuiet
<1> QED BY <1>2, CallsQuiet

LEMMA CallsStart ==
  ASSUME RecordInv, CallsNow, StartTurn
  PROVE  CallsNow'
<1>1. PICK x : x = EvOf(turn + 1, 0, "turn/started", 0)
  OBVIOUS
<1>2. PICK y : y = EvOf(turn + 1, 0, "user/message", 0)
  OBVIOUS
<1>3. /\ Batch(<<x, y>>, pc, "acquire") /\ turn' = turn + 1 /\ calls' = calls
      /\ pc \in {"idle", "over"} /\ turn \in Nat /\ calls \in Nat
  BY <1>1, <1>2, StartMoves, LoopTyped DEF RecordInv, LoopInv, Counting
<1>4. /\ x.type = "turn/started" /\ x.turn = turn + 1
      /\ y.type = "user/message" /\ y.turn = turn + 1
  BY <1>1, <1>2, Fields
<1>5. /\ log \in Seq(Event) /\ <<x, y>> \in Seq(Event) /\ log' = log /\ Held = log
      /\ Held' = log \o <<x, y>> /\ Where = pc /\ Where' = "acquire"
  BY <1>3, LoopTyped DEF RecordInv, Batch
<1>6. Sound(log, turn, calls) /\ ~Active(log)
  BY <1>3, <1>5 DEF CallsNow, CallsAt
<1>7. \A m \in 1..Len(log) : log[m].turn # turn + 1
  <2>1. \A m \in 1..Len(log) : log[m].turn <= turn /\ log[m].turn \in Nat
    BY <1>5, RecordTyped DEF RecordInv, Base
  <2> QED BY <1>3, <2>1
<1>8. PICK r : r = log \o <<x, y>>
  OBVIOUS
<1>9. /\ Sound(log, turn + 1, calls) /\ Sound(r, turn + 1, calls)
      /\ Active(r) /\ Opens(r) = {}
  BY <1>3, <1>4, <1>5, <1>6, <1>7, <1>8, SoundStarts
<1>10. CallsAt("acquire", r, turn + 1, step', calls', Len(tools'))
  BY <1>9 DEF CallsAt, OpenNow
<1>11. /\ Sound(log, turn, calls)' /\ Sound(Held, turn, calls)'
       /\ CallsAt(Where, Held, turn, step, calls, Len(tools))'
  BY <1>3, <1>5, <1>8, <1>9, <1>10
<1> QED BY <1>11 DEF CallsNow

LEMMA CallsAcquire ==
  ASSUME RecordInv, CallsNow, Acquire
  PROVE  CallsNow'
<1>1. UNCHANGED <<turn, step, calls, Len(tools)>>
  BY AcquireMoves DEF RecordInv, counters
<1>2. PICK to \in {"loop", "catch"} : Jump("acquire", to)
  BY AcquireMoves DEF RecordInv
<1>3. OpenNow("acquire", turn, step, calls, Len(tools)) = OpenNow(to, turn, step', calls', Len(tools'))
  BY DEF OpenNow
<1> QED BY <1>1, <1>2, <1>3, CallsJump DEF Working

LEMMA CallsEnter ==
  ASSUME RecordInv, CallsNow, EnterStep
  PROVE  CallsNow'
<1>1. UNCHANGED <<turn, calls, Len(tools)>>
  BY EnterMoves DEF RecordInv
<1>2. CASE Batch(<<EvOf(turn, step, "turn/exhausted", 0)>>, "loop", "over")
  <2>1. OpenNow("loop", turn, step, calls, Len(tools)) = {}
    BY DEF OpenNow
  <2> QED BY <1>1, <1>2, <2>1, CallsOneEnds DEF Working, TurnEnd
<1>3. CASE Batch(<<EvOf(turn, step + 1, "step/started", 0)>>, "loop", "assemble")
  <2>1. OpenNow("loop", turn, step, calls, Len(tools))
          = OpenNow("assemble", turn, step', calls', Len(tools'))
    BY DEF OpenNow
  <2> QED BY <1>1, <1>3, <2>1, CallsOneMark DEF Working, Marks
<1> QED BY <1>2, <1>3, EnterMoves DEF RecordInv

LEMMA CallsAssemble ==
  ASSUME RecordInv, CallsNow, Assemble
  PROVE  CallsNow'
<1>1. UNCHANGED <<turn, step, Len(tools)>>
  BY AssembleMoves DEF RecordInv
<1>2. CASE Jump("assemble", "catch") /\ UNCHANGED calls
  <2>1. OpenNow("assemble", turn, step, calls, Len(tools))
          = OpenNow("catch", turn, step', calls', Len(tools'))
    BY DEF OpenNow
  <2> QED BY <1>1, <1>2, <2>1, CallsJump DEF Working
<1>3. CASE Batch(<<EvOf(turn, step, "turn/exhausted", 0)>>, "assemble", "over") /\ UNCHANGED calls
  <2>1. OpenNow("assemble", turn, step, calls, Len(tools)) = {}
    BY DEF OpenNow
  <2> QED BY <1>1, <1>3, <2>1, CallsOneEnds DEF Working, TurnEnd
<1>4. CASE /\ Batch(<<EvOf(turn, step, "model/call-started", calls + 1)>>, "assemble", "generate")
           /\ calls' = calls + 1
  <2>1. PICK x : x = EvOf(turn, step, "model/call-started", calls + 1)
    OBVIOUS
  <2>2. x.type = "model/call-started" /\ x.n = calls + 1 /\ x.turn = turn
    BY <2>1, Fields
  <2>3. PICK e : e = <<x>>
    OBVIOUS
  <2>4. Len(e) = 1 /\ \A i \in 1..Len(e) : i = 1 /\ e[i] = x
    BY <2>3, OneOf
  <2>5. /\ Batch(e, "assemble", "generate") /\ log \in Seq(Event) /\ e \in Seq(Event)
        /\ calls \in Nat /\ Held = log /\ Where = "assemble"
    BY <1>4, <2>1, <2>3, LoopTyped DEF RecordInv, LoopInv, Counting, Batch
  <2>6. Sound(log, turn, calls) /\ Opens(log) = {}
    BY <2>5 DEF CallsNow, CallsAt, OpenNow, Ended
  <2>7. ASSUME NEW m \in 1..Len(log), log[m].type \in CallStart
        PROVE  CallOf(log[m]) # CallOf(x)
    <3>1. CASE log[m].type \in ModelEvents
      <4>1. log[m].n <= calls /\ log[m].n \in Nat
        BY <2>5, <2>6, <3>1, RecordTyped DEF Sound, ModelEvents
      <4>2. log[m].n # x.n
        BY <2>2, <2>5, <4>1
      <4> QED BY <2>2, <3>1, <4>2, SameCall DEF ModelEvents
    <3>2. CASE log[m].type \notin ModelEvents
      BY <2>2, <3>2, SameCall DEF ModelEvents
    <3> QED BY <3>1, <3>2
  <2>8. CallsOnce(log \o e) /\ Opens(log \o e) = Opens(log) \cup {e[i] : i \in 1..Len(e)}
    <3>1. \A i \in 1..Len(e) : e[i].type \in CallStart
      BY <2>2, <2>4 DEF CallStart
    <3>2. \A i \in 1..Len(e) : \A m \in 1..Len(log) :
            log[m].type \in CallStart => CallOf(log[m]) # CallOf(e[i])
      BY <2>4, <2>7
    <3>3. \A i, j \in 1..Len(e) : CallOf(e[i]) = CallOf(e[j]) => i = j
      BY <2>4
    <3> QED BY <2>5, <2>6, <3>1, <3>2, <3>3, StartsKept DEF Sound
  <2>9. Opens(log \o e) = OpenNow("generate", turn, step', calls', Len(tools'))
    <3>1. {e[i] : i \in 1..Len(e)} = {x}
      BY <2>4
    <3>2. OpenNow("generate", turn, step', calls', Len(tools')) = {x}
      BY <1>1, <1>4, <2>1 DEF OpenNow
    <3> QED BY <2>6, <2>8, <3>1, <3>2
  <2>10. InsideTurn(e, turn)
    BY <2>2, <2>4 DEF InsideTurn, TurnEnd
  <2>11. ModelsTo(e, calls') /\ calls' \in Nat /\ calls <= calls'
    BY <1>4, <2>2, <2>4, <2>5 DEF ModelsTo
  <2> QED BY <1>1, <2>5, <2>8, <2>9, <2>10, <2>11, CallsGo DEF Working
<1> QED BY <1>2, <1>3, <1>4, AssembleMoves DEF RecordInv

LEMMA CallsAttempt ==
  ASSUME RecordInv, CallsNow, StartAttempt
  PROVE  CallsNow'
<1>1. UNCHANGED <<turn, step, calls, Len(tools)>>
  BY AttemptMoves DEF RecordInv
<1>2. Batch(<<EvOf(turn, step, "model/attempt-started", calls)>>, "generate", "attempting")
  BY AttemptMoves DEF RecordInv
<1>3. OpenNow("generate", turn, step, calls, Len(tools))
        = OpenNow("attempting", turn, step', calls', Len(tools'))
  BY <1>1 DEF OpenNow
<1> QED BY <1>1, <1>2, <1>3, CallsOneMark DEF Working, Marks

LEMMA CallsAttemptFails ==
  ASSUME RecordInv, CallsNow, AttemptFails
  PROVE  CallsNow'
<1>1. UNCHANGED <<turn, step, calls, Len(tools)>>
  BY AttemptFailsMoves DEF RecordInv, counters
<1>2. Batch(<<EvOf(turn, step, "model/attempt-failed", calls)>>, "attempting", "attemptFailed")
  BY AttemptFailsMoves DEF RecordInv
<1>3. OpenNow("attempting", turn, step, calls, Len(tools))
        = OpenNow("attemptFailed", turn, step', calls', Len(tools'))
  BY <1>1 DEF OpenNow
<1> QED BY <1>1, <1>2, <1>3, CallsOneMark DEF Working, Marks

LEMMA CallsRetry ==
  ASSUME RecordInv, CallsNow, Retry
  PROVE  CallsNow'
<1>1. UNCHANGED <<turn, step, calls, Len(tools)>>
  BY RetryMoves DEF RecordInv, counters
<1>2. PICK to \in {"generate", "callFailed"} : Jump("attemptFailed", to)
  BY RetryMoves DEF RecordInv
<1>3. OpenNow("attemptFailed", turn, step, calls, Len(tools))
        = OpenNow(to, turn, step', calls', Len(tools'))
  BY <1>1 DEF OpenNow
<1> QED BY <1>1, <1>2, <1>3, CallsJump DEF Working

LEMMA CallsCatch ==
  ASSUME RecordInv, CallsNow, Catch
  PROVE  CallsNow'
<1>1. UNCHANGED <<turn, step, calls, Len(tools)>>
  BY CatchMoves DEF RecordInv, counters
<1>2. PICK type \in {"turn/cancelled", "turn/failed"} :
        Batch(<<EvOf(turn, step, type, 0)>>, "catch", "over")
  BY CatchMoves DEF RecordInv
<1>3. OpenNow("catch", turn, step, calls, Len(tools)) = {}
  BY DEF OpenNow
<1> QED BY <1>1, <1>2, <1>3, CallsOneEnds DEF Working, TurnEnd

\* A batch that ends the open calls, all of them.
LEMMA CallsClose ==
  ASSUME RecordInv, CallsNow, NEW e, NEW from \in Working, NEW to \in Working, Batch(e, from, to),
         turn' = turn, calls' = calls, InsideTurn(e, turn), ModelsTo(e, calls),
         \A i \in 1..Len(e) : e[i].type \notin CallStart,
         \A i \in 1..Len(e) : e[i].type \in CallEnd =>
           \E x \in OpenNow(from, turn, step, calls, Len(tools)) : CallOf(x) = CallOf(e[i]),
         \A i, j \in 1..Len(e) : e[i].type \in CallEnd /\ e[j].type \in CallEnd
                                 /\ CallOf(e[i]) = CallOf(e[j]) => i = j,
         \A x \in OpenNow(from, turn, step, calls, Len(tools)) :
           \E i \in 1..Len(e) : e[i].type \in CallEnd /\ CallOf(e[i]) = CallOf(x),
         OpenNow(to, turn, step', calls', Len(tools')) = {}
  PROVE  CallsNow'
<1>1. log \in Seq(Event) /\ e \in Seq(Event) /\ calls \in Nat /\ Held = log /\ Where = from
  BY LoopTyped DEF RecordInv, LoopInv, Counting, Batch
<1>2. CallsOnce(log) /\ Opens(log) = OpenNow(from, turn, step, calls, Len(tools))
  BY <1>1 DEF CallsNow, CallsAt, Sound, Working, Ended
<1>3. /\ CallsOnce(log \o e)
      /\ Opens(log \o e) = {x \in Opens(log) : \A i \in 1..Len(e) : e[i].type \in CallEnd =>
                                                 CallOf(e[i]) # CallOf(x)}
  BY <1>1, <1>2, EndsKept
<1>4. {x \in Opens(log) : \A i \in 1..Len(e) : e[i].type \in CallEnd => CallOf(e[i]) # CallOf(x)} = {}
  BY <1>2
<1>5. Opens(log \o e) = OpenNow(to, turn, step', calls', Len(tools'))
  BY <1>3, <1>4
<1>6. calls <= calls' /\ calls' \in Nat /\ ModelsTo(e, calls')
  BY <1>1
<1> QED BY <1>3, <1>5, <1>6, CallsGo

\* The end of the ModelCall, which a mark may follow.
LEMMA CallsModelEnds ==
  ASSUME RecordInv, CallsNow, NEW e,
         NEW from \in {"attempting", "callFailed"}, NEW to \in {"assemble", "answered", "catch"},
         Batch(e, from, to), turn' = turn, step' = step, calls' = calls,
         NEW type \in ModelEnd, Len(e) > 0, e[1] = EvOf(turn, step, type, calls),
         \A i \in 1..Len(e) : i # 1 => e[i].turn = turn /\ e[i].type \in Marks
  PROVE  CallsNow'
<1>1. PICK x : x = EvOf(turn, step, "model/call-started", calls)
  OBVIOUS
<1>2. /\ x.type = "model/call-started" /\ x.n = calls
      /\ e[1].type \in ModelEnd /\ e[1].n = calls /\ e[1].turn = turn
  BY <1>1, Fields
<1>3. OpenNow(from, turn, step, calls, Len(tools)) = {x}
  BY <1>1 DEF OpenNow
<1>4. CallOf(x) = CallOf(e[1])
  BY <1>2, SameCall DEF ModelEvents
<1>5. e \in Seq(Event) /\ calls \in Nat
  BY DEF RecordInv, LoopInv, Counting, Batch
<1>6. 1 \in 1..Len(e)
  BY <1>5, LenProperties
<1>7. e[1].type \in CallEnd /\ e[1].type \notin CallStart /\ e[1].type \notin {"turn/started"} \cup TurnEnd
  BY <1>2, MarksAreQuiet, StartsAreNotEnds DEF CallEnd
<1>8. \A i \in 1..Len(e) : e[i].type \in CallEnd => i = 1
  BY MarksAreQuiet
<1>9. \A i \in 1..Len(e) : e[i].type \notin CallStart
  BY <1>7, MarksAreQuiet
<1>10. InsideTurn(e, turn)
  BY <1>2, <1>7, MarksAreQuiet DEF InsideTurn
<1>11. ModelsTo(e, calls)
  <2>1. ASSUME NEW i \in 1..Len(e), e[i].type \in ModelEvents PROVE i = 1
    BY <1>8, <1>9, <2>1 DEF ModelEvents, CallStart, CallEnd
  <2> QED BY <1>2, <1>5, <2>1 DEF ModelsTo
<1>12. OpenNow(to, turn, step', calls', Len(tools')) = {}
  BY DEF OpenNow
<1>13. from \in Working /\ to \in Working
  BY DEF Working
<1>14. \A i \in 1..Len(e) : e[i].type \in CallEnd =>
         \E y \in OpenNow(from, turn, step, calls, Len(tools)) : CallOf(y) = CallOf(e[i])
  BY <1>3, <1>4, <1>8
<1>15. \A y \in OpenNow(from, turn, step, calls, Len(tools)) :
         \E i \in 1..Len(e) : e[i].type \in CallEnd /\ CallOf(e[i]) = CallOf(y)
  BY <1>3, <1>4, <1>6, <1>7
<1>16. \A i, j \in 1..Len(e) : e[i].type \in CallEnd /\ e[j].type \in CallEnd
                               /\ CallOf(e[i]) = CallOf(e[j]) => i = j
  BY <1>8
<1> QED BY <1>9, <1>10, <1>11, <1>12, <1>13, <1>14, <1>15, <1>16, CallsClose

LEMMA CallsCallFails ==
  ASSUME RecordInv, CallsNow, CallFails
  PROVE  CallsNow'
<1>1. UNCHANGED <<turn, step, calls, Len(tools)>>
  BY CallFailsMoves DEF RecordInv, counters
<1>2. PICK x : x = EvOf(turn, step, "model/call-failed", calls)
  OBVIOUS
<1>3. PICK e : e = <<x>>
  OBVIOUS
<1>4. Batch(e, "callFailed", "catch")
  BY <1>2, <1>3, CallFailsMoves DEF RecordInv
<1>5. Len(e) > 0 /\ e[1] = x /\ \A i \in 1..Len(e) : i = 1
  BY <1>3, OneOf
<1>6. "model/call-failed" \in ModelEnd
  BY DEF ModelEnd
<1> QED BY <1>1, <1>2, <1>4, <1>5, <1>6, CallsModelEnds

LEMMA CallsCompaction ==
  ASSUME RecordInv, CallsNow, CompactionAnswered
  PROVE  CallsNow'
<1>1. UNCHANGED <<turn, step, calls, Len(tools)>>
  BY CompactionMoves DEF RecordInv, counters
<1>2. CASE Jump("attempting", "callFailed")
  <2>1. OpenNow("attempting", turn, step, calls, Len(tools))
          = OpenNow("callFailed", turn, step', calls', Len(tools'))
    BY <1>1 DEF OpenNow
  <2> QED BY <1>1, <1>2, <2>1, CallsJump DEF Working
<1>3. CASE Batch(<<EvOf(turn, step, "model/call-completed", calls),
                   EvOf(turn, step, "history/compacted", calls)>>, "attempting", "assemble")
  <2>1. PICK x : x = EvOf(turn, step, "model/call-completed", calls)
    OBVIOUS
  <2>2. PICK y : y = EvOf(turn, step, "history/compacted", calls)
    OBVIOUS
  <2>3. PICK e : e = <<x, y>>
    OBVIOUS
  <2>4. Batch(e, "attempting", "assemble") /\ y.turn = turn /\ y.type \in Marks
    BY <1>3, <2>1, <2>2, <2>3, Fields DEF Marks
  <2>5. Len(e) > 0 /\ e[1] = x /\ \A i \in 1..Len(e) : i # 1 => e[i] = y
    BY <2>3, TwoOf
  <2>6. "model/call-completed" \in ModelEnd
    BY DEF ModelEnd
  <2> QED BY <1>1, <2>1, <2>4, <2>5, <2>6, CallsModelEnds
<1> QED BY <1>2, <1>3, CompactionMoves DEF RecordInv

LEMMA CallsAnswered ==
  ASSUME RecordInv, CallsNow, Answered
  PROVE  CallsNow'
<1>1. UNCHANGED <<turn, step, calls>>
  BY AnsweredMoves DEF RecordInv
<1>2. PICK x : x = EvOf(turn, step, "model/call-completed", calls)
  OBVIOUS
<1>3. PICK y : y = EvOf(turn, step, "assistant/message", Len(tools'))
  OBVIOUS
<1>4. PICK e : e = <<x, y>>
  OBVIOUS
<1>5. Batch(e, "attempting", "answered") /\ y.turn = turn /\ y.type \in Marks
  BY <1>2, <1>3, <1>4, AnsweredMoves, Fields DEF RecordInv, Marks
<1>6. Len(e) > 0 /\ e[1] = x /\ \A i \in 1..Len(e) : i # 1 => e[i] = y
  BY <1>4, TwoOf
<1>7. "model/call-completed" \in ModelEnd
  BY DEF ModelEnd
<1> QED BY <1>1, <1>2, <1>5, <1>6, <1>7, CallsModelEnds

LEMMA CallsDispatch ==
  ASSUME RecordInv, CallsNow, Dispatch
  PROVE  CallsNow'
<1>1. PICK n : n = Len(tools)
  OBVIOUS
<1>2. UNCHANGED <<turn, step, calls, Len(tools)>>
  BY DispatchMoves DEF RecordInv
<1>3. OpenNow("answered", turn, step, calls, Len(tools)) = {}
  BY DEF OpenNow
<1>4. CASE Batch(<<EvOf(turn, step, "step/completed", 0), EvOf(turn, step, "turn/completed", 0)>>,
                 "answered", "over")
  <2>1. PICK x : x = EvOf(turn, step, "step/completed", 0)
    OBVIOUS
  <2>2. PICK y : y = EvOf(turn, step, "turn/completed", 0)
    OBVIOUS
  <2>3. PICK e : e = <<x, y>>
    OBVIOUS
  <2>4. /\ Batch(e, "answered", "over") /\ x.turn = turn /\ y.turn = turn
        /\ x.type = "step/completed" /\ y.type = "turn/completed"
    BY <1>4, <2>1, <2>2, <2>3, Fields
  <2>5. /\ Len(e) = 2 /\ e[Len(e)] = y /\ \A i \in 1..Len(e) : e[i] \in {x, y}
        /\ \A i \in 1..Len(e) : i # Len(e) => e[i] = x
    BY <2>3, TwoOf
  <2>6. NoCalls(e)
    BY <2>4, <2>5 DEF NoCalls, CallStart, CallEnd, ModelEnd, ToolEnd
  <2>7. EndsTurn(e, turn)
    BY <2>4, <2>5 DEF EndsTurn, TurnEnd
  <2> QED BY <1>2, <1>3, <2>4, <2>6, <2>7, CallsEnd DEF Working
<1>5. CASE Batch(<<EvOf(turn, step, "turn/exhausted", 0)>>, "answered", "over")
  BY <1>2, <1>3, <1>5, CallsOneEnds DEF Working, TurnEnd
<1>6. CASE Batch([i \in 1..n |-> EvOf(turn, step, "tool/call-started", i)], "answered", "tools")
  <2>1. PICK e : e = [i \in 1..n |-> EvOf(turn, step, "tool/call-started", i)]
    OBVIOUS
  <2>2. /\ Batch(e, "answered", "tools") /\ log \in Seq(Event) /\ e \in Seq(Event)
        /\ calls \in Nat /\ n \in Nat /\ step \in Nat /\ Held = log /\ Where = "answered"
    BY <1>1, <1>6, <2>1, LoopTyped, TurnTyped DEF RecordInv, LoopInv, Counting, Batch, Dispatch
  <2>3. Len(e) = n /\ \A i \in 1..n : e[i] = EvOf(turn, step, "tool/call-started", i)
    BY <2>1, <2>2, LenProperties
  <2>4. \A i \in 1..Len(e) : /\ e[i].type = "tool/call-started" /\ e[i].turn = turn
                             /\ e[i].step = step /\ e[i].n = i
    BY <2>3, Fields
  <2>5. CallsOnce(log) /\ Opens(log) = {}
    BY <1>3, <2>2 DEF CallsNow, CallsAt, Sound, Ended
  <2>6. OfStep(log, "tool/call-started", turn, step) = {}
    BY <1>1, <2>2, NoneStarted DEF RecordInv, RecordAt
  <2>7. ASSUME NEW i \in 1..Len(e), NEW m \in 1..Len(log), log[m].type \in CallStart,
               CallOf(log[m]) = CallOf(e[i])
        PROVE  FALSE
    <3>1. e[i].type \notin ModelEvents
      BY <2>4 DEF ModelEvents, ModelEnd
    <3>2. log[m].type \notin ModelEvents /\ log[m].turn = turn /\ log[m].step = step
      BY <2>4, <2>7, <3>1, SameCall
    <3>3. log[m].type = "tool/call-started"
      BY <2>7, <3>2 DEF CallStart, ModelEvents
    <3>4. m \in OfStep(log, "tool/call-started", turn, step)
      BY <3>2, <3>3 DEF OfStep, OfTurn
    <3> QED BY <2>6, <3>4
  <2>8. ASSUME NEW i \in 1..Len(e), NEW j \in 1..Len(e), CallOf(e[i]) = CallOf(e[j])
        PROVE  i = j
    BY <2>4, <2>8, SameCall
  <2>9. CallsOnce(log \o e) /\ Opens(log \o e) = Opens(log) \cup {e[i] : i \in 1..Len(e)}
    <3>1. \A i \in 1..Len(e) : e[i].type \in CallStart
      BY <2>4 DEF CallStart
    <3> QED BY <2>2, <2>5, <2>7, <2>8, <3>1, StartsKept
  <2>10. Opens(log \o e) = OpenNow("tools", turn, step', calls', Len(tools'))
    <3>1. {e[i] : i \in 1..Len(e)} = {EvOf(turn, step, "tool/call-started", i) : i \in 1..n}
      BY <2>3
    <3>2. OpenNow("tools", turn, step', calls', Len(tools'))
            = {EvOf(turn, step, "tool/call-started", i) : i \in 1..n}
      BY <1>1, <1>2 DEF OpenNow
    <3> QED BY <2>5, <2>9, <3>1, <3>2
  <2>11. InsideTurn(e, turn)
    BY <2>4 DEF InsideTurn, TurnEnd
  <2>12. ModelsTo(e, calls')
    BY <2>4 DEF ModelsTo, ModelEvents, ModelEnd
  <2>13. calls' \in Nat /\ calls <= calls'
    BY <1>2, <2>2
  <2> QED BY <1>2, <2>2, <2>9, <2>10, <2>11, <2>12, <2>13, CallsGo DEF Working
<1> QED BY <1>1, <1>4, <1>5, <1>6, DispatchMoves DEF RecordInv

\* The ends of the ToolCalls, which a mark may follow.
LEMMA CallsToolsEnd ==
  ASSUME RecordInv, CallsNow, NEW e, NEW to \in {"loop", "catch"}, Batch(e, "tools", to),
         turn' = turn, step' = step, calls' = calls,
         NEW n \in Nat, n = Len(tools), n <= Len(e),
         \A i \in 1..n : /\ e[i].turn = turn /\ e[i].type \in ToolEnd
                         /\ e[i].step = step /\ e[i].n = i,
         \A i \in 1..Len(e) : i > n => e[i].turn = turn /\ e[i].type \in Marks
  PROVE  CallsNow'
<1>1. e \in Seq(Event) /\ Len(e) \in Nat
  BY LenProperties DEF Batch
<1>2. \A i \in 1..n : i \in 1..Len(e)
  BY <1>1
<1>3. \A i \in 1..Len(e) : i \in 1..n \/ (e[i].turn = turn /\ e[i].type \in Marks)
  BY <1>1
<1>4. \A type \in ToolEnd : /\ type \in CallEnd /\ type \notin CallStart /\ type \notin ModelEvents
                            /\ type \notin {"turn/started"} \cup TurnEnd
  BY DEF CallEnd, CallStart, ModelEvents, ModelEnd, ToolEnd, TurnEnd
<1>5. \A i \in 1..Len(e) : e[i].type \in CallEnd => i \in 1..n
  BY <1>3, MarksAreQuiet
<1>6. \A i \in 1..Len(e) : e[i].type \notin CallStart
  BY <1>3, <1>4, MarksAreQuiet
<1>7. InsideTurn(e, turn)
  BY <1>3, <1>4, MarksAreQuiet DEF InsideTurn
<1>8. ModelsTo(e, calls)
  BY <1>3, <1>4 DEF ModelsTo, Marks, ModelEvents, ModelEnd
<1>9. PICK O : O = OpenNow("tools", turn, step, calls, Len(tools))
  OBVIOUS
<1>10. O = {EvOf(turn, step, "tool/call-started", i) : i \in 1..n}
  BY <1>9 DEF OpenNow
<1>11. ASSUME NEW i \in 1..n
       PROVE  CallOf(EvOf(turn, step, "tool/call-started", i)) = CallOf(e[i])
  <2>1. PICK x : x = EvOf(turn, step, "tool/call-started", i)
    OBVIOUS
  <2>2. x.type = "tool/call-started" /\ x.turn = turn /\ x.step = step /\ x.n = i
    BY <2>1, Fields
  <2>3. x.type \notin ModelEvents /\ e[i].type \notin ModelEvents
    BY <1>4, <2>2 DEF ModelEvents, ModelEnd
  <2>4. CallOf(x) = CallOf(e[i])
    BY <2>2, <2>3, SameCall
  <2> QED BY <2>1, <2>4
<1>12. \A i \in 1..Len(e) : e[i].type \in CallEnd =>
         \E x \in O : CallOf(x) = CallOf(e[i])
  BY <1>5, <1>10, <1>11
<1>13. \A x \in O : \E i \in 1..Len(e) : e[i].type \in CallEnd /\ CallOf(e[i]) = CallOf(x)
  BY <1>2, <1>4, <1>10, <1>11
<1>14. ASSUME NEW i \in 1..Len(e), NEW j \in 1..Len(e), e[i].type \in CallEnd, e[j].type \in CallEnd,
              CallOf(e[i]) = CallOf(e[j])
       PROVE  i = j
  <2>1. i \in 1..n /\ j \in 1..n
    BY <1>5, <1>14
  <2>2. e[i].type \notin ModelEvents /\ e[i].n = i /\ e[j].n = j
    BY <1>4, <2>1
  <2> QED BY <1>14, <2>2, SameCall
<1>15. OpenNow(to, turn, step', calls', Len(tools')) = {}
  BY DEF OpenNow
<1> QED BY <1>6, <1>7, <1>8, <1>9, <1>12, <1>13, <1>14, <1>15, CallsClose DEF Working

LEMMA CallsSettle ==
  ASSUME RecordInv, CallsNow, ToolsSettle
  PROVE  CallsNow'
<1>1. UNCHANGED <<turn, step, calls, Len(tools)>>
  BY SettleMoves DEF RecordInv, counters
<1>2. PICK n : n = Len(tools)
  OBVIOUS
<1>3. PICK last : last = EvOf(turn, step, "step/completed", 0)
  OBVIOUS
<1>4. n \in Nat /\ last.turn = turn /\ last.type \in Marks
  BY <1>2, <1>3, LoopTyped, Fields DEF RecordInv, Marks
<1>5. PICK e \in Seq(Event) :
        /\ Len(e) = n
        /\ \A i \in 1..n : \E type \in ToolEnd : e[i] = EvOf(turn, step, type, i)
        /\ \/ Batch(e, "tools", "catch")
           \/ Batch(Append(e, last), "tools", "loop")
  BY <1>2, <1>3, SettleMoves DEF RecordInv
<1>6. \A i \in 1..n : /\ e[i].turn = turn /\ e[i].type \in ToolEnd
                      /\ e[i].step = step /\ e[i].n = i
  BY <1>5, Fields
<1>7. CASE Batch(e, "tools", "catch")
  <2>1. \A i \in 1..Len(e) : ~(i > n)
    BY <1>4, <1>5
  <2>2. n <= Len(e)
    BY <1>4, <1>5
  <2> QED BY <1>1, <1>2, <1>4, <1>6, <1>7, <2>1, <2>2, CallsToolsEnd
<1>8. CASE Batch(Append(e, last), "tools", "loop")
  <2>1. PICK b : b = Append(e, last)
    OBVIOUS
  <2>2. Batch(b, "tools", "loop")
    BY <1>8, <2>1
  <2>3. Len(b) = n + 1 /\ b[n + 1] = last /\ \A i \in 1..n : b[i] = e[i]
    BY <1>5, <2>1, AppendProperties
  <2>4. n <= Len(b) /\ \A i \in 1..Len(b) : i > n => i = n + 1
    BY <1>4, <2>3
  <2>5. \A i \in 1..Len(b) : i > n => b[i].turn = turn /\ b[i].type \in Marks
    BY <1>4, <2>3, <2>4
  <2>6. \A i \in 1..n : /\ b[i].turn = turn /\ b[i].type \in ToolEnd
                        /\ b[i].step = step /\ b[i].n = i
    BY <1>6, <2>3
  <2> QED BY <1>1, <1>2, <1>4, <2>2, <2>4, <2>5, <2>6, CallsToolsEnd
<1> QED BY <1>5, <1>7, <1>8

\* The repair ends every open call of the interrupted Turn, and then the Turn.
LEMMA CallsRecover ==
  ASSUME RecordInv, CallsNow, Recover
  PROVE  CallsNow'
<1>1. /\ Where = "crashed" /\ Held = log /\ Where' = "over" /\ Held' = log'
      /\ UNCHANGED <<turn, step, calls, Len(tools)>>
  BY RecoverMoves DEF RecordInv, counters
<1>2. Sound(log, turn, calls) /\ log \in Seq(Event) /\ Len(log) \in Nat /\ calls \in Nat
  BY LoopTyped DEF RecordInv, LoopInv, Counting, CallsNow
<1>3. LatestTurnActive <=> Active(log)
  BY DEF LatestTurnActive, Active
<1>4. \A m \in 1..Len(log) : IsOpen(m) <=> OpenAt(log, m)
  BY DEF IsOpen, OpenAt, CallStart, CallEnd
<1>5. CASE ~LatestTurnActive
  <2>1. log' = log
    BY <1>5 DEF Recover
  <2>2. CallsAt("over", log, turn, step', calls', Len(tools'))
    BY <1>3, <1>5 DEF CallsAt, Ended
  <2>3. /\ Sound(log, turn, calls)' /\ Sound(Held, turn, calls)'
        /\ CallsAt(Where, Held, turn, step, calls, Len(tools))'
    BY <1>1, <1>2, <2>1, <2>2
  <2> QED BY <2>3 DEF CallsNow
<1>6. CASE LatestTurnActive
  <2>1. PICK S : S = {m \in 1..Len(log) : IsOpen(m)}
    OBVIOUS
  <2>2. PICK last : last = <<EvOf(turn, 0, "turn/interrupted", 0)>>
    OBVIOUS
  <2>3. PICK ends \in Seq(Event) :
          Repairs(ends, S) /\ last \in Seq(Event) /\ log' = (log \o ends) \o last
    BY <1>6, <2>1, <2>2, RecoverMoves DEF RecordInv
  <2>4. PICK at \in [1..Len(ends) -> S] :
          /\ \A i \in 1..Len(ends) : Closes(ends[i], at[i])
          /\ \A i, j \in 1..Len(ends) : at[i] = at[j] => i = j
          /\ \A m \in S : \E i \in 1..Len(ends) : at[i] = m
    BY <2>3 DEF Repairs
  <2>5. ASSUME NEW m \in S
        PROVE  /\ m \in 1..Len(log) /\ log[m].type \in CallStart /\ log[m] \in Opens(log)
               /\ log[m].turn = turn
    <3>1. m \in 1..Len(log) /\ OpenAt(log, m)
      BY <1>4, <2>1
    <3>2. log[m] \in Opens(log) /\ log[m].type \in CallStart
      BY <3>1 DEF Opens, OpenAt
    <3> QED BY <1>2, <3>1, <3>2 DEF Sound
  <2>6. ASSUME NEW x \in Opens(log) PROVE \E m \in S : log[m] = x
    <3>1. PICK m \in 1..Len(log) : OpenAt(log, m) /\ x = log[m]
      BY DEF Opens
    <3> QED BY <1>4, <2>1, <3>1
  <2>7. ASSUME NEW i \in 1..Len(ends)
        PROVE  /\ at[i] \in S /\ ends[i].type \in CallEnd /\ ends[i].turn = turn
               /\ CallOf(ends[i]) = CallOf(log[at[i]])
               /\ ends[i].type \in ModelEvents => ends[i].n <= calls
    <3>1. at[i] \in S /\ Closes(ends[i], at[i])
      BY <2>4
    <3>2. /\ at[i] \in 1..Len(log) /\ log[at[i]].type \in CallStart /\ log[at[i]].turn = turn
      BY <2>5, <3>1
    <3>3. /\ ends[i].turn = log[at[i]].turn /\ ends[i].step = log[at[i]].step
          /\ ends[i].n = log[at[i]].n
      BY <3>1 DEF Closes
    <3>4. CASE log[at[i]].type = "model/call-started"
      <4>1. ends[i].type = "model/call-interrupted"
        BY <3>1, <3>4 DEF Closes
      <4>2. ends[i].type \in ModelEvents /\ log[at[i]].type \in ModelEvents
        BY <3>4, <4>1 DEF ModelEvents, ModelEnd
      <4>3. log[at[i]].n <= calls
        BY <1>2, <3>2, <3>4 DEF Sound
      <4> QED BY <3>1, <3>2, <3>3, <4>1, <4>2, <4>3, SameCall DEF CallEnd, ModelEnd
    <3>5. CASE log[at[i]].type # "model/call-started"
      <4>1. ends[i].type = "tool/call-interrupted" /\ log[at[i]].type = "tool/call-started"
        BY <3>1, <3>2, <3>5 DEF Closes, CallStart
      <4>2. ends[i].type \notin ModelEvents /\ log[at[i]].type \notin ModelEvents
        BY <4>1 DEF ModelEvents, ModelEnd
      <4> QED BY <3>1, <3>2, <3>3, <4>1, <4>2, SameCall DEF CallEnd, ToolEnd
    <3> QED BY <3>4, <3>5
  <2>8. /\ CallsOnce(log \o ends)
        /\ Opens(log \o ends) = {x \in Opens(log) : \A i \in 1..Len(ends) :
                                   ends[i].type \in CallEnd => CallOf(ends[i]) # CallOf(x)}
    <3>1. \A i \in 1..Len(ends) : ends[i].type \notin CallStart
      BY <2>7, StartsAreNotEnds
    <3>2. \A i \in 1..Len(ends) : ends[i].type \in CallEnd =>
            \E x \in Opens(log) : CallOf(x) = CallOf(ends[i])
      BY <2>5, <2>7
    <3>3. ASSUME NEW i \in 1..Len(ends), NEW j \in 1..Len(ends), CallOf(ends[i]) = CallOf(ends[j])
          PROVE  i = j
      <4>1. CallOf(log[at[i]]) = CallOf(log[at[j]]) /\ at[i] \in S /\ at[j] \in S
        BY <2>7, <3>3
      <4>2. at[i] = at[j]
        BY <1>2, <2>5, <4>1 DEF Sound, CallsOnce
      <4> QED BY <2>4, <4>2
    <3> QED BY <1>2, <2>3, <3>1, <3>2, <3>3, EndsKept, SMTT(20) DEF Sound
  <2>9. ASSUME NEW x \in Opens(log)
        PROVE  \E i \in 1..Len(ends) : ends[i].type \in CallEnd /\ CallOf(ends[i]) = CallOf(x)
    <3>1. PICK m \in S : log[m] = x
      BY <2>6
    <3>2. PICK i \in 1..Len(ends) : at[i] = m
      BY <2>4
    <3> QED BY <2>7, <3>1, <3>2
  <2>10. Opens(log \o ends) = {}
    BY <2>8, <2>9
  <2>11. InsideTurn(ends, turn) /\ ModelsTo(ends, calls)
    BY <2>7, MarksAreQuiet DEF InsideTurn, ModelsTo
  <2>12. PICK l : l = log \o ends
    OBVIOUS
  <2>13. Sound(l, turn, calls) /\ Active(l)
    <3>1. calls <= calls
      BY <1>2
    <3> QED BY <1>2, <1>3, <1>6, <2>3, <2>8, <2>10, <2>11, <2>12, <3>1, SoundGoes
  <2>14. l \in Seq(Event) /\ Opens(l) = {}
    BY <1>2, <2>3, <2>10, <2>12, Joined
  <2>15. NoCalls(last) /\ EndsTurn(last, turn)
    <3>1. "turn/interrupted" \in TurnEnd
      BY DEF TurnEnd
    <3> QED BY <2>2, <3>1, OneIsQuiet, MarksAreQuiet
  <2>16. Sound(l \o last, turn, calls) /\ ~Active(l \o last)
    BY <1>2, <2>3, <2>13, <2>14, <2>15, SoundEnds
  <2>17. log' = l \o last
    BY <2>3, <2>12
  <2>18. CallsAt("over", log', turn, step', calls', Len(tools'))
    BY <2>16, <2>17 DEF CallsAt, Ended
  <2>19. /\ Sound(log, turn, calls)' /\ Sound(Held, turn, calls)'
         /\ CallsAt(Where, Held, turn, step, calls, Len(tools))'
    BY <1>1, <2>16, <2>17, <2>18
  <2> QED BY <2>19 DEF CallsNow
<1> QED BY <1>5, <1>6

LEMMA CallsSettles ==
  ASSUME RecordInv, CallsNow, Commit \/ Crash \/ Cancel \/ UNCHANGED vars
                                \/ (\E i \in DOMAIN tools : ToolStep(i))
  PROVE  CallsNow'
<1>1. /\ Sound(log, turn, calls) /\ Sound(Held, turn, calls)
      /\ CallsAt(Where, Held, turn, step, calls, Len(tools))
  BY DEF CallsNow
<1>2. /\ UNCHANGED <<turn, step, attempts, toolCount, calls, Len(tools)>>
      /\ log' \in {log, Held} /\ Held' \in {log, Held}
      /\ (Held' = Held /\ Where' = Where) \/ Where' = "crashed"
  BY CommitMoves, CrashMoves, QuietMoves DEF RecordInv, counters
<1>3. Sound(log, turn, calls)' /\ Sound(Held, turn, calls)'
  BY <1>1, <1>2
<1>4. CallsAt(Where, Held, turn, step, calls, Len(tools))'
  BY <1>1, <1>2 DEF CallsAt, Ended
<1> QED BY <1>3, <1>4 DEF CallsNow

LEMMA CallsInit == Init => CallsInv
<1> SUFFICES ASSUME Init PROVE CallsNow
  BY DEF CallsInv
<1>1. Held = log /\ Where = "idle"
  BY LoopInit
<1>2. log = <<>>
  BY DEF Init
<1>3. PICK l : l = <<>>
  OBVIOUS
<1>4. \A m \in 1..Len(l) : FALSE
  BY <1>3
<1>5. Opens(l) = {} /\ ~Active(l)
  BY <1>4 DEF Opens, Active
<1>6. \A t, c : Sound(l, t, c)
  BY <1>4, <1>5 DEF Sound, CallsOnce, EndsOnce
<1>7. \A t, s, c, n : CallsAt("idle", l, t, s, c, n)
  BY <1>5 DEF CallsAt, Ended
<1> QED BY <1>1, <1>2, <1>3, <1>6, <1>7 DEF CallsNow

\* Failures are only counted up, and by FailAppend alone.
LEMMA FailuresKept ==
  ASSUME RecordInv, [Next]_vars, failures' = 0
  PROVE  failures = 0 /\ ~FailAppend
<1>1. ~FailAppend
  BY FailMoves DEF RecordInv
<1>2. failures' = failures
  BY <1>1 DEF Next, Continue, Commit, Acquire, EnterStep, Assemble, StartAttempt, AttemptFails, Retry,
              CallFails, CompactionAnswered, Answered, Dispatch, ToolsSettle, Catch, ToolStep,
              Authorize, Malformed, AbortAuthorization, ToolReturns, AbortTool, ToolMoves,
              StartTurn, Cancel, Crash, Recover, vars, faultVars
<1> QED BY <1>1, <1>2

LEMMA CallsStep == RecordInv /\ CallsInv /\ [Next]_vars => CallsInv'
<1> SUFFICES ASSUME RecordInv, CallsInv, [Next]_vars, failures' = 0 PROVE CallsNow'
  BY DEF CallsInv
<1>1. CallsNow /\ ~FailAppend
  BY FailuresKept DEF CallsInv
<1> QED BY <1>1, CallsStart, CallsAcquire, CallsEnter, CallsAssemble, CallsAttempt, CallsAttemptFails,
           CallsRetry, CallsCallFails, CallsCatch, CallsCompaction, CallsAnswered, CallsDispatch,
           CallsSettle, CallsRecover, CallsSettles DEF Next, Continue

LEMMA CallsAlways == Spec => []CallsInv
BY RecordAlways, CallsInit, CallsStep, PTL DEF Spec

\* While no append failed, a Turn reaches one terminal status at most, and nothing
\* is recorded of it afterwards, neither by the catch block nor by recovery.
THEOREM TurnsEndOnce == Spec => []TurnEndsOnce
<1>1. CallsInv => TurnEndsOnce
  BY DEF CallsInv, CallsNow, Sound, EndsOnce, TurnEndsOnce, Positions
<1> QED BY CallsAlways, <1>1, PTL

\* While no append failed, every ModelCall and ToolCall has one terminal event at
\* most, after its start, and exactly one once its Turn has ended, by #execute or
\* by the repair after a crash.
THEOREM CallsAreClosed == Spec => []CallsClosedUnlessFailed
<1>1. ASSUME RecordInv, CallsInv, failures = 0 PROVE CallsClosed
  <2>1. Sound(log, turn, calls) /\ log \in Seq(Event) /\ Len(log) \in Nat
    BY <1>1, LoopTyped DEF RecordInv, CallsInv, CallsNow
  <2> SUFFICES ASSUME NEW m \in 1..Len(log), log[m].type \in CallStart
               PROVE  /\ \A k \in EndsOf(m) : k > m
                      /\ Cardinality(EndsOf(m)) <= 1
                      /\ InTurn(TurnEnd, log[m].turn) # {} => EndsOf(m) # {}
    BY DEF CallsClosed, Positions, CallStart
  <2>2. \A k \in EndsOf(m) : /\ k \in 1..Len(log) /\ log[k].type \in CallEnd
                             /\ CallOf(log[k]) = CallOf(log[m])
    BY DEF EndsOf, Positions, CallEnd
  <2>3. ASSUME NEW k \in EndsOf(m) PROVE k > m
    <3>1. PICK q \in 1..(k - 1) : log[q].type \in CallStart /\ CallOf(log[q]) = CallOf(log[k])
      BY <2>1, <2>2 DEF Sound, CallsOnce
    <3>2. q \in 1..Len(log) /\ q < k
      BY <2>1, <2>2
    <3>3. q = m
      BY <2>1, <2>2, <3>1, <3>2 DEF Sound, CallsOnce
    <3> QED BY <2>1, <2>2, <3>2, <3>3
  <2>4. Cardinality(EndsOf(m)) <= 1
    <3>1. CASE EndsOf(m) = {}
      BY <3>1, FS_EmptySet
    <3>2. CASE EndsOf(m) # {}
      <4>1. PICK k : k \in EndsOf(m)
        BY <3>2
      <4>2. \A j \in EndsOf(m) : j = k
        BY <2>1, <2>2, <4>1 DEF Sound, CallsOnce
      <4>3. EndsOf(m) = {k}
        BY <4>1, <4>2
      <4>4. Cardinality({k}) = 1
        BY FS_Singleton
      <4>5. Cardinality(EndsOf(m)) = 1
        BY <4>3, <4>4
      <4> QED BY <4>5
    <3> QED BY <3>1, <3>2
  <2>5. ASSUME EndsOf(m) = {}, NEW k \in InTurn(TurnEnd, log[m].turn) PROVE FALSE
    <3>1. k \in 1..Len(log) /\ log[k].type \in TurnEnd /\ log[k].turn = log[m].turn
      BY <2>5 DEF InTurn, Positions
    <3>2. ASSUME NEW j \in (m + 1)..Len(log), log[j].type \in CallEnd
          PROVE  CallOf(log[j]) # CallOf(log[m])
      <4>1. j \in 1..Len(log)
        BY <2>1
      <4> QED BY <2>5, <3>2, <4>1 DEF EndsOf, Positions, CallEnd
    <3>3. log[m] \in Opens(log)
      BY <3>2 DEF Opens, OpenAt
    <3>4. log[m].turn = turn /\ Active(log)
      BY <2>1, <3>3 DEF Sound
    <3> QED BY <2>1, <3>1, <3>4 DEF Sound
  <2> QED BY <2>3, <2>4, <2>5
<1>2. RecordInv /\ CallsInv => CallsClosedUnlessFailed
  BY <1>1 DEF CallsClosedUnlessFailed
<1> QED BY RecordAlways, CallsAlways, <1>2, PTL
=============================================================================
