---------------------------- MODULE ContextWindow ----------------------------
(***************************************************************************)
(* src/src/context/context.ts with skills.contextBlocks and the compaction *)
(* loop of session.ts: what a Session's model is sent.  Each Step projects *)
(* the journal into blocks, drops blocks until the request fits the input  *)
(* budget, and compacts the history while a history block was dropped.     *)
(*                                                                         *)
(* A text is its number of tokens.  The ghost field `holds` of a block is  *)
(* the set of recorded messages its content stands for: themselves, or     *)
(* what a summary was made from.                                           *)
(***************************************************************************)
EXTENDS Integers, Sequences, FiniteSets, SequencesExt, FiniteSetsExt

CONSTANTS Budget,        \* inputBudget of the Model Adapter
          MessageSizes,  \* tokens of a recorded message
          SummarySizes,  \* tokens of the summary of a compaction
          AgentSize,     \* tokens of the Agent's instructions
          DiscoverySize, \* tokens of the line that offers an available Skill
          SkillSize,     \* tokens of the instructions of that Skill
          NoteSize,      \* tokens of a contributor's optional block
          Skew,          \* countTokens differs from the estimate by this much at most
          MaxPasses,     \* compaction passes of a Step (session.ts:197 has 4)
          MaxSteps,      \* bound: Steps of a Turn
          MaxTurns       \* bound: Turns

ASSUME ContextAssumption ==
  /\ Budget \in Nat
  /\ MessageSizes \subseteq Nat \ {0}
  /\ SummarySizes \subseteq Nat \ {0}
  /\ {AgentSize, DiscoverySize, SkillSize, NoteSize} \subseteq Nat \ {0}
  /\ {Skew, MaxPasses, MaxSteps, MaxTurns} \subseteq Nat

VARIABLES
  events,    \* the journal: [type, turn, tokens, through, holds]
  turn,      \* the latest Turn
  step,      \* its Step
  passes,    \* compactionPasses
  pc,        \* where the Step stands
  selected,  \* selected: the blocks in order
  dropped,   \* dropped: their ids
  counted,   \* the request was counted by the Adapter's countTokens
  tokens,    \* estimatedInputTokens
  request,   \* request, as the blocks it was built from
  plan       \* the compaction asked for: [through, holds]

vars == <<events, turn, step, passes, pc, selected, dropped, counted, tokens,
          request, plan>>

shedVars == <<selected, dropped, counted, tokens, request>>

Event(type, n) == [type |-> type, turn |-> turn, tokens |-> n, through |-> 0, holds |-> {}]

NoPlan == [through |-> 0, holds |-> {}]

Init ==
  /\ events = <<>>
  /\ turn = 0
  /\ step = 0
  /\ passes = 0
  /\ pc = "idle"
  /\ selected = <<>>
  /\ dropped = {}
  /\ counted = FALSE
  /\ tokens = 0
  /\ request = <<>>
  /\ plan = NoPlan

-----------------------------------------------------------------------------
(* projectHistory.                                                         *)

At(type) == {m \in 1..Len(events) : events[m].type = type}

Messages == At("message")

LatestCompaction == Max(At("history/compacted"))

HasSummary == At("history/compacted") # {}

ThroughSequence == IF HasSummary THEN events[LatestCompaction].through ELSE 0

Current == {m \in Messages : events[m].turn = turn}

Prior == {m \in Messages : events[m].turn # turn /\ m > ThroughSequence}

Tokens(positions) == MapThenSumSet(LAMBDA m : events[m].tokens, positions)

-----------------------------------------------------------------------------
(* assemble: the blocks, in the order of compareBlocks.                    *)

Block(id, retention, n, holds) ==
  [id |-> id, retention |-> retention, tokens |-> n, truncate |-> FALSE, holds |-> holds]

\* skill/activated is recorded for this Turn.
Activated == \E m \in At("skill/activated") : events[m].turn = turn

\* contextBlocks of the one available Skill of the Agent.
SkillBlock ==
  IF Activated THEN Block("skill/instructions", "required", SkillSize, {})
  ELSE Block("skill/discovery", "preferred", DiscoverySize, {})

\* The block of a contributor, in the kernel layer.
Note == [Block("note", "optional", NoteSize, {}) EXCEPT !.truncate = TRUE]

SummaryBlock ==
  LET compaction == events[LatestCompaction]
  IN  Block("history/summary", "preferred", compaction.tokens, compaction.holds)

Blocks ==
  <<Note, Block("agent/instructions", "required", AgentSize, {}), SkillBlock>>
    \o (IF HasSummary THEN <<SummaryBlock>> ELSE <<>>)
    \o (IF Prior # {} THEN <<Block("history/prior", "preferred", Tokens(Prior), Prior)>>
                      ELSE <<>>)
    \o <<Block("history/messages", "required", Tokens(Current), Current)>>

Total(blocks) == SumFunction([i \in DOMAIN blocks |-> blocks[i].tokens])

\* countTokens, a function of the Adapter's own.
Count(n) == Max({0, n - Skew})..(n + Skew)

\* assemble up to the first block that may be dropped.
Assemble ==
  /\ pc = "assembling"
  /\ pc' = "shedding"
  /\ selected' = Blocks
  /\ dropped' = {}
  /\ counted' = FALSE
  /\ tokens' = Total(Blocks)
  /\ request' = <<>>
  /\ UNCHANGED <<events, turn, step, passes, plan>>

\* The block of this iteration: the last optional one, or when there is none
\* left the last preferred one; 0 if all are required.
Victim ==
  LET With(retention) == {i \in DOMAIN selected : selected[i].retention = retention}
  IN  IF With("optional") # {} THEN Max(With("optional"))
      ELSE IF With("preferred") # {} THEN Max(With("preferred")) ELSE 0

\* Mutant of Recount: the request is not built again.
RecountOnly(blocks) ==
  /\ selected' = blocks
  /\ request' = request
  /\ tokens' \in Count(Total(blocks))

\* After a change of `selected`: the estimate, or a new request and its count.
Recount(blocks) ==
  /\ selected' = blocks
  /\ IF counted THEN request' = blocks /\ tokens' \in Count(Total(blocks))
     ELSE request' = request /\ tokens' = Total(blocks)

\* tryTruncate succeeds, and the request fits.
Truncate(n) ==
  /\ selected[Victim].truncate
  /\ n < selected[Victim].tokens
  /\ Recount([selected EXCEPT ![Victim].tokens = n, ![Victim].truncate = FALSE])
  /\ tokens' <= Budget
  /\ UNCHANGED dropped

\* The block is dropped: it has no shorter form, or none that is short enough.
Drop ==
  /\ Recount(RemoveAt(selected, Victim))
  /\ dropped' = dropped \cup {selected[Victim].id}

Shed ==
  /\ pc = "shedding"
  /\ tokens > Budget
  /\ Victim # 0
  /\ Drop \/ \E n \in 1..NoteSize : Truncate(n)
  /\ UNCHANGED <<events, turn, step, passes, pc, counted, plan>>

Shedded == pc = "shedding" /\ (tokens > Budget => Victim = 0)

\* The estimate is done: build the request and count it.
BuildRequest ==
  /\ Shedded
  /\ ~counted
  /\ counted' = TRUE
  /\ request' = selected
  /\ tokens' \in Count(Total(selected))
  /\ UNCHANGED <<events, turn, step, passes, pc, selected, dropped, plan>>

\* Mutant of NeedsCompaction: a dropped summary is not history.
NeedsCompactionOfPrior == "history/prior" \in dropped

NeedsCompaction == dropped \cap {"history/prior", "history/summary"} # {}

\* The end of assemble, and the loop of #execute that compacts until nothing of
\* the history is dropped, or fails.
Assembled ==
  /\ Shedded
  /\ counted
  /\ \/ tokens > Budget /\ pc' = "failed" /\ UNCHANGED passes
     \/ tokens <= Budget /\ ~NeedsCompaction /\ pc' = "calling" /\ UNCHANGED passes
     \/ /\ tokens <= Budget
        /\ NeedsCompaction
        /\ passes' = passes + 1
        /\ pc' = IF passes < MaxPasses THEN "planning" ELSE "failed"
  /\ UNCHANGED <<events, turn, step, plan, shedVars>>

-----------------------------------------------------------------------------
(* planCompaction.                                                         *)

\* Mutant of Boundaries: the end of any Step is a boundary.
StepBoundaries ==
  {m \in Prior : m > ThroughSequence} \cup (IF HasSummary THEN {ThroughSequence} ELSE {})

\* The ends of the Turns since the last compaction, and that compaction's own
\* boundary: its summary can be summarized again.
Boundaries ==
  {m \in At("turn/ended") : m > ThroughSequence}
    \cup (IF HasSummary THEN {ThroughSequence} ELSE {})

Source(through) == {m \in Prior : m <= through}

SourceTokens(through) ==
  1 + Tokens(Source(through)) + (IF HasSummary THEN events[LatestCompaction].tokens ELSE 0)

HasSource(through) == Source(through) # {} \/ HasSummary

MayFit(through) == HasSource(through) /\ \E n \in Count(SourceTokens(through)) : n <= Budget

MayOverflow(through) == HasSource(through) => \E n \in Count(SourceTokens(through)) : n > Budget

\* The latest boundary whose source fits a compaction, or CONTEXT_OVERFLOW.
PlanCompaction ==
  /\ pc = "planning"
  /\ \/ \E through \in Boundaries :
          /\ MayFit(through)
          /\ \A later \in Boundaries : later > through => MayOverflow(later)
          /\ pc' = "compacting"
          /\ plan' = [through |-> through,
                      holds |-> Source(through) \cup
                                (IF HasSummary THEN events[LatestCompaction].holds ELSE {})]
     \/ /\ \A through \in Boundaries : MayOverflow(through)
        /\ pc' = "failed"
        /\ UNCHANGED plan
  /\ UNCHANGED <<events, turn, step, passes, shedVars>>

\* The compaction's ModelCall is answered with a summary: record and assemble.
Compacted ==
  /\ pc = "compacting"
  /\ \E n \in SummarySizes :
       events' = Append(events, [Event("history/compacted", n) EXCEPT
                                   !.through = plan.through, !.holds = plan.holds])
  /\ pc' = "assembling"
  /\ plan' = NoPlan
  /\ UNCHANGED <<turn, step, passes, shedVars>>

-----------------------------------------------------------------------------
(* The Turn around it.                                                     *)

\* turn/started with the user message.
StartTurn ==
  /\ pc = "idle"
  /\ turn < MaxTurns
  /\ turn' = turn + 1
  /\ \E n \in MessageSizes :
       events' = events \o <<[Event("turn/started", 0) EXCEPT !.turn = turn + 1],
                             [Event("message", n) EXCEPT !.turn = turn + 1]>>
  /\ step' = 1
  /\ passes' = 0
  /\ pc' = "assembling"
  /\ UNCHANGED <<plan, shedVars>>

\* The model's answer and the ToolResults of the Step are messages; a Tool may
\* have activated the Skill.  The Turn ends, or takes its next Step.
Answered ==
  /\ pc = "calling"
  /\ \E n \in MessageSizes : \E activate \in BOOLEAN : \E more \in BOOLEAN :
       /\ events' = events \o <<Event("message", n)>>
                      \o (IF activate THEN <<Event("skill/activated", 0)>> ELSE <<>>)
                      \o (IF more THEN <<>> ELSE <<Event("turn/ended", 0)>>)
       /\ more => step < MaxSteps
       /\ step' = IF more THEN step + 1 ELSE 0
       /\ pc' = IF more THEN "assembling" ELSE "idle"
  /\ passes' = 0
  /\ selected' = <<>>
  /\ dropped' = {}
  /\ counted' = FALSE
  /\ tokens' = 0
  /\ request' = <<>>
  /\ UNCHANGED <<turn, plan>>

\* The Turn ends without an answer: assemble or planCompaction threw, a
\* ModelCall failed, the Turn was cancelled or interrupted.
TurnFails ==
  /\ pc \in {"failed", "assembling", "compacting", "calling"}
  /\ events' = Append(events, Event("turn/ended", 0))
  /\ pc' = "idle"
  /\ step' = 0
  /\ passes' = 0
  /\ selected' = <<>>
  /\ dropped' = {}
  /\ counted' = FALSE
  /\ tokens' = 0
  /\ request' = <<>>
  /\ plan' = NoPlan
  /\ UNCHANGED turn

Prepare == Assemble \/ Shed \/ BuildRequest \/ Assembled \/ PlanCompaction

Next == Prepare \/ Compacted \/ StartTurn \/ Answered \/ TurnFails

Spec == Init /\ [][Next]_vars

-----------------------------------------------------------------------------

Held(blocks) == UNION {blocks[i].holds : i \in DOMAIN blocks}

\* docs/ARCHITECTURE.md:370, "instead of silently dropping history": whatever was
\* dropped, summarized and summarized again, a model is called only with every
\* recorded message of the Session in its request, once: itself, or in the
\* summary that stands for it.
WholeHistory ==
  pc = "calling" =>
    /\ Held(request) = Messages
    /\ \A i, j \in DOMAIN request : i # j => request[i].holds \cap request[j].holds = {}

\* A summary stands for whole Turns that are over: never for a part of a Turn,
\* which would separate ToolCalls from their ToolResults, nor for the current one.
WholeTurns ==
  \A k \in At("history/compacted") : \A m \in events[k].holds :
    /\ events[m].turn < events[k].turn
    /\ \A n \in Messages : events[n].turn = events[m].turn => n \in events[k].holds

\* Kernel invariant 8: the request a model receives is the one built from the
\* blocks the snapshot records, and the count that was checked is of that request.
RequestFits ==
  pc = "calling" =>
    /\ request = selected
    /\ tokens \in Count(Total(request))
    /\ tokens <= Budget

Ids(blocks) == {blocks[i].id : i \in DOMAIN blocks}
=============================================================================
