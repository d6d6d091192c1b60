------------------------ MODULE SupervisedAuthorizer ------------------------
(***************************************************************************)
(* src/packages/host/src/index.ts, createSupervisedToolAuthorizer, called  *)
(* through src/src/tools/authorization.ts: one authorizer serves all Turns *)
(* of the Host.  The ToolCalls of a Step ask together; those that need the *)
(* operator queue on promptTail, one prompt at a time.                     *)
(*                                                                         *)
(* The calls of authorize() are the sequence `calls`, in the order of the  *)
(* chain.  The operator (ToolApprovalAdapter) is external: it answers when *)
(* it likes, or never.                                                     *)
(***************************************************************************)
EXTENDS Naturals, Sequences, FiniteSets

CONSTANTS Turns,      \* Turns served; each has its own AbortSignal
          Tools,      \* Tool ids
          AutoAllow,  \* options.autoAllowTools
          MaxBatch,   \* bound: ToolCalls of one Step
          MaxCalls    \* bound: ToolCalls in all

ASSUME AutoAllowAssumption == AutoAllow \subseteq Tools

ASSUME BoundsAssumption == MaxBatch \in Nat \ {0} /\ MaxCalls \in Nat

VARIABLES
  calls,      \* [turn, tool, remembered, stage, answer, outcome] of each call
  sets,       \* the approval sets made so far; one is named by its index
  approvals,  \* turnApprovals: the index of the Turn's set, or 0
  aborted     \* the Turns whose signal is aborted

vars == <<calls, sets, approvals, aborted>>

\* stage is the call's place on promptTail ("none": it does not ask), answer
\* what the operator said, outcome what #executeTool receives.
Answer == {"allow-once", "allow-turn", "deny", "error"}

Allowing == {"allow-once", "allow-turn"}

Init ==
  /\ calls = <<>>
  /\ sets = <<>>
  /\ approvals = [t \in Turns |-> 0]
  /\ aborted = {}

\* Mutant of Remembered: one approval set, whatever the Turn.
RememberedAnywhere(t) == Len(sets)

\* turnApprovals.get(context.signal), read before the call waits.
Remembered(t) == approvals[t]

\* authorize(): answered at once, or queued with what is remembered now; the
\* caller of an aborted Turn is rejected while the request stays queued.
Asked(t, tool) ==
  LET known == Remembered(t)
      call == [turn |-> t, tool |-> tool, remembered |-> known,
               stage |-> "none", answer |-> "none", outcome |-> "allowed"]
  IN  IF tool \in AutoAllow \/ (known # 0 /\ tool \in sets[known]) THEN call
      ELSE [call EXCEPT !.stage = "queued",
                        !.outcome = IF t \in aborted THEN "rejected" ELSE "pending"]

\* A Step of Turn t starts its ToolCalls together, after those of its previous
\* Step were settled; a rejected one ended the Turn.
StartStep(t) ==
  /\ \A k \in 1..Len(calls) : calls[k].turn = t => calls[k].outcome \notin {"pending", "rejected"}
  /\ \E n \in 1..MaxBatch : \E batch \in [1..n -> Tools] :
       /\ Len(calls) + n <= MaxCalls
       /\ calls' = calls \o [i \in 1..n |-> Asked(t, batch[i])]
  /\ UNCHANGED <<sets, approvals, aborted>>

\* promptTail reaches call k: the operator is asked; raceApproval throws at once
\* when the Turn is already aborted.
Prompt(k) ==
  /\ calls[k].stage = "queued"
  /\ \A j \in 1..(k - 1) : calls[j].stage \in {"none", "settled"}
  /\ calls' = [calls EXCEPT ![k].stage =
                 IF calls[k].turn \in aborted THEN "settled" ELSE "prompting"]
  /\ UNCHANGED <<sets, approvals, aborted>>

\* Add the Tool to the remembered set, or to a new one that becomes the Turn's.
RememberTool(k) ==
  LET known == calls[k].remembered IN
  IF known # 0
  THEN /\ sets' = [sets EXCEPT ![known] = @ \cup {calls[k].tool}]
       /\ UNCHANGED approvals
  ELSE /\ sets' = Append(sets, {calls[k].tool})
       /\ approvals' = [approvals EXCEPT ![calls[k].turn] = Len(sets) + 1]

\* The operator answers, or the adapter throws (an error ToolResult: denied).
Reply(k) ==
  /\ calls[k].stage = "prompting"
  /\ \E a \in Answer :
       /\ calls' = [calls EXCEPT ![k].stage = "settled", ![k].answer = a,
                      ![k].outcome = IF a \in Allowing THEN "allowed" ELSE "denied"]
       /\ IF a = "allow-turn" THEN RememberTool(k) ELSE UNCHANGED <<sets, approvals>>
  /\ UNCHANGED aborted

\* Mutant of Abort: the prompt of an aborted Turn is not raced with its signal.
AbortUnraced(t) ==
  /\ t \notin aborted
  /\ aborted' = aborted \cup {t}
  /\ calls' = [k \in DOMAIN calls |->
       IF calls[k].turn # t \/ calls[k].outcome # "pending" THEN calls[k]
       ELSE [calls[k] EXCEPT !.outcome = "rejected"]]
  /\ UNCHANGED <<sets, approvals>>

\* The Turn is aborted: its waiting calls reject, and its prompt loses the race.
Abort(t) ==
  /\ t \notin aborted
  /\ aborted' = aborted \cup {t}
  /\ calls' = [k \in DOMAIN calls |->
       IF calls[k].turn # t \/ calls[k].outcome # "pending" THEN calls[k]
       ELSE [calls[k] EXCEPT !.outcome = "rejected",
               !.stage = IF @ = "prompting" THEN "settled" ELSE @]]
  /\ UNCHANGED <<sets, approvals>>

Next ==
  \/ \E t \in Turns : StartStep(t) \/ Abort(t)
  \/ \E k \in 1..Len(calls) : Prompt(k) \/ Reply(k)

Spec == Init /\ [][Next]_vars

\* The chain of promises runs by itself.  The operator owes no answer.
Fairness == \A k \in 1..MaxCalls : WF_vars(k <= Len(calls) /\ Prompt(k))

FairSpec == Spec /\ Fairness

-----------------------------------------------------------------------------

Call == [turn : Turns, tool : Tools, remembered : Nat,
         stage : {"none", "queued", "prompting", "settled"},
         answer : Answer \cup {"none"},
         outcome : {"pending", "allowed", "denied", "rejected"}]

\* The type invariant: every approval set that is named exists.
TypeOK ==
  /\ calls \in Seq(Call)
  /\ sets \in Seq(SUBSET Tools)
  /\ approvals \in [Turns -> Nat]
  /\ aborted \subseteq Turns
  /\ \A t \in Turns : approvals[t] <= Len(sets)
  /\ \A k \in 1..Len(calls) : calls[k].remembered <= Len(sets)

\* Only a call that has left the chain was answered.
AnsweredSettled ==
  \A k \in 1..Len(calls) : calls[k].answer # "none" => calls[k].stage = "settled"

\* A call on the chain is pending as long as its Turn is alive, and no other is.
WaitingPending ==
  \A k \in 1..Len(calls) :
    /\ calls[k].outcome = "pending" => calls[k].stage \in {"queued", "prompting"}
    /\ calls[k].stage \in {"queued", "prompting"} =>
         calls[k].outcome = IF calls[k].turn \in aborted THEN "rejected" ELSE "pending"
    /\ calls[k].stage = "prompting" => calls[k].turn \notin aborted

\* No call passes another on the chain.
ChainInOrder ==
  \A k, j \in 1..Len(calls) : k < j /\ calls[k].stage \in {"queued", "prompting"}
    => calls[j].stage \in {"none", "queued"}

\* An approval set serves one Turn, and holds what the operator allowed for it.
Serves(t, s) ==
  /\ \A u \in Turns : approvals[u] = s => u = t
  /\ \A k \in 1..Len(calls) : calls[k].remembered = s => calls[k].turn = t
  /\ \A tool \in sets[s] : \E j \in 1..Len(calls) :
       calls[j].answer = "allow-turn" /\ calls[j].turn = t /\ calls[j].tool = tool

SetsServeOneTurn == \A s \in 1..Len(sets) : \E t \in Turns : Serves(t, s)

\* ARCHITECTURE Kernel invariant 11: a Tool that is not auto-allowed runs only
\* if the operator allowed this very call, or allowed the Tool for the Turn at an
\* earlier call of the same Turn.
AllowedByOperator ==
  \A k \in 1..Len(calls) : calls[k].outcome = "allowed" =>
    \/ calls[k].tool \in AutoAllow
    \/ calls[k].answer \in Allowing
    \/ \E j \in 1..(k - 1) : /\ calls[j].answer = "allow-turn"
                             /\ calls[j].tool = calls[k].tool
                             /\ calls[j].turn = calls[k].turn

\* The operator sees one prompt at a time, in the order the calls asked, however
\* many Turns ask at once.
OnePrompt ==
  \A k \in 1..Len(calls) : calls[k].stage = "prompting" =>
    \A j \in 1..Len(calls) :
      /\ j < k => calls[j].stage \in {"none", "settled"}
      /\ j > k => calls[j].stage \in {"none", "queued"}

\* README.md:168, "allow-for-this-Turn approval": when a Step asks again for a
\* Tool the operator has allowed for the Turn, the operator is not asked.
AllowTurnRemembered ==
  [][\A k \in (Len(calls) + 1)..Len(calls') : \A j \in 1..Len(calls) :
       /\ calls[j].turn = calls'[k].turn
       /\ calls[j].tool = calls'[k].tool
       /\ calls[j].answer = "allow-turn"
       => calls'[k].stage = "none"]_vars

\* A Turn that is aborted while the operator does not answer never blocks the
\* prompts behind it: every queued call is prompted or settled, unless the prompt
\* of a Turn that is alive stays unanswered.
QueuedAt(k) == k <= Len(calls) /\ calls[k].stage = "queued"

BehindPrompt(k) ==
  \E j \in 1..(k - 1) : /\ j <= Len(calls)
                        /\ calls[j].stage = "prompting"
                        /\ calls[j].turn \notin aborted

QueueAdvances ==
  \A k \in 1..MaxCalls : QueuedAt(k) ~> (~QueuedAt(k) \/ BehindPrompt(k))
=============================================================================
