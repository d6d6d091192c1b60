--------------------- MODULE SupervisedAuthorizerProofs ---------------------
(***************************************************************************)
(* Machine-checked facts about SupervisedAuthorizer.tla, for any Turns,    *)
(* Tools, sizes of Steps and numbers of ToolCalls.                         *)
(***************************************************************************)
EXTENDS SupervisedAuthorizer, SequenceTheorems, TLAPS

\* A sequence has one length.
LEMMA SameLength ==
  ASSUME NEW S, NEW s \in Seq(S), NEW n \in Nat, DOMAIN s = 1..n
  PROVE  Len(s) = n
<1>1. Len(s) \in Nat /\ 1..Len(s) = 1..n
  BY LenProperties
<1>2. n \in 1..Len(s) \/ n = 0
  BY <1>1
<1>3. Len(s) \in 1..n \/ Len(s) = 0
  BY <1>1
<1> QED BY <1>1, <1>2, <1>3

LEMMA CallType ==
  ASSUME TypeOK, NEW k \in 1..Len(calls)
  PROVE  /\ calls[k] \in Call /\ calls[k].turn \in Turns /\ calls[k].tool \in Tools
         /\ calls[k].remembered \in Nat /\ calls[k].remembered <= Len(sets)
         /\ Len(sets) \in Nat /\ Len(calls) \in Nat
<1>1. calls \in Seq(Call) /\ sets \in Seq(SUBSET Tools) /\ calls[k].remembered <= Len(sets)
  BY DEF TypeOK
<1>2. calls[k] \in Call
  BY <1>1, ElementOfSeq
<1>3. calls[k].turn \in Turns /\ calls[k].tool \in Tools /\ calls[k].remembered \in Nat
  BY <1>2 DEF Call
<1> QED BY <1>1, <1>2, <1>3, LenProperties

\* What a call of authorize() is when it has just asked.
LEMMA AskedCall ==
  ASSUME TypeOK, NEW t \in Turns, NEW tool \in Tools
  PROVE  LET call == Asked(t, tool) IN
         /\ call \in Call
         /\ call.turn = t /\ call.tool = tool /\ call.remembered = approvals[t]
         /\ call.answer = "none"
         /\ call.stage \in {"none", "queued"}
         /\ call.outcome = "allowed" =>
              \/ tool \in AutoAllow
              \/ approvals[t] # 0 /\ tool \in sets[approvals[t]]
BY DEF TypeOK, Asked, Remembered, Call, Answer

\* A Step adds its calls behind the ones that are there.
LEMMA StepAdds ==
  ASSUME TypeOK, NEW t \in Turns, StartStep(t)
  PROVE  /\ calls' \in Seq(Call)
         /\ Len(calls') >= Len(calls) /\ Len(calls') <= Len(calls) + MaxBatch
         /\ \A k \in 1..Len(calls) : calls'[k] = calls[k]
         /\ \A k \in 1..Len(calls') : k > Len(calls) =>
              \E tool \in Tools : calls'[k] = Asked(t, tool)
<1>0. PICK n \in 1..MaxBatch : \E batch \in [1..n -> Tools] :
        calls' = calls \o [i \in 1..n |-> Asked(t, batch[i])]
  BY DEF StartStep
<1>1. PICK batch \in [1..n -> Tools] : calls' = calls \o [i \in 1..n |-> Asked(t, batch[i])]
  BY <1>0
<1> DEFINE more == [i \in 1..n |-> Asked(t, batch[i])]
<1>2. n \in Nat
  BY BoundsAssumption
<1>3. \A i \in 1..n : batch[i] \in Tools /\ Asked(t, batch[i]) \in Call
  BY AskedCall
<1>4. more \in [1..n -> Call]
  BY <1>3
<1>5. more \in Seq(Call) /\ Len(more) = n
  BY <1>2, <1>4, LenProperties
<1>6. calls \in Seq(Call) /\ Len(calls) \in Nat
  BY LenProperties DEF TypeOK
<1>7. \A i \in 1..n : more[i] = Asked(t, batch[i])
  OBVIOUS
<1>8. calls' = calls \o more
  BY <1>1
<1> HIDE DEF more
<1>9. /\ calls' \in Seq(Call)
      /\ Len(calls') = Len(calls) + n
      /\ \A k \in 1..Len(calls) : calls'[k] = calls[k]
      /\ \A k \in 1..Len(calls') : k > Len(calls) => calls'[k] = more[k - Len(calls)]
  <2>1. /\ calls' \in Seq(Call)
        /\ Len(calls') = Len(calls) + Len(more)
        /\ \A k \in 1..(Len(calls) + Len(more)) :
             calls'[k] = IF k <= Len(calls) THEN calls[k] ELSE more[k - Len(calls)]
    BY <1>5, <1>6, <1>8, ConcatProperties
  <2> QED BY <1>2, <1>5, <1>6, <2>1
<1>10. ASSUME NEW k \in 1..Len(calls'), k > Len(calls)
       PROVE  \E tool \in Tools : calls'[k] = Asked(t, tool)
  <2>1. k - Len(calls) \in 1..n
    BY <1>2, <1>6, <1>9, <1>10
  <2> QED BY <1>3, <1>7, <1>9, <1>10, <2>1
<1>11. Len(calls') >= Len(calls) /\ Len(calls') <= Len(calls) + MaxBatch
  BY <1>2, <1>6, <1>9, BoundsAssumption
<1> QED BY <1>9, <1>10, <1>11

\* What the other steps leave of a call.
Kept(k) ==
  /\ calls'[k].turn = calls[k].turn
  /\ calls'[k].tool = calls[k].tool
  /\ calls'[k].remembered = calls[k].remembered

\* A call that is not answered keeps its place on the chain, or leaves it.
Moved(k) ==
  /\ calls'[k].answer = calls[k].answer
  /\ calls'[k].outcome \in {"allowed", "pending"} => calls[k].outcome = calls'[k].outcome
  /\ \/ calls'[k].stage = calls[k].stage
     \/ /\ calls[k].stage = "queued" /\ calls'[k].stage \in {"prompting", "settled"}
        /\ \A j \in 1..(k - 1) : calls[j].stage \in {"none", "settled"}
     \/ calls[k].stage = "prompting" /\ calls'[k].stage = "settled"

\* promptTail reaches a call, or its Turn is aborted.
LEMMA Waiting ==
  ASSUME TypeOK, (\E n \in 1..Len(calls) : Prompt(n)) \/ (\E t \in Turns : Abort(t))
  PROVE  /\ calls' \in Seq(Call) /\ Len(calls') = Len(calls)
         /\ UNCHANGED <<sets, approvals>> /\ aborted' \subseteq Turns
         /\ \A k \in 1..Len(calls) :
              Kept(k) /\ Moved(k)
<1>1. calls \in Seq(Call) /\ Len(calls) \in Nat /\ DOMAIN calls = 1..Len(calls)
      /\ \A k \in 1..Len(calls) : calls[k] \in Call
  BY LenProperties, ElementOfSeq DEF TypeOK
<1>2. ASSUME NEW n \in 1..Len(calls), Prompt(n)
      PROVE  /\ \A k \in 1..Len(calls) :
                  calls'[k] \in Call /\ Kept(k) /\ Moved(k)
             /\ DOMAIN calls' = 1..Len(calls)
             /\ calls' = [k \in 1..Len(calls) |-> calls'[k]]
             /\ UNCHANGED <<sets, approvals, aborted>>
  BY <1>1, <1>2 DEF Prompt, Kept, Moved, Call
<1>3. ASSUME NEW t \in Turns, Abort(t)
      PROVE  /\ \A k \in 1..Len(calls) :
                  calls'[k] \in Call /\ Kept(k) /\ Moved(k)
             /\ DOMAIN calls' = 1..Len(calls)
             /\ calls' = [k \in 1..Len(calls) |-> calls'[k]]
             /\ UNCHANGED <<sets, approvals>> /\ aborted' \subseteq Turns
  <2>1. /\ calls' = [k \in 1..Len(calls) |-> calls'[k]] /\ DOMAIN calls' = 1..Len(calls)
        /\ \A k \in 1..Len(calls) : calls'[k] =
             IF calls[k].turn # t \/ calls[k].outcome # "pending" THEN calls[k]
             ELSE [calls[k] EXCEPT !.outcome = "rejected",
                     !.stage = IF @ = "prompting" THEN "settled" ELSE @]
        /\ UNCHANGED <<sets, approvals>> /\ aborted' \subseteq Turns
    BY <1>1, <1>3 DEF Abort, TypeOK
  <2>2. ASSUME NEW k \in 1..Len(calls)
        PROVE  calls'[k] \in Call /\ Kept(k) /\ Moved(k)
    <3>1. calls[k] \in Call
      BY <1>1
    <3>2. CASE calls'[k] = calls[k]
      BY <3>1, <3>2 DEF Kept, Moved
    <3>3. CASE calls'[k] = [calls[k] EXCEPT !.outcome = "rejected",
                              !.stage = IF @ = "prompting" THEN "settled" ELSE @]
      BY <3>1, <3>3 DEF Kept, Moved, Call
    <3> QED BY <2>1, <3>2, <3>3
  <2> QED BY <2>1, <2>2
<1>4. /\ \A k \in 1..Len(calls) :
           calls'[k] \in Call /\ Kept(k) /\ Moved(k)
      /\ DOMAIN calls' = 1..Len(calls)
      /\ calls' = [k \in 1..Len(calls) |-> calls'[k]]
      /\ UNCHANGED <<sets, approvals>> /\ aborted' \subseteq Turns
  BY <1>2, <1>3 DEF TypeOK
<1>5. calls' \in Seq(Call)
  BY <1>1, <1>4, SeqDef
<1>6. Len(calls') = Len(calls)
  BY <1>1, <1>4, <1>5, SameLength
<1> QED BY <1>4, <1>5, <1>6

\* The operator answers call n.
LEMMA Answering ==
  ASSUME TypeOK, NEW n \in 1..Len(calls), Reply(n)
  PROVE  /\ calls' \in Seq(Call) /\ Len(calls') = Len(calls)
         /\ \A k \in 1..Len(calls) : k # n => calls'[k] = calls[k]
         /\ Kept(n)
         /\ calls'[n].stage = "settled"
         /\ calls'[n].answer \in Answer
         /\ calls'[n].outcome \in {"allowed", "denied"}
         /\ calls'[n].outcome = "allowed" => calls'[n].answer \in Allowing
         /\ IF calls'[n].answer = "allow-turn" THEN RememberTool(n)
            ELSE UNCHANGED <<sets, approvals>>
<1>1. calls \in Seq(Call) /\ Len(calls) \in Nat /\ DOMAIN calls = 1..Len(calls)
      /\ \A k \in 1..Len(calls) : calls[k] \in Call
  BY LenProperties, ElementOfSeq DEF TypeOK
<1>2. PICK a \in Answer :
        /\ calls' = [calls EXCEPT ![n].stage = "settled", ![n].answer = a,
                       ![n].outcome = IF a \in Allowing THEN "allowed" ELSE "denied"]
        /\ IF a = "allow-turn" THEN RememberTool(n) ELSE UNCHANGED <<sets, approvals>>
  BY DEF Reply
<1>3. /\ DOMAIN calls' = 1..Len(calls)
      /\ calls' = [k \in 1..Len(calls) |-> calls'[k]]
      /\ \A k \in 1..Len(calls) : k # n => calls'[k] = calls[k]
  BY <1>1, <1>2
<1>4. /\ calls'[n] = [calls[n] EXCEPT !.stage = "settled", !.answer = a,
                        !.outcome = IF a \in Allowing THEN "allowed" ELSE "denied"]
      /\ calls[n] \in Call
  BY <1>1, <1>2
<1>5. /\ calls'[n] \in Call /\ Kept(n)
      /\ calls'[n].stage = "settled" /\ calls'[n].answer = a
      /\ calls'[n].outcome \in {"allowed", "denied"}
      /\ calls'[n].outcome = "allowed" => a \in Allowing
  BY <1>4 DEF Call, Kept
<1>6. calls' \in Seq(Call)
  BY <1>1, <1>3, <1>5, SeqDef
<1>7. Len(calls') = Len(calls)
  BY <1>1, <1>3, <1>6, SameLength
<1> QED BY <1>2, <1>3, <1>5, <1>6, <1>7

-----------------------------------------------------------------------------
(* Types, and the sets of approvals.                                       *)

AuthorizerInv == TypeOK /\ AnsweredSettled /\ SetsServeOneTurn

LEMMA TypeStep ==
  ASSUME TypeOK, [Next]_vars
  PROVE  TypeOK'
<1>1. CASE UNCHANGED vars
  BY <1>1 DEF vars, TypeOK, Call, Answer
<1>2. ASSUME NEW t \in Turns, StartStep(t)
      PROVE  TypeOK'
  <2>1. UNCHANGED <<sets, approvals, aborted>>
    BY <1>2 DEF StartStep
  <2>2. ASSUME NEW k \in 1..Len(calls')
        PROVE  calls'[k].remembered <= Len(sets)
    <3>1. CASE k \in 1..Len(calls)
      BY <1>2, <3>1, StepAdds DEF TypeOK
    <3>2. CASE k > Len(calls)
      <4>1. PICK tool \in Tools : calls'[k] = Asked(t, tool)
        BY <1>2, <3>2, StepAdds
      <4>2. calls'[k].remembered = approvals[t]
        BY <4>1, AskedCall
      <4> QED BY <4>2 DEF TypeOK
    <3> QED BY <3>1, <3>2, LenProperties DEF TypeOK
  <2> QED BY <1>2, <2>1, <2>2, StepAdds DEF TypeOK
<1>3. ASSUME (\E n \in 1..Len(calls) : Prompt(n)) \/ (\E t \in Turns : Abort(t))
      PROVE  TypeOK'
  BY <1>3, Waiting DEF TypeOK, Kept
<1>4. ASSUME NEW n \in 1..Len(calls), Reply(n)
      PROVE  TypeOK'
  <2>1. aborted' = aborted
    BY <1>4 DEF Reply
  <2>2. calls[n] \in Call /\ calls[n].tool \in Tools /\ calls[n].turn \in Turns
        /\ calls[n].remembered \in Nat /\ calls[n].remembered <= Len(sets)
    BY CallType
  <2>3. /\ sets' \in Seq(SUBSET Tools) /\ Len(sets') >= Len(sets)
        /\ approvals' \in [Turns -> Nat]
        /\ \A t \in Turns : approvals'[t] <= Len(sets')
    <3>1. CASE UNCHANGED <<sets, approvals>>
      BY <3>1, LenProperties DEF TypeOK
    <3>2. CASE RememberTool(n) /\ calls[n].remembered # 0
      <4>1. /\ sets' = [sets EXCEPT ![calls[n].remembered] = @ \cup {calls[n].tool}]
            /\ approvals' = approvals
        BY <3>2 DEF RememberTool
      <4>2. sets' \in Seq(SUBSET Tools) /\ Len(sets') = Len(sets)
        <5>1. /\ calls[n].remembered \in 1..Len(sets) /\ sets \in Seq(SUBSET Tools)
              /\ sets[calls[n].remembered] \cup {calls[n].tool} \in SUBSET Tools
          BY <2>2, <3>2, ElementOfSeq, LenProperties DEF TypeOK
        <5> QED BY <4>1, <5>1, ExceptSeq
      <4> QED BY <4>1, <4>2, LenProperties DEF TypeOK
    <3>3. CASE RememberTool(n) /\ calls[n].remembered = 0
      <4>1. /\ sets' = Append(sets, {calls[n].tool})
            /\ approvals' = [approvals EXCEPT ![calls[n].turn] = Len(sets) + 1]
        BY <3>3 DEF RememberTool
      <4>2. sets' \in Seq(SUBSET Tools) /\ Len(sets') = Len(sets) + 1 /\ Len(sets) \in Nat
        BY <2>2, <4>1, AppendProperties, LenProperties DEF TypeOK
      <4> QED BY <2>2, <4>1, <4>2 DEF TypeOK
    <3> QED BY <1>4, <3>1, <3>2, <3>3, Answering
  <2>4. \A k \in 1..Len(calls) : calls'[k].remembered = calls[k].remembered
    BY <1>4, Answering DEF Kept
  <2>5. Len(sets) \in Nat /\ Len(sets') \in Nat
    BY <2>3, LenProperties DEF TypeOK
  <2>6. \A k \in 1..Len(calls) : calls'[k].remembered <= Len(sets')
    <3> SUFFICES ASSUME NEW k \in 1..Len(calls) PROVE calls'[k].remembered <= Len(sets')
      OBVIOUS
    <3>1. calls[k].remembered \in Nat /\ calls[k].remembered <= Len(sets)
      BY CallType
    <3> QED BY <2>3, <2>4, <2>5, <3>1
  <2> QED BY <1>4, <2>1, <2>3, <2>6, Answering DEF TypeOK
<1> QED
  BY <1>1, <1>2, <1>3, <1>4 DEF Next

\* The type invariant.
THEOREM AuthorizerTypes == Spec => []TypeOK
<1>1. Init => TypeOK
  <2>1. \A S : <<>> \in Seq(S)
    BY EmptySeq
  <2> QED BY <2>1 DEF Init, TypeOK
<1>2. TypeOK /\ [Next]_vars => TypeOK'
  BY TypeStep
<1> QED
  BY <1>1, <1>2, PTL DEF Spec

LEMMA AnsweredStep ==
  ASSUME TypeOK, AnsweredSettled, [Next]_vars
  PROVE  AnsweredSettled'
<1>1. CASE UNCHANGED vars
  BY <1>1 DEF vars, AnsweredSettled
<1>2. ASSUME NEW t \in Turns, StartStep(t)
      PROVE  AnsweredSettled'
  <2> SUFFICES ASSUME NEW k \in 1..Len(calls'), calls'[k].answer # "none"
               PROVE  calls'[k].stage = "settled"
    BY DEF AnsweredSettled
  <2>1. k \in 1..Len(calls) \/ k > Len(calls)
    BY LenProperties DEF TypeOK
  <2>2. CASE k \in 1..Len(calls)
    BY <1>2, <2>2, StepAdds DEF AnsweredSettled
  <2>3. CASE k > Len(calls)
    <3>1. PICK tool \in Tools : calls'[k] = Asked(t, tool)
      BY <1>2, <2>3, StepAdds
    <3> QED BY <3>1, AskedCall
  <2> QED BY <2>1, <2>2, <2>3
<1>3. ASSUME (\E n \in 1..Len(calls) : Prompt(n)) \/ (\E t \in Turns : Abort(t))
      PROVE  AnsweredSettled'
  <2>1. Len(calls') = Len(calls) /\ \A k \in 1..Len(calls) : Moved(k)
    BY <1>3, Waiting
  <2> QED BY <2>1 DEF AnsweredSettled, Moved
<1>4. ASSUME NEW n \in 1..Len(calls), Reply(n)
      PROVE  AnsweredSettled'
  BY <1>4, Answering DEF AnsweredSettled
<1> QED
  BY <1>1, <1>2, <1>3, <1>4 DEF Next

\* What the operator allowed for a Turn stays allowed.
LEMMA AllowedStays ==
  ASSUME TypeOK, AnsweredSettled, [Next]_vars,
         NEW j \in 1..Len(calls), calls[j].answer = "allow-turn"
  PROVE  /\ j \in 1..Len(calls')
         /\ calls'[j].answer = "allow-turn"
         /\ calls'[j].turn = calls[j].turn /\ calls'[j].tool = calls[j].tool
<1>1. calls[j].stage = "settled"
  BY DEF AnsweredSettled
<1>2. CASE UNCHANGED vars
  BY <1>2 DEF vars
<1>3. ASSUME NEW t \in Turns, StartStep(t)
      PROVE  j \in 1..Len(calls') /\ calls'[j] = calls[j]
  BY <1>3, StepAdds, LenProperties DEF TypeOK
<1>4. ASSUME (\E n \in 1..Len(calls) : Prompt(n)) \/ (\E t \in Turns : Abort(t))
      PROVE  Len(calls') = Len(calls) /\ Kept(j) /\ Moved(j)
  BY <1>4, Waiting
<1>5. ASSUME NEW n \in 1..Len(calls), Reply(n)
      PROVE  Len(calls') = Len(calls) /\ calls'[j] = calls[j]
  <2>1. j # n
    BY <1>1, <1>5 DEF Reply
  <2> QED BY <1>5, <2>1, Answering
<1>6. CASE Len(calls') = Len(calls) /\ Kept(j) /\ Moved(j)
  BY <1>6 DEF Kept, Moved
<1> QED
  BY <1>2, <1>3, <1>4, <1>5, <1>6 DEF Next

\* Each step leaves every approval set with the Turn it served, and with what the
\* operator allowed in it.
LEMMA ServeStep ==
  ASSUME AuthorizerInv, [Next]_vars
  PROVE  SetsServeOneTurn'
<1> USE DEF AuthorizerInv
<1>0. SUFFICES ASSUME NEW s \in 1..Len(sets')
               PROVE  \E u \in Turns : Serves(u, s)'
  BY DEF SetsServeOneTurn
\* It is enough to look at the index and at what was added.
<1>1. ASSUME NEW u \in Turns, s \in 1..Len(sets), Serves(u, s),
             \A v \in Turns : approvals'[v] = s => approvals[v] = s \/ v = u,
             \A k \in 1..Len(calls') : calls'[k].remembered = s =>
               \/ k \in 1..Len(calls) /\ calls[k].remembered = s /\ calls'[k].turn = calls[k].turn
               \/ calls'[k].turn = u,
             \A tool \in sets'[s] : tool \in sets[s] \/ \E j \in 1..Len(calls') :
               calls'[j].answer = "allow-turn" /\ calls'[j].turn = u /\ calls'[j].tool = tool
      PROVE  Serves(u, s)'
  <2>1. \A v \in Turns : approvals'[v] = s => v = u
    BY <1>1 DEF Serves
  <2>2. \A k \in 1..Len(calls') : calls'[k].remembered = s => calls'[k].turn = u
    BY <1>1 DEF Serves
  <2>3. \A tool \in sets'[s] : \E j \in 1..Len(calls') :
          calls'[j].answer = "allow-turn" /\ calls'[j].turn = u /\ calls'[j].tool = tool
    <3> SUFFICES ASSUME NEW tool \in sets[s]
                 PROVE  \E j \in 1..Len(calls') :
                          calls'[j].answer = "allow-turn" /\ calls'[j].turn = u /\ calls'[j].tool = tool
      BY <1>1
    <3>1. PICK j \in 1..Len(calls) :
            calls[j].answer = "allow-turn" /\ calls[j].turn = u /\ calls[j].tool = tool
      BY <1>1 DEF Serves
    <3> QED BY <3>1, AllowedStays
  <2> QED BY <2>1, <2>2, <2>3 DEF Serves
<1>2. CASE UNCHANGED vars
  <2>1. s \in 1..Len(sets)
    BY <1>2 DEF vars
  <2>2. PICK u \in Turns : Serves(u, s)
    BY <2>1 DEF SetsServeOneTurn
  <2> QED BY <1>1, <1>2, <2>1, <2>2 DEF vars
<1>3. ASSUME NEW t \in Turns, StartStep(t)
      PROVE  \E u \in Turns : Serves(u, s)'
  <2>1. UNCHANGED <<sets, approvals>>
    BY <1>3 DEF StartStep
  <2>2. PICK u \in Turns : Serves(u, s)
    BY <2>1 DEF SetsServeOneTurn
  <2>3. ASSUME NEW k \in 1..Len(calls'), calls'[k].remembered = s
        PROVE  \/ k \in 1..Len(calls) /\ calls[k].remembered = s /\ calls'[k].turn = calls[k].turn
               \/ calls'[k].turn = u
    <3>1. k \in 1..Len(calls) \/ k > Len(calls)
      BY LenProperties DEF TypeOK
    <3>2. CASE k \in 1..Len(calls)
      BY <1>3, <2>3, <3>2, StepAdds
    <3>3. CASE k > Len(calls)
      <4>1. PICK tool \in Tools : calls'[k] = Asked(t, tool)
        BY <1>3, <3>3, StepAdds
      <4>2. calls'[k].turn = t /\ approvals[t] = s
        BY <2>3, <4>1, AskedCall
      <4> QED BY <2>2, <4>2 DEF Serves
    <3> QED BY <3>1, <3>2, <3>3
  <2> QED BY <1>1, <2>1, <2>2, <2>3
<1>4. ASSUME UNCHANGED <<sets, approvals>>, Len(calls') = Len(calls),
             \A k \in 1..Len(calls) : Kept(k)
      PROVE  \E u \in Turns : Serves(u, s)'
  <2>1. PICK u \in Turns : Serves(u, s)
    BY <1>4 DEF SetsServeOneTurn
  <2> QED BY <1>1, <1>4, <2>1 DEF Kept
<1>5. ASSUME (\E n \in 1..Len(calls) : Prompt(n)) \/ (\E t \in Turns : Abort(t))
      PROVE  \E u \in Turns : Serves(u, s)'
  BY <1>4, <1>5, Waiting
<1>6. ASSUME NEW n \in 1..Len(calls), Reply(n)
      PROVE  \E u \in Turns : Serves(u, s)'
  <2>1. /\ Len(calls') = Len(calls)
        /\ \A k \in 1..Len(calls) : Kept(k)
    BY <1>6, Answering DEF Kept
  <2>2. /\ calls[n].tool \in Tools /\ calls[n].turn \in Turns
        /\ calls[n].remembered \in Nat /\ calls[n].remembered <= Len(sets)
        /\ Len(sets) \in Nat
    BY CallType
  <2>3. CASE UNCHANGED <<sets, approvals>>
    BY <1>4, <2>1, <2>3
  <2>4. CASE calls'[n].answer = "allow-turn" /\ RememberTool(n) /\ calls[n].remembered # 0
    <3>1. /\ sets' = [sets EXCEPT ![calls[n].remembered] = @ \cup {calls[n].tool}]
          /\ approvals' = approvals
      BY <2>4 DEF RememberTool
    <3>2. /\ calls[n].remembered \in 1..Len(sets)
          /\ sets[calls[n].remembered] \cup {calls[n].tool} \in SUBSET Tools
      BY <2>2, <2>4, ElementOfSeq DEF TypeOK
    <3>3. s \in 1..Len(sets)
      BY <3>1, <3>2, ExceptSeq DEF TypeOK
    <3>4. PICK u \in Turns : Serves(u, s)
      BY <3>3 DEF SetsServeOneTurn
    <3>5. ASSUME NEW tool \in sets'[s], tool \notin sets[s]
          PROVE  s = calls[n].remembered /\ tool = calls[n].tool
      BY <3>1, <3>2, <3>3, <3>5 DEF TypeOK
    <3>6. calls[n].remembered = s => calls[n].turn = u
      BY <3>4 DEF Serves
    <3>7. \A tool \in sets'[s] : tool \in sets[s] \/ \E j \in 1..Len(calls') :
             calls'[j].answer = "allow-turn" /\ calls'[j].turn = u /\ calls'[j].tool = tool
      BY <2>1, <2>4, <3>5, <3>6 DEF Kept
    <3>8. \A k \in 1..Len(calls') : calls'[k].remembered = s =>
            k \in 1..Len(calls) /\ calls[k].remembered = s /\ calls'[k].turn = calls[k].turn
      BY <2>1 DEF Kept
    <3> QED BY <1>1, <3>1, <3>3, <3>4, <3>7, <3>8
  <2>5. CASE calls'[n].answer = "allow-turn" /\ RememberTool(n) /\ calls[n].remembered = 0
    <3>1. /\ sets' = Append(sets, {calls[n].tool})
          /\ approvals' = [approvals EXCEPT ![calls[n].turn] = Len(sets) + 1]
      BY <2>5 DEF RememberTool
    <3>2. /\ Len(sets') = Len(sets) + 1
          /\ sets'[Len(sets) + 1] = {calls[n].tool}
          /\ \A m \in 1..Len(sets) : sets'[m] = sets[m]
      BY <2>2, <3>1, AppendProperties DEF TypeOK
    <3>3. CASE s \in 1..Len(sets)
      <4>1. PICK u \in Turns : Serves(u, s)
        BY <3>3 DEF SetsServeOneTurn
      <4>2. \A v \in Turns : approvals'[v] = s => approvals[v] = s
        BY <2>2, <3>1, <3>3 DEF TypeOK
      <4>3. sets'[s] = sets[s]
        BY <3>2, <3>3
      <4> QED BY <1>1, <2>1, <3>3, <4>1, <4>2, <4>3 DEF Kept
    <3>4. CASE s = Len(sets) + 1
      <4>1. \A v \in Turns : approvals'[v] = s => v = calls[n].turn
        <5> SUFFICES ASSUME NEW v \in Turns, v # calls[n].turn PROVE approvals'[v] # s
          OBVIOUS
        <5>1. approvals'[v] = approvals[v] /\ approvals[v] \in Nat /\ approvals[v] <= Len(sets)
          BY <3>1 DEF TypeOK
        <5> QED BY <2>2, <3>4, <5>1
      <4>2. \A k \in 1..Len(calls') : calls'[k].remembered # s
        <5> SUFFICES ASSUME NEW k \in 1..Len(calls) PROVE calls[k].remembered # s
          BY <2>1 DEF Kept
        <5>1. calls[k].remembered \in Nat /\ calls[k].remembered <= Len(sets)
          BY CallType
        <5> QED BY <2>2, <3>4, <5>1
      <4>3. \A tool \in sets'[s] : \E j \in 1..Len(calls') :
              calls'[j].answer = "allow-turn" /\ calls'[j].turn = calls[n].turn /\ calls'[j].tool = tool
        BY <2>1, <2>5, <3>2, <3>4 DEF Kept
      <4> QED BY <2>2, <4>1, <4>2, <4>3 DEF Serves
    <3> QED BY <2>2, <3>2, <3>3, <3>4
  <2> QED BY <1>6, <2>3, <2>4, <2>5, Answering
<1> QED
  BY <1>2, <1>3, <1>5, <1>6 DEF Next

LEMMA AuthorizerAlways == Spec => []AuthorizerInv
<1>1. Init => AnsweredSettled /\ SetsServeOneTurn
  BY DEF Init, AnsweredSettled, SetsServeOneTurn
<1>2. AuthorizerInv /\ [Next]_vars => (AnsweredSettled /\ SetsServeOneTurn)'
  BY AnsweredStep, ServeStep DEF AuthorizerInv
<1> QED
  BY <1>1, <1>2, AuthorizerTypes, PTL DEF Spec, AuthorizerInv

-----------------------------------------------------------------------------
(* Nothing runs without the operator's word for it.                        *)

LEMMA AllowedStep ==
  ASSUME AuthorizerInv, AllowedByOperator, [Next]_vars
  PROVE  AllowedByOperator'
<1> USE DEF AuthorizerInv
<1>0. SUFFICES ASSUME NEW k \in 1..Len(calls'), calls'[k].outcome = "allowed"
               PROVE  \/ calls'[k].tool \in AutoAllow
                      \/ calls'[k].answer \in Allowing
                      \/ \E j \in 1..(k - 1) : /\ calls'[j].answer = "allow-turn"
                                               /\ calls'[j].tool = calls'[k].tool
                                               /\ calls'[j].turn = calls'[k].turn
  BY DEF AllowedByOperator
<1>1. Len(calls) \in Nat
  BY LenProperties DEF TypeOK
<1>2. ASSUME NEW j \in 1..Len(calls), j \in 1..(k - 1), calls[j].answer = "allow-turn",
             calls[j].tool = calls'[k].tool, calls[j].turn = calls'[k].turn
      PROVE  \E l \in 1..(k - 1) : /\ calls'[l].answer = "allow-turn"
                                   /\ calls'[l].tool = calls'[k].tool
                                   /\ calls'[l].turn = calls'[k].turn
  BY <1>2, AllowedStays
\* A call that was there, allowed and with the same answer.
<1>3. ASSUME k \in 1..Len(calls), calls[k].outcome = "allowed",
             Kept(k), calls'[k].answer = calls[k].answer
      PROVE  \/ calls'[k].tool \in AutoAllow
             \/ calls'[k].answer \in Allowing
             \/ \E j \in 1..(k - 1) : /\ calls'[j].answer = "allow-turn"
                                      /\ calls'[j].tool = calls'[k].tool
                                      /\ calls'[j].turn = calls'[k].turn
  <2>1. CASE calls[k].tool \in AutoAllow \/ calls[k].answer \in Allowing
    BY <1>3, <2>1 DEF Kept
  <2>2. ASSUME NEW j \in 1..(k - 1), calls[j].answer = "allow-turn",
               calls[j].tool = calls[k].tool, calls[j].turn = calls[k].turn
        PROVE  \E l \in 1..(k - 1) : /\ calls'[l].answer = "allow-turn"
                                     /\ calls'[l].tool = calls'[k].tool
                                     /\ calls'[l].turn = calls'[k].turn
    <3>1. j \in 1..Len(calls)
      BY <1>1, <1>3
    <3> QED BY <1>2, <1>3, <2>2, <3>1 DEF Kept
  <2> QED BY <1>3, <2>1, <2>2 DEF AllowedByOperator
<1>4. CASE UNCHANGED vars
  BY <1>0, <1>3, <1>4 DEF vars, Kept
<1>5. ASSUME NEW t \in Turns, StartStep(t), k \in 1..Len(calls)
      PROVE  calls[k].outcome = "allowed" /\ Kept(k) /\ calls'[k].answer = calls[k].answer
  BY <1>0, <1>5, StepAdds DEF Kept
<1>6. ASSUME NEW t \in Turns, StartStep(t), k > Len(calls)
      PROVE  \/ calls'[k].tool \in AutoAllow
             \/ \E j \in 1..(k - 1) : /\ calls'[j].answer = "allow-turn"
                                      /\ calls'[j].tool = calls'[k].tool
                                      /\ calls'[j].turn = calls'[k].turn
  <2>1. PICK tool \in Tools : calls'[k] = Asked(t, tool)
    BY <1>6, StepAdds
  <2>2. /\ calls'[k].turn = t /\ calls'[k].tool = tool
        /\ \/ tool \in AutoAllow
           \/ approvals[t] # 0 /\ tool \in sets[approvals[t]]
    BY <1>0, <2>1, AskedCall
  <2>3. ASSUME approvals[t] # 0, tool \in sets[approvals[t]]
        PROVE  \E j \in 1..Len(calls) :
                 calls[j].answer = "allow-turn" /\ calls[j].turn = t /\ calls[j].tool = tool
    <3>1. approvals[t] \in 1..Len(sets)
      BY <2>3, LenProperties DEF TypeOK
    <3>2. PICK u \in Turns : Serves(u, approvals[t])
      BY <3>1 DEF SetsServeOneTurn
    <3> QED BY <2>3, <3>2 DEF Serves
  <2>4. 1..Len(calls) \subseteq 1..(k - 1)
    BY <1>1, <1>6
  <2> QED BY <1>2, <2>2, <2>3, <2>4
<1>7. ASSUME (\E n \in 1..Len(calls) : Prompt(n)) \/ (\E t \in Turns : Abort(t))
      PROVE  k \in 1..Len(calls) /\ calls[k].outcome = "allowed"
             /\ Kept(k) /\ calls'[k].answer = calls[k].answer
  BY <1>0, <1>7, Waiting DEF Moved
<1>8. ASSUME NEW n \in 1..Len(calls), Reply(n), k # n
      PROVE  k \in 1..Len(calls) /\ calls[k].outcome = "allowed"
             /\ Kept(k) /\ calls'[k].answer = calls[k].answer
  BY <1>0, <1>8, Answering DEF Kept
<1>9. ASSUME NEW n \in 1..Len(calls), Reply(n), k = n
      PROVE  calls'[k].answer \in Allowing
  BY <1>0, <1>9, Answering
<1>10. k \in 1..Len(calls) \/ k > Len(calls)
  BY <1>1, LenProperties
<1> QED
  BY <1>3, <1>4, <1>5, <1>6, <1>7, <1>8, <1>9, <1>10 DEF Next

\* AllowedByOperator: a Tool that is not auto-allowed runs only if the operator
\* allowed this very call, or allowed the Tool for the Turn at an earlier call of
\* the same Turn, however the Turns' Steps, prompts, answers and aborts mix.
THEOREM NothingRunsUnasked == Spec => []AllowedByOperator
<1>1. Init => AllowedByOperator
  BY DEF Init, AllowedByOperator
<1>2. AuthorizerInv /\ AllowedByOperator /\ [Next]_vars => AllowedByOperator'
  BY AllowedStep
<1> QED
  BY <1>1, <1>2, AuthorizerAlways, PTL DEF Spec

-----------------------------------------------------------------------------
(* The chain of prompts.                                                   *)

LEMMA OrderStep ==
  ASSUME TypeOK, ChainInOrder, [Next]_vars
  PROVE  ChainInOrder'
<1>0. SUFFICES ASSUME NEW k \in 1..Len(calls'), NEW j \in 1..Len(calls'), k < j,
                      calls'[k].stage \in {"queued", "prompting"}
               PROVE  calls'[j].stage \in {"none", "queued"}
  BY DEF ChainInOrder
<1>1. Len(calls) \in Nat
  BY LenProperties DEF TypeOK
<1>2. CASE UNCHANGED vars
  BY <1>0, <1>2 DEF vars, ChainInOrder
<1>3. ASSUME NEW t \in Turns, StartStep(t)
      PROVE  calls'[j].stage \in {"none", "queued"}
  <2>1. CASE j \in 1..Len(calls)
    <3>1. k \in 1..Len(calls)
      BY <1>0, <1>1, <2>1
    <3> QED BY <1>0, <1>3, <2>1, <3>1, StepAdds DEF ChainInOrder
  <2>2. CASE j > Len(calls)
    <3>1. PICK tool \in Tools : calls'[j] = Asked(t, tool)
      BY <1>3, <2>2, StepAdds
    <3> QED BY <3>1, AskedCall
  <2> QED BY <1>1, <2>1, <2>2, LenProperties
<1>4. ASSUME (\E n \in 1..Len(calls) : Prompt(n)) \/ (\E t \in Turns : Abort(t))
      PROVE  calls'[j].stage \in {"none", "queued"}
  <2>1. k \in 1..Len(calls) /\ j \in 1..Len(calls) /\ Moved(k) /\ Moved(j)
    BY <1>4, Waiting
  <2>2. calls[k].stage \in {"queued", "prompting"}
    BY <1>0, <2>1 DEF Moved
  <2>3. calls[j].stage \in {"none", "queued"}
    BY <1>0, <2>1, <2>2 DEF ChainInOrder
  <2>4. k \in 1..(j - 1)
    BY <1>0, <1>1, <2>1
  <2> QED BY <2>1, <2>2, <2>3, <2>4 DEF Moved
<1>5. ASSUME NEW n \in 1..Len(calls), Reply(n)
      PROVE  calls'[j].stage \in {"none", "queued"}
  <2>1. k # n /\ k \in 1..Len(calls) /\ j \in 1..Len(calls) /\ calls'[k] = calls[k]
    BY <1>0, <1>5, Answering
  <2>2. calls[j].stage \in {"none", "queued"}
    BY <1>0, <2>1 DEF ChainInOrder
  <2>3. j # n
    BY <1>5, <2>2 DEF Reply
  <2> QED BY <1>5, <2>1, <2>2, <2>3, Answering
<1> QED
  BY <1>2, <1>3, <1>4, <1>5 DEF Next

\* OnePrompt: however many Turns ask at once, the operator sees one prompt at a
\* time, in the order the calls asked.
THEOREM PromptsOneByOne == Spec => []OnePrompt
<1>1. Init => ChainInOrder
  BY DEF Init, ChainInOrder
<1>2. TypeOK /\ ChainInOrder /\ [Next]_vars => ChainInOrder'
  BY OrderStep
<1>3. TypeOK /\ ChainInOrder => OnePrompt
  <2> SUFFICES ASSUME TypeOK, ChainInOrder, NEW k \in 1..Len(calls), NEW j \in 1..Len(calls),
                      calls[k].stage = "prompting"
               PROVE  /\ j < k => calls[j].stage \in {"none", "settled"}
                      /\ j > k => calls[j].stage \in {"none", "queued"}
    BY DEF OnePrompt
  <2>1. calls[j].stage \in {"none", "queued", "prompting", "settled"}
    BY CallType DEF Call
  <2> QED BY <2>1 DEF ChainInOrder
<1> QED
  BY <1>1, <1>2, <1>3, AuthorizerTypes, PTL DEF Spec

-----------------------------------------------------------------------------
(* README.md:168, "allow-for-this-Turn approval".  The runs show that two  *)
(* ToolCalls of one Step can lose it; Steps of one ToolCall never do.      *)

\* A pending call is the only one of its Turn, and what it remembers is current.
PendingCurrent ==
  \A k \in 1..Len(calls) : calls[k].outcome = "pending" =>
    /\ calls[k].remembered = approvals[calls[k].turn]
    /\ \A j \in 1..Len(calls) :
         calls[j].outcome = "pending" /\ calls[j].turn = calls[k].turn => j = k

\* What was allowed for a Turn is in its present set.
AllowedInSet ==
  \A j \in 1..Len(calls) : calls[j].answer = "allow-turn" =>
    /\ approvals[calls[j].turn] # 0
    /\ calls[j].tool \in sets[approvals[calls[j].turn]]

\* WaitingPending of one call.
WaitsAsPending(call, dead) ==
  /\ call.outcome = "pending" => call.stage \in {"queued", "prompting"}
  /\ call.stage \in {"queued", "prompting"} =>
       call.outcome = IF call.turn \in dead THEN "rejected" ELSE "pending"
  /\ call.stage = "prompting" => call.turn \notin dead

LEMMA WaitingStep ==
  ASSUME TypeOK, WaitingPending, [Next]_vars
  PROVE  WaitingPending'
<1>0. SUFFICES ASSUME NEW k \in 1..Len(calls') PROVE WaitsAsPending(calls'[k], aborted')
  BY DEF WaitingPending, WaitsAsPending
<1>1. \A j \in 1..Len(calls) : calls[j] \in Call /\ WaitsAsPending(calls[j], aborted)
  BY CallType DEF WaitingPending, WaitsAsPending
<1>2. CASE UNCHANGED vars
  BY <1>1, <1>2 DEF vars
<1>3. ASSUME NEW t \in Turns, StartStep(t)
      PROVE  WaitsAsPending(calls'[k], aborted')
  <2>1. aborted' = aborted
    BY <1>3 DEF StartStep
  <2>2. CASE k \in 1..Len(calls)
    BY <1>1, <1>3, <2>1, <2>2, StepAdds
  <2>3. CASE k > Len(calls)
    <3>1. PICK tool \in Tools : calls'[k] = Asked(t, tool)
      BY <1>3, <2>3, StepAdds
    <3>2. WaitsAsPending(Asked(t, tool), aborted)
      BY DEF Asked, WaitsAsPending
    <3> QED BY <2>1, <3>1, <3>2
  <2> QED BY <2>2, <2>3, LenProperties DEF TypeOK
<1>4. ASSUME NEW n \in 1..Len(calls), Prompt(n)
      PROVE  WaitsAsPending(calls'[k], aborted')
  <2>1. k \in 1..Len(calls) /\ aborted' = aborted
    BY <1>4, Waiting DEF Prompt
  <2>2. CASE k # n
    <3>1. calls'[k] = calls[k]
      BY <1>4, <2>1, <2>2 DEF Prompt, TypeOK
    <3> QED BY <1>1, <2>1, <3>1
  <2>3. CASE k = n
    <3>1. calls'[n] = [calls[n] EXCEPT !.stage =
                         IF calls[n].turn \in aborted THEN "settled" ELSE "prompting"]
      BY <1>4 DEF Prompt, TypeOK
    <3>2. calls[n] \in Call /\ calls[n].stage = "queued" /\ WaitsAsPending(calls[n], aborted)
      BY <1>1, <1>4 DEF Prompt
    <3> QED BY <2>1, <2>3, <3>1, <3>2 DEF WaitsAsPending, Call
  <2> QED BY <2>2, <2>3
<1>5. ASSUME NEW t \in Turns, Abort(t)
      PROVE  WaitsAsPending(calls'[k], aborted')
  <2>1. k \in 1..Len(calls) /\ aborted' = aborted \cup {t}
    BY <1>5, Waiting DEF Abort
  <2>2. calls[k] \in Call /\ WaitsAsPending(calls[k], aborted)
    BY <1>1, <2>1
  <2>3. calls'[k] = IF calls[k].turn # t \/ calls[k].outcome # "pending" THEN calls[k]
                    ELSE [calls[k] EXCEPT !.outcome = "rejected",
                            !.stage = IF @ = "prompting" THEN "settled" ELSE @]
    <3>1. DOMAIN calls = 1..Len(calls)
      BY LenProperties DEF TypeOK
    <3> QED BY <1>5, <2>1, <3>1 DEF Abort
  <2>4. CASE calls[k].turn # t \/ calls[k].outcome # "pending"
    BY <2>1, <2>2, <2>3, <2>4 DEF WaitsAsPending
  <2>5. CASE calls[k].turn = t /\ calls[k].outcome = "pending"
    <3>1. calls'[k] = [calls[k] EXCEPT !.outcome = "rejected",
                         !.stage = IF calls[k].stage = "prompting" THEN "settled"
                                   ELSE calls[k].stage]
      BY <2>3, <2>5
    <3> QED BY <2>1, <2>2, <2>5, <3>1 DEF WaitsAsPending, Call
  <2> QED BY <2>4, <2>5
<1>6. ASSUME NEW n \in 1..Len(calls), Reply(n)
      PROVE  WaitsAsPending(calls'[k], aborted')
  <2>1. k \in 1..Len(calls) /\ aborted' = aborted
    BY <1>6, Answering DEF Reply
  <2>2. CASE k # n
    BY <1>1, <1>6, <2>1, <2>2, Answering
  <2>3. CASE k = n
    <3>1. PICK a \in Answer :
            calls' = [calls EXCEPT ![n].stage = "settled", ![n].answer = a,
                        ![n].outcome = IF a \in Allowing THEN "allowed" ELSE "denied"]
      BY <1>6 DEF Reply
    <3>2. calls'[n].stage = "settled" /\ calls'[n].outcome \in {"allowed", "denied"}
      BY <1>1, <3>1 DEF TypeOK, Call
    <3> QED BY <2>3, <3>2 DEF WaitsAsPending
  <2> QED BY <2>2, <2>3
<1> QED
  BY <1>2, <1>3, <1>4, <1>5, <1>6 DEF Next

LEMMA CurrentStep ==
  ASSUME MaxBatch = 1, TypeOK, WaitingPending, PendingCurrent, [Next]_vars
  PROVE  PendingCurrent'
<1>0. SUFFICES ASSUME NEW k \in 1..Len(calls'), calls'[k].outcome = "pending"
               PROVE  /\ calls'[k].remembered = approvals'[calls'[k].turn]
                      /\ \A j \in 1..Len(calls') :
                           calls'[j].outcome = "pending" /\ calls'[j].turn = calls'[k].turn => j = k
  BY DEF PendingCurrent
<1>1. Len(calls) \in Nat /\ Len(calls) \in Nat
  BY LenProperties DEF TypeOK
<1>2. CASE UNCHANGED vars
  BY <1>0, <1>2 DEF vars, PendingCurrent
<1>3. ASSUME NEW t \in Turns, StartStep(t)
      PROVE  /\ calls'[k].remembered = approvals'[calls'[k].turn]
             /\ \A j \in 1..Len(calls') :
                  calls'[j].outcome = "pending" /\ calls'[j].turn = calls'[k].turn => j = k
  <2>1. approvals' = approvals /\ \A j \in 1..Len(calls) :
          calls[j].turn = t => calls[j].outcome # "pending"
    BY <1>3 DEF StartStep
  <2>2. \A j \in 1..Len(calls') : \/ j \in 1..Len(calls) /\ calls'[j] = calls[j]
                                  \/ j = Len(calls) + 1 /\ calls'[j].turn = t
                                     /\ calls'[j].remembered = approvals[t]
    <3> SUFFICES ASSUME NEW j \in 1..Len(calls'), j \notin 1..Len(calls)
                 PROVE  j = Len(calls) + 1 /\ calls'[j].turn = t
                        /\ calls'[j].remembered = approvals[t]
      BY <1>3, StepAdds
    <3>1. j > Len(calls) /\ j = Len(calls) + 1
      BY <1>1, <1>3, StepAdds, LenProperties
    <3>2. PICK tool \in Tools : calls'[j] = Asked(t, tool)
      BY <1>3, <3>1, StepAdds
    <3> QED BY <3>1, <3>2, AskedCall
  <2> QED BY <1>0, <2>1, <2>2 DEF PendingCurrent
<1>4. ASSUME (\E n \in 1..Len(calls) : Prompt(n)) \/ (\E t \in Turns : Abort(t))
      PROVE  /\ calls'[k].remembered = approvals'[calls'[k].turn]
             /\ \A j \in 1..Len(calls') :
                  calls'[j].outcome = "pending" /\ calls'[j].turn = calls'[k].turn => j = k
  <2>1. /\ approvals' = approvals /\ Len(calls') = Len(calls)
        /\ \A j \in 1..Len(calls) : Kept(j) /\ Moved(j)
    BY <1>4, Waiting
  <2>2. \A j \in 1..Len(calls) :
          /\ calls'[j].turn = calls[j].turn /\ calls'[j].remembered = calls[j].remembered
          /\ calls'[j].outcome = "pending" => calls[j].outcome = "pending"
    BY <2>1 DEF Kept, Moved
  <2> QED BY <1>0, <2>1, <2>2 DEF PendingCurrent
<1>5. ASSUME NEW n \in 1..Len(calls), Reply(n)
      PROVE  /\ calls'[k].remembered = approvals'[calls'[k].turn]
             /\ \A j \in 1..Len(calls') :
                  calls'[j].outcome = "pending" /\ calls'[j].turn = calls'[k].turn => j = k
  <2>1. calls[n].outcome = "pending"
    BY <1>5 DEF WaitingPending, Reply
  <2>2. calls'[n].outcome # "pending" /\ Len(calls') = Len(calls)
        /\ \A j \in 1..Len(calls) : j # n => calls'[j] = calls[j]
    BY <1>5, Answering
  <2>3. k # n /\ k \in 1..Len(calls) /\ calls'[k] = calls[k]
    BY <1>0, <2>2
  <2>4. calls[k].turn # calls[n].turn /\ calls[k].remembered = approvals[calls[k].turn]
    BY <1>0, <2>1, <2>3 DEF PendingCurrent
  <2>5. calls[k].turn \in Turns
    BY <2>3, CallType
  <2>6. approvals'[calls[k].turn] = approvals[calls[k].turn]
    BY <1>5, <2>4, <2>5, Answering DEF RememberTool, TypeOK
  <2> QED BY <1>0, <2>2, <2>3, <2>4, <2>6 DEF PendingCurrent
<1> QED
  BY <1>2, <1>3, <1>4, <1>5 DEF Next

LEMMA InSetStep ==
  ASSUME TypeOK, AnsweredSettled, WaitingPending, PendingCurrent, AllowedInSet, [Next]_vars
  PROVE  AllowedInSet'
<1>0. SUFFICES ASSUME NEW j \in 1..Len(calls'), calls'[j].answer = "allow-turn"
               PROVE  /\ approvals'[calls'[j].turn] # 0
                      /\ calls'[j].tool \in sets'[approvals'[calls'[j].turn]]
  BY DEF AllowedInSet
<1>1. ASSUME UNCHANGED <<sets, approvals>>, j \in 1..Len(calls), Kept(j),
             calls[j].answer = "allow-turn"
      PROVE  /\ approvals'[calls'[j].turn] # 0
             /\ calls'[j].tool \in sets'[approvals'[calls'[j].turn]]
  BY <1>1 DEF Kept, AllowedInSet
<1>2. CASE UNCHANGED vars
  BY <1>0, <1>1, <1>2 DEF vars, Kept
<1>3. ASSUME NEW t \in Turns, StartStep(t)
      PROVE  UNCHANGED <<sets, approvals>> /\ j \in 1..Len(calls) /\ Kept(j)
             /\ calls[j].answer = "allow-turn"
  <2>1. CASE j \in 1..Len(calls)
    BY <1>0, <1>3, <2>1, StepAdds DEF StartStep, Kept
  <2>2. CASE j > Len(calls)
    <3>1. PICK tool \in Tools : calls'[j] = Asked(t, tool)
      BY <1>3, <2>2, StepAdds
    <3> QED BY <1>0, <3>1, AskedCall
  <2> QED BY <2>1, <2>2, LenProperties DEF TypeOK
<1>4. ASSUME (\E n \in 1..Len(calls) : Prompt(n)) \/ (\E t \in Turns : Abort(t))
      PROVE  UNCHANGED <<sets, approvals>> /\ j \in 1..Len(calls) /\ Kept(j)
             /\ calls[j].answer = "allow-turn"
  BY <1>0, <1>4, Waiting DEF Moved
<1>5. ASSUME NEW n \in 1..Len(calls), Reply(n)
      PROVE  /\ approvals'[calls'[j].turn] # 0
             /\ calls'[j].tool \in sets'[approvals'[calls'[j].turn]]
  <2>1. calls[n].remembered = approvals[calls[n].turn]
    BY <1>5 DEF WaitingPending, Reply, PendingCurrent
  <2>2. j \in 1..Len(calls) /\ Kept(j) /\ (j # n => calls[j].answer = "allow-turn")
    BY <1>0, <1>5, Answering DEF Kept
  <2>3. /\ calls[j].turn \in Turns /\ calls[j].tool \in Tools
        /\ calls[n].turn \in Turns /\ calls[n].tool \in Tools
        /\ Len(sets) \in Nat
    BY <2>2, CallType
  <2>4. approvals[calls[j].turn] \in 0..Len(sets) /\ approvals[calls[n].turn] \in 0..Len(sets)
    BY <2>3 DEF TypeOK
  <2>5. j # n => approvals[calls[j].turn] # 0 /\ calls[j].tool \in sets[approvals[calls[j].turn]]
    BY <2>2 DEF AllowedInSet
  <2>6. CASE calls'[n].answer # "allow-turn"
    BY <1>0, <1>1, <1>5, <2>2, <2>6, Answering
  <2>7. CASE RememberTool(n) /\ calls[n].remembered # 0
    <3>1. /\ sets' = [sets EXCEPT ![calls[n].remembered] = @ \cup {calls[n].tool}]
          /\ approvals' = approvals
      BY <2>7 DEF RememberTool
    <3>2. /\ calls[n].remembered \in 1..Len(sets)
          /\ DOMAIN sets = 1..Len(sets)
      BY <2>1, <2>3, <2>4, <2>7, LenProperties DEF TypeOK
    <3>3. /\ \A m \in 1..Len(sets) : sets[m] \subseteq sets'[m]
          /\ calls[n].tool \in sets'[calls[n].remembered]
      BY <3>1, <3>2
    <3> QED BY <2>1, <2>2, <2>4, <2>5, <2>7, <3>1, <3>2, <3>3 DEF Kept
  <2>8. CASE RememberTool(n) /\ calls[n].remembered = 0
    <3>1. /\ sets' = Append(sets, {calls[n].tool})
          /\ approvals' = [approvals EXCEPT ![calls[n].turn] = Len(sets) + 1]
      BY <2>8 DEF RememberTool
    <3>2. /\ sets'[Len(sets) + 1] = {calls[n].tool}
          /\ \A m \in 1..Len(sets) : sets'[m] = sets[m]
      BY <2>3, <3>1, AppendProperties DEF TypeOK
    <3>3. j # n => calls[j].turn # calls[n].turn
      BY <2>1, <2>5, <2>8
    <3>4. CASE j = n
      <4>1. approvals'[calls[n].turn] = Len(sets) + 1
        BY <2>3, <3>1 DEF TypeOK
      <4> QED BY <2>2, <2>3, <3>2, <3>4, <4>1 DEF Kept
    <3>5. CASE j # n
      <4>1. approvals'[calls[j].turn] = approvals[calls[j].turn]
        BY <2>3, <3>1, <3>3, <3>5 DEF TypeOK
      <4> QED BY <2>2, <2>4, <2>5, <3>2, <3>5, <4>1 DEF Kept
    <3> QED BY <3>4, <3>5
  <2> QED BY <1>5, <2>6, <2>7, <2>8, Answering
<1> QED
  BY <1>0, <1>1, <1>2, <1>3, <1>4, <1>5 DEF Next

\* AllowTurnRemembered, for Steps of one ToolCall: when a Turn asks again for a
\* Tool the operator has allowed for the Turn, the operator is not asked.
THEOREM SingleCallsRemember == MaxBatch = 1 => (Spec => AllowTurnRemembered)
<1> SUFFICES ASSUME MaxBatch = 1 PROVE Spec => AllowTurnRemembered
  OBVIOUS
<1>1. Init => WaitingPending /\ PendingCurrent /\ AllowedInSet
  BY DEF Init, WaitingPending, PendingCurrent, AllowedInSet
<1>2. /\ AuthorizerInv /\ WaitingPending /\ PendingCurrent /\ AllowedInSet /\ [Next]_vars
      => (WaitingPending /\ PendingCurrent /\ AllowedInSet)'
  BY WaitingStep, CurrentStep, InSetStep DEF AuthorizerInv
<1>3. AuthorizerInv /\ AllowedInSet /\ [Next]_vars =>
        [\A k \in (Len(calls) + 1)..Len(calls') : \A j \in 1..Len(calls) :
           /\ calls[j].turn = calls'[k].turn
           /\ calls[j].tool = calls'[k].tool
           /\ calls[j].answer = "allow-turn"
           => calls'[k].stage = "none"]_vars
  <2> SUFFICES ASSUME AuthorizerInv, AllowedInSet, Next,
                      NEW k \in (Len(calls) + 1)..Len(calls'), NEW j \in 1..Len(calls),
                      calls[j].turn = calls'[k].turn, calls[j].tool = calls'[k].tool,
                      calls[j].answer = "allow-turn"
               PROVE  calls'[k].stage = "none"
    OBVIOUS
  <2>1. TypeOK /\ Len(calls) \in Nat
    BY LenProperties DEF AuthorizerInv, TypeOK
  <2>2. ASSUME NEW t \in Turns, StartStep(t)
        PROVE  calls'[k].stage = "none"
    <3>1. k \in 1..Len(calls') /\ k > Len(calls)
      BY <2>1, <2>2, StepAdds, LenProperties
    <3>2. PICK tool \in Tools : calls'[k] = Asked(t, tool)
      BY <2>1, <2>2, <3>1, StepAdds
    <3>3. calls'[k].turn = t /\ calls'[k].tool = tool
      BY <2>1, <3>2, AskedCall
    <3>4. approvals[t] # 0 /\ tool \in sets[approvals[t]]
      BY <3>3 DEF AllowedInSet
    <3> QED BY <3>2, <3>4 DEF Asked, Remembered
  <2>3. ASSUME Len(calls') = Len(calls)
        PROVE  FALSE
    BY <2>1, <2>3
  <2>4. (\E n \in 1..Len(calls) : Prompt(n)) \/ (\E t \in Turns : Abort(t))
        => Len(calls') = Len(calls)
    BY <2>1, Waiting
  <2>5. \A n \in 1..Len(calls) : Reply(n) => Len(calls') = Len(calls)
    BY <2>1, Answering
  <2> QED BY <2>2, <2>3, <2>4, <2>5 DEF Next
<1> QED
  BY <1>1, <1>2, <1>3, AuthorizerAlways, PTL DEF Spec, AllowTurnRemembered
=============================================================================
