------------------------- MODULE ContextWindowProofs -------------------------
(***************************************************************************)
(* Machine-checked facts about ContextWindow.tla, for every budget, every  *)
(* size of messages, summaries and blocks, and any number of Turns, Steps  *)
(* and compactions.  No fact about sums is needed: what a model is sent is *)
(* argued from which blocks are selected, not from how large they are.     *)
(***************************************************************************)
EXTENDS ContextWindow, FiniteSetTheorems, SequenceTheorems, WellFoundedInduction, TLAPS

EventTypes ==
  {"turn/started", "message", "skill/activated", "history/compacted", "turn/ended"}

Places == {"idle", "assembling", "shedding", "calling", "planning", "compacting", "failed"}

EventOf ==
  [type : EventTypes, turn : Nat, tokens : Nat, through : Nat, holds : SUBSET Nat]

BlockIds ==
  {"note", "agent/instructions", "skill/instructions", "skill/discovery",
   "history/summary", "history/prior", "history/messages"}

\* A block whose size is in T.
BlockOf(T) ==
  [id : BlockIds, retention : {"required", "preferred", "optional"}, tokens : T,
   truncate : BOOLEAN, holds : SUBSET Nat]

AreBlocks(blocks) == \E T : blocks \in Seq(BlockOf(T))

ContextTypeOK ==
  /\ events \in Seq(EventOf)
  /\ turn \in Nat
  /\ pc \in Places
  /\ counted \in BOOLEAN
  /\ plan \in [through : Nat, holds : SUBSET Nat]
  /\ AreBlocks(selected)

-----------------------------------------------------------------------------
(* The inductive invariant.                                                *)

\* Turns follow each other in the journal.
TurnsAscend ==
  /\ \A i, j \in 1..Len(events) : i <= j => events[i].turn <= events[j].turn
  /\ \A i \in 1..Len(events) : events[i].turn <= turn

\* Nothing of a Turn is recorded after its end.
EndsLast ==
  \A e \in At("turn/ended") : \A n \in 1..Len(events) :
    n > e => events[n].turn > events[e].turn

UpTo(e) == {m \in Messages : m <= e}

\* A summary stands for all messages up to the end of a Turn before it.
Summarizes(through, holds, t) ==
  /\ through \in At("turn/ended")
  /\ events[through].turn < t
  /\ holds = UpTo(through)

SummariesWhole ==
  \A k \in At("history/compacted") :
    Summarizes(events[k].through, events[k].holds, events[k].turn)

\* While a Turn runs it has not ended, and what it plans to compact is whole.
TurnIsOpen ==
  pc # "idle" => \A e \in At("turn/ended") : events[e].turn < turn

PlanIsWhole == pc = "compacting" => Summarizes(plan.through, plan.holds, turn)

JournalInv == TurnsAscend /\ EndsLast /\ SummariesWhole

\* What a block stands for.
HeldBy(id) ==
  CASE id = "history/messages" -> Current
    [] id = "history/prior"    -> Prior
    [] id = "history/summary"  -> (IF HasSummary THEN events[LatestCompaction].holds ELSE {})
    [] OTHER                   -> {}

IsSound(block) ==
  /\ block.holds = HeldBy(block.id)
  /\ block.id = "history/messages" => block.retention = "required"

DistinctIds(blocks) ==
  \A i, j \in DOMAIN blocks : i # j => blocks[i].id # blocks[j].id

\* The history is in the selected blocks or was dropped.
HistorySelected ==
  pc \in {"shedding", "calling"} =>
    /\ \A i \in DOMAIN selected : IsSound(selected[i])
    /\ DistinctIds(selected)
    /\ "history/messages" \in Ids(selected)
    /\ Prior # {} => "history/prior" \in Ids(selected) \cup dropped
    /\ HasSummary => "history/summary" \in Ids(selected) \cup dropped

\* What was counted is what will be sent.
CountedIsRequest ==
  /\ pc = "shedding" /\ counted =>
       request = selected /\ tokens \in Count(Total(request))
  /\ pc = "calling" =>
       /\ request = selected /\ tokens \in Count(Total(request))
       /\ tokens <= Budget /\ ~NeedsCompaction

ContextInv ==
  /\ ContextTypeOK
  /\ JournalInv
  /\ TurnIsOpen
  /\ PlanIsWhole
  /\ HistorySelected
  /\ CountedIsRequest

-----------------------------------------------------------------------------
(* Facts about sets of positions and sequences of blocks.                  *)

\* A set of positions has a greatest one, which Max chooses.
LEMMA MaxOfPositions ==
  ASSUME NEW n \in Nat, NEW S \in SUBSET (1..n), S # {}
  PROVE  Max(S) \in S /\ \A y \in S : Max(S) >= y
<1>1. PICK R : R = {ss \in Nat \X Nat : ss[1] < ss[2]}
  OBVIOUS
<1>2. IsWellFoundedOn(R, Nat)
  <2>1. R = OpToRel(<, Nat)
    BY <1>1, Zenon DEF OpToRel
  <2> QED BY <2>1, NatLessThanWellFounded, Zenon
<1>3. PICK T : T = {n - s : s \in S}
  OBVIOUS
<1>4. T \subseteq Nat /\ T # {}
  <2>1. \A s \in S : s \in Nat /\ n - s \in Nat
    OBVIOUS
  <2>2. PICK s \in S : TRUE
    OBVIOUS
  <2>3. n - s \in T
    BY <1>3
  <2>4. \A t \in T : t \in Nat
    BY <1>3, <2>1
  <2> QED BY <2>3, <2>4
<1>5. PICK t \in T : \A u \in T : ~ (<<u, t>> \in R)
  BY <1>2, <1>4, WFMin
<1>6. PICK s \in S : t = n - s
  BY <1>3
<1>7. ASSUME NEW y \in S PROVE s >= y
  <2>1. n - y \in T /\ n - y \in Nat /\ t \in Nat
    BY <1>3, <1>4
  <2>2. ~ (n - y < t)
    BY <1>1, <1>5, <2>1
  <2> QED BY <1>6, <2>2
<1>8. \E x \in S : \A y \in S : x >= y
  BY <1>7
<1> QED BY <1>8 DEF Max

LEMMA LastCompaction ==
  ASSUME ContextTypeOK, HasSummary
  PROVE  LatestCompaction \in At("history/compacted")
<1>1. At("history/compacted") \in SUBSET (1..Len(events)) /\ At("history/compacted") # {}
  BY DEF HasSummary, At
<1>2. Len(events) \in Nat
  BY DEF ContextTypeOK
<1> QED BY <1>1, <1>2, MaxOfPositions DEF LatestCompaction

LEMMA VictimIsSelected ==
  ASSUME AreBlocks(selected), Victim # 0
  PROVE  Victim \in 1..Len(selected) /\ selected[Victim].retention # "required"
<1> DEFINE Kept(retention) == {i \in DOMAIN selected : selected[i].retention = retention}
<1>1. DOMAIN selected = 1..Len(selected) /\ Len(selected) \in Nat
  BY DEF AreBlocks
<1>2. Victim = IF Kept("optional") # {} THEN Max(Kept("optional"))
               ELSE IF Kept("preferred") # {} THEN Max(Kept("preferred")) ELSE 0
  BY DEF Victim
<1>3. \A r : Kept(r) # {} => Max(Kept(r)) \in Kept(r)
  <2> TAKE r
  <2> DEFINE K == Kept(r)
  <2>1. K \in SUBSET (1..Len(selected))
    BY <1>1
  <2> HIDE DEF K
  <2>2. K # {} => Max(K) \in K
    BY <1>1, <2>1, MaxOfPositions
  <2> QED BY <2>2 DEF K
<1>4. CASE Kept("optional") # {}
  <2>1. Victim = Max(Kept("optional"))
    BY <1>2, <1>4
  <2>2. Victim \in Kept("optional")
    BY <1>3, <1>4, <2>1
  <2> QED BY <1>1, <2>2
<1>5. CASE Kept("optional") = {}
  <2>1. Kept("preferred") # {} /\ Victim = Max(Kept("preferred"))
    BY <1>2, <1>5
  <2>2. Victim \in Kept("preferred")
    BY <1>3, <2>1
  <2> QED BY <1>1, <2>2
<1> QED BY <1>4, <1>5

\* The blocks left when the k-th is taken out.
LEMMA TakenOut ==
  ASSUME NEW S, NEW s \in Seq(S), NEW k \in 1..Len(s)
  PROVE  /\ RemoveAt(s, k) \in Seq(S)
         /\ Len(RemoveAt(s, k)) = Len(s) - 1
         /\ \A i \in 1..(Len(s) - 1) :
              RemoveAt(s, k)[i] = IF i < k THEN s[i] ELSE s[i + 1]
<1> DEFINE l == SubSeq(s, 1, k - 1)
           r == SubSeq(s, k + 1, Len(s))
<1>1. /\ l \in Seq(S) /\ Len(l) = k - 1
      /\ \A i \in 1..(k - 1) : l[i] = s[i]
  BY SubSeqProperties
<1>2. /\ r \in Seq(S) /\ Len(r) = Len(s) - k
      /\ \A i \in 1..(Len(s) - k) : r[i] = s[k + i]
  BY SubSeqProperties
<1>3. RemoveAt(s, k) = l \o r
  BY DEF RemoveAt
<1> HIDE DEF l, r
<1>4. /\ l \o r \in Seq(S)
      /\ Len(l \o r) = Len(l) + Len(r)
      /\ \A i \in 1..(Len(l) + Len(r)) :
           (l \o r)[i] = IF i <= Len(l) THEN l[i] ELSE r[i - Len(l)]
  BY <1>1, <1>2, ConcatProperties
<1>5. ASSUME NEW i \in 1..(Len(s) - 1)
      PROVE  RemoveAt(s, k)[i] = IF i < k THEN s[i] ELSE s[i + 1]
  <2>1. (l \o r)[i] = IF i <= Len(l) THEN l[i] ELSE r[i - Len(l)]
    BY <1>1, <1>2, <1>4
  <2>2. CASE i < k
    <3>1. i <= Len(l) /\ i \in 1..(k - 1)
      BY <2>2, <1>1
    <3> QED BY <2>1, <2>2, <3>1, <1>1, <1>3
  <2>3. CASE ~(i < k)
    <3>1. ~(i <= Len(l)) /\ i - Len(l) \in 1..(Len(s) - k) /\ k + (i - Len(l)) = i + 1
      BY <2>3, <1>1
    <3> QED BY <2>1, <2>3, <3>1, <1>2, <1>3
  <2> QED BY <2>2, <2>3
<1> QED BY <1>1, <1>2, <1>3, <1>4, <1>5

LEMMA BlocksLeft ==
  ASSUME NEW s, NEW k \in 1..Len(s), AreBlocks(s), DistinctIds(s),
         \A i \in DOMAIN s : IsSound(s[i])
  PROVE  /\ AreBlocks(RemoveAt(s, k)) /\ DistinctIds(RemoveAt(s, k))
         /\ \A i \in DOMAIN RemoveAt(s, k) : IsSound(RemoveAt(s, k)[i])
         /\ Ids(s) = Ids(RemoveAt(s, k)) \cup {s[k].id}
<1>1. PICK T : s \in Seq(BlockOf(T))
  BY DEF AreBlocks
<1>2. PICK r : r = RemoveAt(s, k)
  OBVIOUS
<1>3. /\ r \in Seq(BlockOf(T)) /\ Len(r) = Len(s) - 1
      /\ \A i \in 1..(Len(s) - 1) : r[i] = IF i < k THEN s[i] ELSE s[i + 1]
  BY <1>1, <1>2, TakenOut
<1>4. DOMAIN s = 1..Len(s) /\ Len(s) \in Nat /\ DOMAIN r = 1..(Len(s) - 1)
  BY <1>1, <1>3
<1>5. AreBlocks(r)
  BY <1>3 DEF AreBlocks
<1>6. DistinctIds(r)
  <2> SUFFICES ASSUME NEW i \in 1..(Len(s) - 1), NEW j \in 1..(Len(s) - 1), i # j
               PROVE  r[i].id # r[j].id
    BY <1>4 DEF DistinctIds
  <2> DEFINE x == IF i < k THEN i ELSE i + 1
             y == IF j < k THEN j ELSE j + 1
  <2>1. x \in DOMAIN s /\ y \in DOMAIN s /\ x # y
    BY <1>4
  <2>2. r[i] = s[x] /\ r[j] = s[y]
    BY <1>3
  <2> HIDE DEF x, y
  <2> QED BY <2>1, <2>2 DEF DistinctIds
<1>7. \A i \in DOMAIN r : IsSound(r[i])
  <2> SUFFICES ASSUME NEW i \in 1..(Len(s) - 1) PROVE IsSound(r[i])
    BY <1>4
  <2>1. i \in DOMAIN s /\ i + 1 \in DOMAIN s
    BY <1>4
  <2>2. r[i] = s[i] \/ r[i] = s[i + 1]
    BY <1>3
  <2> QED BY <2>1, <2>2
<1>8. Ids(s) = Ids(r) \cup {s[k].id}
  <2>1. ASSUME NEW i \in DOMAIN s PROVE s[i].id \in Ids(r) \cup {s[k].id}
    <3>1. CASE i < k
      <4>1. i \in DOMAIN r /\ r[i] = s[i]
        BY <1>3, <1>4, <3>1
      <4> QED BY <4>1 DEF Ids
    <3>2. CASE i > k
      <4>1. i - 1 \in DOMAIN r /\ r[i - 1] = s[(i - 1) + 1] /\ (i - 1) + 1 = i
        BY <1>3, <1>4, <3>2
      <4> QED BY <4>1 DEF Ids
    <3>3. i = k \/ i < k \/ i > k
      BY <1>4
    <3> QED BY <3>1, <3>2, <3>3
  <2>2. ASSUME NEW i \in DOMAIN r PROVE r[i].id \in Ids(s)
    <3>1. i \in DOMAIN s /\ i + 1 \in DOMAIN s /\ (r[i] = s[i] \/ r[i] = s[i + 1])
      BY <1>3, <1>4
    <3> QED BY <3>1 DEF Ids
  <2>3. s[k].id \in Ids(s)
    BY <1>4 DEF Ids
  <2> QED BY <2>1, <2>2, <2>3 DEF Ids
<1> QED BY <1>2, <1>5, <1>6, <1>7, <1>8

\* One more block at the end.
LEMMA BlockAdded ==
  ASSUME NEW s, NEW T, NEW b \in BlockOf(T), AreBlocks(s), DistinctIds(s),
         \A i \in DOMAIN s : IsSound(s[i]), IsSound(b), b.id \notin Ids(s)
  PROVE  /\ AreBlocks(s \o <<b>>) /\ DistinctIds(s \o <<b>>)
         /\ \A i \in DOMAIN (s \o <<b>>) : IsSound((s \o <<b>>)[i])
         /\ Ids(s \o <<b>>) = Ids(s) \cup {b.id}
<1>1. PICK U : s \in Seq(BlockOf(U))
  BY DEF AreBlocks
<1>2. PICK e : e = <<b>>
  OBVIOUS
<1>3. PICK r : r = s \o e
  OBVIOUS
<1>4. b \in BlockOf(T \cup U) /\ BlockOf(U) \subseteq BlockOf(T \cup U)
  BY DEF BlockOf
<1>5. s \in Seq(BlockOf(T \cup U))
  BY <1>1, <1>4, SeqMonotonic
<1>6. e \in Seq(BlockOf(T \cup U)) /\ Len(e) = 1 /\ e[1] = b
  <2>1. PICK B : B = BlockOf(T \cup U)
    OBVIOUS
  <2>2. b \in B
    BY <1>4, <2>1
  <2>3. e \in Seq(B) /\ Len(e) = 1 /\ e[1] = b
    BY <1>2, <2>2
  <2> QED BY <2>1, <2>3
<1>7. /\ r \in Seq(BlockOf(T \cup U)) /\ Len(r) = Len(s) + 1
      /\ \A i \in 1..(Len(s) + 1) : r[i] = IF i <= Len(s) THEN s[i] ELSE e[i - Len(s)]
  <2> HIDE DEF BlockOf
  <2>1. /\ s \o e \in Seq(BlockOf(T \cup U))
        /\ Len(s \o e) = Len(s) + Len(e)
        /\ \A i \in 1..(Len(s) + Len(e)) :
             (s \o e)[i] = IF i <= Len(s) THEN s[i] ELSE e[i - Len(s)]
    BY <1>5, <1>6, ConcatProperties
  <2> QED BY <1>3, <1>6, <2>1
<1>8. /\ DOMAIN s = 1..Len(s) /\ Len(s) \in Nat /\ DOMAIN r = 1..(Len(s) + 1)
      /\ \A i \in DOMAIN s : i \in DOMAIN r /\ r[i] = s[i]
      /\ Len(s) + 1 \in DOMAIN r /\ r[Len(s) + 1] = b
      /\ \A i \in DOMAIN r : i \in DOMAIN s \/ i = Len(s) + 1
  <2>1. DOMAIN s = 1..Len(s) /\ Len(s) \in Nat /\ DOMAIN r = 1..(Len(s) + 1)
    BY <1>1, <1>7
  <2>2. r[Len(s) + 1] = e[(Len(s) + 1) - Len(s)] /\ (Len(s) + 1) - Len(s) = 1
    BY <1>7, <2>1
  <2> QED BY <1>6, <1>7, <2>1, <2>2
<1>9. AreBlocks(r)
  BY <1>7 DEF AreBlocks
<1>10. \A i \in DOMAIN s : s[i].id # b.id
  BY DEF Ids
<1>11. DistinctIds(r)
  BY <1>8, <1>10 DEF DistinctIds
<1>12. \A i \in DOMAIN r : IsSound(r[i])
  BY <1>8
<1>13. Ids(r) = Ids(s) \cup {b.id}
  BY <1>8 DEF Ids
<1> QED BY <1>2, <1>3, <1>9, <1>11, <1>12, <1>13

-----------------------------------------------------------------------------
(* The journal grows.                                                      *)

LEMMA Appended ==
  ASSUME NEW l \in Seq(EventOf), NEW e \in Seq(EventOf)
  PROVE  /\ l \o e \in Seq(EventOf)
         /\ Len(l \o e) = Len(l) + Len(e)
         /\ \A i \in 1..Len(l) : i \in 1..Len(l \o e) /\ (l \o e)[i] = l[i]
         /\ \A i \in 1..Len(l \o e) :
              \/ i \in 1..Len(l) /\ (l \o e)[i] = l[i]
              \/ i > Len(l) /\ i - Len(l) \in 1..Len(e) /\ (l \o e)[i] = e[i - Len(l)]
<1> HIDE DEF EventOf
<1>1. /\ l \o e \in Seq(EventOf)
      /\ Len(l \o e) = Len(l) + Len(e)
      /\ \A i \in 1..(Len(l) + Len(e)) :
           (l \o e)[i] = IF i <= Len(l) THEN l[i] ELSE e[i - Len(l)]
  BY ConcatProperties
<1>2. Len(l) \in Nat /\ Len(e) \in Nat
  OBVIOUS
<1> QED BY <1>1, <1>2

\* Events of the present Turn, or of a new one, keep the journal in order; a
\* summary among them must be whole, and the end of the Turn must be the last.
LEMMA JournalKept ==
  ASSUME ContextTypeOK, JournalInv, NEW e \in Seq(EventOf), NEW t \in Nat, t >= turn,
         events' = events \o e, turn' = t,
         \A x \in At("turn/ended") : events[x].turn < t,
         \A i \in 1..Len(e) :
           /\ e[i].turn = t
           /\ e[i].type = "turn/ended" => i = Len(e)
           /\ e[i].type = "history/compacted" => Summarizes(e[i].through, e[i].holds, t)
  PROVE  /\ events' \in Seq(EventOf) /\ JournalInv'
         /\ \A x \in At("turn/ended")' :
              x \in At("turn/ended") \/ \E i \in 1..Len(e) : e[i].type = "turn/ended"
         /\ \A x \in At("turn/ended") : UpTo(x)' = UpTo(x)
<1> DEFINE n == Len(events)
<1>1. events \in Seq(EventOf) /\ n \in Nat /\ Len(e) \in Nat
  BY DEF ContextTypeOK
<1>2. /\ events' \in Seq(EventOf) /\ Len(events') = n + Len(e)
      /\ \A i \in 1..n : i \in 1..Len(events') /\ events'[i] = events[i]
      /\ \A i \in 1..Len(events') :
           \/ i \in 1..n /\ events'[i] = events[i]
           \/ i > n /\ i - n \in 1..Len(e) /\ events'[i] = e[i - n]
  BY <1>1, Appended
<1>3. \A i \in 1..n : events[i].turn \in Nat /\ events[i].turn <= t /\ events[i].turn <= turn
  <2> TAKE i \in 1..n
  <2>1. events[i] \in EventOf
    BY <1>1
  <2>2. events[i].turn \in Nat
    BY <2>1 DEF EventOf
  <2>3. events[i].turn <= turn /\ turn \in Nat
    BY DEF JournalInv, TurnsAscend, ContextTypeOK
  <2> QED BY <2>2, <2>3
<1>4. \A i \in 1..Len(events') :
        /\ events'[i].turn \in Nat /\ events'[i].turn <= t
        /\ i > n => events'[i].turn = t
        /\ i <= n => i \in 1..n /\ events'[i] = events[i]
  BY <1>1, <1>2, <1>3
<1>5. TurnsAscend'
  <2>1. ASSUME NEW i \in 1..Len(events'), NEW j \in 1..Len(events'), i <= j
        PROVE  events'[i].turn <= events'[j].turn
    <3>1. CASE j <= n
      <4>1. i \in 1..n /\ j \in 1..n /\ events'[i] = events[i] /\ events'[j] = events[j]
        BY <1>1, <1>2, <1>4, <2>1, <3>1
      <4> QED BY <4>1, <2>1 DEF JournalInv, TurnsAscend
    <3>2. CASE j > n
      BY <1>4, <3>2
    <3> QED BY <1>1, <1>2, <3>1, <3>2
  <2>2. \A i \in 1..Len(events') : events'[i].turn <= turn'
    BY <1>4
  <2> QED BY <2>1, <2>2 DEF TurnsAscend
<1>6. /\ \A x \in At("message") : x \in At("message")' /\ x \in 1..n
      /\ \A x \in At("turn/ended") : x \in At("turn/ended")' /\ x \in 1..n
      /\ \A x \in At("history/compacted") : x \in At("history/compacted")' /\ x \in 1..n
  BY <1>2 DEF At
<1>7. /\ \A x \in At("message")' :
           \/ x \in At("message")
           \/ x > n /\ x - n \in 1..Len(e) /\ e[x - n].type = "message" /\ events'[x] = e[x - n]
      /\ \A x \in At("turn/ended")' :
           \/ x \in At("turn/ended")
           \/ x > n /\ x - n \in 1..Len(e) /\ e[x - n].type = "turn/ended" /\ events'[x] = e[x - n]
      /\ \A x \in At("history/compacted")' :
           \/ x \in At("history/compacted")
           \/ x > n /\ x - n \in 1..Len(e) /\ e[x - n].type = "history/compacted" /\ events'[x] = e[x - n]
  BY <1>2 DEF At
<1>8. \A x \in At("turn/ended")' : x \in At("turn/ended") \/ x = Len(events')
  <2> TAKE x \in At("turn/ended")'
  <2>1. CASE x > n /\ x - n \in 1..Len(e) /\ e[x - n].type = "turn/ended"
    <3>1. x - n = Len(e)
      BY <2>1
    <3>2. x \in 1..Len(events')
      BY DEF At
    <3> QED BY <1>1, <1>2, <3>1, <3>2
  <2> QED BY <1>7, <2>1
<1>9. EndsLast'
  <2> SUFFICES ASSUME NEW x \in At("turn/ended")', NEW i \in 1..Len(events'), i > x
               PROVE  events'[i].turn > events'[x].turn
    BY DEF EndsLast
  <2>1. x \in 1..Len(events')
    BY DEF At
  <2>2. x \in At("turn/ended")
    BY <1>1, <1>2, <1>8, <2>1
  <2>3. x \in 1..n /\ events'[x] = events[x] /\ events[x].turn < t
    BY <1>2, <1>6, <2>2
  <2>4. CASE i <= n
    BY <1>4, <2>2, <2>3, <2>4 DEF JournalInv, EndsLast
  <2>5. CASE i > n
    BY <1>4, <2>3, <2>5
  <2>6. i \in Nat /\ n \in Nat
    BY <1>1, <1>2
  <2>7. i <= n \/ i > n
    BY <2>6
  <2> QED BY <2>4, <2>5, <2>7
<1>10. \A x \in At("turn/ended") : UpTo(x)' = UpTo(x)
  <2> TAKE x \in At("turn/ended")
  <2>0. x \in 1..n
    BY <1>6
  <2>1. \A m \in Messages' : m <= x => m \in Messages
    <3> TAKE m \in Messages'
    <3>1. m \in Messages \/ m > n
      BY <1>2 DEF Messages, At
    <3>2. m \in 1..Len(events')
      BY DEF Messages, At
    <3> QED BY <1>1, <1>2, <2>0, <3>1, <3>2
  <2>2. \A m \in Messages : m \in Messages'
    BY <1>6 DEF Messages
  <2> QED BY <2>1, <2>2 DEF UpTo
<1>11. \A x, h, u : Summarizes(x, h, u) => Summarizes(x, h, u)'
  <2> SUFFICES ASSUME NEW x, NEW h, NEW u, Summarizes(x, h, u)
               PROVE  Summarizes(x, h, u)'
    OBVIOUS
  <2>1. x \in At("turn/ended") /\ x \in At("turn/ended")' /\ x \in 1..n
    BY <1>6 DEF Summarizes
  <2>2. events'[x] = events[x]
    BY <1>2, <2>1
  <2> QED BY <1>10, <2>1, <2>2 DEF Summarizes
<1>12. SummariesWhole'
  <2> SUFFICES ASSUME NEW k \in At("history/compacted")'
               PROVE  Summarizes(events[k].through, events[k].holds, events[k].turn)'
    BY DEF SummariesWhole
  <2>1. CASE k \in At("history/compacted")
    <3>1. events'[k] = events[k]
      BY <1>2, <1>6, <2>1
    <3>2. Summarizes(events[k].through, events[k].holds, events[k].turn)
      BY <2>1 DEF JournalInv, SummariesWhole
    <3>3. PICK x, h, u : x = events[k].through /\ h = events[k].holds /\ u = events[k].turn
      OBVIOUS
    <3>4. Summarizes(x, h, u)'
      BY <1>11, <3>2, <3>3
    <3> QED BY <3>1, <3>3, <3>4 DEF Summarizes
  <2>2. CASE k > n /\ k - n \in 1..Len(e) /\ e[k - n].type = "history/compacted"
             /\ events'[k] = e[k - n]
    <3>1. PICK x, h, u : x = events'[k].through /\ h = events'[k].holds /\ u = events'[k].turn
      OBVIOUS
    <3>2. Summarizes(x, h, u)
      BY <2>2, <3>1
    <3>3. Summarizes(x, h, u)'
      BY <1>11, <3>2
    <3> QED BY <3>1, <3>3 DEF Summarizes
  <2> QED BY <1>7, <2>1, <2>2
<1>13. \A x \in At("turn/ended")' :
         x \in At("turn/ended") \/ \E i \in 1..Len(e) : e[i].type = "turn/ended"
  BY <1>7
<1> QED BY <1>2, <1>5, <1>9, <1>10, <1>12, <1>13 DEF JournalInv

-----------------------------------------------------------------------------
(* The blocks of a Step.                                                   *)

\* Prior, Current and the summary are different messages, and are all of them.
LEMMA HistoryParts ==
  ASSUME ContextTypeOK, JournalInv, TurnIsOpen, pc # "idle"
  PROVE  /\ HeldBy("history/messages") \cup HeldBy("history/prior")
              \cup HeldBy("history/summary") = Messages
         /\ HeldBy("history/messages") \cap HeldBy("history/prior") = {}
         /\ HeldBy("history/messages") \cap HeldBy("history/summary") = {}
         /\ HeldBy("history/prior") \cap HeldBy("history/summary") = {}
<1>1. /\ HeldBy("history/messages") = {m \in Messages : events[m].turn = turn}
      /\ HeldBy("history/prior") =
           {m \in Messages : events[m].turn # turn /\ m > ThroughSequence}
      /\ HeldBy("history/summary") = IF HasSummary THEN events[LatestCompaction].holds ELSE {}
  BY DEF HeldBy, Current, Prior
<1>2. \A m \in Messages : m \in 1..Len(events) /\ Len(events) \in Nat
  BY DEF Messages, At, ContextTypeOK
<1>3. CASE ~HasSummary
  <2>1. ThroughSequence = 0 /\ HeldBy("history/summary") = {}
    BY <1>1, <1>3 DEF ThroughSequence
  <2> QED BY <1>1, <1>2, <2>1
<1>4. CASE HasSummary
  <2>1. PICK x : x = ThroughSequence
    OBVIOUS
  <2>2. Summarizes(x, HeldBy("history/summary"), events[LatestCompaction].turn)
    BY <1>1, <1>4, <2>1, LastCompaction DEF JournalInv, SummariesWhole, ThroughSequence
  <2>3. x \in At("turn/ended") /\ HeldBy("history/summary") = {m \in Messages : m <= x}
    BY <2>2 DEF Summarizes, UpTo
  <2>4. events[x].turn < turn /\ x \in 1..Len(events)
    BY <2>3 DEF TurnIsOpen, At
  <2>5. \A m \in Messages : m <= x => events[m].turn # turn
    <3> TAKE m \in Messages
    <3>1. m <= x => events[m].turn <= events[x].turn
      BY <1>2, <2>4 DEF JournalInv, TurnsAscend
    <3>2. events[x] \in EventOf /\ events[m] \in EventOf
      BY <1>2, <2>4 DEF ContextTypeOK
    <3>3. events[x].turn \in Nat /\ events[m].turn \in Nat /\ turn \in Nat
      BY <3>2 DEF EventOf, ContextTypeOK
    <3> QED BY <2>4, <3>1, <3>3
  <2>6. \A m \in Messages : m <= x \/ m > x
    BY <1>2, <2>4
  <2>7. \A m \in Messages : ~(m <= x /\ m > x)
    BY <1>2, <2>4
  <2> QED BY <1>1, <2>1, <2>3, <2>5, <2>6, <2>7
<1> QED BY <1>3, <1>4

LEMMA HeldIsPositions ==
  ASSUME ContextTypeOK, NEW id PROVE HeldBy(id) \in SUBSET Nat
<1>1. Messages \subseteq Nat
  BY DEF Messages, At
<1>2. HasSummary => events[LatestCompaction].holds \in SUBSET Nat
  <2>1. HasSummary => events[LatestCompaction] \in EventOf
    BY LastCompaction DEF At, ContextTypeOK
  <2> QED BY <2>1 DEF EventOf
<1> QED BY <1>1, <1>2 DEF HeldBy, Current, Prior

\* Whether the history is selected depends on the journal and the Turn alone.
LEMMA SelectionKept ==
  ASSUME UNCHANGED <<events, turn>>, DistinctIds(selected'),
         \A i \in DOMAIN selected' : IsSound(selected'[i]),
         "history/messages" \in Ids(selected'),
         Prior # {} => "history/prior" \in Ids(selected') \cup dropped',
         HasSummary => "history/summary" \in Ids(selected') \cup dropped'
  PROVE  HistorySelected'
<1>1. /\ Prior' = Prior /\ Current' = Current /\ HasSummary' = HasSummary
      /\ (events[LatestCompaction].holds)' = events[LatestCompaction].holds
  BY DEF Prior, Current, HasSummary, LatestCompaction, ThroughSequence, Messages, At
<1>2. \A id : HeldBy(id)' = HeldBy(id)
  BY <1>1 DEF HeldBy
<1>3. ASSUME NEW i \in DOMAIN selected' PROVE IsSound(selected[i])'
  <2>1. PICK id : id = selected'[i].id
    OBVIOUS
  <2>2. HeldBy(id)' = HeldBy(id)
    BY <1>2
  <2>3. /\ selected'[i].holds = HeldBy(selected'[i].id)
        /\ selected'[i].id = "history/messages" => selected'[i].retention = "required"
    BY DEF IsSound
  <2>4. HeldBy(selected[i].id)' = HeldBy(selected'[i].id)
    BY <1>1, <2>1, <2>2 DEF HeldBy
  <2> QED BY <2>3, <2>4 DEF IsSound
<1>4. DistinctIds(selected)' /\ Ids(selected)' = Ids(selected')
  BY DEF DistinctIds, Ids
<1> QED BY <1>1, <1>3, <1>4 DEF HistorySelected

LEMMA AssembleSelects ==
  ASSUME ContextTypeOK, JournalInv, TurnIsOpen, Assemble
  PROVE  AreBlocks(selected') /\ HistorySelected'
<1> DEFINE fixed == <<Note, Block("agent/instructions", "required", AgentSize, {}), SkillBlock>>
           summary == IF HasSummary THEN fixed \o <<SummaryBlock>> ELSE fixed
           prior == Block("history/prior", "preferred", Tokens(Prior), Prior)
           before == IF Prior # {} THEN summary \o <<prior>> ELSE summary
           current == Block("history/messages", "required", Tokens(Current), Current)
<1>1. /\ pc' = "shedding" /\ selected' = Blocks /\ dropped' = {}
      /\ UNCHANGED <<events, turn>>
  BY DEF Assemble
<1>2. /\ AreBlocks(fixed) /\ DistinctIds(fixed)
      /\ \A i \in DOMAIN fixed : IsSound(fixed[i])
      /\ Ids(fixed) \cap {"history/summary", "history/prior", "history/messages"} = {}
  <2> DEFINE T == {NoteSize, AgentSize, SkillSize, DiscoverySize}
             b1 == Note
             b2 == Block("agent/instructions", "required", AgentSize, {})
             b3 == SkillBlock
  <2>1. /\ b1 \in BlockOf(T) /\ b1.id = "note" /\ b1.holds = {}
        /\ b2 \in BlockOf(T) /\ b2.id = "agent/instructions" /\ b2.holds = {}
        /\ b3 \in BlockOf(T) /\ b3.id \in {"skill/instructions", "skill/discovery"} /\ b3.holds = {}
    BY DEF Note, SkillBlock, Block, BlockOf, BlockIds
  <2>2. fixed = <<b1, b2, b3>>
    OBVIOUS
  <2> HIDE DEF b1, b2, b3, fixed, T
  <2>3. fixed \in Seq(BlockOf(T)) /\ DOMAIN fixed = 1..3
        /\ fixed[1] = b1 /\ fixed[2] = b2 /\ fixed[3] = b3
    BY <2>1, <2>2
  <2>4. \A i \in DOMAIN fixed : i = 1 \/ i = 2 \/ i = 3
    BY <2>3
  <2>5. AreBlocks(fixed)
    BY <2>3 DEF AreBlocks
  <2>6. DistinctIds(fixed)
    BY <2>1, <2>3, <2>4 DEF DistinctIds
  <2>7. \A i \in DOMAIN fixed : IsSound(fixed[i])
    BY <2>1, <2>3, <2>4 DEF IsSound, HeldBy
  <2>8. Ids(fixed) \cap {"history/summary", "history/prior", "history/messages"} = {}
    BY <2>1, <2>3, <2>4 DEF Ids
  <2> QED BY <2>5, <2>6, <2>7, <2>8
<1> HIDE DEF fixed
<1>3. /\ AreBlocks(summary) /\ DistinctIds(summary)
      /\ \A i \in DOMAIN summary : IsSound(summary[i])
      /\ Ids(summary) \cap {"history/prior", "history/messages"} = {}
      /\ HasSummary => "history/summary" \in Ids(summary)
  <2>1. CASE ~HasSummary
    BY <1>2, <2>1
  <2>2. CASE HasSummary
    <3>1. /\ SummaryBlock \in BlockOf({events[LatestCompaction].tokens})
          /\ SummaryBlock.id = "history/summary" /\ IsSound(SummaryBlock)
      BY <2>2, HeldIsPositions DEF SummaryBlock, Block, BlockOf, BlockIds, IsSound, HeldBy
    <3>2. PICK b : b = SummaryBlock
      OBVIOUS
    <3>3. /\ AreBlocks(fixed \o <<b>>) /\ DistinctIds(fixed \o <<b>>)
          /\ \A i \in DOMAIN (fixed \o <<b>>) : IsSound((fixed \o <<b>>)[i])
          /\ Ids(fixed \o <<b>>) = Ids(fixed) \cup {b.id}
      BY <1>2, <3>1, <3>2, BlockAdded
    <3>4. summary = fixed \o <<b>>
      BY <2>2, <3>2
    <3> QED BY <1>2, <3>1, <3>2, <3>3, <3>4
  <2> QED BY <2>1, <2>2
<1>4. Blocks = before \o <<current>>
  BY DEF Blocks, fixed
<1> HIDE DEF summary
<1>5. /\ AreBlocks(before) /\ DistinctIds(before)
      /\ \A i \in DOMAIN before : IsSound(before[i])
      /\ Ids(before) \cap {"history/messages"} = {}
      /\ HasSummary => "history/summary" \in Ids(before)
      /\ Prior # {} => "history/prior" \in Ids(before)
  <2>1. CASE Prior = {}
    BY <1>3, <2>1
  <2>2. CASE Prior # {}
    <3>1. prior \in BlockOf({Tokens(Prior)}) /\ prior.id = "history/prior" /\ IsSound(prior)
      BY HeldIsPositions DEF Block, BlockOf, BlockIds, IsSound, HeldBy
    <3>2. PICK b : b = prior
      OBVIOUS
    <3>3. /\ AreBlocks(summary \o <<b>>) /\ DistinctIds(summary \o <<b>>)
          /\ \A i \in DOMAIN (summary \o <<b>>) : IsSound((summary \o <<b>>)[i])
          /\ Ids(summary \o <<b>>) = Ids(summary) \cup {b.id}
      BY <1>3, <3>1, <3>2, BlockAdded
    <3>4. before = summary \o <<b>>
      BY <2>2, <3>2
    <3> QED BY <1>3, <3>1, <3>2, <3>3, <3>4
  <2> QED BY <2>1, <2>2
<1> HIDE DEF before
<1>6. /\ AreBlocks(selected') /\ DistinctIds(selected')
      /\ \A i \in DOMAIN selected' : IsSound(selected'[i])
      /\ Ids(selected') = Ids(before) \cup {"history/messages"}
  <2>1. /\ current \in BlockOf({Tokens(Current)}) /\ current.id = "history/messages"
        /\ IsSound(current)
    BY HeldIsPositions DEF Block, BlockOf, BlockIds, IsSound, HeldBy
  <2>2. PICK b : b = current
    OBVIOUS
  <2>3. /\ AreBlocks(before \o <<b>>) /\ DistinctIds(before \o <<b>>)
        /\ \A i \in DOMAIN (before \o <<b>>) : IsSound((before \o <<b>>)[i])
        /\ Ids(before \o <<b>>) = Ids(before) \cup {b.id}
    BY <1>5, <2>1, <2>2, BlockAdded
  <2>4. selected' = before \o <<b>>
    BY <1>1, <1>4, <2>2
  <2> QED BY <2>1, <2>2, <2>3, <2>4
<1>7. UNCHANGED <<events, turn>> /\ dropped' = {}
  BY <1>1
<1> QED BY <1>5, <1>6, <1>7, SelectionKept

LEMMA Selecting ==
  ASSUME ContextTypeOK, HistorySelected, pc = "shedding"
  PROVE  /\ AreBlocks(selected) /\ DistinctIds(selected)
         /\ \A i \in DOMAIN selected : IsSound(selected[i])
         /\ "history/messages" \in Ids(selected)
         /\ Prior # {} => "history/prior" \in Ids(selected) \cup dropped
         /\ HasSummary => "history/summary" \in Ids(selected) \cup dropped
BY DEF ContextTypeOK, HistorySelected

LEMMA DropSelects ==
  ASSUME ContextTypeOK, HistorySelected, Shed, Drop
  PROVE  AreBlocks(selected') /\ HistorySelected'
<1>1. /\ pc = "shedding" /\ Victim # 0 /\ UNCHANGED <<events, turn>>
      /\ selected' = RemoveAt(selected, Victim)
      /\ dropped' = dropped \cup {selected[Victim].id}
  BY DEF Shed, Drop, Recount
<1>2. Victim \in 1..Len(selected) /\ selected[Victim].retention # "required"
  BY <1>1, Selecting, VictimIsSelected
<1>3. /\ AreBlocks(selected') /\ DistinctIds(selected')
      /\ \A i \in DOMAIN selected' : IsSound(selected'[i])
      /\ Ids(selected) = Ids(selected') \cup {selected[Victim].id}
  <2>1. /\ AreBlocks(selected) /\ DistinctIds(selected)
        /\ \A i \in DOMAIN selected : IsSound(selected[i])
    BY <1>1, Selecting
  <2> QED BY <1>1, <1>2, <2>1, BlocksLeft
<1>4. selected[Victim].id # "history/messages"
  <2>1. Victim \in DOMAIN selected
    BY <1>1, <1>2, Selecting DEF AreBlocks
  <2>2. IsSound(selected[Victim])
    BY <1>1, <2>1, Selecting
  <2> QED BY <1>2, <2>2 DEF IsSound
<1>5. /\ "history/messages" \in Ids(selected')
      /\ Prior # {} => "history/prior" \in Ids(selected') \cup dropped'
      /\ HasSummary => "history/summary" \in Ids(selected') \cup dropped'
  BY <1>1, <1>3, <1>4, Selecting
<1> QED BY <1>1, <1>3, <1>5, SelectionKept

LEMMA TruncateSelects ==
  ASSUME ContextTypeOK, HistorySelected, Shed, NEW n \in 1..NoteSize, Truncate(n)
  PROVE  AreBlocks(selected') /\ HistorySelected'
<1>1. /\ pc = "shedding" /\ Victim # 0 /\ UNCHANGED <<events, turn, dropped>>
      /\ selected' = [selected EXCEPT ![Victim].tokens = n, ![Victim].truncate = FALSE]
  BY DEF Shed, Truncate, Recount
<1>2. Victim \in 1..Len(selected)
  BY <1>1, Selecting, VictimIsSelected
<1>3. PICK T : selected \in Seq(BlockOf(T))
  BY DEF ContextTypeOK, AreBlocks
<1>4. PICK v : v = Victim
  OBVIOUS
<1>5. /\ selected \in Seq(BlockOf(T \cup {n})) /\ v \in 1..Len(selected)
      /\ selected' = [selected EXCEPT ![v] = [selected[v] EXCEPT !.tokens = n, !.truncate = FALSE]]
  <2>1. BlockOf(T) \subseteq BlockOf(T \cup {n})
    BY DEF BlockOf
  <2>2. selected \in Seq(BlockOf(T \cup {n}))
    BY <1>3, <2>1, SeqMonotonic
  <2> QED BY <1>1, <1>2, <1>4, <2>2
<1>6. PICK b : b = [selected[v] EXCEPT !.tokens = n, !.truncate = FALSE]
  OBVIOUS
<1>7. selected[v] \in BlockOf(T)
  BY <1>3, <1>5, ElementOfSeq
<1>8. /\ b \in BlockOf(T \cup {n}) /\ b.id = selected[v].id /\ b.holds = selected[v].holds
      /\ b.retention = selected[v].retention
  BY <1>6, <1>7 DEF BlockOf
<1>9. /\ selected' \in Seq(BlockOf(T \cup {n})) /\ Len(selected') = Len(selected)
      /\ \A j \in 1..Len(selected) : selected'[j] = IF j = v THEN b ELSE selected[j]
  <2>1. selected' = [selected EXCEPT ![v] = b]
    BY <1>5, <1>6
  <2> HIDE DEF BlockOf
  <2> QED BY <1>5, <1>8, <2>1, ExceptSeq
<1>10. AreBlocks(selected')
  BY <1>9 DEF AreBlocks
<1>11. DOMAIN selected = 1..Len(selected) /\ DOMAIN selected' = 1..Len(selected)
  BY <1>3, <1>9
<1>12. \A j \in 1..Len(selected) :
         /\ selected'[j].id = selected[j].id /\ selected'[j].holds = selected[j].holds
         /\ selected'[j].retention = selected[j].retention
  BY <1>8, <1>9
<1>13. DistinctIds(selected')
  BY <1>1, <1>11, <1>12, Selecting DEF DistinctIds
<1>14. \A j \in DOMAIN selected' : IsSound(selected'[j])
  BY <1>1, <1>11, <1>12, Selecting DEF IsSound
<1>15. Ids(selected') = Ids(selected)
  BY <1>11, <1>12 DEF Ids
<1> QED BY <1>1, <1>10, <1>13, <1>14, <1>15, Selecting, SelectionKept

-----------------------------------------------------------------------------
(* Each step keeps the invariant.                                          *)

\* The journal's part, where the journal and the Turn stay.
LEMMA JournalStays ==
  ASSUME ContextInv, UNCHANGED <<events, turn>>
  PROVE  /\ JournalInv' /\ (pc # "idle" => TurnIsOpen')
         /\ \A x, h, u : Summarizes(x, h, u) => Summarizes(x, h, u)'
BY DEF ContextInv, JournalInv, TurnsAscend, EndsLast, SummariesWhole, Summarizes, UpTo,
       Messages, At, TurnIsOpen

LEMMA AssembleInv == ASSUME ContextInv, Assemble PROVE ContextInv'
<1>1. /\ pc = "assembling" /\ pc' = "shedding" /\ counted' = FALSE
      /\ UNCHANGED <<events, turn, plan>>
  BY DEF Assemble
<1>2. AreBlocks(selected') /\ HistorySelected'
  BY AssembleSelects DEF ContextInv
<1>3. ContextTypeOK'
  BY <1>1, <1>2 DEF ContextInv, ContextTypeOK, Places
<1>4. JournalInv' /\ TurnIsOpen'
  BY <1>1, JournalStays
<1>5. PlanIsWhole'
  BY <1>1 DEF PlanIsWhole
<1>6. CountedIsRequest'
  BY <1>1 DEF CountedIsRequest
<1> QED BY <1>2, <1>3, <1>4, <1>5, <1>6 DEF ContextInv

LEMMA ShedInv == ASSUME ContextInv, Shed PROVE ContextInv'
<1>1. /\ pc = "shedding" /\ UNCHANGED <<events, turn, pc, counted, plan>>
      /\ Drop \/ \E n \in 1..NoteSize : Truncate(n)
  BY DEF Shed
<1>2. AreBlocks(selected') /\ HistorySelected'
  BY <1>1, DropSelects, TruncateSelects DEF ContextInv
<1>3. ContextTypeOK'
  BY <1>1, <1>2 DEF ContextInv, ContextTypeOK
<1>4. JournalInv' /\ TurnIsOpen'
  BY <1>1, JournalStays
<1>5. PlanIsWhole'
  BY <1>1 DEF PlanIsWhole
<1>6. CountedIsRequest'
  <2>1. PICK blocks : Recount(blocks)
    BY <1>1 DEF Drop, Truncate
  <2>2. counted => request' = blocks /\ selected' = blocks /\ tokens' \in Count(Total(blocks))
    BY <2>1 DEF Recount
  <2> QED BY <1>1, <2>2 DEF CountedIsRequest
<1> QED BY <1>2, <1>3, <1>4, <1>5, <1>6 DEF ContextInv

LEMMA BuildInv == ASSUME ContextInv, BuildRequest PROVE ContextInv'
<1>1. /\ pc = "shedding" /\ counted' = TRUE /\ request' = selected
      /\ tokens' \in Count(Total(selected))
      /\ UNCHANGED <<events, turn, pc, plan, selected, dropped>>
  BY DEF BuildRequest, Shedded
<1>2. AreBlocks(selected') /\ HistorySelected'
  BY <1>1, Selecting, SelectionKept DEF ContextInv
<1>3. ContextTypeOK'
  BY <1>1, <1>2 DEF ContextInv, ContextTypeOK
<1>4. JournalInv' /\ TurnIsOpen'
  BY <1>1, JournalStays
<1>5. PlanIsWhole'
  BY <1>1 DEF PlanIsWhole
<1>6. CountedIsRequest'
  BY <1>1 DEF CountedIsRequest
<1> QED BY <1>2, <1>3, <1>4, <1>5, <1>6 DEF ContextInv

LEMMA AssembledInv == ASSUME ContextInv, Assembled PROVE ContextInv'
<1>1. /\ pc = "shedding" /\ counted /\ UNCHANGED <<events, turn, plan>>
      /\ UNCHANGED <<selected, dropped, counted, tokens, request>>
      /\ pc' \in {"failed", "calling", "planning"}
      /\ pc' = "calling" => tokens <= Budget /\ ~NeedsCompaction
  BY DEF Assembled, Shedded, shedVars
<1>2. AreBlocks(selected') /\ HistorySelected'
  BY <1>1, Selecting, SelectionKept DEF ContextInv
<1>3. ContextTypeOK'
  BY <1>1, <1>2 DEF ContextInv, ContextTypeOK, Places
<1>4. JournalInv' /\ TurnIsOpen'
  BY <1>1, JournalStays
<1>5. PlanIsWhole'
  BY <1>1 DEF PlanIsWhole
<1>6. CountedIsRequest'
  BY <1>1 DEF ContextInv, CountedIsRequest, NeedsCompaction
<1> QED BY <1>2, <1>3, <1>4, <1>5, <1>6 DEF ContextInv

\* What planCompaction chooses is whole: the boundary ends a Turn, and whatever
\* of it is not in the last summary is in the source.
LEMMA PlanInv == ASSUME ContextInv, PlanCompaction PROVE ContextInv'
<1>1. /\ pc = "planning" /\ pc' \in {"compacting", "failed"}
      /\ UNCHANGED <<events, turn, selected, counted>>
  BY DEF PlanCompaction, shedVars
<1>2. ContextTypeOK /\ JournalInv /\ TurnIsOpen
  BY DEF ContextInv
<1>3. JournalInv' /\ TurnIsOpen'
  BY <1>1, JournalStays
<1>4. HistorySelected' /\ CountedIsRequest'
  BY <1>1 DEF HistorySelected, CountedIsRequest
<1>5. AreBlocks(selected')
  BY <1>1, <1>2 DEF ContextTypeOK
<1>6. CASE UNCHANGED plan /\ pc' = "failed"
  <2>1. ContextTypeOK'
    BY <1>1, <1>2, <1>5, <1>6 DEF ContextTypeOK, Places
  <2> QED BY <1>3, <1>4, <1>6, <2>1 DEF ContextInv, PlanIsWhole
<1>7. CASE \E x \in Boundaries :
             /\ pc' = "compacting"
             /\ plan' = [through |-> x,
                         holds |-> Source(x) \cup
                                   (IF HasSummary THEN events[LatestCompaction].holds ELSE {})]
  <2>1. PICK x \in Boundaries :
             /\ pc' = "compacting"
             /\ plan' = [through |-> x,
                         holds |-> Source(x) \cup
                                   (IF HasSummary THEN events[LatestCompaction].holds ELSE {})]
    BY <1>7
  <2>2. PICK h : h = IF HasSummary THEN events[LatestCompaction].holds ELSE {}
    OBVIOUS
  <2>3. \A m \in Messages : m \in 1..Len(events)
    BY DEF Messages, At
  <2>4. HasSummary => /\ ThroughSequence \in At("turn/ended")
                      /\ h = UpTo(ThroughSequence)
    BY <1>2, <2>2, LastCompaction DEF JournalInv, SummariesWhole, Summarizes, ThroughSequence
  <2>5. ~HasSummary => ThroughSequence = 0 /\ h = {}
    BY <2>2 DEF ThroughSequence
  <2>6. x \in At("turn/ended") /\ x >= ThroughSequence
    <3>1. CASE x \in At("turn/ended") /\ x > ThroughSequence
      <4>1. x \in Nat /\ ThroughSequence \in Nat
        BY <2>4, <2>5, <3>1 DEF At
      <4> QED BY <3>1, <4>1
    <3>2. CASE HasSummary /\ x = ThroughSequence
      <4>1. x \in Nat
        BY <2>4, <3>2 DEF At
      <4> QED BY <2>4, <3>2, <4>1
    <3> QED BY <2>1, <3>1, <3>2 DEF Boundaries
  <2>7. x \in 1..Len(events) /\ ThroughSequence \in Nat /\ events[x].turn < turn
    BY <1>1, <1>2, <2>4, <2>5, <2>6 DEF At, TurnIsOpen
  <2>8. \A m \in Messages : m <= x => events[m].turn # turn
    <3> TAKE m \in Messages
    <3>1. m <= x => events[m].turn <= events[x].turn
      BY <1>2, <2>3, <2>7 DEF JournalInv, TurnsAscend
    <3>2. events[x] \in EventOf /\ events[m] \in EventOf
      BY <1>2, <2>3, <2>7 DEF ContextTypeOK
    <3>3. events[x].turn \in Nat /\ events[m].turn \in Nat /\ turn \in Nat
      BY <1>2, <3>2 DEF EventOf, ContextTypeOK
    <3> QED BY <2>7, <3>1, <3>3
  <2>9. Source(x) \cup h = UpTo(x)
    <3>1. \A m : m \in Source(x) <=> m \in Messages /\ m > ThroughSequence /\ m <= x
      BY <2>8 DEF Source, Prior
    <3>2. \A m : m \in h <=> m \in Messages /\ m <= ThroughSequence
      <4>1. CASE HasSummary
        BY <2>4, <4>1 DEF UpTo
      <4>2. CASE ~HasSummary
        <5>1. \A m \in Messages : ~(m <= 0)
          BY <2>3
        <5> QED BY <2>5, <4>2, <5>1
      <4> QED BY <4>1, <4>2
    <3>3. \A m \in Messages : m <= x <=> ((m > ThroughSequence /\ m <= x) \/ m <= ThroughSequence)
      BY <2>3, <2>6, <2>7
    <3> QED BY <3>1, <3>2, <3>3 DEF UpTo
  <2>10. plan'.through = x /\ plan'.holds = UpTo(x)
    BY <2>1, <2>2, <2>9
  <2>11. Summarizes(x, plan'.holds, turn)
    BY <2>6, <2>7, <2>10 DEF Summarizes
  <2>12. PlanIsWhole'
    <3>1. PICK u : u = plan'.holds
      OBVIOUS
    <3>2. Summarizes(x, u, turn)'
      BY <1>1, <2>11, <3>1 DEF Summarizes, UpTo, Messages, At
    <3> QED BY <2>10, <3>1, <3>2 DEF PlanIsWhole, Summarizes
  <2>13. plan' \in [through : Nat, holds : SUBSET Nat]
    BY <2>1, <2>2, <2>3, <2>7, <2>9 DEF UpTo
  <2>14. ContextTypeOK'
    BY <1>1, <1>2, <1>5, <2>13 DEF ContextTypeOK, Places
  <2> QED BY <1>3, <1>4, <2>12, <2>14 DEF ContextInv
<1> QED BY <1>6, <1>7 DEF PlanCompaction

\* A step that leaves the Turn at rest, or before its next assemble.
LEMMA Resting ==
  ASSUME ContextInv, pc' \in {"idle", "assembling"}, turn' \in Nat, counted' \in BOOLEAN,
         plan' \in [through : Nat, holds : SUBSET Nat], AreBlocks(selected'),
         events' \in Seq(EventOf), JournalInv', TurnIsOpen'
  PROVE  ContextInv'
<1>1. ContextTypeOK'
  BY DEF ContextTypeOK, Places
<1>2. PlanIsWhole' /\ HistorySelected' /\ CountedIsRequest'
  BY DEF PlanIsWhole, HistorySelected, CountedIsRequest
<1> QED BY <1>1, <1>2 DEF ContextInv

LEMMA NoBlocks == AreBlocks(<<>>)
BY DEF AreBlocks

LEMMA TurnStaysOpen ==
  ASSUME ContextTypeOK, NEW e \in Seq(EventOf), NEW t \in Nat,
         events' = events \o e, turn' = t,
         \A x \in At("turn/ended") : events[x].turn < t,
         \A i \in 1..Len(e) : e[i].type # "turn/ended"
  PROVE  TurnIsOpen'
<1>1. ASSUME NEW y \in At("turn/ended")' PROVE events'[y].turn < turn'
  <2>1. /\ \A i \in 1..Len(events') :
             \/ i \in 1..Len(events) /\ events'[i] = events[i]
             \/ i - Len(events) \in 1..Len(e) /\ events'[i] = e[i - Len(events)]
        /\ y \in 1..Len(events') /\ events'[y].type = "turn/ended"
    BY Appended DEF ContextTypeOK, At
  <2>2. y \in At("turn/ended") /\ events'[y] = events[y]
    BY <2>1 DEF At
  <2> QED BY <2>2
<1> QED BY <1>1 DEF TurnIsOpen

LEMMA CompactedInv == ASSUME ContextInv, Compacted PROVE ContextInv'
<1>1. /\ pc = "compacting" /\ pc' = "assembling" /\ plan' = NoPlan
      /\ UNCHANGED <<turn, selected, counted>>
  BY DEF Compacted, shedVars
<1>2. ContextTypeOK /\ JournalInv /\ TurnIsOpen /\ Summarizes(plan.through, plan.holds, turn)
  BY <1>1 DEF ContextInv, PlanIsWhole
<1>3. PICK n \in SummarySizes :
        events' = Append(events, [Event("history/compacted", n) EXCEPT
                                    !.through = plan.through, !.holds = plan.holds])
  BY DEF Compacted
<1>4. PICK x : x = [Event("history/compacted", n) EXCEPT
                      !.through = plan.through, !.holds = plan.holds]
  OBVIOUS
<1>5. /\ x \in EventOf /\ x.turn = turn /\ x.type = "history/compacted"
      /\ x.through = plan.through /\ x.holds = plan.holds
  BY <1>2, <1>4, ContextAssumption DEF ContextTypeOK, Event, EventOf, EventTypes
<1>6. PICK e : e = <<x>>
  OBVIOUS
<1>7. e \in Seq(EventOf) /\ Len(e) = 1 /\ e[1] = x
  BY <1>5, <1>6
<1>8. events' = events \o e
  BY <1>2, <1>3, <1>4, <1>5, <1>6 DEF ContextTypeOK
<1>9. \A i \in 1..Len(e) :
        /\ e[i].turn = turn
        /\ e[i].type = "turn/ended" => i = Len(e)
        /\ e[i].type = "history/compacted" => Summarizes(e[i].through, e[i].holds, turn)
  BY <1>2, <1>5, <1>7
<1>10. turn \in Nat /\ turn >= turn /\ \A y \in At("turn/ended") : events[y].turn < turn
  BY <1>1, <1>2 DEF ContextTypeOK, TurnIsOpen
<1>11. /\ events' \in Seq(EventOf) /\ JournalInv'
       /\ \A y \in At("turn/ended")' :
            y \in At("turn/ended") \/ \E i \in 1..Len(e) : e[i].type = "turn/ended"
  BY <1>1, <1>2, <1>7, <1>8, <1>9, <1>10, JournalKept
<1>12. TurnIsOpen'
  <2>1. \A i \in 1..Len(e) : e[i].type # "turn/ended"
    BY <1>5, <1>7
  <2> QED BY <1>1, <1>2, <1>7, <1>8, <1>10, <2>1, TurnStaysOpen
<1>13. plan' \in [through : Nat, holds : SUBSET Nat] /\ AreBlocks(selected')
       /\ turn' \in Nat /\ counted' \in BOOLEAN
  BY <1>1, <1>2 DEF ContextTypeOK, NoPlan
<1> QED BY <1>1, <1>11, <1>12, <1>13, Resting

LEMMA StartInv == ASSUME ContextInv, StartTurn PROVE ContextInv'
<1>1. /\ pc' = "assembling" /\ turn' = turn + 1 /\ UNCHANGED <<plan, selected, counted>>
  BY DEF StartTurn, shedVars
<1>2. ContextTypeOK /\ JournalInv
  BY DEF ContextInv
<1>3. PICK n \in MessageSizes :
        events' = events \o <<[Event("turn/started", 0) EXCEPT !.turn = turn + 1],
                              [Event("message", n) EXCEPT !.turn = turn + 1]>>
  BY DEF StartTurn
<1>4. PICK a, b : /\ a = [Event("turn/started", 0) EXCEPT !.turn = turn + 1]
                  /\ b = [Event("message", n) EXCEPT !.turn = turn + 1]
  OBVIOUS
<1>5. /\ turn \in Nat /\ turn + 1 \in Nat /\ turn + 1 >= turn
      /\ \A x \in At("turn/ended") : events[x].turn < turn + 1
  <2>1. turn \in Nat
    BY <1>2 DEF ContextTypeOK
  <2>2. ASSUME NEW x \in At("turn/ended") PROVE events[x].turn < turn + 1
    <3>1. x \in 1..Len(events)
      BY DEF At
    <3>2. events[x] \in EventOf /\ events[x].turn <= turn
      BY <1>2, <3>1 DEF ContextTypeOK, JournalInv, TurnsAscend
    <3> QED BY <2>1, <3>2 DEF EventOf
  <2> QED BY <2>1, <2>2
<1>6. /\ a \in EventOf /\ a.turn = turn + 1 /\ a.type = "turn/started"
      /\ b \in EventOf /\ b.turn = turn + 1 /\ b.type = "message"
  BY <1>4, <1>5, ContextAssumption DEF Event, EventOf, EventTypes
<1>7. PICK e : e = <<a, b>>
  OBVIOUS
<1>8. e \in Seq(EventOf) /\ Len(e) = 2 /\ e[1] = a /\ e[2] = b
  BY <1>6, <1>7
<1>9. \A i \in 1..Len(e) :
        /\ e[i].turn = turn + 1
        /\ e[i].type # "turn/ended" /\ e[i].type # "history/compacted"
  BY <1>6, <1>8
<1>10. events' = events \o e
  BY <1>3, <1>4, <1>7
<1>11. events' \in Seq(EventOf) /\ JournalInv'
  BY <1>1, <1>2, <1>5, <1>8, <1>9, <1>10, JournalKept
<1>12. TurnIsOpen'
  BY <1>1, <1>2, <1>5, <1>8, <1>9, <1>10, TurnStaysOpen
<1>13. plan' \in [through : Nat, holds : SUBSET Nat] /\ AreBlocks(selected')
       /\ turn' \in Nat /\ counted' \in BOOLEAN
  BY <1>1, <1>2, <1>5 DEF ContextTypeOK
<1> QED BY <1>1, <1>11, <1>12, <1>13, Resting

\* The events of an answer, in the order they are recorded.
AnswerOf(n, activate, more) ==
  <<Event("message", n)>>
    \o (IF activate THEN <<Event("skill/activated", 0)>> ELSE <<>>)
    \o (IF more THEN <<>> ELSE <<Event("turn/ended", 0)>>)

LEMMA AnswerEvents ==
  ASSUME ContextTypeOK, NEW n \in Nat, NEW activate, NEW more, NEW e,
         e = AnswerOf(n, activate, more)
  PROVE  /\ e \in Seq(EventOf)
         /\ \A i \in 1..Len(e) :
              /\ e[i].turn = turn /\ e[i].type # "history/compacted"
              /\ e[i].type = "turn/ended" => i = Len(e) /\ ~more
<1>1. PICK m, a, z : m = Event("message", n) /\ a = Event("skill/activated", 0)
                     /\ z = Event("turn/ended", 0)
  OBVIOUS
<1>2. /\ m \in EventOf /\ a \in EventOf /\ z \in EventOf
      /\ m.turn = turn /\ a.turn = turn /\ z.turn = turn
      /\ m.type = "message" /\ a.type = "skill/activated" /\ z.type = "turn/ended"
  BY <1>1 DEF Event, EventOf, EventTypes, ContextTypeOK
<1>3. PICK x, y, w : /\ x = <<m>> /\ y = IF activate THEN <<a>> ELSE <<>>
                     /\ w = IF more THEN <<>> ELSE <<z>>
  OBVIOUS
<1>4. x \in Seq(EventOf) /\ \A i \in 1..Len(x) : x[i] = m
  <2>1. x \in Seq(EventOf) /\ Len(x) = 1 /\ x[1] = m
    BY <1>2, <1>3
  <2> QED BY <2>1
<1>5. y \in Seq(EventOf) /\ \A i \in 1..Len(y) : y[i] = a
  <2>1. CASE activate
    <3>1. y \in Seq(EventOf) /\ Len(y) = 1 /\ y[1] = a
      BY <1>2, <1>3, <2>1
    <3> QED BY <3>1
  <2>2. CASE ~activate
    BY <1>3, <2>2
  <2> QED BY <2>1, <2>2
<1>6. w \in Seq(EventOf) /\ \A i \in 1..Len(w) : w[i] = z /\ i = Len(w) /\ ~more
  <2>1. CASE ~more
    <3>1. w \in Seq(EventOf) /\ Len(w) = 1 /\ w[1] = z
      BY <1>2, <1>3, <2>1
    <3> QED BY <2>1, <3>1
  <2>2. CASE more
    BY <1>3, <2>2
  <2> QED BY <2>1, <2>2
<1>7. PICK xy : xy = x \o y
  OBVIOUS
<1>8. xy \in Seq(EventOf) /\ \A i \in 1..Len(xy) : xy[i] = m \/ xy[i] = a
  BY <1>4, <1>5, <1>7, Appended
<1>9. e = xy \o w
  BY <1>1, <1>3, <1>7 DEF AnswerOf
<1>10. /\ e \in Seq(EventOf) /\ Len(e) = Len(xy) + Len(w)
       /\ \A i \in 1..Len(e) :
            \/ e[i] = m \/ e[i] = a
            \/ i - Len(xy) \in 1..Len(w) /\ e[i] = w[i - Len(xy)] /\ i > Len(xy)
  <2>1. /\ e \in Seq(EventOf) /\ Len(e) = Len(xy) + Len(w)
        /\ \A i \in 1..Len(e) :
             \/ i \in 1..Len(xy) /\ e[i] = xy[i]
             \/ i > Len(xy) /\ i - Len(xy) \in 1..Len(w) /\ e[i] = w[i - Len(xy)]
    BY <1>6, <1>8, <1>9, Appended
  <2> QED BY <1>8, <2>1
<1>11. Len(xy) \in Nat /\ Len(w) \in Nat
  BY <1>6, <1>8
<1>12. \A i \in 1..Len(e) : e[i] = m \/ e[i] = a \/ (e[i] = z /\ i = Len(e) /\ ~more)
  BY <1>6, <1>10, <1>11
<1> QED BY <1>2, <1>10, <1>12

LEMMA AnsweredInv == ASSUME ContextInv, Answered PROVE ContextInv'
<1>1. pc = "calling" /\ selected' = <<>> /\ counted' = FALSE /\ UNCHANGED <<turn, plan>>
  BY DEF Answered
<1>2. ContextTypeOK /\ JournalInv /\ TurnIsOpen
  BY DEF ContextInv
<1>3. PICK n \in MessageSizes, activate \in BOOLEAN, more \in BOOLEAN :
        /\ events' = events \o <<Event("message", n)>>
                       \o (IF activate THEN <<Event("skill/activated", 0)>> ELSE <<>>)
                       \o (IF more THEN <<>> ELSE <<Event("turn/ended", 0)>>)
        /\ pc' = IF more THEN "assembling" ELSE "idle"
  BY DEF Answered
<1>4. PICK e : e = AnswerOf(n, activate, more)
  OBVIOUS
<1>5. n \in Nat /\ turn \in Nat /\ turn >= turn
  BY <1>2, ContextAssumption DEF ContextTypeOK
<1>6. /\ e \in Seq(EventOf)
      /\ \A i \in 1..Len(e) :
           /\ e[i].turn = turn /\ e[i].type # "history/compacted"
           /\ e[i].type = "turn/ended" => i = Len(e) /\ ~more
  BY <1>2, <1>3, <1>4, <1>5, AnswerEvents
<1>7. events' = events \o e
  <2>1. PICK m, a, z : /\ m = <<Event("message", n)>>
                       /\ a = IF activate THEN <<Event("skill/activated", 0)>> ELSE <<>>
                       /\ z = IF more THEN <<>> ELSE <<Event("turn/ended", 0)>>
    OBVIOUS
  <2>2. /\ Event("message", n) \in EventOf /\ Event("skill/activated", 0) \in EventOf
        /\ Event("turn/ended", 0) \in EventOf
    BY <1>2, <1>5 DEF Event, EventOf, EventTypes, ContextTypeOK
  <2>3. m \in Seq(EventOf) /\ a \in Seq(EventOf) /\ z \in Seq(EventOf)
        /\ events \in Seq(EventOf)
    BY <1>2, <2>1, <2>2 DEF ContextTypeOK
  <2>4. /\ m \o a \in Seq(EventOf)
        /\ events' = ((events \o m) \o a) \o z /\ e = (m \o a) \o z
    BY <1>3, <1>4, <2>1, <2>3, ConcatProperties DEF AnswerOf
  <2>5. (events \o m) \o a = events \o (m \o a)
    BY <2>3, ConcatAssociative
  <2>6. PICK ma : ma = m \o a
    OBVIOUS
  <2>7. (events \o ma) \o z = events \o (ma \o z)
    <3>1. ma \in Seq(EventOf) /\ events \in Seq(EventOf) /\ z \in Seq(EventOf)
      BY <2>3, <2>4, <2>6
    <3> HIDE DEF EventOf
    <3> QED BY <3>1, ConcatAssociative
  <2> QED BY <2>4, <2>5, <2>6, <2>7
<1>8. \A x \in At("turn/ended") : events[x].turn < turn
  BY <1>1, <1>2 DEF TurnIsOpen
<1>9. events' \in Seq(EventOf) /\ JournalInv'
  BY <1>1, <1>2, <1>5, <1>6, <1>7, <1>8, JournalKept
<1>10. TurnIsOpen'
  <2>1. CASE more
    <3>1. \A i \in 1..Len(e) : e[i].type # "turn/ended"
      BY <1>6, <2>1
    <3> QED BY <1>1, <1>2, <1>5, <1>6, <1>7, <1>8, <3>1, TurnStaysOpen
  <2>2. CASE ~more
    BY <1>3, <2>2 DEF TurnIsOpen
  <2> QED BY <2>1, <2>2
<1>11. /\ pc' \in {"idle", "assembling"} /\ turn' \in Nat /\ counted' \in BOOLEAN
       /\ plan' \in [through : Nat, holds : SUBSET Nat] /\ AreBlocks(selected')
  BY <1>1, <1>2, <1>3, NoBlocks DEF ContextTypeOK
<1> QED BY <1>9, <1>10, <1>11, Resting

LEMMA FailsInv == ASSUME ContextInv, TurnFails PROVE ContextInv'
<1>1. /\ pc # "idle" /\ pc' = "idle" /\ selected' = <<>> /\ counted' = FALSE
      /\ plan' = NoPlan /\ turn' = turn /\ events' = Append(events, Event("turn/ended", 0))
  BY DEF TurnFails
<1>2. ContextTypeOK /\ JournalInv /\ TurnIsOpen
  BY DEF ContextInv
<1>3. PICK z : z = Event("turn/ended", 0)
  OBVIOUS
<1>4. z \in EventOf /\ z.turn = turn /\ z.type = "turn/ended"
  BY <1>2, <1>3 DEF Event, EventOf, EventTypes, ContextTypeOK
<1>5. PICK e : e = <<z>>
  OBVIOUS
<1>6. e \in Seq(EventOf) /\ Len(e) = 1 /\ e[1] = z
  BY <1>4, <1>5
<1>7. events' = events \o e
  BY <1>1, <1>2, <1>3, <1>4, <1>5 DEF ContextTypeOK
<1>8. \A i \in 1..Len(e) :
        e[i].turn = turn /\ e[i].type # "history/compacted" /\ i = Len(e)
  BY <1>4, <1>6
<1>9. turn \in Nat /\ turn >= turn /\ \A x \in At("turn/ended") : events[x].turn < turn
  BY <1>1, <1>2 DEF ContextTypeOK, TurnIsOpen
<1>10. events' \in Seq(EventOf) /\ JournalInv'
  BY <1>1, <1>2, <1>6, <1>7, <1>8, <1>9, JournalKept
<1>11. TurnIsOpen'
  BY <1>1 DEF TurnIsOpen
<1>12. plan' \in [through : Nat, holds : SUBSET Nat] /\ AreBlocks(selected')
  BY <1>1, NoBlocks DEF NoPlan
<1> QED BY <1>1, <1>9, <1>10, <1>11, <1>12, Resting

LEMMA ContextStep == ContextInv /\ [Next]_vars => ContextInv'
<1> SUFFICES ASSUME ContextInv, [Next]_vars PROVE ContextInv'
  OBVIOUS
<1>1. CASE UNCHANGED vars
  <2>1. UNCHANGED <<events, turn, pc, selected, dropped, counted, tokens, request, plan>>
    BY <1>1 DEF vars
  <2>2. ContextTypeOK'
    BY <2>1 DEF ContextInv, ContextTypeOK
  <2>3. JournalInv' /\ (pc # "idle" => TurnIsOpen') /\ (pc = "idle" => TurnIsOpen')
    BY <2>1, JournalStays DEF TurnIsOpen
  <2>4. PlanIsWhole'
    BY <2>1, JournalStays DEF ContextInv, PlanIsWhole, Summarizes, UpTo, Messages, At
  <2>5. HistorySelected'
    <3>1. CASE pc \in {"shedding", "calling"}
      BY <2>1, <3>1, SelectionKept DEF ContextInv, HistorySelected
    <3>2. CASE pc \notin {"shedding", "calling"}
      BY <2>1, <3>2 DEF HistorySelected
    <3> QED BY <3>1, <3>2
  <2>6. CountedIsRequest'
    BY <2>1 DEF ContextInv, CountedIsRequest, NeedsCompaction
  <2> QED BY <2>2, <2>3, <2>4, <2>5, <2>6 DEF ContextInv
<1>2. CASE Next
  BY <1>2, AssembleInv, ShedInv, BuildInv, AssembledInv, PlanInv, CompactedInv, StartInv,
     AnsweredInv, FailsInv DEF Next, Prepare
<1> QED BY <1>1, <1>2

LEMMA ContextInit == Init => ContextInv
<1> SUFFICES ASSUME Init PROVE ContextInv
  OBVIOUS
<1>1. /\ events = <<>> /\ turn = 0 /\ pc = "idle" /\ selected = <<>> /\ counted = FALSE
      /\ plan = NoPlan
  BY DEF Init
<1>2. ContextTypeOK
  <2>1. AreBlocks(selected)
    BY <1>1, NoBlocks
  <2>2. events \in Seq(EventOf) /\ plan \in [through : Nat, holds : SUBSET Nat]
    BY <1>1 DEF NoPlan
  <2> QED BY <1>1, <2>1, <2>2 DEF ContextTypeOK, Places
<1>3. \A type : At(type) = {}
  BY <1>1 DEF At
<1>4. JournalInv
  <2>1. \A i \in 1..Len(events) : FALSE
    BY <1>1
  <2> QED BY <1>3, <2>1 DEF JournalInv, TurnsAscend, EndsLast, SummariesWhole
<1> QED BY <1>1, <1>2, <1>4 DEF ContextInv, TurnIsOpen, PlanIsWhole, HistorySelected,
                                CountedIsRequest

-----------------------------------------------------------------------------
(* What follows.                                                           *)

\* The journal, the Turn, the plan and the selected blocks have their types, and
\* the invariant of context.ts with the compaction loop of #execute holds.
THEOREM ContextInvariance == Spec => []ContextInv
BY ContextInit, ContextStep, PTL DEF Spec

\* context.ts and #execute: a model is called with every recorded message of the
\* Session, once, in its request or in the summary that stands for it, however
\* often the history was dropped, compacted and compacted again.
THEOREM HistoryIsWhole == Spec => []WholeHistory
<1>1. ContextInv => WholeHistory
  <2> SUFFICES ASSUME ContextInv, pc = "calling"
               PROVE  /\ Held(request) = Messages
                      /\ \A i, j \in DOMAIN request :
                           i # j => request[i].holds \cap request[j].holds = {}
    BY DEF WholeHistory
  <2>1. /\ DistinctIds(selected) /\ \A i \in DOMAIN selected : IsSound(selected[i])
        /\ "history/messages" \in Ids(selected)
        /\ Prior # {} => "history/prior" \in Ids(selected) \cup dropped
        /\ HasSummary => "history/summary" \in Ids(selected) \cup dropped
    BY DEF ContextInv, HistorySelected
  <2>2. /\ request = selected
        /\ "history/prior" \notin dropped /\ "history/summary" \notin dropped
    BY DEF ContextInv, CountedIsRequest, NeedsCompaction
  <2>3. /\ HeldBy("history/messages") \cup HeldBy("history/prior")
             \cup HeldBy("history/summary") = Messages
        /\ HeldBy("history/messages") \cap HeldBy("history/prior") = {}
        /\ HeldBy("history/messages") \cap HeldBy("history/summary") = {}
        /\ HeldBy("history/prior") \cap HeldBy("history/summary") = {}
    BY HistoryParts DEF ContextInv
  <2>4. \A id : id \notin {"history/messages", "history/prior", "history/summary"} =>
                  HeldBy(id) = {}
    BY DEF HeldBy
  <2>5. /\ ~HasSummary => HeldBy("history/summary") = {}
        /\ Prior = {} => HeldBy("history/prior") = {}
    BY DEF HeldBy
  <2>6. \A i \in DOMAIN selected : selected[i].holds = HeldBy(selected[i].id)
    BY <2>1 DEF IsSound
  <2>7. Held(selected) = Messages
    <3>1. \A i \in DOMAIN selected : selected[i].holds \subseteq Messages
      BY <2>3, <2>4, <2>6
    <3>2. \A id \in Ids(selected) : HeldBy(id) \subseteq Held(selected)
      BY <2>6 DEF Ids, Held
    <3>3. /\ HeldBy("history/messages") \subseteq Held(selected)
          /\ HeldBy("history/prior") \subseteq Held(selected)
          /\ HeldBy("history/summary") \subseteq Held(selected)
      BY <2>1, <2>2, <2>5, <3>2
    <3>4. Messages \subseteq Held(selected)
      BY <2>3, <3>3
    <3> QED BY <3>1, <3>4 DEF Held
  <2>8. ASSUME NEW i \in DOMAIN selected, NEW j \in DOMAIN selected, i # j
        PROVE  selected[i].holds \cap selected[j].holds = {}
    <3>1. PICK x, y : x = selected[i].id /\ y = selected[j].id
      OBVIOUS
    <3>2. x # y /\ selected[i].holds = HeldBy(x) /\ selected[j].holds = HeldBy(y)
      BY <2>1, <2>6, <2>8, <3>1 DEF DistinctIds
    <3>3. HeldBy(x) \cap HeldBy(y) = {}
      <4>1. CASE x \notin {"history/messages", "history/prior", "history/summary"}
                 \/ y \notin {"history/messages", "history/prior", "history/summary"}
        BY <2>4, <4>1
      <4>2. CASE x \in {"history/messages", "history/prior", "history/summary"}
                 /\ y \in {"history/messages", "history/prior", "history/summary"}
        BY <2>3, <3>2, <4>2
      <4> QED BY <4>1, <4>2
    <3> QED BY <3>2, <3>3
  <2> QED BY <2>2, <2>7, <2>8
<1> QED BY <1>1, ContextInvariance, PTL

\* planCompaction: a summary stands for whole Turns that are over, so it never
\* separates ToolCalls from their ToolResults.
THEOREM SummariesAreWholeTurns == Spec => []WholeTurns
<1>1. ContextInv => WholeTurns
  <2> SUFFICES ASSUME ContextInv, NEW k \in At("history/compacted"), NEW m \in events[k].holds
               PROVE  /\ events[m].turn < events[k].turn
                      /\ \A n \in Messages : events[n].turn = events[m].turn =>
                           n \in events[k].holds
    BY DEF WholeTurns
  <2>1. PICK x : x = events[k].through
    OBVIOUS
  <2>2. /\ x \in At("turn/ended") /\ events[x].turn < events[k].turn
        /\ events[k].holds = UpTo(x)
    BY <2>1 DEF ContextInv, JournalInv, SummariesWhole, Summarizes
  <2>3. x \in 1..Len(events) /\ k \in 1..Len(events) /\ m \in 1..Len(events) /\ m <= x
        /\ Len(events) \in Nat
    BY <2>2 DEF UpTo, Messages, At, ContextInv, ContextTypeOK
  <2>4. /\ events[x].turn \in Nat /\ events[k].turn \in Nat
        /\ \A n \in 1..Len(events) : events[n].turn \in Nat
    <3>1. \A n \in 1..Len(events) : events[n] \in EventOf
      BY DEF ContextInv, ContextTypeOK
    <3> QED BY <2>3, <3>1 DEF EventOf
  <2>5. events[m].turn <= events[x].turn
    BY <2>3 DEF ContextInv, JournalInv, TurnsAscend
  <2>6. events[m].turn < events[k].turn
    BY <2>2, <2>3, <2>4, <2>5
  <2>7. ASSUME NEW n \in Messages, events[n].turn = events[m].turn
        PROVE  n \in events[k].holds
    <3>1. n \in 1..Len(events)
      BY DEF Messages, At
    <3>2. n > x => events[n].turn > events[x].turn
      BY <2>2, <3>1 DEF ContextInv, JournalInv, EndsLast
    <3>3. n <= x
      BY <2>3, <2>4, <2>5, <2>7, <3>1, <3>2
    <3> QED BY <2>2, <3>3 DEF UpTo
  <2> QED BY <2>6, <2>7
<1> QED BY <1>1, ContextInvariance, PTL

\* The end of assemble: the count that was checked against the budget is of the
\* request that is sent, which is built from the blocks the snapshot records.
THEOREM RequestsFit == Spec => []RequestFits
<1>1. ContextInv => RequestFits
  BY DEF ContextInv, CountedIsRequest, RequestFits
<1> QED BY <1>1, ContextInvariance, PTL
=============================================================================
